-------------------------- MODULE NativeParts_proofs --------------------------
(***************************************************************************)
(* Proofs about the native layer, as MCParts composes it, for every value  *)
(* of its bounds: the loader of the drivers, and the mount that is driven  *)
(* through them.                                                           *)
(***************************************************************************)
EXTENDS MCParts, FiniteSetTheorems, SequenceTheorems, WellFoundedInduction, TLAPS

-----------------------------------------------------------------------------
(* Natural numbers, and functions given by a first value and a step.       *)

\* A set of natural numbers that is not empty has a least element.
LEMMA LeastNatural ==
    ASSUME NEW T, T \subseteq Nat, T # {}
    PROVE  \E x \in T : \A y \in T : x <= y
<1> DEFINE R == {ss \in Nat \X Nat : ss[1] < ss[2]}
<1>1. IsWellFoundedOn(R, Nat)
  BY NatLessThanWellFounded DEF OpToRel
<1>2. \A x, y \in Nat : <<y, x>> \in R <=> y < x
  OBVIOUS
<1> HIDE DEF R
<1>3. PICK x \in T : \A y \in T : ~(<<y, x>> \in R)
  BY <1>1, WFMin
<1>4. \A y \in T : x <= y
  <2> TAKE y \in T
  <2>1. ~(y < x)
    BY <1>2, <1>3
  <2> QED  BY <2>1
<1> QED  BY <1>4

\* Induction up to n, for a set S of the numbers that have a property.
LEMMA UpTo ==
    ASSUME NEW n \in Nat, NEW S, 0 \in S,
           \A k \in 1 .. n : k - 1 \in S => k \in S
    PROVE  \A k \in 0 .. n : k \in S
<1> DEFINE T == {k \in 0 .. n : k \notin S}
<1> SUFFICES ASSUME T # {} PROVE FALSE
  OBVIOUS
<1>1. T \subseteq Nat
  OBVIOUS
<1>2. PICK x \in T : \A y \in T : x <= y
  <2> HIDE DEF T
  <2> QED  BY <1>1, LeastNatural
<1>3. x # 0 /\ x - 1 \in 0 .. n /\ x \in 1 .. n
  OBVIOUS
<1>4. x - 1 \in S
  BY <1>2, <1>3
<1> QED  BY <1>3, <1>4

\* A function may be defined from each value to the next.
IsRecursion(g, first, step, n) ==
    g[0] = first /\ \A k \in 1 .. n : g[k] = step[<<g[k - 1], k>>]

\* A function of 0..n given by its first value and its step exists: the one place
\* where an induction over data is needed, done by the least failing number.
LEMMA Recursion ==
    ASSUME NEW n \in Nat, NEW X, NEW first \in X, NEW step \in [X \X Nat -> X]
    PROVE  \E g \in [0 .. n -> X] : IsRecursion(g, first, step, n)
<1> DEFINE IsRec(g, m) == IsRecursion(g, first, step, m)
           S == {m \in Nat : \E g \in [0 .. m -> X] : IsRec(g, m)}
<1> USE DEF IsRecursion
<1>1. 0 \in S
  <2>1. [i \in 0 .. 0 |-> first] \in [0 .. 0 -> X] /\ IsRec([i \in 0 .. 0 |-> first], 0)
    OBVIOUS
  <2> QED  BY <2>1
<1>2. ASSUME NEW k \in 1 .. n, k - 1 \in S PROVE k \in S
  <2>1. PICK g \in [0 .. k - 1 -> X] : IsRec(g, k - 1)
    BY <1>2
  <2> DEFINE h == [i \in 0 .. k |-> IF i = k THEN step[<<g[k - 1], k>>] ELSE g[i]]
  <2>2. h \in [0 .. k -> X]
    OBVIOUS
  <2>3. IsRec(h, k)
    <3>1. h[0] = first
      BY <2>1
    <3>2. ASSUME NEW i \in 1 .. k PROVE h[i] = step[<<h[i - 1], i>>]
      <4>1. CASE i = k
        <5>1. h[k] = step[<<g[k - 1], k>>] /\ h[k - 1] = g[k - 1]
          BY k \in Nat
        <5> QED  BY <4>1, <5>1
      <4>2. CASE i # k
        <5>1. i \in 1 .. k - 1 /\ i - 1 \in 0 .. k - 1
          BY <4>2
        <5>2. h[i] = g[i] /\ h[i - 1] = g[i - 1]
          BY <5>1
        <5> QED  BY <2>1, <5>1, <5>2
      <4> QED  BY <4>1, <4>2
    <3> QED  BY <3>1, <3>2
  <2>4. k \in Nat
    OBVIOUS
  <2> HIDE DEF h, IsRec
  <2> QED  BY <2>2, <2>3, <2>4
<1>3. n \in S
  <2> HIDE DEF S
  <2> QED  BY <1>1, <1>2, UpTo
<1> QED  BY <1>3
-----------------------------------------------------------------------------
(* DriverLoader: the first directory that offers a driver serves it.  What *)
(* a scan of some directories has loaded is a recursive function of their  *)
(* number; that it serves every id as it should is proved for the least    *)
(* number of directories for which it would not.                           *)

LoadedDrivers == [id : DriverIds, abi : {"v2", "v1"},
                  manifest : {"none", "invalid", "out-of-process", "valid"}, from : Loader!Directories]
Taken(d) == Loader!Offers(d, d.library.id)

\* The driver with this id comes from the first of the first k directories that offers it.
ServedBy(list, ds, k, id) ==
    LET offering == {i \in 1 .. k : Loader!Offers(ds[i], id)}
        served == {i \in DOMAIN list : list[i].id = id}
    IN /\ offering = {} => served = {}
       /\ offering # {} => \E i \in offering, j \in served :
             /\ \A h \in offering : i <= h
             /\ served = {j} /\ list[j].from = ds[i]
AllServed(list, ds, k) == \A id \in DriverIds : ServedBy(list, ds, k, id)

LoaderIInv == /\ dirs \in Seq(Loader!Directories) /\ AllServed(loaded, dirs, Len(dirs))

\* A directory adds its driver when it offers one of an id that is not loaded yet.
LEMMA ScanAdds ==
    ASSUME NEW list \in Seq(LoadedDrivers), NEW d \in Loader!Directories
    PROVE  /\ Loader!ScanDirectory(list, d) \in Seq(LoadedDrivers)
           /\ IF Taken(d) /\ \A i \in DOMAIN list : list[i].id # d.library.id
              THEN \E e \in LoadedDrivers : /\ e.id = d.library.id /\ e.from = d
                                            /\ Loader!ScanDirectory(list, d) = Append(list, e)
              ELSE Loader!ScanDirectory(list, d) = list
<1> DEFINE id == d.library.id
           e == Loader!Entry(d, d.library.exports)
<1>1. /\ id \in DriverIds /\ d.library.exports \in {"v2", "v1", "nothing"}
      /\ d.library.starts \in BOOLEAN /\ d.library.named \in BOOLEAN
      /\ d.manifest.state \in {"none", "invalid", "out-of-process", "valid"}
  BY DEF Loader!Directories, Loader!Libraries, Loader!Manifests
<1>2. d.library.exports # "nothing" => e \in LoadedDrivers
  BY <1>1 DEF Loader!Entry, LoadedDrivers
<1>3. e.id = id /\ e.from = d
  BY DEF Loader!Entry
<1>4. Loader!ScanDirectory(list, d) =
         IF Taken(d) /\ \A i \in DOMAIN list : list[i].id # id THEN Append(list, e) ELSE list
  BY <1>1 DEF Loader!ScanDirectory, Loader!LoadManifest, Loader!LoadLibrary, Loader!Find, Taken, Loader!Offers
<1>5. Taken(d) => d.library.exports # "nothing"
  BY DEF Taken, Loader!Offers
<1> HIDE DEF e
<1> QED  BY <1>2, <1>3, <1>4, <1>5

\* One more directory.
LEMMA OneMore ==
    ASSUME NEW ds \in Seq(Loader!Directories), NEW k \in 1 .. Len(ds), NEW list \in Seq(LoadedDrivers),
           AllServed(list, ds, k - 1)
    PROVE  AllServed(Loader!ScanDirectory(list, ds[k]), ds, k)
<1> DEFINE d == ds[k]
           new == Loader!ScanDirectory(list, d)
           Off(m, id) == {i \in 1 .. m : Loader!Offers(ds[i], id)}
           Ser(l, id) == {i \in DOMAIN l : l[i].id = id}
<1>1. d \in Loader!Directories /\ k \in Nat
  OBVIOUS
<1> SUFFICES ASSUME NEW id \in DriverIds PROVE ServedBy(new, ds, k, id)
  BY DEF AllServed
<1>2. ServedBy(list, ds, k - 1, id)
  BY DEF AllServed
<1>3. Loader!Offers(d, id) => id = d.library.id /\ Taken(d)
  BY DEF Loader!Offers, Taken
<1>4. CASE Taken(d) /\ (\A i \in DOMAIN list : list[i].id # d.library.id)
  <2>1. PICK e \in LoadedDrivers : e.id = d.library.id /\ e.from = d /\ new = Append(list, e)
    BY <1>1, <1>4, ScanAdds
  <2>2. /\ DOMAIN new = 1 .. Len(list) + 1 /\ new[Len(list) + 1] = e
        /\ \A i \in 1 .. Len(list) : new[i] = list[i]
        /\ DOMAIN list = 1 .. Len(list) /\ Len(list) \in Nat
    BY <2>1
  <2> HIDE DEF new, d
  <2>3. CASE id = d.library.id
    <3>1. Ser(list, id) = {} /\ Off(k - 1, id) = {}
      BY <1>2, <1>4, <2>3 DEF ServedBy
    <3>2. Off(k, id) = {k}
      BY <1>1, <1>4, <2>3, <3>1 DEF Taken, d
    <3>3. Ser(new, id) = {Len(list) + 1}
      BY <2>1, <2>2, <2>3, <3>1
    <3>4. new[Len(list) + 1].from = ds[k] /\ k <= k
      BY <1>1, <2>1, <2>2 DEF d
    <3>5. \E i \in Off(k, id), j \in Ser(new, id) :
             (\A h \in Off(k, id) : i <= h) /\ Ser(new, id) = {j} /\ new[j].from = ds[i]
      <4> HIDE DEF Off, Ser
      <4> QED  BY <3>2, <3>3, <3>4
    <3> QED  BY <3>2, <3>5 DEF ServedBy
  <2>4. CASE id # d.library.id
    <3>1. Off(k, id) = Off(k - 1, id)
      BY <1>1, <1>3, <2>4 DEF d
    <3>2. Ser(new, id) = Ser(list, id)
      BY <2>1, <2>2, <2>4
    <3> QED  BY <1>2, <2>2, <3>1, <3>2 DEF ServedBy
  <2> QED  BY <2>3, <2>4
<1>5. CASE ~(Taken(d) /\ \A i \in DOMAIN list : list[i].id # d.library.id)
  <2>1. new = list
    BY <1>1, <1>5, ScanAdds
  <2> HIDE DEF new, d
  <2>2. CASE Loader!Offers(d, id)
    <3>1. Ser(list, id) # {}
      BY <1>3, <1>5, <2>2
    <3>2. PICK i \in Off(k - 1, id), j \in Ser(list, id) :
             /\ \A h \in Off(k - 1, id) : i <= h
             /\ Ser(list, id) = {j} /\ list[j].from = ds[i]
      BY <1>2, <3>1 DEF ServedBy
    <3>3. i \in Off(k, id) /\ \A h \in Off(k, id) : i <= h
      BY <1>1, <3>2
    <3> QED  BY <2>1, <3>2, <3>3 DEF ServedBy
  <2>3. CASE ~Loader!Offers(d, id)
    <3>1. Off(k, id) = Off(k - 1, id)
      BY <1>1, <2>3 DEF d
    <3> QED  BY <1>2, <2>1, <3>1 DEF ServedBy
  <2> QED  BY <2>2, <2>3
<1> QED  BY <1>4, <1>5

\* What is loaded after one directory more, in the two ways it is written.
LEMMA ScannedSteps ==
    ASSUME NEW ds \in Seq(Loader!Directories)
    PROVE  \E g \in [0 .. Len(ds) -> Seq(LoadedDrivers)] :
              /\ g[0] = <<>> /\ Loader!Scanned(ds) = g[Len(ds)]
              /\ \A k \in 1 .. Len(ds) : g[k] = Loader!ScanDirectory(g[k - 1], ds[k])
<1> DEFINE N == Len(ds)
           X == Seq(LoadedDrivers)
           step == [p \in X \X Nat |-> IF p[2] \in 1 .. N THEN Loader!ScanDirectory(p[1], ds[p[2]]) ELSE p[1]]
<1>1. N \in Nat /\ <<>> \in X
  OBVIOUS
<1>2. step \in [X \X Nat -> X]
  <2>1. ASSUME NEW p \in X \X Nat PROVE step[p] \in X
    <3>1. p[2] \in 1 .. N => Loader!ScanDirectory(p[1], ds[p[2]]) \in X
      <4>1. p[1] \in Seq(LoadedDrivers) /\ (p[2] \in 1 .. N => ds[p[2]] \in Loader!Directories)
        OBVIOUS
      <4> QED  BY <4>1, ScanAdds
    <3>2. p[1] \in X
      OBVIOUS
    <3> HIDE DEF X
    <3> QED  BY <3>1, <3>2
  <2> QED  BY <2>1
<1>3. PICK g \in [0 .. N -> X] : IsRecursion(g, <<>>, step, N)
  <2> HIDE DEF X, step, N
  <2> QED  BY <1>1, <1>2, Recursion
<1>4. ASSUME NEW k \in 1 .. N PROVE g[k] = Loader!ScanDirectory(g[k - 1], ds[k])
  <2>1. g[k - 1] \in X /\ k \in Nat
    <3> HIDE DEF X, N
    <3>1. k \in Nat /\ k - 1 \in 0 .. N
      BY <1>1
    <3> QED  BY <1>3, <3>1
  <2>2. step[<<g[k - 1], k>>] = Loader!ScanDirectory(g[k - 1], ds[k])
    BY <2>1
  <2> QED  BY <1>3, <2>2 DEF IsRecursion
<1>5. g = [k \in 0 .. Len(ds) |->
             IF k = 0 THEN <<>> ELSE Loader!ScanDirectory(g[k - 1], ds[k])]
  BY <1>1, <1>3, <1>4 DEF IsRecursion
<1> DEFINE G == CHOOSE h : h = [k \in 0 .. Len(ds) |->
             IF k = 0 THEN <<>> ELSE Loader!ScanDirectory(h[k - 1], ds[k])]
<1>6. G = [k \in 0 .. Len(ds) |->
             IF k = 0 THEN <<>> ELSE Loader!ScanDirectory(G[k - 1], ds[k])]
  BY <1>5
<1>7. Loader!Scanned(ds) = G[Len(ds)]
  BY DEF Loader!Scanned
<1> HIDE DEF G
<1> DEFINE S == {k \in 0 .. N : G[k] = g[k]}
<1>8. 0 \in S
  BY <1>1, <1>5, <1>6
<1>9. ASSUME NEW k \in 1 .. N, k - 1 \in S PROVE k \in S
  <2>1. G[k - 1] = g[k - 1] /\ k \in 0 .. N /\ k # 0
    BY <1>1, <1>9
  <2>2. G[k] = Loader!ScanDirectory(G[k - 1], ds[k])
    BY <1>6, <2>1
  <2> QED  BY <2>1, <2>2, <1>4
<1>10. Loader!Scanned(ds) = g[N]
  <2> HIDE DEF S
  <2>1. N \in S
    <3> HIDE DEF N
    <3>1. \A k \in 0 .. N : k \in S
      BY <1>1, <1>8, <1>9, UpTo
    <3> QED  BY <1>1, <3>1
  <2> QED  BY <2>1, <1>7 DEF S
<1> QED  BY <1>1, <1>3, <1>4, <1>10 DEF IsRecursion

\* Every id is served after the last directory: it is after each of them.
LEMMA ScannedServes ==
    ASSUME NEW ds \in Seq(Loader!Directories)
    PROVE  AllServed(Loader!Scanned(ds), ds, Len(ds))
<1> DEFINE N == Len(ds)
<1>1. PICK g \in [0 .. N -> Seq(LoadedDrivers)] :
             /\ g[0] = <<>> /\ Loader!Scanned(ds) = g[N]
             /\ \A k \in 1 .. N : g[k] = Loader!ScanDirectory(g[k - 1], ds[k])
  BY ScannedSteps
<1> DEFINE S == {k \in 0 .. N : AllServed(g[k], ds, k)}
<1>2. N \in Nat
  OBVIOUS
<1>3. 0 \in S
  <2>1. AllServed(<<>>, ds, 0)
    BY DEF AllServed, ServedBy
  <2> QED  BY <1>1, <1>2, <2>1
<1>4. ASSUME NEW k \in 1 .. N, k - 1 \in S PROVE k \in S
  <2>1. g[k - 1] \in Seq(LoadedDrivers) /\ AllServed(g[k - 1], ds, k - 1) /\ k \in 0 .. N
    BY <1>1, <1>2, <1>4
  <2>2. AllServed(g[k], ds, k)
    BY <1>1, <2>1, OneMore
  <2> QED  BY <2>1, <2>2
<1>5. N \in S
  <2> HIDE DEF S, N
  <2>1. \A k \in 0 .. N : k \in S
    BY <1>2, <1>3, <1>4, UpTo
  <2> QED  BY <1>2, <2>1
<1> QED  BY <1>1, <1>5

\* Every step of the composition keeps the invariant.
LEMMA LoaderStep == LoaderIInv /\ [Next]_vars => LoaderIInv'
<1> SUFFICES ASSUME LoaderIInv, [Next]_vars PROVE LoaderIInv'
  OBVIOUS
<1>1. ASSUME Loader!ScanDefaultPaths PROVE LoaderIInv'
  <2>1. PICK n \in 1 .. MaxDirs : \E ds \in [1 .. n -> Loader!Directories] :
           dirs' = ds /\ loaded' = Loader!Scanned(ds)
    BY <1>1 DEF Loader!ScanDefaultPaths
  <2>2. PICK ds \in [1 .. n -> Loader!Directories] : dirs' = ds /\ loaded' = Loader!Scanned(ds)
    BY <2>1
  <2>3. n \in Nat
    OBVIOUS
  <2>4. ds \in Seq(Loader!Directories)
    BY <2>3
  <2> QED  BY <2>2, <2>4, ScannedServes DEF LoaderIInv
<1>2. ASSUME Loader!Clear PROVE LoaderIInv'
  <2>1. AllServed(<<>>, <<>>, 0)
    BY DEF AllServed, ServedBy
  <2> QED  BY <1>2, <2>1 DEF Loader!Clear, LoaderIInv
<1>3. CASE LoaderNext
  BY <1>1, <1>2, <1>3 DEF LoaderNext, Loader!DlNext
<1>4. CASE UNCHANGED loaderVars
  BY <1>4 DEF loaderVars, LoaderIInv
<1> QED  BY <1>3, <1>4 DEF Next, vars, MountNext, TableNext, SessionNext, FocusNext, CanonNext, SdkNext,
         IndiNext, RecNext, SolveNext, NetNext, HandNext, VideoNext, LinksNext

\* However many directories are searched, whatever they hold, a driver id is served by the
\* first that offers it, and by no other.
THEOREM FirstServes == Spec => []FirstOfferLoads
<1>1. Init => LoaderIInv
  <2>1. AllServed(<<>>, <<>>, 0)
    BY DEF AllServed, ServedBy
  <2> QED  BY <2>1 DEF Init, Loader!DlInit, LoaderIInv
<1>2. LoaderIInv => FirstOfferLoads
  <2> SUFFICES ASSUME LoaderIInv PROVE FirstOfferLoads
    OBVIOUS
  <2>1. DOMAIN dirs = 1 .. Len(dirs)
    BY DEF LoaderIInv
  <2> QED  BY <2>1 DEF LoaderIInv, AllServed, ServedBy, FirstOfferLoads, Loader!FirstOfferLoads
<1> QED  BY <1>1, <1>2, LoaderStep, PTL DEF Spec

-----------------------------------------------------------------------------
(* MountMotion: what the node says of the mount's motion.  A call is a     *)
(* list of commands still to be sent, and other calls, polls, arrivals and *)
(* refusals come between any two of them; so the invariant ties the rest   *)
(* of each list to what the axes do.  An axis in a GOTO has an owner at    *)
(* every one of these moments (SkyIsOwned, ParkIsOwned), the operation and *)
(* the requests exclude each other but for aborts and looks (Apart), and a *)
(* mount that is parked is not moved by what may begin then (Light).       *)

Reads == {<<>>, <<<<"read", 2>>>>, <<<<"read", 1>>, <<"read", 2>>>>}
Halts == {<<>>, <<<<"wait", 2>>>>, <<<<"wait", 1>>, <<"wait", 2>>>>,
          <<<<"halt", 2>>, <<"wait", 1>>, <<"wait", 2>>>>,
          <<<<"halt", 1>>, <<"halt", 2>>, <<"wait", 1>>, <<"wait", 2>>>>}
StopOne == <<<<"stop", 1>>>>
Modes == {"turn", "park", "sky", "alone"}
Sends == {"read", "stop", "wait", "start", "verify"}

\* The motion that a call of the main thread starts.
Aim(c) == CASE c.m = "park" -> "park" [] c.m = "goto" -> "alone" [] OTHER -> "turn"
Movers == {"park", "goto", "manual", "track"}

\* Commands to be sent, in the order in which a motion of either axis is started:
\* stop, wait, mode, start; axis 2 after axis 1.
Formed(s, to) ==
    /\ s \in Seq((Sends \cup {to}) \X Mount!Axes)
    /\ to = "turn" => \A k \in 1 .. Len(s) : s[k][1] # "verify"
    /\ \A k \in 2 .. Len(s) :
          /\ s[k][1] = "wait" => s[k - 1] = <<"stop", s[k][2]>>
          /\ s[k][1] = to => s[k - 1] = <<"wait", s[k][2]>>
          /\ s[k][1] = "start" => s[k - 1] = <<to, s[k][2]>>
    /\ \A j, k \in 1 .. Len(s) : j < k /\ s[j][2] = 2 /\ s[j][1] # "read" => s[k][2] = 2

\* The axes, with modes mo, are as the next command wants them.
Headed(s, to, ax, mo) ==
    s # <<>> =>
        LET a == s[1][2] IN
        /\ s[1][1] = "wait" => ax[a] \in {"still", "slowing"}
        /\ s[1][1] \in {to, "start"} => ax[a] = "still"
        /\ s[1][1] = "start" => mo[a] = to

\* A call that starts a motion, or has failed and is over.
Drives(c, to, ax, mo) ==
    Formed(c.todo, to) /\ Headed(c.todo, to, ax, mo) /\ (c.bad => c.todo = <<>>)

OnlyOn(s, a) == \A k \in 1 .. Len(s) : s[k][2] = a
Contains(s, x) == \E k \in 1 .. Len(s) : s[k] = x

\* What a look has seen of an axis is so.
Saw(c, a, ax, po) == c.seen[a] # "moves" => ax[a] = "still" /\ (c.seen[a] = "park" => po[a] = "park")
Looks(c) == c.todo \in Reads /\ ~c.bad
Sees(c, ax, po) ==
    /\ Looks(c)
    /\ c.todo # <<<<"read", 1>>, <<"read", 2>>>> => Saw(c, 1, ax, po)
    /\ c.todo = <<>> => Saw(c, 2, ax, po)

AxisMaps == [Mount!Axes -> Modes \cup {"still", "slowing"}]
ModeMaps == [Mount!Axes -> Modes]
PosMaps == [Mount!Axes -> {"park", "away"}]

MotionTypes ==
    /\ axis \in AxisMaps /\ mode \in ModeMaps /\ pos \in PosMaps
    /\ parked \in BOOLEAN /\ parking \in BOOLEAN
    /\ slew \in {"none", "starting", "commanding", "polling", "aborting"}

IsCall(c, ms) ==
    /\ c = [m |-> c.m, todo |-> c.todo, bad |-> c.bad, seen |-> c.seen, then |-> c.then]
    /\ c.m \in ms /\ c.bad \in BOOLEAN /\ c.seen \in [Mount!Axes -> {"moves", "park", "away"}]
    /\ c.then \in {"none", "slew", "now", "on", "off", "sync", "here", "site", "goto"}

MainKinds == {"none", "abort", "unpark", "status", "look", "refused", "rescue"} \cup Movers
PoolKinds == {"none", "goto", "refused", "rescue", "status", "abort"}

\* The call of the main thread.
MainCall ==
    /\ IsCall(main, MainKinds)
    /\ main.m \notin {"status", "look", "unpark"} => main.then = "none"
    /\ main.m = "look" => main.then \in {"none", "sync", "site"}
    /\ main.m = "unpark" => main.then \in {"none", "slew", "now"}
    /\ main.m = "none" => main = Mount!NoCall
    /\ main.m = "status" => Sees(main, axis, pos)
    /\ main.m \in {"look", "refused"} => Looks(main)
    /\ main.m \in {"abort", "unpark"} => main.todo \in Halts
    /\ main.m = "rescue" => main.todo \in {<<>>, StopOne} /\ ~parked
    /\ main.m \in Movers => Drives(main, Aim(main), axis, mode)
    /\ main.m = "track" => OnlyOn(main.todo, 1)
    /\ main.m \in {"goto", "manual"} => ~parked /\ ~parking

\* The call of the operation, and the sky it takes the axes to.
PoolCallIs ==
    /\ IsCall(pool, PoolKinds) /\ pool.then = "none"
    /\ pool.m = "none" => pool = Mount!NoCall
    /\ pool.m = "status" => Sees(pool, axis, pos)
    /\ pool.m = "refused" => Looks(pool)
    /\ pool.m = "goto" => Drives(pool, "sky", axis, mode)
    /\ pool.m = "abort" => pool.todo \in Halts
    /\ pool.m = "rescue" => pool.todo \in {<<>>, StopOne} /\ pool.bad

\* An axis goes to the sky for the operation only, and a call of it that fails stops it.
SkyIsOwned ==
    \A a \in Mount!Axes : axis[a] = "sky" =>
        /\ slew \in {"commanding", "polling", "aborting"}
        /\ slew = "commanding" => pool.m \in {"goto", "rescue"}
        /\ pool.m = "goto" => ~pool.bad /\ (a = 2 => OnlyOn(pool.todo, 2))
        /\ pool.m = "rescue" => a = 1 /\ pool.todo = StopOne
        /\ pool.m = "abort" => Contains(pool.todo, <<"halt", a>>)

\* The operation runs alone, but for an abort and for what only looks.
Apart ==
    /\ slew \in {"none", "starting"} => pool.m = "none"
    /\ slew = "commanding" => pool.m \in {"none", "goto", "refused", "rescue"}
    /\ slew = "polling" => pool.m \in {"none", "status"}
    /\ slew = "aborting" => pool.m = "abort"
    /\ slew # "none" => /\ ~parked /\ ~parking
                        /\ \/ main.m \in {"none", "abort"}
                           \/ main.m \in {"status", "look"} /\ main.then = "none"
    /\ pool.m \in {"goto", "status", "refused", "rescue"} => main.m \in {"none", "abort"}

\* An axis goes to park for a park slew that status polls settle, or for the call that
\* starts it, or until the call that stops it has come to it.
ParkIsOwned ==
    \A a \in Mount!Axes : axis[a] = "park" =>
        /\ slew = "none"
        /\ \/ parking \/ main.m = "park"
           \/ main.m = "rescue" /\ a = 1 /\ main.todo = StopOne
           \/ main.m = "manual" /\ Contains(main.todo, <<"stop", a>>)
        /\ main.m \in {"abort", "unpark"} => Contains(main.todo, <<"halt", a>>)
        /\ main.m = "park" => /\ a = 2 /\ ~parking => OnlyOn(main.todo, 2)
                              /\ main.bad => a = 2 /\ parking

\* What stands at the place to park is still, and axis 2 is there while the mount is parked.
ParkedStands ==
    /\ \A a \in Mount!Axes : pos[a] = "park" => axis[a] = "still"
    /\ parked => /\ pos[2] = "park" /\ (axis[1] \in Mount!Gotos => main.m = "park" /\ ~main.bad)
                 /\ main.m = "park" => \A k \in 1 .. Len(main.todo) :
                                          main.todo[k][2] = 2 => main.todo[k][1] = "read"

MotionIs == /\ MotionTypes /\ MainCall /\ PoolCallIs /\ Apart
            /\ SkyIsOwned /\ ParkIsOwned /\ ParkedStands
MotionIInv == fails \in Nat /\ (fails = 0 => MotionIs)

\* The first command sent, the others are as they were.
LEMMA ShiftIs ==
    ASSUME NEW X, NEW s \in Seq(X), s # <<>>
    PROVE  /\ Head(s) = s[1] /\ s[1] \in X /\ Tail(s) \in Seq(X)
           /\ Len(s) \in Nat /\ Len(s) > 0 /\ Len(Tail(s)) = Len(s) - 1
           /\ \A k \in 1 .. Len(Tail(s)) : k + 1 \in 1 .. Len(s) /\ Tail(s)[k] = s[k + 1]
<1>1. Len(s) \in Nat /\ Len(s) # 0
  BY EmptySeq
<1>2. Head(s) = s[1] /\ s[1] \in X /\ Tail(s) \in Seq(X) /\ Len(Tail(s)) = Len(s) - 1
  BY <1>1
<1>3. ASSUME NEW k \in 1 .. Len(Tail(s)) PROVE k + 1 \in 1 .. Len(s) /\ Tail(s)[k] = s[k + 1]
  BY <1>1, <1>2
<1> QED  BY <1>1, <1>2, <1>3

\* What remains of a call is formed as the call was.
LEMMA FormedShift ==
    ASSUME NEW s, NEW to, Formed(s, to), s # <<>>
    PROVE  /\ Formed(Tail(s), to)
           /\ s[1] = <<s[1][1], s[1][2]>> /\ s[1][1] \in Sends \cup {to} /\ s[1][2] \in Mount!Axes
           /\ s[1][2] = 2 /\ s[1][1] # "read" => OnlyOn(Tail(s), 2)
           /\ Tail(s) # <<>> =>
                 LET h == Tail(s)[1] IN
                 /\ h[1] = "wait" => s[1] = <<"stop", h[2]>>
                 /\ h[1] = to => s[1] = <<"wait", h[2]>>
                 /\ h[1] = "start" => s[1] = <<to, h[2]>>
<1> DEFINE X == (Sends \cup {to}) \X Mount!Axes
           t == Tail(s)
<1>1. s \in Seq(X)
  BY DEF Formed
<1>2. /\ s[1] \in X /\ t \in Seq(X) /\ Len(t) \in Nat
      /\ Len(s) \in Nat /\ Len(s) > 0 /\ Len(t) = Len(s) - 1
      /\ \A k \in 1 .. Len(t) : k + 1 \in 1 .. Len(s) /\ t[k] = s[k + 1]
  <2> HIDE DEF X
  <2> QED  BY <1>1, ShiftIs
<1>3. t # <<>> => Len(t) > 0
  <2> HIDE DEF X
  <2> QED  BY <1>2, EmptySeq
<1> HIDE DEF t
<1>4. to = "turn" => \A k \in 1 .. Len(t) : t[k][1] # "verify"
  BY <1>2 DEF Formed
<1>5. ASSUME NEW k \in 2 .. Len(t)
      PROVE  /\ t[k][1] = "wait" => t[k - 1] = <<"stop", t[k][2]>>
             /\ t[k][1] = to => t[k - 1] = <<"wait", t[k][2]>>
             /\ t[k][1] = "start" => t[k - 1] = <<to, t[k][2]>>
  <2>1. k \in 1 .. Len(t) /\ k - 1 \in 1 .. Len(t) /\ k + 1 \in 2 .. Len(s) /\ (k + 1) - 1 = k /\ (k - 1) + 1 = k
    BY <1>2
  <2>2. t[k] = s[k + 1] /\ t[k - 1] = s[(k + 1) - 1]
    BY <1>2, <2>1
  <2> QED  BY <2>1, <2>2 DEF Formed
<1>6. ASSUME NEW j \in 1 .. Len(t), NEW k \in 1 .. Len(t), j < k, t[j][2] = 2, t[j][1] # "read"
      PROVE  t[k][2] = 2
  <2>1. j + 1 \in 1 .. Len(s) /\ k + 1 \in 1 .. Len(s) /\ j + 1 < k + 1 /\ t[j] = s[j + 1] /\ t[k] = s[k + 1]
    BY <1>2, <1>6
  <2> QED  BY <1>6, <2>1 DEF Formed
<1>7. Formed(t, to)
  BY <1>2, <1>4, <1>5, <1>6 DEF Formed
<1>8. s[1][2] = 2 /\ s[1][1] # "read" => OnlyOn(t, 2)
  <2> SUFFICES ASSUME s[1][2] = 2, s[1][1] # "read", NEW k \in 1 .. Len(t) PROVE t[k][2] = 2
    BY DEF OnlyOn
  <2>1. 1 \in 1 .. Len(s) /\ k + 1 \in 1 .. Len(s) /\ 1 < k + 1 /\ t[k] = s[k + 1]
    BY <1>2
  <2> QED  BY <2>1 DEF Formed
<1>9. t # <<>> =>
         LET h == t[1] IN
         /\ h[1] = "wait" => s[1] = <<"stop", h[2]>>
         /\ h[1] = to => s[1] = <<"wait", h[2]>>
         /\ h[1] = "start" => s[1] = <<to, h[2]>>
  <2> SUFFICES ASSUME t # <<>> PROVE t[1] = s[2] /\ 2 \in 2 .. Len(s)
    BY DEF Formed
  <2> QED  BY <1>2, <1>3
<1> QED  BY <1>2, <1>7, <1>8, <1>9 DEF t

\* Nor does it contain anything new, or lose anything but its first command.
LEMMA RestOf ==
    ASSUME NEW X, NEW s \in Seq(X), s # <<>>
    PROVE  /\ \A a : OnlyOn(s, a) => OnlyOn(Tail(s), a) /\ s[1][2] = a
           /\ \A x : Contains(Tail(s), x) => Contains(s, x)
           /\ \A x : Contains(s, x) => s[1] = x \/ Contains(Tail(s), x)
<1>1. /\ Len(s) \in Nat /\ Len(s) > 0 /\ Len(Tail(s)) = Len(s) - 1
      /\ \A k \in 1 .. Len(Tail(s)) : k + 1 \in 1 .. Len(s) /\ Tail(s)[k] = s[k + 1]
  BY ShiftIs
<1>2. ASSUME NEW x, Contains(s, x) PROVE s[1] = x \/ Contains(Tail(s), x)
  <2>1. PICK k \in 1 .. Len(s) : s[k] = x
    BY <1>2 DEF Contains
  <2>2. CASE k # 1
    <3>1. k - 1 \in 1 .. Len(Tail(s)) /\ (k - 1) + 1 = k
      BY <1>1, <2>2
    <3> QED  BY <1>1, <2>1, <3>1 DEF Contains
  <2> QED  BY <2>1, <2>2
<1> QED  BY <1>1, <1>2 DEF OnlyOn, Contains

Readies(s) == s # <<>> => s[1][1] \in {"read", "stop"}

\* Programs follow each other, the second beginning with a read or a stop.
LEMMA JoinFormed ==
    ASSUME NEW s, NEW t, NEW to, Formed(s, to), Formed(t, to), Readies(t), to \in Modes,
           (\A j \in 1 .. Len(s) : s[j][2] = 2 => s[j][1] = "read") \/ OnlyOn(t, 2)
    PROVE  Formed(s \o t, to)
<1> DEFINE X == (Sends \cup {to}) \X Mount!Axes
           u == s \o t
<1>1. s \in Seq(X) /\ t \in Seq(X)
  BY DEF Formed
<1>2. /\ u \in Seq(X) /\ Len(s) \in Nat /\ Len(t) \in Nat /\ Len(u) = Len(s) + Len(t)
      /\ \A k \in 1 .. Len(u) : u[k] = IF k <= Len(s) THEN s[k] ELSE t[k - Len(s)]
  <2> HIDE DEF X
  <2> QED  BY <1>1
<1>3. Len(t) > 0 => t # <<>> /\ t[1][1] \in {"read", "stop"}
  <2>1. Len(t) > 0 => t # <<>>
    OBVIOUS
  <2> QED  BY <2>1 DEF Readies
<1> HIDE DEF u
<1>4. ASSUME NEW k \in 1 .. Len(u)
      PROVE  \/ k \in 1 .. Len(s) /\ u[k] = s[k]
             \/ k - Len(s) \in 1 .. Len(t) /\ ~(k \in 1 .. Len(s)) /\ u[k] = t[k - Len(s)]
  BY <1>2
<1>5. to = "turn" => \A k \in 1 .. Len(u) : u[k][1] # "verify"
  BY <1>4 DEF Formed
<1>6. ASSUME NEW k \in 2 .. Len(u)
      PROVE  /\ u[k][1] = "wait" => u[k - 1] = <<"stop", u[k][2]>>
             /\ u[k][1] = to => u[k - 1] = <<"wait", u[k][2]>>
             /\ u[k][1] = "start" => u[k - 1] = <<to, u[k][2]>>
  <2>1. k \in 1 .. Len(u) /\ k - 1 \in 1 .. Len(u)
    BY <1>2
  <2>2. CASE k \in 1 .. Len(s)
    <3>1. k \in 2 .. Len(s) /\ u[k] = s[k] /\ u[k - 1] = s[k - 1]
      BY <1>2, <2>1, <2>2
    <3> QED  BY <3>1 DEF Formed
  <2>3. CASE k = Len(s) + 1
    <3>0. /\ Len(s) \in Nat /\ Len(t) \in Nat /\ k <= Len(s) + Len(t)
          /\ ~(k <= Len(s)) /\ k - Len(s) = 1
      BY <1>2, <2>1, <2>3
    <3>1. u[k] = t[1] /\ Len(t) > 0
      <4>1. u[k] = t[k - Len(s)]
        BY <1>2, <2>1, <3>0
      <4>2. Len(t) > 0
        BY <2>3, <3>0
      <4> QED  BY <3>0, <4>1, <4>2
    <3>2. u[k][1] \in {"read", "stop"}
      BY <1>3, <3>1
    <3> QED  BY <3>2 DEF Modes
  <2>4. CASE k > Len(s) + 1
    <3> DEFINE i == k - Len(s)
    <3>1. i \in 2 .. Len(t) /\ (k - 1) - Len(s) = i - 1 /\ ~(k - 1 <= Len(s)) /\ ~(k <= Len(s))
      BY <1>2, <2>1, <2>4
    <3>2. u[k] = t[i] /\ u[k - 1] = t[i - 1]
      BY <1>2, <2>1, <3>1
    <3> HIDE DEF i
    <3> QED  BY <3>1, <3>2 DEF Formed
  <2> QED  BY <1>2, <2>1, <2>2, <2>3, <2>4
<1>7. ASSUME NEW j \in 1 .. Len(u), NEW k \in 1 .. Len(u), j < k, u[j][2] = 2, u[j][1] # "read"
      PROVE  u[k][2] = 2
  <2>1. CASE k \in 1 .. Len(s)
    <3>1. j \in 1 .. Len(s) /\ u[j] = s[j] /\ u[k] = s[k]
      BY <1>2, <1>7, <2>1
    <3> QED  BY <1>7, <2>1, <3>1 DEF Formed
  <2>2. CASE j \in 1 .. Len(s) /\ ~(k \in 1 .. Len(s))
    <3>1. u[j] = s[j] /\ k - Len(s) \in 1 .. Len(t) /\ u[k] = t[k - Len(s)]
      BY <1>2, <2>2
    <3> QED  BY <1>7, <2>2, <3>1 DEF OnlyOn
  <2>3. CASE ~(j \in 1 .. Len(s)) /\ ~(k \in 1 .. Len(s))
    <3> DEFINE i == j - Len(s)
               h == k - Len(s)
    <3>1. i \in 1 .. Len(t) /\ h \in 1 .. Len(t) /\ i < h /\ u[j] = t[i] /\ u[k] = t[h]
      BY <1>2, <1>4, <1>7, <2>3
    <3> HIDE DEF i, h
    <3> QED  BY <1>7, <3>1 DEF Formed
  <2> QED  BY <2>1, <2>2, <2>3
<1>8. u \in Seq((Sends \cup {to}) \X Mount!Axes)
  BY <1>2
<1> QED  BY <1>5, <1>6, <1>7, <1>8 DEF Formed, u

\* The short programs that the calls are made of.
LEMMA ShortFormed ==
    ASSUME NEW to \in Modes, NEW a \in Mount!Axes
    PROVE  /\ Formed(<<>>, to)
           /\ Formed(<<<<"stop", a>>>>, to)
           /\ Formed(<<<<"read", 1>>, <<"read", 2>>>>, to)
           /\ to # "turn" =>
                 Formed(<<<<"read", a>>, <<"stop", a>>, <<"wait", a>>, <<to, a>>, <<"start", a>>, <<"verify", a>>>>, to)
           /\ to = "turn" => Formed(<<<<"stop", a>>, <<"wait", a>>, <<"turn", a>>, <<"start", a>>>>, to)
<1> USE DEF Formed, Sends, Modes, Mount!Axes
<1>1. Formed(<<>>, to)
  OBVIOUS
<1>2. Formed(<<<<"stop", a>>>>, to)
  OBVIOUS
<1>3. Formed(<<<<"read", 1>>, <<"read", 2>>>>, to)
  OBVIOUS
<1>4. ASSUME to # "turn"
      PROVE Formed(<<<<"read", a>>, <<"stop", a>>, <<"wait", a>>, <<to, a>>, <<"start", a>>, <<"verify", a>>>>, to)
  <2> DEFINE s == <<<<"read", a>>, <<"stop", a>>, <<"wait", a>>, <<to, a>>, <<"start", a>>, <<"verify", a>>>>
  <2>1. s \in Seq((Sends \cup {to}) \X Mount!Axes) /\ Len(s) = 6
    OBVIOUS
  <2>2. /\ s[1] = <<"read", a>> /\ s[2] = <<"stop", a>> /\ s[3] = <<"wait", a>>
        /\ s[4] = <<to, a>> /\ s[5] = <<"start", a>> /\ s[6] = <<"verify", a>>
    OBVIOUS
  <2> HIDE DEF s
  <2>3. \A k \in 1 .. 6 : s[k][2] = a
    BY <2>2
  <2>4. \A k \in 2 .. 6 : /\ s[k][1] = "wait" => s[k - 1] = <<"stop", s[k][2]>>
                          /\ s[k][1] = to => s[k - 1] = <<"wait", s[k][2]>>
                          /\ s[k][1] = "start" => s[k - 1] = <<to, s[k][2]>>
    BY <2>2
  <2> QED  BY <1>4, <2>1, <2>3, <2>4 DEF s
<1>5. ASSUME to = "turn"
      PROVE  Formed(<<<<"stop", a>>, <<"wait", a>>, <<"turn", a>>, <<"start", a>>>>, to)
  BY <1>5
<1> QED  BY <1>1, <1>2, <1>3, <1>4, <1>5

\* Both axes to a target: what a GOTO begins with.
LEMMA GotoFormed ==
    ASSUME NEW to \in Mount!Gotos
    PROVE  /\ Formed(Mount!GotoAxes(to), to)
           /\ Mount!GotoAxes(to) # <<>> /\ Mount!GotoAxes(to)[1] = <<"read", 1>>
           /\ to = "park" /\ pos[2] = "park" /\ axis[2] = "still" =>
                 \A k \in 1 .. Len(Mount!GotoAxes(to)) :
                     Mount!GotoAxes(to)[k][2] = 2 => Mount!GotoAxes(to)[k][1] = "read"
<1> DEFINE r == <<<<"read", 1>>, <<"read", 2>>>>
           Whole(a) == <<<<"read", a>>, <<"stop", a>>, <<"wait", a>>, <<to, a>>, <<"start", a>>, <<"verify", a>>>>
           one == Mount!GotoAxis(1, to)
           two == Mount!GotoAxis(2, to)
<1>1. to \in Modes /\ to # "turn" /\ 1 \in Mount!Axes /\ 2 \in Mount!Axes
  BY DEF Modes, Mount!Gotos, Mount!Axes
<1>2. /\ Mount!GotoAxes(to) = (r \o one) \o two
      /\ one \in {<<>>, Whole(1)} /\ two \in {<<>>, Whole(2)}
      /\ to = "park" /\ pos[2] = "park" /\ axis[2] = "still" => two = <<>>
  BY DEF Mount!GotoAxes, Mount!GotoAxis, Mount!Both
<1>3. Formed(r, to) /\ Formed(one, to) /\ Formed(two, to)
  BY <1>1, <1>2, ShortFormed
<1>4. Readies(one) /\ Readies(two) /\ OnlyOn(two, 2) /\ OnlyOn(one, 1)
  BY <1>2 DEF Readies, OnlyOn
<1>5. \A j \in 1 .. Len(r) : r[j][2] = 2 => r[j][1] = "read"
  OBVIOUS
<1>6. Formed(r \o one, to)
  <2> HIDE DEF r, one, two
  <2> QED  BY <1>1, <1>3, <1>4, <1>5, JoinFormed
<1>7. Formed((r \o one) \o two, to)
  <2> HIDE DEF r, one, two
  <2> QED  BY <1>1, <1>3, <1>4, <1>6, JoinFormed
<1>8. \A j \in 1 .. Len(r \o one) : (r \o one)[j][2] = 2 => (r \o one)[j][1] = "read"
  <2>1. r \in Seq((Sends \cup {to}) \X Mount!Axes) /\ one \in Seq((Sends \cup {to}) \X Mount!Axes)
    BY <1>3 DEF Formed
  <2> SUFFICES ASSUME NEW j \in 1 .. Len(r \o one), (r \o one)[j][2] = 2 PROVE (r \o one)[j][1] = "read"
    OBVIOUS
  <2> HIDE DEF r, one
  <2>2. CASE j <= Len(r)
    <3>1. j \in 1 .. Len(r) /\ (r \o one)[j] = r[j]
      BY <2>1, <2>2
    <3> QED  BY <1>5, <3>1
  <2>3. CASE j > Len(r)
    <3>1. Len(r) \in Nat /\ Len(one) \in Nat /\ Len(r \o one) = Len(r) + Len(one)
      BY <2>1
    <3>2. j - Len(r) \in 1 .. Len(one) /\ (r \o one)[j] = one[j - Len(r)]
      BY <2>1, <2>3, <3>1
    <3> QED  BY <1>4, <3>2 DEF OnlyOn
  <2> QED  BY <2>1, <2>2, <2>3
<1>9. Mount!GotoAxes(to) # <<>> /\ Mount!GotoAxes(to)[1] = <<"read", 1>>
  <2>1. one \in Seq((Sends \cup {to}) \X Mount!Axes) /\ two \in Seq((Sends \cup {to}) \X Mount!Axes)
    BY <1>3 DEF Formed
  <2> HIDE DEF one, two
  <2> QED  BY <1>2, <2>1
<1>10. r \o one = (r \o one) \o <<>>
  BY <1>6 DEF Formed
<1> HIDE DEF r, one, two
<1> QED  BY <1>2, <1>7, <1>8, <1>9, <1>10

-----------------------------------------------------------------------------
(* One exchange, while none fails.                                         *)

\* Axes that change only come to rest, and one at rest stays where it stands.
Calmer(ax, axn, po, pon) ==
    \A a \in Mount!Axes : axn[a] \in {ax[a], "still"} /\ (ax[a] = "still" => pon[a] = po[a])

\* What a call relies on survives that.
LEMMA CalmKeeps ==
    ASSUME NEW c, NEW to, NEW ax, NEW axn, NEW po, NEW pon, NEW mo, Calmer(ax, axn, po, pon)
    PROVE  /\ Drives(c, to, ax, mo) => Drives(c, to, axn, mo)
           /\ Sees(c, ax, po) => Sees(c, axn, pon)
<1>1. ASSUME Drives(c, to, ax, mo) PROVE Drives(c, to, axn, mo)
  <2>1. c.todo # <<>> => c.todo[1][2] \in Mount!Axes
    BY <1>1, FormedShift DEF Drives
  <2> QED  BY <1>1, <2>1 DEF Drives, Headed, Calmer
<1>2. ASSUME Sees(c, ax, po) PROVE Sees(c, axn, pon)
  BY <1>2 DEF Sees, Saw, Calmer, Mount!Axes
<1> QED  BY <1>1, <1>2

\* An exchange succeeds, or is refused for what the axis does.
LEMMA ExchangeWhole ==
    ASSUME NEW c, NEW cn, Mount!Exchange(c, cn), fails = 0, fails' = 0
    PROVE  LET cmd == Head(c.todo)[1]
               a == Head(c.todo)[2]
           IN /\ c.todo # <<>> /\ UNCHANGED <<parked, parking, slew>>
              /\ \/ /\ Mount!Content(cmd, a) /\ cn = Mount!Answered(c) /\ axis' = Mount!Obeyed(cmd, a)
                    /\ mode' = IF cmd \in {"turn"} \cup Mount!Gotos THEN [mode EXCEPT ![a] = cmd] ELSE mode
                    /\ pos' = IF cmd = "start" THEN [pos EXCEPT ![a] = "away"] ELSE pos
                 \/ Mount!Refused(cmd, a) /\ cn = Mount!Failed(c) /\ UNCHANGED <<axis, mode, pos>>
BY DEF Mount!Exchange

\* A read changes nothing, and sees what there is.
LEMMA LookExchange ==
    ASSUME NEW c, NEW cn, NEW ms, Mount!Exchange(c, cn), fails = 0, fails' = 0,
           MotionTypes, IsCall(c, ms), Looks(c)
    PROVE  /\ UNCHANGED <<axis, mode, pos>>
           /\ IsCall(cn, ms) /\ cn.m = c.m /\ cn.then = c.then /\ Looks(cn)
           /\ Sees(c, axis, pos) => Sees(cn, axis, pos)
<1> DEFINE cmd == Head(c.todo)[1]
           a == Head(c.todo)[2]
           saw == IF axis[a] # "still" THEN "moves" ELSE pos[a]
<1>1. c.todo # <<>>
  BY ExchangeWhole
<1>2. \/ c.todo = <<<<"read", 2>>>> /\ Head(c.todo) = <<"read", 2>> /\ Tail(c.todo) = <<>>
      \/ c.todo = <<<<"read", 1>>, <<"read", 2>>>> /\ Head(c.todo) = <<"read", 1>>
         /\ Tail(c.todo) = <<<<"read", 2>>>>
  <2>1. CASE c.todo = <<<<"read", 2>>>>
    BY <2>1
  <2>2. CASE c.todo = <<<<"read", 1>>, <<"read", 2>>>>
    BY <2>2
  <2> QED  BY <1>1, <2>1, <2>2 DEF Looks, Reads
<1>3. cmd = "read" /\ a \in Mount!Axes
  BY <1>2 DEF Mount!Axes
<1>4. ~Mount!Refused(cmd, a)
  BY <1>3 DEF Mount!Refused, Mount!Gotos
<1>5. cn = Mount!Answered(c) /\ axis' = axis /\ mode' = mode /\ pos' = pos
  BY <1>3, <1>4, ExchangeWhole DEF Mount!Obeyed, Mount!Gotos
<1>6. cn = [c EXCEPT !.todo = Tail(c.todo), !.seen = [c.seen EXCEPT ![a] = saw]]
  BY <1>3, <1>5 DEF Mount!Answered, Looks, IsCall
<1>7. saw \in {"moves", "park", "away"}
  BY <1>3 DEF MotionTypes, PosMaps, AxisMaps
<1>8. /\ IsCall(cn, ms) /\ cn.m = c.m /\ cn.then = c.then /\ cn.bad = c.bad
      /\ cn.todo = Tail(c.todo) /\ cn.seen = [c.seen EXCEPT ![a] = saw]
  <2> HIDE DEF saw
  <2> QED  BY <1>3, <1>6, <1>7 DEF IsCall
<1>9. Looks(cn)
  BY <1>2, <1>8 DEF Looks, Reads
<1>10. ASSUME Sees(c, axis, pos) PROVE Sees(cn, axis, pos)
  <2>1. c.seen \in [Mount!Axes -> {"moves", "park", "away"}]
    BY DEF IsCall
  <2>2. CASE c.todo = <<<<"read", 2>>>>
    <3>1. a = 2 /\ Saw(c, 1, axis, pos)
      BY <1>2, <1>10, <2>2 DEF Sees
    <3> QED  BY <1>2, <1>8, <1>9, <2>1, <2>2, <3>1 DEF Sees, Saw, Mount!Axes
  <2>3. CASE c.todo # <<<<"read", 2>>>>
    <3>1. a = 1 /\ cn.todo = <<<<"read", 2>>>>
      BY <1>2, <1>8, <2>3
    <3>2. cn.todo # <<>>
      BY <3>1
    <3>3. cn.seen[1] = saw
      BY <1>3, <1>8, <2>1, <3>1
    <3>4. Saw(cn, 1, axis, pos)
      BY <3>1, <3>3 DEF Saw
    <3> QED  BY <1>9, <3>2, <3>4 DEF Sees
  <2> QED  BY <2>2, <2>3
<1> QED  BY <1>5, <1>8, <1>9, <1>10

\* A halt brings its axis to rest; a wait may fail and the call goes on.
LEMMA HaltExchange ==
    ASSUME NEW c, NEW cn, NEW ms, Mount!Exchange(c, cn), fails = 0, fails' = 0,
           MotionTypes, IsCall(c, ms), c.todo \in Halts, c.m \in {"abort", "unpark"}
    PROVE  /\ MotionTypes' /\ mode' = mode /\ pos' = pos
           /\ IsCall(cn, ms) /\ cn.m = c.m /\ cn.then = c.then /\ cn.todo \in Halts
           /\ \A b \in Mount!Axes :
                 /\ axis'[b] \in {axis[b], "still"}
                 /\ Contains(c.todo, <<"halt", b>>) /\ axis'[b] # "still" => Contains(cn.todo, <<"halt", b>>)
<1> DEFINE cmd == Head(c.todo)[1]
           a == Head(c.todo)[2]
           X == {"halt", "wait"} \X Mount!Axes
<1>1. /\ c.todo # <<>> /\ c.todo \in Seq(X)
      /\ Tail(c.todo) \in Halts /\ Head(c.todo) = <<cmd, a>> /\ cmd \in {"halt", "wait"} /\ a \in Mount!Axes
      /\ cmd = "halt" /\ a = 2 => ~Contains(c.todo, <<"halt", 1>>)
  <2>1. c.todo # <<>>
    BY ExchangeWhole
  <2>2. CASE c.todo = <<<<"wait", 2>>>>
    BY <2>2 DEF Halts, Mount!Axes, Contains
  <2>3. CASE c.todo = <<<<"wait", 1>>, <<"wait", 2>>>>
    BY <2>3 DEF Halts, Mount!Axes, Contains
  <2>4. CASE c.todo = <<<<"halt", 2>>, <<"wait", 1>>, <<"wait", 2>>>>
    BY <2>4 DEF Halts, Mount!Axes, Contains
  <2>5. CASE c.todo = <<<<"halt", 1>>, <<"halt", 2>>, <<"wait", 1>>, <<"wait", 2>>>>
    BY <2>5 DEF Halts, Mount!Axes, Contains
  <2> QED  BY <2>1, <2>2, <2>3, <2>4, <2>5 DEF Halts
<1>2. \A x : Contains(c.todo, x) => Head(c.todo) = x \/ Contains(Tail(c.todo), x)
  <2> HIDE DEF X
  <2> QED  BY <1>1, RestOf, ShiftIs
<1> HIDE DEF X
<1>3. CASE cn = Mount!Answered(c) /\ axis' = Mount!Obeyed(cmd, a)
           /\ mode' = (IF cmd \in {"turn"} \cup Mount!Gotos THEN [mode EXCEPT ![a] = cmd] ELSE mode)
           /\ pos' = IF cmd = "start" THEN [pos EXCEPT ![a] = "away"] ELSE pos
  <2> DEFINE after == IF c.bad /\ cmd = "halt" /\ a = 2 THEN <<>> ELSE Tail(c.todo)
  <2>1. axis' = IF cmd = "halt" THEN [axis EXCEPT ![a] = "still"] ELSE axis
    BY <1>1, <1>3 DEF Mount!Obeyed
  <2>2. mode' = mode /\ pos' = pos
    BY <1>1, <1>3 DEF Mount!Gotos
  <2>3. cn = [c EXCEPT !.todo = after]
    BY <1>1, <1>3 DEF Mount!Answered, IsCall
  <2>4. after \in Halts
    BY <1>1 DEF Halts
  <2>5. IsCall(cn, ms) /\ cn.m = c.m /\ cn.then = c.then /\ cn.todo = after
    <3> HIDE DEF after
    <3> QED  BY <2>3 DEF IsCall
  <2>6. ASSUME NEW b \in Mount!Axes, Contains(c.todo, <<"halt", b>>), axis'[b] # "still"
        PROVE  Contains(cn.todo, <<"halt", b>>)
    <3>1. Head(c.todo) # <<"halt", b>>
      BY <1>1, <2>1, <2>6 DEF MotionTypes, AxisMaps
    <3>2. ~(cmd = "halt" /\ a = 2)
      BY <1>1, <2>6, <3>1 DEF Mount!Axes
    <3>3. cn.todo = Tail(c.todo)
      BY <2>5, <3>2
    <3> QED  BY <1>2, <2>6, <3>1, <3>3
  <2>7. axis' \in AxisMaps /\ \A b \in Mount!Axes : axis'[b] \in {axis[b], "still"}
    BY <1>1, <2>1 DEF MotionTypes, AxisMaps
  <2>8. MotionTypes'
    BY <2>2, <2>7, ExchangeWhole DEF MotionTypes
  <2> QED  BY <2>2, <2>4, <2>5, <2>6, <2>7, <2>8
<1>4. CASE Mount!Refused(cmd, a) /\ cn = Mount!Failed(c) /\ UNCHANGED <<axis, mode, pos>>
  <2>1. cmd = "wait"
    BY <1>1, <1>4 DEF Mount!Refused, Mount!Gotos
  <2>2. cn = [c EXCEPT !.bad = TRUE, !.todo = Tail(c.todo)]
    BY <1>1, <1>4, <2>1 DEF Mount!Failed
  <2>3. IsCall(cn, ms) /\ cn.m = c.m /\ cn.then = c.then /\ cn.todo = Tail(c.todo)
    BY <2>2 DEF IsCall
  <2>4. MotionTypes'
    BY <1>4, ExchangeWhole DEF MotionTypes
  <2> QED  BY <1>1, <1>2, <1>4, <2>1, <2>3, <2>4
<1> QED  BY <1>3, <1>4, ExchangeWhole

\* The motion of axis 1 is stopped.
LEMMA RescueExchange ==
    ASSUME NEW c, NEW cn, NEW ms, Mount!Exchange(c, cn), fails = 0, fails' = 0,
           MotionTypes, IsCall(c, ms), c.todo \in {<<>>, StopOne}
    PROVE  /\ MotionTypes' /\ mode' = mode /\ pos' = pos
           /\ IsCall(cn, ms) /\ cn.m = c.m /\ cn.then = c.then /\ cn.todo = <<>> /\ cn.bad = c.bad
           /\ axis'[1] \in {"still", "slowing"} /\ (axis[1] = "still" => axis'[1] = "still")
           /\ axis'[2] = axis[2]
<1>1. c.todo # <<>> /\ Head(c.todo) = <<"stop", 1>> /\ Tail(c.todo) = <<>>
  <2>1. c.todo = <<<<"stop", 1>>>>
    BY ExchangeWhole DEF StopOne
  <2> QED  BY <2>1
<1>2. ~Mount!Refused("stop", 1)
  BY DEF Mount!Refused, Mount!Gotos
<1>3. /\ cn = Mount!Answered(c) /\ mode' = mode /\ pos' = pos /\ UNCHANGED <<parked, parking, slew>>
      /\ axis' = [axis EXCEPT ![1] = IF @ = "still" THEN @ ELSE "slowing"]
  BY <1>1, <1>2, ExchangeWhole DEF Mount!Obeyed, Mount!Gotos
<1>4. cn = [c EXCEPT !.todo = <<>>]
  <2>1. Head(c.todo)[1] = "stop" /\ Head(c.todo)[2] = 1
    BY <1>1
  <2> QED  BY <1>1, <1>3, <2>1 DEF Mount!Answered, IsCall
<1>5. /\ axis' \in AxisMaps /\ axis'[2] = axis[2]
      /\ axis'[1] \in {"still", "slowing"} /\ (axis[1] = "still" => axis'[1] = "still")
  BY <1>3 DEF MotionTypes, AxisMaps, Mount!Axes
<1>6. IsCall(cn, ms) /\ cn.m = c.m /\ cn.then = c.then /\ cn.todo = <<>> /\ cn.bad = c.bad
  BY <1>4 DEF IsCall
<1> QED  BY <1>3, <1>5, <1>6 DEF MotionTypes

\* How the axis of a command, its mode and its place change when it is answered.
Moved(cmd, a, to) ==
    /\ axis' = CASE cmd = "stop" -> [axis EXCEPT ![a] = IF @ = "still" THEN @ ELSE "slowing"]
                 [] cmd = "start" -> [axis EXCEPT ![a] = to]
                 [] OTHER -> axis
    /\ mode' = IF cmd = to THEN [mode EXCEPT ![a] = to] ELSE mode
    /\ pos' = IF cmd = "start" THEN [pos EXCEPT ![a] = "away"] ELSE pos
    /\ cmd = "start" => axis[a] = "still"

\* A call that starts a motion goes on, or its last check finds that the axis does not move.
LEMMA DriveExchange ==
    ASSUME NEW c, NEW cn, NEW ms, NEW to \in Modes, Mount!Exchange(c, cn), fails = 0, fails' = 0,
           MotionTypes, IsCall(c, ms), c.m \in Movers, c.m \in {"manual", "track"} => to = "turn",
           Drives(c, to, axis, mode)
    PROVE  LET cmd == c.todo[1][1]
               a == c.todo[1][2]
           IN /\ c.todo # <<>> /\ c.todo \in Seq((Sends \cup {to}) \X Mount!Axes)
              /\ c.todo[1] = <<cmd, a>> /\ cmd \in Sends \cup {to} /\ a \in Mount!Axes /\ MotionTypes' /\ ~c.bad
              /\ a = 2 /\ cmd # "read" => OnlyOn(Tail(c.todo), 2)
              /\ \/ /\ Moved(cmd, a, to) /\ IsCall(cn, ms) /\ cn.m = c.m /\ cn.then = c.then
                    /\ ~cn.bad /\ cn.todo = Tail(c.todo) /\ Drives(cn, to, axis', mode')
                 \/ /\ cmd = "verify" /\ axis[a] \notin Mount!Gotos /\ UNCHANGED <<axis, mode, pos>>
                    /\ IsCall(cn, ms \cup {"rescue"}) /\ cn.bad /\ cn.then = c.then /\ to # "turn"
                    /\ IF a = 1 THEN cn.m = c.m /\ cn.todo = <<>> ELSE cn.m = "rescue" /\ cn.todo = StopOne
<1> DEFINE cmd == c.todo[1][1]
           a == c.todo[1][2]
<1>1. /\ c.todo # <<>> /\ ~c.bad /\ Formed(c.todo, to) /\ c.todo \in Seq((Sends \cup {to}) \X Mount!Axes)
      /\ UNCHANGED <<parked, parking, slew>>
  BY ExchangeWhole DEF Drives, Formed
<1>2. /\ Head(c.todo) = c.todo[1] /\ c.todo[1] = <<cmd, a>> /\ cmd \in Sends \cup {to} /\ a \in Mount!Axes
      /\ Formed(Tail(c.todo), to) /\ (a = 2 /\ cmd # "read" => OnlyOn(Tail(c.todo), 2))
      /\ Tail(c.todo) # <<>> =>
            LET h == Tail(c.todo)[1] IN
            /\ h[1] = "wait" => c.todo[1] = <<"stop", h[2]>>
            /\ h[1] = to => c.todo[1] = <<"wait", h[2]>>
            /\ h[1] = "start" => c.todo[1] = <<to, h[2]>>
  BY <1>1, FormedShift, ShiftIs
<1>3. /\ cmd = "wait" => axis[a] \in {"still", "slowing"}
      /\ cmd \in {to, "start"} => axis[a] = "still"
      /\ cmd = "start" => mode[a] = to
  BY <1>1 DEF Drives, Headed
<1>4. to = "turn" => cmd # "verify"
  <2>1. 1 \in 1 .. Len(c.todo)
    BY <1>1, ShiftIs
  <2> QED  BY <1>1, <2>1 DEF Formed
<1>5. axis \in AxisMaps /\ mode \in ModeMaps /\ pos \in PosMaps
  BY DEF MotionTypes
<1>6. CASE Mount!Content(cmd, a) /\ cn = Mount!Answered(c) /\ axis' = Mount!Obeyed(cmd, a)
           /\ mode' = (IF cmd \in {"turn"} \cup Mount!Gotos THEN [mode EXCEPT ![a] = cmd] ELSE mode)
           /\ pos' = IF cmd = "start" THEN [pos EXCEPT ![a] = "away"] ELSE pos
  <2>1. cmd \in {"turn"} \cup Mount!Gotos <=> cmd = to
    BY <1>2 DEF Sends, Modes, Mount!Gotos
  <2>2. Moved(cmd, a, to)
    BY <1>2, <1>3, <1>6, <2>1 DEF Moved, Mount!Obeyed, Sends, Modes
  <2>3. \E v \in [Mount!Axes -> {"moves", "park", "away"}] : cn = [c EXCEPT !.todo = Tail(c.todo), !.seen = v]
    <3>1. cn = [c EXCEPT !.todo = Tail(c.todo),
                         !.seen = IF cmd = "read"
                                  THEN [@ EXCEPT ![a] = IF axis[a] # "still" THEN "moves" ELSE pos[a]] ELSE @]
      BY <1>1, <1>2, <1>6 DEF Mount!Answered
    <3>2. (IF axis[a] # "still" THEN "moves" ELSE pos[a]) \in {"moves", "park", "away"}
      BY <1>2, <1>5 DEF PosMaps
    <3> QED  BY <1>2, <3>1, <3>2 DEF IsCall
  <2>4. IsCall(cn, ms) /\ cn.m = c.m /\ cn.then = c.then /\ cn.bad = c.bad /\ cn.todo = Tail(c.todo)
    BY <2>3 DEF IsCall
  <2>5. axis' \in AxisMaps /\ mode' \in ModeMaps /\ pos' \in PosMaps
    BY <1>2, <1>5, <2>2 DEF Moved, AxisMaps, ModeMaps, PosMaps
  <2>6. cmd = "wait" => axis[a] = "still"
    BY <1>6 DEF Mount!Content
  <2>7. Headed(Tail(c.todo), to, axis', mode')
    <3> SUFFICES ASSUME Tail(c.todo) # <<>>
                 PROVE  LET h == Tail(c.todo)[1] IN
                        /\ h[1] = "wait" => axis'[h[2]] \in {"still", "slowing"}
                        /\ h[1] \in {to, "start"} => axis'[h[2]] = "still"
                        /\ h[1] = "start" => mode'[h[2]] = to
      BY DEF Headed
    <3> DEFINE h == Tail(c.todo)[1]
    <3>1. h[1] = "wait" => cmd = "stop" /\ a = h[2]
      BY <1>2
    <3>2. h[1] = to => cmd = "wait" /\ a = h[2]
      BY <1>2
    <3>3. h[1] = "start" => cmd = to /\ a = h[2]
      BY <1>2
    <3> HIDE DEF h
    <3>4. cmd = "stop" => axis'[a] \in {"still", "slowing"}
      BY <1>2, <1>5, <2>2 DEF Moved, AxisMaps
    <3>5. cmd = "wait" => axis'[a] = "still"
      BY <1>2, <1>5, <2>2, <2>6 DEF Moved, AxisMaps
    <3>6. cmd = to => axis'[a] = "still" /\ mode'[a] = to
      BY <1>2, <1>3, <1>5, <2>2 DEF Moved, ModeMaps, Modes
    <3> QED  BY <3>1, <3>2, <3>3, <3>4, <3>5, <3>6 DEF h
  <2>8. Drives(cn, to, axis', mode')
    BY <1>1, <1>2, <2>4, <2>7 DEF Drives
  <2>9. MotionTypes'
    BY <1>1, <2>5 DEF MotionTypes
  <2> QED  BY <1>1, <1>2, <2>2, <2>4, <2>8, <2>9
<1>7. CASE Mount!Refused(cmd, a) /\ cn = Mount!Failed(c) /\ UNCHANGED <<axis, mode, pos>>
  <2>1. cmd = "verify" /\ axis[a] \notin Mount!Gotos
    BY <1>2, <1>3, <1>7 DEF Mount!Refused, Sends, Mount!Gotos
  <2>2. to # "turn" /\ c.m \in {"park", "goto"}
    BY <1>4, <2>1 DEF Movers
  <2>3. cn = IF a = 2 THEN [c EXCEPT !.bad = TRUE, !.m = "rescue", !.todo = <<<<"stop", 1>>>>]
                      ELSE [c EXCEPT !.bad = TRUE, !.todo = <<>>]
    BY <1>2, <1>7, <2>1, <2>2 DEF Mount!Failed
  <2>4. /\ IsCall(cn, ms \cup {"rescue"}) /\ cn.bad /\ cn.then = c.then
        /\ IF a = 1 THEN cn.m = c.m /\ cn.todo = <<>> ELSE cn.m = "rescue" /\ cn.todo = StopOne
    <3>1. CASE a = 1
      <4>1. cn = [c EXCEPT !.bad = TRUE, !.todo = <<>>]
        BY <2>3, <3>1
      <4> QED  BY <3>1, <4>1 DEF IsCall
    <3>2. CASE a = 2
      <4>1. cn = [c EXCEPT !.bad = TRUE, !.m = "rescue", !.todo = StopOne]
        BY <2>3, <3>2 DEF StopOne
      <4>2. cn = [m |-> "rescue", todo |-> StopOne, bad |-> TRUE, seen |-> c.seen, then |-> c.then]
        <5> HIDE DEF cmd, a
        <5> QED  BY <4>1 DEF IsCall
      <4>3. cn.m = "rescue" /\ cn.todo = StopOne /\ cn.bad = TRUE /\ cn.seen = c.seen /\ cn.then = c.then
        BY <4>2
      <4>4. IsCall(cn, ms \cup {"rescue"})
        BY <4>2, <4>3 DEF IsCall
      <4> QED  BY <3>2, <4>3, <4>4
    <3> QED  BY <1>2, <3>1, <3>2 DEF Mount!Axes
  <2>5. MotionTypes'
    BY <1>1, <1>7 DEF MotionTypes
  <2> QED  BY <1>1, <1>2, <1>7, <2>1, <2>2, <2>4, <2>5
<1>8. Head(c.todo)[1] = cmd /\ Head(c.todo)[2] = a
  BY <1>2
<1> QED  BY <1>6, <1>7, <1>8, ExchangeWhole

-----------------------------------------------------------------------------
(* The exchanges of the main thread and of the operation.                  *)

\* A call that is nothing has nothing to send.
LEMMA NoneSent == ASSUME NEW c, NEW cn, Mount!Exchange(c, cn) PROVE c # Mount!NoCall
BY DEF Mount!Exchange, Mount!NoCall

\* The main thread looks, or stops the axes.
LEMMA MainCalms ==
    ASSUME MotionIs, fails = 0, fails' = 0, Mount!MainExchange,
           main.m \in {"status", "look", "refused", "abort", "unpark"}
    PROVE  MotionIs'
<1> USE DEF MotionIs
<1>1. Mount!Exchange(main, main') /\ pool' = pool /\ UNCHANGED <<parked, parking, slew>>
  BY ExchangeWhole DEF Mount!MainExchange
<1>2. IsCall(main, MainKinds)
  BY DEF MainCall
<1>3. CASE main.m \in {"status", "look", "refused"}
  <2>1. Looks(main)
    BY <1>3 DEF MainCall, Sees
  <2>2. /\ UNCHANGED <<axis, mode, pos>>
        /\ IsCall(main', MainKinds) /\ main'.m = main.m /\ main'.then = main.then /\ Looks(main')
        /\ Sees(main, axis, pos) => Sees(main', axis, pos)
    BY <1>1, <1>2, <2>1, LookExchange
  <2>3. MotionTypes' /\ PoolCallIs' /\ Apart' /\ SkyIsOwned'
    BY <1>1, <2>2 DEF MotionTypes, PoolCallIs, Apart, SkyIsOwned
  <2>4. MainCall'
    BY <1>1, <1>3, <2>2 DEF MainCall, Movers
  <2>5. ParkIsOwned' /\ ParkedStands'
    BY <1>1, <1>3, <2>2 DEF ParkIsOwned, ParkedStands
  <2> QED  BY <2>3, <2>4, <2>5
<1>4. CASE main.m \in {"abort", "unpark"}
  <2>1. main.todo \in Halts
    BY <1>4 DEF MainCall
  <2>2. /\ MotionTypes' /\ mode' = mode /\ pos' = pos
        /\ IsCall(main', MainKinds) /\ main'.m = main.m /\ main'.then = main.then /\ main'.todo \in Halts
        /\ \A b \in Mount!Axes :
              /\ axis'[b] \in {axis[b], "still"}
              /\ Contains(main.todo, <<"halt", b>>) /\ axis'[b] # "still" => Contains(main'.todo, <<"halt", b>>)
    BY <1>1, <1>2, <1>4, <2>1, HaltExchange
  <2>3. Calmer(axis, axis', pos, pos')
    BY <2>2 DEF Calmer
  <2>4. PoolCallIs'
    <3>1. Drives(pool, "sky", axis, mode) => Drives(pool, "sky", axis', mode')
      BY <2>2, <2>3, CalmKeeps
    <3>2. Sees(pool, axis, pos) => Sees(pool, axis', pos')
      BY <2>3, CalmKeeps
    <3> QED  BY <1>1, <3>1, <3>2 DEF PoolCallIs
  <2>5. MainCall'
    BY <1>1, <1>4, <2>2 DEF MainCall, Movers
  <2>6. Apart'
    BY <1>1, <1>4, <2>2 DEF Apart
  <2>7. SkyIsOwned'
    BY <1>1, <2>2 DEF SkyIsOwned
  <2>8. ParkIsOwned'
    BY <1>1, <1>4, <2>2 DEF ParkIsOwned
  <2>9. ParkedStands'
    BY <1>1, <1>4, <2>2 DEF ParkedStands, Mount!Axes, Mount!Gotos
  <2> QED  BY <2>2, <2>4, <2>5, <2>6, <2>7, <2>8, <2>9
<1> QED  BY <1>3, <1>4

\* The main thread stops axis 1 after axis 2 failed.
LEMMA MainRescues ==
    ASSUME MotionIs, fails = 0, fails' = 0, Mount!MainExchange, main.m = "rescue"
    PROVE  MotionIs'
<1> USE DEF MotionIs
<1>1. Mount!Exchange(main, main') /\ pool' = pool /\ UNCHANGED <<parked, parking, slew>>
  BY ExchangeWhole DEF Mount!MainExchange
<1>2. IsCall(main, MainKinds) /\ main.todo \in {<<>>, StopOne} /\ ~parked
  BY DEF MainCall
<1>3. /\ MotionTypes' /\ mode' = mode /\ pos' = pos
      /\ IsCall(main', MainKinds) /\ main'.m = main.m /\ main'.then = main.then /\ main'.todo = <<>>
      /\ axis'[1] \in {"still", "slowing"} /\ (axis[1] = "still" => axis'[1] = "still")
      /\ axis'[2] = axis[2]
  BY <1>1, <1>2, RescueExchange
<1>4. slew = "none" /\ pool.m = "none"
  BY DEF Apart
<1>5. PoolCallIs'
  BY <1>1, <1>4 DEF PoolCallIs
<1>6. MainCall'
  BY <1>1, <1>2, <1>3 DEF MainCall, Movers
<1>7. Apart' /\ SkyIsOwned'
  BY <1>1, <1>3, <1>4 DEF Apart, SkyIsOwned, Mount!Axes
<1>8. ParkIsOwned' /\ ParkedStands'
  BY <1>1, <1>2, <1>3 DEF ParkIsOwned, ParkedStands, Mount!Axes
<1> QED  BY <1>3, <1>5, <1>6, <1>7, <1>8

\* What a command that starts a motion leaves of the other motions.
LEMMA MovedIs ==
    ASSUME NEW cmd, NEW a \in Mount!Axes, NEW to \in Modes, Moved(cmd, a, to), MotionTypes
    PROVE  \A b \in Mount!Axes :
              /\ axis'[b] \in Modes => (axis'[b] = axis[b] /\ ~(cmd = "stop" /\ a = b)) \/ (cmd = "start" /\ a = b /\ axis'[b] = to)
              /\ pos'[b] = "park" <=> pos[b] = "park" /\ ~(cmd = "start" /\ a = b)
              /\ axis[b] = "still" => axis'[b] = "still" \/ (cmd = "start" /\ a = b)
<1>1. axis \in AxisMaps /\ mode \in ModeMaps /\ pos \in PosMaps
  BY DEF MotionTypes
<1>2. CASE cmd = "stop"
  BY <1>1, <1>2 DEF Moved, AxisMaps, PosMaps, Modes
<1>3. CASE cmd = "start"
  BY <1>1, <1>3 DEF Moved, AxisMaps, PosMaps, Modes
<1>4. CASE cmd \notin {"stop", "start"}
  BY <1>1, <1>4 DEF Moved, AxisMaps, PosMaps, Modes
<1> QED  BY <1>2, <1>3, <1>4

\* The main thread starts a motion.
LEMMA MainDrives ==
    ASSUME MotionIs, fails = 0, fails' = 0, Mount!MainExchange, main.m \in Movers
    PROVE  MotionIs'
<1> DEFINE to == Aim(main)
           cmd == main.todo[1][1]
           a == main.todo[1][2]
<1>1. Mount!Exchange(main, main') /\ pool' = pool /\ UNCHANGED <<parked, parking, slew>>
  BY ExchangeWhole DEF Mount!MainExchange
<1>2. /\ IsCall(main, MainKinds) /\ Drives(main, to, axis, mode) /\ main.then = "none"
      /\ to \in Modes /\ to # "sky" /\ (main.m \in {"manual", "track"} => to = "turn")
      /\ main.m = "park" => to = "park"
      /\ main.m # "park" => to # "park" /\ (main.m = "goto" \/ to = "turn")
      /\ MotionTypes /\ MainCall /\ PoolCallIs /\ Apart /\ SkyIsOwned /\ ParkIsOwned /\ ParkedStands
  BY DEF MotionIs, MainCall, Aim, Modes, Movers
<1>3. slew = "none" /\ pool.m = "none" /\ pool = Mount!NoCall
  BY <1>2 DEF Apart, PoolCallIs, Movers
<1>4. /\ main.todo # <<>> /\ main.todo \in Seq((Sends \cup {to}) \X Mount!Axes)
      /\ main.todo[1] = <<cmd, a>> /\ cmd \in Sends \cup {to} /\ a \in Mount!Axes /\ MotionTypes' /\ ~main.bad
      /\ a = 2 /\ cmd # "read" => OnlyOn(Tail(main.todo), 2)
      /\ \/ /\ Moved(cmd, a, to) /\ IsCall(main', MainKinds) /\ main'.m = main.m /\ main'.then = main.then
            /\ ~main'.bad /\ main'.todo = Tail(main.todo) /\ Drives(main', to, axis', mode')
         \/ /\ cmd = "verify" /\ axis[a] \notin Mount!Gotos /\ UNCHANGED <<axis, mode, pos>>
            /\ IsCall(main', MainKinds \cup {"rescue"}) /\ main'.bad /\ main'.then = main.then /\ to # "turn"
            /\ IF a = 1 THEN main'.m = main.m /\ main'.todo = <<>> ELSE main'.m = "rescue" /\ main'.todo = StopOne
  BY <1>1, <1>2, DriveExchange
<1>5. /\ \A b : OnlyOn(main.todo, b) => OnlyOn(Tail(main.todo), b) /\ a = b
      /\ \A x : Contains(main.todo, x) => main.todo[1] = x \/ Contains(Tail(main.todo), x)
      /\ 1 \in 1 .. Len(main.todo)
      /\ \A k \in 1 .. Len(Tail(main.todo)) : k + 1 \in 1 .. Len(main.todo) /\ Tail(main.todo)[k] = main.todo[k + 1]
  <2> HIDE DEF to
  <2> QED  BY <1>4, RestOf, ShiftIs
<1>6. parked => main.m \in {"park", "track"} /\ (a = 2 => main.m = "park" /\ cmd = "read")
  <2>1. parked => main.m \in {"park", "track"}
    BY <1>2 DEF MainCall, Movers
  <2>2. parked /\ a = 2 /\ main.m = "park" => cmd = "read"
    BY <1>2, <1>5 DEF ParkedStands
  <2>3. main.m = "track" => a = 1
    BY <1>2, <1>5 DEF MainCall
  <2> QED  BY <2>1, <2>2, <2>3
<1>7. Mount!Axes = {1, 2}
  BY DEF Mount!Axes
<1>8. PoolCallIs'
  BY <1>1, <1>2, <1>3 DEF PoolCallIs, Mount!NoCall
<1> HIDE DEF to, cmd, a
<1>9. CASE /\ Moved(cmd, a, to) /\ IsCall(main', MainKinds) /\ main'.m = main.m /\ main'.then = main.then
           /\ ~main'.bad /\ main'.todo = Tail(main.todo) /\ Drives(main', to, axis', mode')
  <2>1. \A b \in Mount!Axes :
              /\ axis'[b] \in Modes => (axis'[b] = axis[b] /\ ~(cmd = "stop" /\ a = b)) \/ (cmd = "start" /\ a = b /\ axis'[b] = to)
              /\ pos'[b] = "park" <=> pos[b] = "park" /\ ~(cmd = "start" /\ a = b)
              /\ axis[b] = "still" => axis'[b] = "still" \/ (cmd = "start" /\ a = b)
    BY <1>2, <1>4, <1>9, MovedIs
  <2>2. MainCall'
    <3>1. Aim(main') = to
      BY <1>9 DEF to, Aim
    <3>2. main.m = "track" => OnlyOn(main'.todo, 1)
      BY <1>2, <1>5, <1>9 DEF MainCall
    <3> QED  BY <1>1, <1>2, <1>9, <3>1, <3>2 DEF MainCall, Movers
  <2>3. Apart'
    BY <1>1, <1>2, <1>3, <1>9 DEF Apart
  <2>4. SkyIsOwned'
    BY <1>1, <1>2, <1>3, <2>1 DEF SkyIsOwned, Modes
  <2>5. ParkIsOwned'
    <3> SUFFICES ASSUME NEW b \in Mount!Axes, axis'[b] = "park"
                 PROVE  /\ \/ parking \/ main.m = "park"
                           \/ main.m = "manual" /\ Contains(main'.todo, <<"stop", b>>)
                        /\ main.m = "park" => (b = 2 /\ ~parking => OnlyOn(main'.todo, 2))
      BY <1>1, <1>3, <1>9 DEF ParkIsOwned, Movers
    <3>1. CASE axis[b] = "park" /\ ~(cmd = "stop" /\ a = b)
      <4>1. main.todo[1] # <<"stop", b>>
        BY <1>4, <3>1
      <4> QED  BY <1>2, <1>5, <1>9, <3>1, <4>1 DEF ParkIsOwned, Movers
    <3>2. CASE cmd = "start" /\ a = b /\ to = "park"
      BY <1>2, <1>4, <1>9, <3>2
    <3> QED  BY <2>1, <3>1, <3>2 DEF Modes
  <2>6. ParkedStands'
    <3>1. ASSUME NEW b \in Mount!Axes, pos'[b] = "park" PROVE axis'[b] = "still"
      BY <1>2, <2>1, <3>1 DEF ParkedStands
    <3>2. ASSUME parked PROVE pos'[2] = "park"
      BY <1>2, <1>6, <1>7, <2>1, <3>2 DEF ParkedStands
    <3>3. ASSUME parked, axis'[1] \in Mount!Gotos PROVE main.m = "park"
      BY <1>2, <1>6, <1>7, <2>1, <3>3 DEF ParkedStands, Mount!Gotos, Modes
    <3>4. ASSUME parked, main.m = "park", NEW k \in 1 .. Len(main'.todo), main'.todo[k][2] = 2
          PROVE  main'.todo[k][1] = "read"
      BY <1>2, <1>5, <1>9, <3>4 DEF ParkedStands
    <3> QED  BY <1>1, <1>9, <3>1, <3>2, <3>3, <3>4 DEF ParkedStands
  <2> QED  BY <1>4, <1>8, <2>2, <2>3, <2>4, <2>5, <2>6 DEF MotionIs
<1>10. CASE /\ cmd = "verify" /\ axis[a] \notin Mount!Gotos /\ UNCHANGED <<axis, mode, pos>>
            /\ IsCall(main', MainKinds \cup {"rescue"}) /\ main'.bad /\ main'.then = main.then /\ to # "turn"
            /\ IF a = 1 THEN main'.m = main.m /\ main'.todo = <<>> ELSE main'.m = "rescue" /\ main'.todo = StopOne
  <2>1. IsCall(main', MainKinds)
    <3>1. MainKinds \cup {"rescue"} = MainKinds
      BY DEF MainKinds
    <3> QED  BY <1>10, <3>1
  <2>2. main.m \in {"park", "goto"}
    BY <1>2, <1>10 DEF Movers
  <2>3. SkyIsOwned' /\ Apart'
    BY <1>1, <1>2, <1>3, <1>10, <2>2 DEF SkyIsOwned, Apart
  <2>4. CASE a = 1
    <3>1. Formed(<<>>, to)
      BY <1>2, <1>7, ShortFormed
    <3>2. Drives(main', Aim(main'), axis', mode')
      BY <1>10, <2>4, <3>1 DEF Drives, Headed, Aim, to
    <3>3. MainCall'
      BY <1>1, <1>2, <1>10, <2>1, <2>2, <2>4, <3>2 DEF MainCall, Movers
    <3>4. ParkIsOwned'
      BY <1>1, <1>2, <1>3, <1>5, <1>7, <1>10, <2>2, <2>4 DEF ParkIsOwned, Mount!Gotos, MainCall
    <3>5. ParkedStands'
      BY <1>1, <1>2, <1>10, <2>4 DEF ParkedStands
    <3> QED  BY <1>4, <1>8, <2>3, <3>3, <3>4, <3>5 DEF MotionIs
  <2>5. CASE a = 2
    <3>1. ~parked /\ main'.m = "rescue" /\ main'.todo = StopOne
      BY <1>6, <1>10, <2>5
    <3>2. MainCall'
      BY <1>1, <1>2, <1>10, <2>1, <3>1 DEF MainCall, Movers
    <3>3. ParkIsOwned'
      BY <1>1, <1>2, <1>3, <1>7, <1>10, <2>5, <3>1 DEF ParkIsOwned, Mount!Gotos
    <3>4. ParkedStands'
      BY <1>1, <1>2, <1>10, <3>1 DEF ParkedStands
    <3> QED  BY <1>4, <1>8, <2>3, <3>2, <3>3, <3>4 DEF MotionIs
  <2> QED  BY <1>4, <1>7, <2>4, <2>5
<1> QED  BY <1>4, <1>9, <1>10 DEF to, cmd, a

\* An exchange of the main thread.
LEMMA MainExchangeStep ==
    ASSUME MotionIs, fails = 0, fails' = 0, Mount!MainExchange
    PROVE  MotionIs'
<1>1. main.m \in MainKinds /\ main.m # "none"
  BY NoneSent DEF MotionIs, MainCall, IsCall, Mount!MainExchange
<1> QED  BY <1>1, MainCalms, MainRescues, MainDrives DEF MainKinds

\* The operation looks, or stops the axes.
LEMMA PoolCalms ==
    ASSUME MotionIs, fails = 0, fails' = 0, Mount!PoolExchange, pool.m \in {"status", "refused", "abort"}
    PROVE  MotionIs'
<1> USE DEF MotionIs
<1>1. Mount!Exchange(pool, pool') /\ main' = main /\ UNCHANGED <<parked, parking, slew>>
  BY ExchangeWhole DEF Mount!PoolExchange
<1>2. IsCall(pool, PoolKinds) /\ slew \in {"commanding", "polling", "aborting"}
  BY DEF PoolCallIs, Apart, MotionTypes
<1>3. CASE pool.m \in {"status", "refused"}
  <2>1. Looks(pool)
    BY <1>3 DEF PoolCallIs, Sees
  <2>2. /\ UNCHANGED <<axis, mode, pos>>
        /\ IsCall(pool', PoolKinds) /\ pool'.m = pool.m /\ pool'.then = pool.then /\ Looks(pool')
        /\ Sees(pool, axis, pos) => Sees(pool', axis, pos)
    BY <1>1, <1>2, <2>1, LookExchange
  <2>3. MotionTypes' /\ MainCall' /\ Apart' /\ ParkIsOwned' /\ ParkedStands'
    BY <1>1, <2>2 DEF MotionTypes, MainCall, Apart, ParkIsOwned, ParkedStands
  <2>4. PoolCallIs'
    BY <1>1, <1>3, <2>2 DEF PoolCallIs
  <2>5. SkyIsOwned'
    BY <1>1, <1>3, <2>2 DEF SkyIsOwned
  <2> QED  BY <2>3, <2>4, <2>5
<1>4. CASE pool.m = "abort"
  <2>1. pool.todo \in Halts
    BY <1>4 DEF PoolCallIs
  <2>2. /\ MotionTypes' /\ mode' = mode /\ pos' = pos
        /\ IsCall(pool', PoolKinds) /\ pool'.m = pool.m /\ pool'.then = pool.then /\ pool'.todo \in Halts
        /\ \A b \in Mount!Axes :
              /\ axis'[b] \in {axis[b], "still"}
              /\ Contains(pool.todo, <<"halt", b>>) /\ axis'[b] # "still" => Contains(pool'.todo, <<"halt", b>>)
    BY <1>1, <1>2, <1>4, <2>1, HaltExchange
  <2>3. Calmer(axis, axis', pos, pos')
    BY <2>2 DEF Calmer
  <2>4. MainCall'
    <3>1. Drives(main, Aim(main), axis, mode) => Drives(main, Aim(main), axis', mode')
      BY <2>2, <2>3, CalmKeeps
    <3>2. Sees(main, axis, pos) => Sees(main, axis', pos')
      BY <2>3, CalmKeeps
    <3> QED  BY <1>1, <3>1, <3>2 DEF MainCall
  <2>5. PoolCallIs'
    BY <1>4, <2>2 DEF PoolCallIs
  <2>6. Apart' /\ SkyIsOwned'
    BY <1>1, <1>4, <2>2 DEF Apart, SkyIsOwned
  <2>7. ParkIsOwned'
    BY <1>1, <2>2 DEF ParkIsOwned
  <2>8. ParkedStands'
    BY <1>1, <2>2 DEF ParkedStands, Mount!Axes, Mount!Gotos
  <2> QED  BY <2>2, <2>4, <2>5, <2>6, <2>7, <2>8
<1> QED  BY <1>3, <1>4

\* The operation stops axis 1 after axis 2 failed.
LEMMA PoolRescues ==
    ASSUME MotionIs, fails = 0, fails' = 0, Mount!PoolExchange, pool.m = "rescue"
    PROVE  MotionIs'
<1> USE DEF MotionIs
<1>1. Mount!Exchange(pool, pool') /\ main' = main /\ UNCHANGED <<parked, parking, slew>>
  BY ExchangeWhole DEF Mount!PoolExchange
<1>2. IsCall(pool, PoolKinds) /\ pool.todo \in {<<>>, StopOne} /\ pool.bad
  BY DEF PoolCallIs
<1>3. /\ MotionTypes' /\ mode' = mode /\ pos' = pos
      /\ IsCall(pool', PoolKinds) /\ pool'.m = pool.m /\ pool'.then = pool.then /\ pool'.todo = <<>> /\ pool'.bad = pool.bad
      /\ axis'[1] \in {"still", "slowing"} /\ (axis[1] = "still" => axis'[1] = "still")
      /\ axis'[2] = axis[2]
  BY <1>1, <1>2, RescueExchange
<1>4. /\ slew \notin {"none", "starting"} /\ main.m \in {"none", "abort"}
      /\ ~parked /\ ~parking /\ \A b \in Mount!Axes : axis[b] # "park"
  BY DEF Apart, ParkIsOwned
<1>5. PoolCallIs'
  BY <1>2, <1>3 DEF PoolCallIs
<1>6. MainCall'
  BY <1>1, <1>4 DEF MainCall, Movers
<1>7. Apart' /\ SkyIsOwned'
  BY <1>1, <1>3, <1>4 DEF Apart, SkyIsOwned, Mount!Axes
<1>8. ParkIsOwned' /\ ParkedStands'
  BY <1>1, <1>3, <1>4 DEF ParkIsOwned, ParkedStands, Mount!Axes
<1> QED  BY <1>3, <1>5, <1>6, <1>7, <1>8

\* The operation starts the motion to the sky.
LEMMA PoolDrives ==
    ASSUME MotionIs, fails = 0, fails' = 0, Mount!PoolExchange, pool.m = "goto"
    PROVE  MotionIs'
<1> DEFINE cmd == pool.todo[1][1]
           a == pool.todo[1][2]
<1>1. Mount!Exchange(pool, pool') /\ main' = main /\ UNCHANGED <<parked, parking, slew>>
  BY ExchangeWhole DEF Mount!PoolExchange
<1>2. /\ IsCall(pool, PoolKinds) /\ Drives(pool, "sky", axis, mode) /\ pool.then = "none" /\ "sky" \in Modes
      /\ MotionTypes /\ MainCall /\ PoolCallIs /\ Apart /\ SkyIsOwned /\ ParkIsOwned /\ ParkedStands
  BY DEF MotionIs, PoolCallIs, Modes
<1>3. /\ slew = "commanding" /\ main.m \in {"none", "abort"}
      /\ ~parked /\ ~parking /\ \A b \in Mount!Axes : axis[b] # "park"
  BY <1>2 DEF Apart, ParkIsOwned, MotionTypes
<1>4. /\ pool.todo # <<>> /\ pool.todo \in Seq((Sends \cup {"sky"}) \X Mount!Axes)
      /\ pool.todo[1] = <<cmd, a>> /\ cmd \in Sends \cup {"sky"} /\ a \in Mount!Axes /\ MotionTypes' /\ ~pool.bad
      /\ a = 2 /\ cmd # "read" => OnlyOn(Tail(pool.todo), 2)
      /\ \/ /\ Moved(cmd, a, "sky") /\ IsCall(pool', PoolKinds) /\ pool'.m = pool.m /\ pool'.then = pool.then
            /\ ~pool'.bad /\ pool'.todo = Tail(pool.todo) /\ Drives(pool', "sky", axis', mode')
         \/ /\ cmd = "verify" /\ axis[a] \notin Mount!Gotos /\ UNCHANGED <<axis, mode, pos>>
            /\ IsCall(pool', PoolKinds \cup {"rescue"}) /\ pool'.bad /\ pool'.then = pool.then /\ "sky" # "turn"
            /\ IF a = 1 THEN pool'.m = pool.m /\ pool'.todo = <<>> ELSE pool'.m = "rescue" /\ pool'.todo = StopOne
  BY <1>1, <1>2, DriveExchange DEF Movers
<1>5. /\ \A b : OnlyOn(pool.todo, b) => OnlyOn(Tail(pool.todo), b) /\ a = b
      /\ 1 \in 1 .. Len(pool.todo)
  BY <1>4, RestOf, ShiftIs
<1>6. Mount!Axes = {1, 2}
  BY DEF Mount!Axes
<1>7. MainCall'
  <2>1. main'.m \in {"none", "abort"}
    BY <1>1, <1>3
  <2> QED  BY <1>1, <1>2, <2>1 DEF MainCall, Movers
<1> HIDE DEF cmd, a
<1>8. CASE /\ Moved(cmd, a, "sky") /\ IsCall(pool', PoolKinds) /\ pool'.m = pool.m /\ pool'.then = pool.then
           /\ ~pool'.bad /\ pool'.todo = Tail(pool.todo) /\ Drives(pool', "sky", axis', mode')
  <2>1. \A b \in Mount!Axes :
              /\ axis'[b] \in Modes => (axis'[b] = axis[b] /\ ~(cmd = "stop" /\ a = b)) \/ (cmd = "start" /\ a = b /\ axis'[b] = "sky")
              /\ pos'[b] = "park" <=> pos[b] = "park" /\ ~(cmd = "start" /\ a = b)
              /\ axis[b] = "still" => axis'[b] = "still" \/ (cmd = "start" /\ a = b)
    BY <1>2, <1>4, <1>8, MovedIs
  <2>2. PoolCallIs'
    BY <1>2, <1>8 DEF PoolCallIs
  <2>3. Apart'
    BY <1>1, <1>2, <1>3, <1>8 DEF Apart
  <2>4. SkyIsOwned'
    <3> SUFFICES ASSUME NEW b \in Mount!Axes, axis'[b] = "sky", b = 2 PROVE OnlyOn(pool'.todo, 2)
      BY <1>1, <1>3, <1>8 DEF SkyIsOwned
    <3>1. CASE axis[b] = "sky"
      BY <1>2, <1>5, <1>8, <3>1 DEF SkyIsOwned
    <3>2. CASE cmd = "start" /\ a = b
      BY <1>4, <1>8, <3>2
    <3> QED  BY <2>1, <3>1, <3>2 DEF Modes
  <2>5. ParkIsOwned'
    BY <1>3, <2>1 DEF ParkIsOwned, Modes
  <2>6. ParkedStands'
    BY <1>1, <1>2, <1>3, <2>1 DEF ParkedStands
  <2> QED  BY <1>4, <1>7, <2>2, <2>3, <2>4, <2>5, <2>6 DEF MotionIs
<1>9. CASE /\ cmd = "verify" /\ axis[a] \notin Mount!Gotos /\ UNCHANGED <<axis, mode, pos>>
           /\ IsCall(pool', PoolKinds \cup {"rescue"}) /\ pool'.bad /\ pool'.then = pool.then
           /\ IF a = 1 THEN pool'.m = pool.m /\ pool'.todo = <<>> ELSE pool'.m = "rescue" /\ pool'.todo = StopOne
  <2>1. IsCall(pool', PoolKinds)
    <3>1. PoolKinds \cup {"rescue"} = PoolKinds
      BY DEF PoolKinds
    <3> QED  BY <1>9, <3>1
  <2>2. ParkIsOwned' /\ ParkedStands'
    BY <1>1, <1>2, <1>3, <1>9 DEF ParkIsOwned, ParkedStands
  <2>3. Apart'
    BY <1>1, <1>2, <1>3, <1>9 DEF Apart
  <2>4. CASE a = 1
    <3>1. Formed(<<>>, "sky")
      BY <1>2, <1>6, ShortFormed
    <3>2. Drives(pool', "sky", axis', mode')
      BY <1>9, <2>4, <3>1 DEF Drives, Headed
    <3>3. PoolCallIs'
      BY <1>2, <1>9, <2>1, <2>4, <3>2 DEF PoolCallIs
    <3>4. SkyIsOwned'
      <4>1. axis'[1] # "sky" /\ axis'[2] # "sky"
        BY <1>2, <1>5, <1>6, <1>9, <2>4 DEF SkyIsOwned, Mount!Gotos
      <4> QED  BY <1>6, <4>1 DEF SkyIsOwned
    <3> QED  BY <1>4, <1>7, <2>2, <2>3, <3>3, <3>4 DEF MotionIs
  <2>5. CASE a = 2
    <3>1. PoolCallIs'
      BY <1>2, <1>9, <2>1, <2>5 DEF PoolCallIs
    <3>2. SkyIsOwned'
      BY <1>1, <1>2, <1>3, <1>6, <1>9, <2>5 DEF SkyIsOwned, Mount!Gotos
    <3> QED  BY <1>4, <1>7, <2>2, <2>3, <3>1, <3>2 DEF MotionIs
  <2> QED  BY <1>4, <1>6, <2>4, <2>5
<1> QED  BY <1>4, <1>8, <1>9 DEF cmd, a

\* An exchange of the operation.
LEMMA PoolExchangeStep ==
    ASSUME MotionIs, fails = 0, fails' = 0, Mount!PoolExchange
    PROVE  MotionIs'
<1>1. pool.m \in PoolKinds /\ pool.m # "none"
  BY NoneSent DEF MotionIs, PoolCallIs, IsCall, Mount!PoolExchange
<1> QED  BY <1>1, PoolCalms, PoolRescues, PoolDrives DEF PoolKinds

\* An axis comes to rest, where it went to or where it was stopped.
LEMMA RestStep ==
    ASSUME MotionIs, NEW a \in Mount!Axes, Mount!Arrive(a) \/ Mount!Rest(a)
    PROVE  MotionIs'
<1> USE DEF MotionIs
<1>1. /\ axis[a] \in Mount!Gotos \cup {"slowing"} /\ axis' = [axis EXCEPT ![a] = "still"] /\ mode' = mode
      /\ pos' = pos \/ (\E v \in {"park", "away"} : pos' = [pos EXCEPT ![a] = v])
      /\ UNCHANGED <<parked, parking, main, pool, slew>>
  BY DEF Mount!Arrive, Mount!Rest
<1>2. axis \in AxisMaps /\ mode \in ModeMaps /\ pos \in PosMaps
  BY DEF MotionTypes
<1>3. /\ axis' \in AxisMaps /\ pos' \in PosMaps /\ axis'[a] = "still"
      /\ \A b \in Mount!Axes \ {a} : axis'[b] = axis[b] /\ pos'[b] = pos[b]
  BY <1>1, <1>2 DEF AxisMaps, PosMaps
<1>4. Calmer(axis, axis', pos, pos')
  BY <1>1, <1>3 DEF Calmer, Mount!Gotos
<1>5. MotionTypes' /\ Apart'
  BY <1>1, <1>3 DEF MotionTypes, Apart
<1>6. MainCall' /\ PoolCallIs'
  <2>1. /\ Drives(main, Aim(main), axis, mode) => Drives(main, Aim(main), axis', mode')
        /\ Drives(pool, "sky", axis, mode) => Drives(pool, "sky", axis', mode')
    BY <1>1, <1>4, CalmKeeps
  <2>2. /\ Sees(main, axis, pos) => Sees(main, axis', pos')
        /\ Sees(pool, axis, pos) => Sees(pool, axis', pos')
    BY <1>4, CalmKeeps
  <2> QED  BY <1>1, <2>1, <2>2 DEF MainCall, PoolCallIs
<1>7. \A b \in Mount!Axes : axis'[b] = "still" \/ axis'[b] = axis[b]
  BY <1>3
<1>8. SkyIsOwned' /\ ParkIsOwned'
  BY <1>1, <1>7 DEF SkyIsOwned, ParkIsOwned
<1>9. ParkedStands'
  <2>1. \A b \in Mount!Axes : pos'[b] = "park" => axis'[b] = "still"
    BY <1>3 DEF ParkedStands
  <2>2. parked => a # 2 \/ axis[a] = "still"
    BY DEF ParkedStands
  <2>3. parked => pos'[2] = "park"
    BY <1>1, <1>3, <2>2 DEF ParkedStands, Mount!Axes, Mount!Gotos
  <2>4. axis'[1] \in Mount!Gotos => axis[1] \in Mount!Gotos
    BY <1>7 DEF Mount!Axes, Mount!Gotos
  <2> QED  BY <1>1, <2>1, <2>3, <2>4 DEF ParkedStands
<1> QED  BY <1>5, <1>6, <1>8, <1>9

-----------------------------------------------------------------------------
(* Calls that begin and end.                                               *)

Thens == {"none", "slew", "now", "on", "off", "sync", "here", "site", "goto"}

\* A call that begins.
LEMMA BeginIs ==
    ASSUME NEW m, NEW todo, NEW th \in Thens
    PROVE  Mount!Begin(m, todo, th) =
        [m |-> m, todo |-> todo, bad |-> FALSE, seen |-> [a \in Mount!Axes |-> "away"], then |-> th]
<1> DEFINE away == [a \in Mount!Axes |-> "away"]
<1>1. Mount!NoCall = [m |-> "none", todo |-> <<>>, bad |-> FALSE, seen |-> away, then |-> "none"]
  BY DEF Mount!NoCall
<1>2. Mount!Begin(m, todo, th) = [Mount!NoCall EXCEPT !.m = m, !.todo = todo, !.then = th]
  BY DEF Mount!Begin
<1> HIDE DEF away
<1>3. Mount!Begin(m, todo, th) = [m |-> m, todo |-> todo, bad |-> FALSE, seen |-> away, then |-> th]
  BY <1>1, <1>2
<1> QED  BY <1>3 DEF away

Begun(c, m, todo, th) == c.m = m /\ c.todo = todo /\ c.bad = FALSE /\ c.then = th

LEMMA BeginCall ==
    ASSUME NEW m, NEW todo, NEW th \in Thens
    PROVE  /\ Begun(Mount!Begin(m, todo, th), m, todo, th)
           /\ \A ms : m \in ms => IsCall(Mount!Begin(m, todo, th), ms)
<1> DEFINE away == [a \in Mount!Axes |-> "away"]
           c == Mount!Begin(m, todo, th)
<1>1. away \in [Mount!Axes -> {"moves", "park", "away"}]
  OBVIOUS
<1>2. c = [m |-> m, todo |-> todo, bad |-> FALSE, seen |-> away, then |-> th]
  BY BeginIs
<1> HIDE DEF away, c
<1>3. c.m = m /\ c.todo = todo /\ c.bad = FALSE /\ c.seen = away /\ c.then = th
  BY <1>2
<1>4. c = [m |-> c.m, todo |-> c.todo, bad |-> c.bad, seen |-> c.seen, then |-> c.then]
  BY <1>2, <1>3
<1>5. th \in {"none", "slew", "now", "on", "off", "sync", "here", "site", "goto"}
  BY DEF Thens
<1>6. ASSUME NEW ms, m \in ms PROVE IsCall(c, ms)
  BY <1>1, <1>3, <1>4, <1>5, <1>6 DEF IsCall
<1>7. Begun(c, m, todo, th)
  BY <1>3 DEF Begun
<1> QED  BY <1>6, <1>7 DEF c

\* No call at all.
LEMMA NoCallIs ==
    LET c == Mount!NoCall
    IN c.m = "none" /\ c.todo = <<>> /\ c.then = "none" /\ c.bad = FALSE /\ \A ms : "none" \in ms => IsCall(c, ms)
<1>1. Mount!NoCall =
        [m |-> "none", todo |-> <<>>, bad |-> FALSE, seen |-> [a \in Mount!Axes |-> "away"], then |-> "none"]
  BY DEF Mount!NoCall
<1>2. [a \in Mount!Axes |-> "away"] \in [Mount!Axes -> {"moves", "park", "away"}]
  OBVIOUS
<1> QED  BY <1>1, <1>2 DEF IsCall

\* Reads of both axes, and halts of both.
LEMMA BothAre ==
    /\ Mount!Both("read") \in Reads /\ Mount!Both("read") # <<>>
    /\ Mount!Both("read") = <<<<"read", 1>>, <<"read", 2>>>>
    /\ Mount!AbortAxes \in Halts /\ <<>> \in Halts
    /\ \A a \in Mount!Axes : Contains(Mount!AbortAxes, <<"halt", a>>)
<1>1. Mount!AbortAxes = <<<<"halt", 1>>, <<"halt", 2>>, <<"wait", 1>>, <<"wait", 2>>>>
  <2> DEFINE s == <<<<"halt", 1>>, <<"halt", 2>>>>
             t == <<<<"wait", 1>>, <<"wait", 2>>>>
             u == <<<<"halt", 1>>, <<"halt", 2>>, <<"wait", 1>>, <<"wait", 2>>>>
             X == {"halt", "wait"} \X {1, 2}
  <2>1. Mount!AbortAxes = s \o t
    BY DEF Mount!AbortAxes, Mount!Both
  <2>2. s \in Seq(X) /\ t \in Seq(X) /\ u \in Seq(X) /\ Len(s) = 2 /\ Len(t) = 2 /\ Len(u) = 4
    OBVIOUS
  <2>3. u[1] = s[1] /\ u[2] = s[2] /\ u[3] = t[1] /\ u[4] = t[2]
    OBVIOUS
  <2> HIDE DEF s, t, u, X
  <2>4. /\ s \o t \in Seq(X) /\ Len(s \o t) = Len(s) + Len(t)
        /\ \A i \in 1 .. Len(s) + Len(t) : (s \o t)[i] = IF i <= Len(s) THEN s[i] ELSE t[i - Len(s)]
    BY <2>2, ConcatProperties
  <2>5. /\ (s \o t)[1] = s[1] /\ (s \o t)[2] = s[2]
        /\ (s \o t)[3] = t[1] /\ (s \o t)[4] = t[2]
    BY <2>2, <2>4
  <2>6. ASSUME NEW i \in 1 .. 4 PROVE (s \o t)[i] = u[i]
    <3>1. i = 1 \/ i = 2 \/ i = 3 \/ i = 4
      OBVIOUS
    <3> QED  BY <2>3, <2>5, <3>1
  <2>7. Len(s \o t) = 4 /\ 1 .. Len(s \o t) = 1 .. 4
    BY <2>2, <2>4
  <2>8. s \o t = u
    BY <2>2, <2>4, <2>6, <2>7, SeqEqual
  <2> QED  BY <2>1, <2>8 DEF u
<1>2. Mount!Both("read") = <<<<"read", 1>>, <<"read", 2>>>>
  BY DEF Mount!Both
<1>3. ASSUME NEW a \in Mount!Axes PROVE Contains(Mount!AbortAxes, <<"halt", a>>)
  <2>1. a \in {1, 2}
    BY DEF Mount!Axes
  <2>2. /\ Len(Mount!AbortAxes) = 4
        /\ Mount!AbortAxes[1] = <<"halt", 1>> /\ Mount!AbortAxes[2] = <<"halt", 2>>
    BY <1>1
  <2>3. 1 \in 1 .. Len(Mount!AbortAxes) /\ 2 \in 1 .. Len(Mount!AbortAxes)
    BY <2>2
  <2> QED  BY <2>1, <2>2, <2>3 DEF Contains
<1> QED  BY <1>1, <1>2, <1>3 DEF Reads, Halts

\* The calls that may begin while the mount is parked or goes to park.
Light(c) ==
    \/ c = Mount!NoCall
    \/ \E th \in Thens : c = Mount!Look(th)
    \/ \E todo \in {<<>>, Mount!Both("read")}, th \in {"none", "sync", "site"} : c = Mount!Begin("look", todo, th)
    \/ c = Mount!Begin("refused", Mount!Both("read"), "none")
    \/ \E on \in BOOLEAN : c = Mount!Begin("track", Mount!Turn(1, on), "none")
    \/ c = Mount!Begin("goto", Mount!GotoAxes("alone"), "none")

\* A call of the main thread that begins.
LEMMA MainBegins ==
    ASSUME NEW m, m \in {"status", "look", "refused", "track", "goto", "park", "manual", "abort", "unpark"},
           NEW todo, NEW th \in Thens, NEW c, c = Mount!Begin(m, todo, th)
    PROVE  Begun(c, m, todo, th) /\ IsCall(c, MainKinds)
<1>1. m \in MainKinds
  BY DEF MainKinds, Movers
<1> QED  BY <1>1, BeginCall

\* They are calls of the main thread.
LEMMA LightCall ==
    ASSUME NEW c, Light(c), NEW ax, NEW mo, NEW po
    PROVE  /\ IsCall(c, MainKinds) /\ c.m \in {"none", "status", "look", "refused", "track", "goto"}
           /\ c.m \notin {"status", "look"} => c.then = "none"
           /\ c.m = "look" => c.then \in {"none", "sync", "site"}
           /\ c.m = "none" => c = Mount!NoCall
           /\ c.m = "status" => Sees(c, ax, po)
           /\ c.m \in {"look", "refused"} => Looks(c)
           /\ c.m \in {"track", "goto"} => Drives(c, Aim(c), ax, mo)
           /\ c.m = "track" => OnlyOn(c.todo, 1)
           /\ c.m = "goto" => c = Mount!Begin("goto", Mount!GotoAxes("alone"), "none")
<1>1. CASE c = Mount!NoCall
  BY <1>1, NoCallIs DEF MainKinds
<1>2. ASSUME NEW th \in Thens, c = Mount!Look(th)
      PROVE  IsCall(c, MainKinds) /\ c.m = "status" /\ Sees(c, ax, po)
  <2>1. c = Mount!Begin("status", Mount!Both("read"), th)
    BY <1>2 DEF Mount!Look
  <2>2. Begun(c, "status", Mount!Both("read"), th) /\ IsCall(c, MainKinds)
    BY <2>1, MainBegins
  <2> QED  BY <2>2, BothAre DEF Begun, Sees, Looks
<1>3. ASSUME NEW todo \in {<<>>, Mount!Both("read")}, NEW th \in {"none", "sync", "site"},
             c = Mount!Begin("look", todo, th)
      PROVE  IsCall(c, MainKinds) /\ c.m = "look" /\ c.then \in {"none", "sync", "site"} /\ Looks(c)
  <2>1. th \in Thens
    BY DEF Thens
  <2>2. Begun(c, "look", todo, th) /\ IsCall(c, MainKinds)
    BY <1>3, <2>1, MainBegins
  <2> QED  BY <2>2, BothAre DEF Begun, Looks, Reads
<1>4. ASSUME c = Mount!Begin("refused", Mount!Both("read"), "none")
      PROVE  IsCall(c, MainKinds) /\ c.m = "refused" /\ c.then = "none" /\ Looks(c)
  <2>1. "none" \in Thens
    BY DEF Thens
  <2>2. Begun(c, "refused", Mount!Both("read"), "none") /\ IsCall(c, MainKinds)
    BY <1>4, <2>1, MainBegins
  <2> QED  BY <2>2, BothAre DEF Begun, Looks
<1>5. ASSUME NEW on \in BOOLEAN, c = Mount!Begin("track", Mount!Turn(1, on), "none")
      PROVE  /\ IsCall(c, MainKinds) /\ c.m = "track" /\ c.then = "none"
             /\ Drives(c, Aim(c), ax, mo) /\ OnlyOn(c.todo, 1)
  <2> DEFINE s == Mount!Turn(1, on)
  <2>0. "none" \in Thens
    BY DEF Thens
  <2>9. Begun(c, "track", s, "none") /\ IsCall(c, MainKinds)
    BY <1>5, <2>0, MainBegins
  <2>1. c.m = "track" /\ c.todo = s /\ c.bad = FALSE /\ IsCall(c, MainKinds) /\ c.then = "none"
    BY <2>9 DEF Begun
  <2>2. s \in {<<<<"stop", 1>>>>, <<<<"stop", 1>>, <<"wait", 1>>, <<"turn", 1>>, <<"start", 1>>>>}
    BY DEF Mount!Turn
  <2>3. Aim(c) = "turn" /\ "turn" \in Modes /\ 1 \in Mount!Axes
    BY <2>1 DEF Aim, Modes, Mount!Axes
  <2>4. Formed(s, "turn")
    BY <2>2, <2>3, ShortFormed
  <2>5. OnlyOn(s, 1) /\ s[1] = <<"stop", 1>>
    <3>1. CASE s = <<<<"stop", 1>>>>
      BY <3>1 DEF OnlyOn
    <3>2. CASE s = <<<<"stop", 1>>, <<"wait", 1>>, <<"turn", 1>>, <<"start", 1>>>>
      BY <3>2 DEF OnlyOn
    <3> QED  BY <2>2, <3>1, <3>2
  <2> HIDE DEF s
  <2> QED  BY <2>1, <2>3, <2>4, <2>5 DEF Drives, Headed
<1>6. ASSUME c = Mount!Begin("goto", Mount!GotoAxes("alone"), "none")
      PROVE  IsCall(c, MainKinds) /\ c.m = "goto" /\ c.then = "none" /\ Drives(c, Aim(c), ax, mo)
  <2>0. "none" \in Thens
    BY DEF Thens
  <2>9. Begun(c, "goto", Mount!GotoAxes("alone"), "none") /\ IsCall(c, MainKinds)
    BY <1>6, <2>0, MainBegins
  <2>1. c.m = "goto" /\ c.todo = Mount!GotoAxes("alone") /\ c.bad = FALSE /\ IsCall(c, MainKinds) /\ c.then = "none"
    BY <2>9 DEF Begun
  <2>2. Aim(c) = "alone" /\ "alone" \in Mount!Gotos
    BY <2>1 DEF Aim, Mount!Gotos
  <2>3. Formed(c.todo, "alone") /\ c.todo[1] = <<"read", 1>>
    BY <2>1, <2>2, GotoFormed
  <2> QED  BY <2>1, <2>2, <2>3 DEF Drives, Headed
<1> QED  BY <1>1, <1>2, <1>3, <1>4, <1>5, <1>6 DEF Light

\* What is so of the flags and the axes whenever the main thread is between two calls.
FlagsAreSo(pk, pg) ==
    /\ pk \in BOOLEAN /\ pg \in BOOLEAN
    /\ pk => pos[2] = "park" /\ axis[1] \notin Mount!Gotos
    /\ \A a \in Mount!Axes : axis[a] = "park" => pg /\ slew = "none"
    /\ slew # "none" => ~pk /\ ~pg

\* Such a call begins, with flags that are so.
LEMMA LightBegins ==
    ASSUME MotionIs, UNCHANGED <<axis, mode, pos, pool>>, FlagsAreSo(parked', parking'),
           Light(main'), main'.m = "goto" => ~parked' /\ ~parking',
           slew' = slew \/ (slew = "none" /\ slew' = "starting" /\ ~parked' /\ ~parking'),
           pool.m \in {"none", "abort"} \/ main' = Mount!NoCall,
           slew' # "none" => main'.m \in {"none", "status", "look"} /\ main'.then = "none"
    PROVE  MotionIs'
<1> USE DEF MotionIs
<1> DEFINE c == main'
<1>1. /\ IsCall(c, MainKinds) /\ c.m \in {"none", "status", "look", "refused", "track", "goto"}
      /\ c.m \notin {"status", "look"} => c.then = "none"
      /\ c.m = "look" => c.then \in {"none", "sync", "site"}
      /\ c.m = "none" => c = Mount!NoCall
      /\ c.m = "status" => Sees(c, axis, pos)
      /\ c.m \in {"look", "refused"} => Looks(c)
      /\ c.m \in {"track", "goto"} => Drives(c, Aim(c), axis, mode)
      /\ c.m = "track" => OnlyOn(c.todo, 1)
  BY LightCall
<1>2. MainCall'
  BY <1>1 DEF MainCall, Movers
<1>3. MotionTypes' /\ PoolCallIs'
  BY DEF MotionTypes, PoolCallIs, FlagsAreSo
<1>4. Apart'
  BY <1>1, NoCallIs DEF Apart, FlagsAreSo
<1>5. SkyIsOwned'
  BY DEF SkyIsOwned
<1>6. ParkIsOwned' /\ ParkedStands'
  BY <1>1 DEF ParkIsOwned, ParkedStands, FlagsAreSo
<1> QED  BY <1>2, <1>3, <1>4, <1>5, <1>6

\* Between calls the flags are so.
LEMMA FlagsNow == ASSUME MotionIs, main.m = "none" PROVE FlagsAreSo(parked, parking)
BY DEF MotionIs, MotionTypes, FlagsAreSo, ParkIsOwned, ParkedStands, Apart

\* And they are once a call has ended and they are set for it.
LEMMA FlagsThen ==
    ASSUME MotionIs, main.todo = <<>>, main.m # "none"
    PROVE  LET f == Mount!Flags(main)
           IN /\ f = [parked |-> f.parked, parking |-> f.parking] /\ FlagsAreSo(f.parked, f.parking)
              /\ main.m = "unpark" /\ ~main.bad => ~f.parked /\ ~f.parking
<1> DEFINE f == Mount!Flags(main)
<1> USE DEF MotionIs
<1>1. \A x : ~Contains(<<>>, x)
  BY DEF Contains
<1>2. <<>> # StopOne
  BY DEF StopOne
<1>3. slew # "none" => ~parked /\ ~parking
  BY DEF Apart
<1>4. CASE Mount!Settles(main)
  <2>1. /\ main.m = "status" /\ ~main.bad /\ parking /\ \A a \in Mount!Axes : main.seen[a] # "moves"
        /\ f = [parked |-> \A a \in Mount!Axes : main.seen[a] = "park", parking |-> FALSE]
    BY <1>4 DEF Mount!Settles, Mount!Flags
  <2>2. \A a \in Mount!Axes : axis[a] = "still" /\ (main.seen[a] = "park" => pos[a] = "park")
    BY <2>1 DEF MainCall, Sees, Saw, Mount!Axes
  <2> QED  BY <1>3, <2>1, <2>2 DEF FlagsAreSo, Mount!Axes, Mount!Gotos
<1>5. CASE ~Mount!Settles(main) /\ main.m = "park" /\ ~main.bad
  <2>1. f = [parked |-> FALSE, parking |-> TRUE]
    BY <1>5 DEF Mount!Flags
  <2>2. slew = "none"
    BY <1>5 DEF Apart
  <2> QED  BY <1>5, <2>1, <2>2 DEF FlagsAreSo
<1>6. CASE ~Mount!Settles(main) /\ main.m \in {"abort", "unpark"} /\ ~main.bad
  <2>1. f = [parked |-> FALSE, parking |-> FALSE]
    BY <1>6 DEF Mount!Flags, Mount!NoFlags
  <2>2. \A a \in Mount!Axes : axis[a] # "park"
    BY <1>1, <1>6 DEF ParkIsOwned
  <2> QED  BY <2>1, <2>2 DEF FlagsAreSo
<1>7. CASE ~Mount!Settles(main) /\ ~(main.m \in {"park", "abort", "unpark"} /\ ~main.bad)
  <2>1. f = [parked |-> parked, parking |-> parking]
    BY <1>7 DEF Mount!Flags, Mount!AreFlags
  <2>2. parked => pos[2] = "park" /\ axis[1] \notin Mount!Gotos
    BY <1>7 DEF ParkedStands
  <2>3. \A a \in Mount!Axes : axis[a] = "park" => parking /\ slew = "none"
    BY <1>1, <1>2, <1>7 DEF ParkIsOwned
  <2>4. parked \in BOOLEAN /\ parking \in BOOLEAN
    BY DEF MotionTypes
  <2> QED  BY <1>3, <1>7, <2>1, <2>2, <2>3, <2>4 DEF FlagsAreSo
<1> QED  BY <1>4, <1>5, <1>6, <1>7 DEF Mount!Settles

\* A call that begins, whatever it is, with flags that are so.
LEMMA CallBegins ==
    ASSUME MotionIs, UNCHANGED <<axis, mode, pos, pool, slew>>, FlagsAreSo(parked', parking'), MainCall',
           slew # "none" => main'.m = "abort",
           main'.m \in {"abort", "unpark", "park"},
           ~main'.bad,
           main'.m \in {"abort", "unpark"} => \A a \in Mount!Axes : Contains(main'.todo, <<"halt", a>>) \/ axis[a] # "park",
           main'.m = "park" /\ parked' =>
               \A k \in 1 .. Len(main'.todo) : main'.todo[k][2] = 2 => main'.todo[k][1] = "read"
    PROVE  MotionIs'
<1> USE DEF MotionIs
<1>1. MotionTypes' /\ PoolCallIs'
  BY DEF MotionTypes, PoolCallIs, FlagsAreSo
<1>2. Apart'
  BY DEF Apart, FlagsAreSo
<1>3. SkyIsOwned'
  BY DEF SkyIsOwned
<1>4. ParkIsOwned' /\ ParkedStands'
  BY DEF ParkIsOwned, ParkedStands, FlagsAreSo
<1> QED  BY <1>1, <1>2, <1>3, <1>4

\* The calls that halt both axes.
LEMMA HaltBegins ==
    ASSUME NEW m \in {"abort", "unpark"}, NEW th, th \in {"none", "slew", "now"}, m = "abort" => th = "none",
           NEW todo \in {<<>>, Mount!AbortAxes}, main' = Mount!Begin(m, todo, th)
    PROVE  /\ MainCall' /\ main'.m = m /\ main'.todo = todo /\ ~main'.bad
           /\ todo = Mount!AbortAxes => \A a \in Mount!Axes : Contains(main'.todo, <<"halt", a>>)
<1> DEFINE c == main'
<1>1. th \in Thens
  BY DEF Thens
<1>2. Begun(c, m, todo, th) /\ IsCall(c, MainKinds)
  BY <1>1, MainBegins
<1>3. c.m = m /\ c.todo = todo /\ c.bad = FALSE /\ c.then = th /\ c.todo \in Halts
  BY <1>2, BothAre DEF Begun
<1>4. MainCall'
  BY <1>2, <1>3 DEF MainCall, Movers
<1> QED  BY <1>3, <1>4, BothAre

\* To unpark.
LEMMA UnparkBegins ==
    ASSUME MotionIs, NEW th, th \in {"none", "slew", "now"}, NEW f, FlagsAreSo(f.parked, f.parking),
           Mount!UnparkThen(th, f), UNCHANGED <<axis, mode, pos, pool, slew>>, slew = "none"
    PROVE  MotionIs'
<1>1. CASE f.parking
  <2>1. main' = Mount!Begin("unpark", Mount!AbortAxes, th) /\ parked' = f.parked /\ parking' = f.parking
    BY <1>1 DEF Mount!UnparkThen, Mount!SetFlags
  <2>2. MainCall' /\ main'.m = "unpark" /\ ~main'.bad /\ \A a \in Mount!Axes : Contains(main'.todo, <<"halt", a>>)
    BY <2>1, HaltBegins
  <2> QED  BY <2>1, <2>2, CallBegins
<1>2. CASE ~f.parking
  <2>1. main' = Mount!Begin("unpark", <<>>, th) /\ parked' = FALSE /\ parking' = FALSE
    BY <1>2 DEF Mount!UnparkThen, Mount!SetFlags, Mount!NoFlags
  <2>2. MainCall' /\ main'.m = "unpark" /\ ~main'.bad
    BY <2>1, HaltBegins
  <2>3. FlagsAreSo(parked', parking') /\ \A a \in Mount!Axes : axis[a] # "park"
    BY <1>2, <2>1 DEF FlagsAreSo
  <2> QED  BY <2>1, <2>2, <2>3, CallBegins
<1> QED  BY <1>1, <1>2

\* A program follows the one or four commands that turn or stop axis 1.
LEMMA FollowsFirst ==
    ASSUME NEW on, on \in BOOLEAN, NEW t, NEW to \in Modes, Formed(t, to), Readies(t), on => to = "turn"
    PROVE  LET u == Mount!Turn(1, on) \o t
           IN /\ Formed(u, to) /\ u[1] = <<"stop", 1>> /\ Contains(u, <<"stop", 1>>) /\ u # <<>>
              /\ \A x : Contains(t, x) => Contains(u, x)
              /\ \A k \in 1 .. Len(u) : u[k][2] = 2 => Contains(t, u[k])
<1> DEFINE s == Mount!Turn(1, on)
           X == (Sends \cup {to}) \X Mount!Axes
           u == s \o t
<1>1. 1 \in Mount!Axes
  BY DEF Mount!Axes
<1>2. Formed(s, to)
  BY <1>1, ShortFormed DEF Mount!Turn
<1>3. /\ s \in Seq(X) /\ Len(s) \in Nat /\ Len(s) > 0 /\ s[1] = <<"stop", 1>>
      /\ \A k \in 1 .. Len(s) : s[k][2] = 1
  <2>1. CASE on
    <3>1. s = <<<<"stop", 1>>, <<"wait", 1>>, <<"turn", 1>>, <<"start", 1>>>>
      BY <2>1 DEF Mount!Turn
    <3>2. \A k \in 1 .. 4 : s[k][2] = 1
      BY <3>1
    <3>3. Len(s) = 4 /\ s[1] = <<"stop", 1>>
      BY <3>1
    <3> HIDE DEF s
    <3> QED  BY <1>2, <3>2, <3>3 DEF Formed
  <2>2. CASE ~on
    <3>1. s = <<<<"stop", 1>>>>
      BY <2>2 DEF Mount!Turn
    <3>2. \A k \in 1 .. 1 : s[k][2] = 1
      BY <3>1
    <3>3. Len(s) = 1 /\ s[1] = <<"stop", 1>>
      BY <3>1
    <3> HIDE DEF s
    <3> QED  BY <1>2, <3>2, <3>3 DEF Formed
  <2> QED  BY <2>1, <2>2
<1>4. t \in Seq(X) /\ Len(t) \in Nat
  BY DEF Formed
<1> HIDE DEF s
<1>5. Formed(s \o t, to)
  <2>1. \A j \in 1 .. Len(s) : s[j][2] = 2 => s[j][1] = "read"
    BY <1>3
  <2> QED  BY <1>2, <2>1, JoinFormed
<1>6. /\ Len(u) = Len(s) + Len(t)
      /\ \A k \in 1 .. Len(u) : u[k] = IF k <= Len(s) THEN s[k] ELSE t[k - Len(s)]
  <2> HIDE DEF X
  <2> QED  BY <1>3, <1>4
<1> HIDE DEF u
<1>7. 1 \in 1 .. Len(u) /\ u[1] = <<"stop", 1>>
  BY <1>3, <1>4, <1>6
<1>8. ASSUME NEW x, Contains(t, x) PROVE Contains(u, x)
  <2>1. PICK k \in 1 .. Len(t) : t[k] = x
    BY <1>8 DEF Contains
  <2>2. k + Len(s) \in 1 .. Len(u) /\ ~(k + Len(s) <= Len(s)) /\ (k + Len(s)) - Len(s) = k
    BY <1>3, <1>4, <1>6
  <2>3. u[k + Len(s)] = x
    BY <1>6, <2>1, <2>2
  <2> QED  BY <2>2, <2>3 DEF Contains
<1>9. ASSUME NEW k \in 1 .. Len(u), u[k][2] = 2 PROVE Contains(t, u[k])
  <2>1. ~(k <= Len(s))
    <3> SUFFICES ASSUME k <= Len(s) PROVE FALSE
      OBVIOUS
    <3>1. k \in 1 .. Len(s) /\ u[k] = s[k]
      BY <1>3, <1>4, <1>6
    <3> QED  BY <1>3, <1>9, <3>1
  <2>2. k - Len(s) \in 1 .. Len(t) /\ u[k] = t[k - Len(s)]
    BY <1>3, <1>4, <1>6, <2>1
  <2> QED  BY <2>2 DEF Contains
<1>10. u # <<>>
  BY <1>7, EmptySeq
<1>11. Contains(u, <<"stop", 1>>)
  BY <1>7 DEF Contains
<1> QED  BY <1>5, <1>7, <1>8, <1>9, <1>10, <1>11 DEF u, s

\* A park slew begins.
LEMMA ParkBegins ==
    ASSUME MotionIs, main.m = "none", slew = "none", UNCHANGED <<axis, mode, pos, pool, slew, parked, parking>>,
           main' = Mount!Begin("park", <<<<"stop", 1>>>> \o Mount!GotoAxes("park"), "none")
    PROVE  MotionIs'
<1> USE DEF MotionIs
<1> DEFINE c == main'
           t == Mount!GotoAxes("park")
           u == Mount!Turn(1, FALSE) \o t
<1>1. "park" \in Mount!Gotos /\ "park" \in Modes /\ "none" \in Thens /\ FALSE \in BOOLEAN
  BY DEF Mount!Gotos, Modes, Thens
<1>2. /\ Formed(t, "park") /\ t # <<>> /\ t[1] = <<"read", 1>>
      /\ pos[2] = "park" /\ axis[2] = "still" => \A k \in 1 .. Len(t) : t[k][2] = 2 => t[k][1] = "read"
  BY <1>1, GotoFormed
<1>3. Readies(t)
  BY <1>2 DEF Readies
<1>4. c = Mount!Begin("park", u, "none")
  BY DEF Mount!Turn
<1> HIDE DEF t
<1>5. /\ Formed(u, "park") /\ u[1] = <<"stop", 1>> /\ u # <<>>
      /\ \A k \in 1 .. Len(u) : u[k][2] = 2 => Contains(t, u[k])
  BY <1>1, <1>2, <1>3, FollowsFirst
<1> HIDE DEF u
<1>6. Begun(c, "park", u, "none") /\ IsCall(c, MainKinds)
  BY <1>1, <1>4, MainBegins
<1>7. c.m = "park" /\ c.todo = u /\ c.bad = FALSE /\ c.then = "none" /\ Aim(c) = "park"
  BY <1>6 DEF Begun, Aim
<1>8. Drives(c, Aim(c), axis', mode')
  BY <1>5, <1>7 DEF Drives, Headed
<1>9. MainCall'
  BY <1>6, <1>7, <1>8 DEF MainCall, Movers
<1>10. ASSUME parked, NEW k \in 1 .. Len(u), u[k][2] = 2 PROVE u[k][1] = "read"
  <2>1. pos[2] = "park" /\ axis[2] = "still"
    BY <1>10 DEF ParkedStands, Mount!Axes
  <2>2. PICK i \in 1 .. Len(t) : t[i] = u[k]
    BY <1>5, <1>10 DEF Contains
  <2> QED  BY <1>2, <1>10, <2>1, <2>2
<1>11. FlagsAreSo(parked', parking')
  BY FlagsNow
<1> QED  BY <1>7, <1>9, <1>10, <1>11, CallBegins

\* The axes are turned by hand.
LEMMA ManualStep ==
    ASSUME MotionIs, NEW on \in BOOLEAN, NEW a \in Mount!Axes, Mount!Manual(a, on)
    PROVE  MotionIs'
<1> USE DEF MotionIs
<1> DEFINE c == main'
           x == (on /\ a = 1)
           y == (on /\ a = 2)
           t == Mount!Turn(2, y)
           u == Mount!Turn(1, x) \o t
<1>1. /\ c = Mount!Begin("manual", u, "none") /\ parked' = FALSE /\ parking' = FALSE
      /\ main.m = "none" /\ slew = "none" /\ UNCHANGED <<axis, mode, pos, pool, slew>>
  BY DEF Mount!Manual, Mount!RequestIdle, Mount!Request, Mount!Ready, Mount!Quiet, Mount!SetFlags, Mount!NoFlags
<1>2. "turn" \in Modes /\ "none" \in Thens /\ x \in BOOLEAN /\ y \in BOOLEAN /\ 2 \in Mount!Axes
  BY DEF Modes, Thens, Mount!Axes
<1>3. Formed(t, "turn") /\ Readies(t) /\ Contains(t, <<"stop", 2>>)
  <2>1. CASE y
    <3>1. t = <<<<"stop", 2>>, <<"wait", 2>>, <<"turn", 2>>, <<"start", 2>>>>
      BY <2>1 DEF Mount!Turn
    <3>2. t[1] = <<"stop", 2>> /\ Len(t) = 4 /\ 1 \in 1 .. Len(t)
      BY <3>1
    <3>3. Formed(t, "turn")
      BY <1>2, <3>1, ShortFormed
    <3> HIDE DEF t
    <3> QED  BY <3>2, <3>3 DEF Readies, Contains
  <2>2. CASE ~y
    <3>1. t = <<<<"stop", 2>>>>
      BY <2>2 DEF Mount!Turn
    <3>2. t[1] = <<"stop", 2>> /\ Len(t) = 1 /\ 1 \in 1 .. Len(t)
      BY <3>1
    <3>3. Formed(t, "turn")
      BY <1>2, <3>1, ShortFormed
    <3> HIDE DEF t
    <3> QED  BY <3>2, <3>3 DEF Readies, Contains
  <2> QED  BY <2>1, <2>2
<1> HIDE DEF t, x, y
<1>4. /\ Formed(u, "turn") /\ u[1] = <<"stop", 1>> /\ Contains(u, <<"stop", 1>>) /\ u # <<>>
      /\ Contains(u, <<"stop", 2>>)
  BY <1>2, <1>3, FollowsFirst
<1> HIDE DEF u
<1>5. Begun(c, "manual", u, "none") /\ IsCall(c, MainKinds)
  BY <1>1, <1>2, MainBegins
<1>6. c.m = "manual" /\ c.todo = u /\ c.bad = FALSE /\ c.then = "none" /\ Aim(c) = "turn"
  BY <1>5 DEF Begun, Aim
<1>7. Drives(c, Aim(c), axis', mode')
  BY <1>4, <1>6 DEF Drives, Headed
<1>8. MainCall'
  BY <1>1, <1>5, <1>6, <1>7 DEF MainCall, Movers
<1>9. MotionTypes' /\ PoolCallIs' /\ SkyIsOwned'
  BY <1>1 DEF MotionTypes, PoolCallIs, SkyIsOwned
<1>10. Apart'
  BY <1>1 DEF Apart
<1>11. ParkIsOwned' /\ ParkedStands'
  BY <1>1, <1>4, <1>6 DEF ParkIsOwned, ParkedStands, Mount!Axes
<1> QED  BY <1>8, <1>9, <1>10, <1>11

\* What may follow a call is light, and nothing follows one that has nothing to do next.
LEMMA AfterIs ==
    ASSUME NEW c, NEW f, f.parked \in BOOLEAN, f.parking \in BOOLEAN, NEW x \in Mount!After(c, f)
    PROVE  /\ Light(x) /\ (x.m = "goto" => ~f.parked /\ ~f.parking)
           /\ c.then \in {"none", "slew"} => x = Mount!NoCall
<1>1. ASSUME x = Mount!NoCall PROVE Light(x) /\ x.m # "goto"
  BY <1>1, NoCallIs DEF Light
<1>2. ASSUME NEW th \in {"none", "goto"}, x = Mount!Look(th) PROVE Light(x) /\ x.m # "goto"
  <2>1. th \in Thens
    BY DEF Thens
  <2>2. x = Mount!Begin("status", Mount!Both("read"), th)
    BY <1>2 DEF Mount!Look
  <2>3. Begun(x, "status", Mount!Both("read"), th)
    BY <2>1, <2>2, MainBegins
  <2>4. x.m # "goto"
    BY <2>3 DEF Begun
  <2> QED  BY <1>2, <2>1, <2>4 DEF Light
<1>3. ASSUME x = Mount!SyncTo PROVE Light(x) /\ x.m # "goto"
  <2>1. x = Mount!Begin("look", Mount!Both("read"), "sync") /\ "sync" \in Thens
    BY <1>3 DEF Mount!SyncTo, Thens
  <2>2. Begun(x, "look", Mount!Both("read"), "sync")
    BY <2>1, MainBegins
  <2>3. x.m # "goto"
    BY <2>2 DEF Begun
  <2> QED  BY <2>1, <2>3 DEF Light
<1>4. ASSUME NEW on \in BOOLEAN, x \in Mount!SetTracking(on, f) PROVE Light(x) /\ x.m # "goto"
  <2>1. x = Mount!Begin("track", Mount!Turn(1, on), "none") /\ "none" \in Thens
    BY <1>4 DEF Mount!SetTracking, Thens
  <2>2. Begun(x, "track", Mount!Turn(1, on), "none")
    BY <2>1, MainBegins
  <2>3. x.m # "goto"
    BY <2>2 DEF Begun
  <2> QED  BY <2>1, <2>3 DEF Light
<1>5. ASSUME x \in Mount!SlewTo("alone", f) PROVE Light(x) /\ ~f.parked /\ ~f.parking
  BY <1>5 DEF Mount!SlewTo, Light
<1>6. CASE c.then \in {"none", "slew"}
  <2>1. x = Mount!NoCall
    BY <1>6 DEF Mount!After
  <2> QED  BY <1>1, <2>1
<1>7. CASE c.then \notin {"none", "slew"}
  <2>1. \/ x = Mount!NoCall \/ (\E th \in {"none", "goto"} : x = Mount!Look(th)) \/ x = Mount!SyncTo
        \/ (\E on \in BOOLEAN : x \in Mount!SetTracking(on, f)) \/ x \in Mount!SlewTo("alone", f)
    BY <1>7 DEF Mount!After
  <2> QED  BY <1>1, <1>2, <1>3, <1>4, <1>5, <1>7, <2>1
<1> QED  BY <1>6, <1>7

\* A call of the main thread is over.
LEMMA MainDoneStep == ASSUME MotionIs, Mount!MainDone PROVE MotionIs'
<1> USE DEF MotionIs
<1> DEFINE f == Mount!Flags(main)
<1>1. /\ main.m # "none" /\ main.todo = <<>> /\ UNCHANGED <<axis, mode, pos, pool>>
      /\ IF main.m = "status" /\ main.then \in {"slew", "now"} /\ ~main.bad /\ (f.parked \/ f.parking)
         THEN Mount!UnparkThen(main.then, f) /\ UNCHANGED slew
         ELSE /\ parked' = f.parked /\ parking' = f.parking /\ main' \in Mount!After(main, f)
              /\ slew' = IF main.then = "slew" /\ (main.m = "unpark" => ~main.bad) /\ slew = "none"
                         THEN "starting" ELSE slew
  BY DEF Mount!MainDone, Mount!SetFlags
<1>2. FlagsAreSo(f.parked, f.parking) /\ (main.m = "unpark" /\ ~main.bad => ~f.parked /\ ~f.parking)
  BY <1>1, FlagsThen
<1>3. f.parked \in BOOLEAN /\ f.parking \in BOOLEAN
  BY <1>2 DEF FlagsAreSo
<1>4. slew # "none" => main.then = "none"
  BY <1>1 DEF Apart, MainCall
<1>5. pool.m \in {"none", "abort"} \/ main.then = "none"
  BY <1>1 DEF PoolCallIs, IsCall, PoolKinds, Apart, MainCall
<1>6. main.then = "slew" => \/ main.m = "unpark"
                            \/ main.m = "status" /\ ~main.bad
  BY DEF MainCall, Sees, Looks
<1> HIDE DEF f
<1>7. CASE main.m = "status" /\ main.then \in {"slew", "now"} /\ ~main.bad /\ (f.parked \/ f.parking)
  <2>1. slew = "none" /\ Mount!UnparkThen(main.then, f) /\ slew' = slew
    BY <1>1, <1>4, <1>7
  <2> QED  BY <1>1, <1>2, <1>7, <2>1, UnparkBegins
<1>8. CASE ~(main.m = "status" /\ main.then \in {"slew", "now"} /\ ~main.bad /\ (f.parked \/ f.parking))
  <2>1. /\ parked' = f.parked /\ parking' = f.parking /\ main' \in Mount!After(main, f)
        /\ slew' = IF main.then = "slew" /\ (main.m = "unpark" => ~main.bad) /\ slew = "none"
                   THEN "starting" ELSE slew
    BY <1>1, <1>8
  <2>2. /\ Light(main') /\ (main'.m = "goto" => ~parked' /\ ~parking')
        /\ main.then \in {"none", "slew"} => main' = Mount!NoCall
    BY <1>3, <2>1, AfterIs
  <2>3. slew' = slew \/ (slew = "none" /\ slew' = "starting" /\ main.then = "slew" /\ ~parked' /\ ~parking')
    BY <1>2, <1>3, <1>6, <1>8, <2>1
  <2>4. slew' # "none" => main' = Mount!NoCall
    BY <1>4, <2>2, <2>3
  <2>5. slew' # "none" => main'.m \in {"none", "status", "look"} /\ main'.then = "none"
    BY <2>4, NoCallIs
  <2>6. pool.m \in {"none", "abort"} \/ main' = Mount!NoCall
    BY <1>5, <2>2
  <2>7. FlagsAreSo(parked', parking')
    BY <1>2, <2>1
  <2> QED  BY <1>1, <2>2, <2>3, <2>5, <2>6, <2>7, LightBegins
<1> QED  BY <1>7, <1>8

\* The place to park changes, while the main thread is between calls or begins to look.
LEMMA ConfigureStep ==
    ASSUME MotionIs, NEW at, \A a \in at : axis[a] = "still", Mount!ConfigureGeometry(at),
           UNCHANGED <<mode, pool, slew>>, pool.m \in {"none", "abort"},
           \/ main' = Mount!NoCall
           \/ \E todo \in {<<>>, Mount!Both("read")} : main' = Mount!Begin("look", todo, "none")
    PROVE  MotionIs'
<1> USE DEF MotionIs
<1> DEFINE c == main'
<1>1. /\ parked' = FALSE /\ parking' = FALSE
      /\ pos' = [a \in Mount!Axes |-> IF a \in at THEN "park" ELSE "away"]
      /\ axis' = [a \in Mount!Axes |-> IF axis[a] = "park" THEN "alone" ELSE axis[a]]
  BY DEF Mount!ConfigureGeometry, Mount!SetFlags, Mount!NoFlags
<1>2. Light(c) /\ c.m \in {"none", "look"} /\ c.then = "none"
  <2>1. CASE c = Mount!NoCall
    BY <2>1, NoCallIs DEF Light
  <2>2. ASSUME NEW todo \in {<<>>, Mount!Both("read")}, c = Mount!Begin("look", todo, "none")
        PROVE  Light(c) /\ c.m \in {"none", "look"} /\ c.then = "none"
    <3>1. "none" \in Thens
      BY DEF Thens
    <3>2. Begun(c, "look", todo, "none")
      BY <2>2, <3>1, MainBegins
    <3> QED  BY <2>2, <3>2 DEF Begun, Light
  <2> QED  BY <2>1, <2>2
<1>3. /\ IsCall(c, MainKinds) /\ (c.m = "none" => c = Mount!NoCall) /\ (c.m = "look" => Looks(c))
  BY <1>2, LightCall
<1>4. MainCall'
  BY <1>2, <1>3 DEF MainCall, Movers
<1>5. MotionTypes'
  BY <1>1 DEF MotionTypes, AxisMaps, PosMaps, Modes
<1>6. PoolCallIs'
  BY DEF PoolCallIs
<1>7. Apart'
  BY <1>1, <1>2 DEF Apart
<1>8. SkyIsOwned'
  BY <1>1 DEF SkyIsOwned
<1>9. ParkIsOwned' /\ ParkedStands'
  BY <1>1 DEF ParkIsOwned, ParkedStands
<1> QED  BY <1>4, <1>5, <1>6, <1>7, <1>8, <1>9

\* Where the axes stand becomes the place to park.
LEMMA ParkHereStep == ASSUME MotionIs, Mount!ParkHere PROVE MotionIs'
<1> USE DEF MotionIs
<1> DEFINE f == Mount!Flags(main)
           at == {a \in Mount!Axes : main.seen[a] # "moves"}
<1>1. /\ main.m = "status" /\ main.then = "here" /\ main.todo = <<>> /\ main' = Mount!NoCall
      /\ UNCHANGED <<mode, pool, slew>>
      /\ \/ parked' = f.parked /\ parking' = f.parking /\ UNCHANGED <<axis, pos>>
         \/ Mount!ConfigureGeometry(at)
  BY DEF Mount!ParkHere, Mount!SetFlags
<1>2. FlagsAreSo(f.parked, f.parking)
  BY <1>1, FlagsThen
<1>3. slew = "none" /\ pool.m = "none"
  BY <1>1 DEF Apart
<1>4. \A a \in at : axis[a] = "still"
  BY <1>1 DEF MainCall, Sees, Saw, Mount!Axes
<1> HIDE DEF f, at
<1>5. Light(main') /\ main'.m = "none"
  BY <1>1, NoCallIs DEF Light
<1>6. CASE parked' = f.parked /\ parking' = f.parking /\ UNCHANGED <<axis, pos>>
  BY <1>1, <1>2, <1>3, <1>5, <1>6, LightBegins
<1>7. CASE Mount!ConfigureGeometry(at)
  BY <1>1, <1>3, <1>4, <1>7, ConfigureStep
<1> QED  BY <1>1, <1>6, <1>7

\* What a request begins with.
LEMMA IdleIs ==
    ASSUME MotionIs, Mount!RequestIdle
    PROVE  main.m = "none" /\ slew = "none" /\ pool.m = "none" /\ UNCHANGED <<axis, mode, pos, pool, slew>>
BY DEF MotionIs, Apart, Mount!RequestIdle, Mount!Request, Mount!Ready, Mount!Quiet

\* The mount is looked at first.
LEMMA LookBegins ==
    ASSUME MotionIs, main.m = "none", UNCHANGED <<axis, mode, pos, pool, slew, parked, parking>>,
           pool.m \in {"none", "abort"}, NEW th \in Thens, slew = "none" \/ th = "none", main' = Mount!Look(th)
    PROVE  MotionIs'
<1>1. main' = Mount!Begin("status", Mount!Both("read"), th)
  BY DEF Mount!Look
<1>2. Begun(main', "status", Mount!Both("read"), th)
  BY <1>1, MainBegins
<1>3. main'.m = "status" /\ main'.then = th /\ Light(main')
  BY <1>2 DEF Begun, Light
<1>4. FlagsAreSo(parked', parking')
  BY FlagsNow
<1> QED  BY <1>3, <1>4, LightBegins

\* The axes may be read, to find them at home.
LEMMA HomeBegins ==
    ASSUME MotionIs, main.m = "none", UNCHANGED <<axis, mode, pos, pool, slew, parked, parking>>,
           pool.m \in {"none", "abort"}, NEW th \in {"none", "site"}, slew = "none" \/ th = "none",
           main' = Mount!NoCall \/ \E todo \in {<<>>, Mount!Both("read")} : main' = Mount!Begin("look", todo, th)
    PROVE  MotionIs'
<1>1. Light(main') /\ main'.m \in {"none", "look"} /\ (main'.then = "none" \/ main'.then = th)
  <2>1. CASE main' = Mount!NoCall
    BY <2>1, NoCallIs DEF Light
  <2>2. ASSUME NEW todo \in {<<>>, Mount!Both("read")}, main' = Mount!Begin("look", todo, th)
        PROVE  Light(main') /\ main'.m = "look" /\ main'.then = th
    <3>1. th \in Thens
      BY DEF Thens
    <3>2. Begun(main', "look", todo, th)
      BY <2>2, <3>1, MainBegins
    <3> QED  BY <2>2, <3>2 DEF Begun, Light
  <2> QED  BY <2>1, <2>2
<1>2. FlagsAreSo(parked', parking')
  BY FlagsNow
<1> QED  BY <1>1, <1>2, LightBegins

\* The requests that begin with a look.
LEMMA FirstStep ==
    ASSUME MotionIs, Mount!StartSlew \/ Mount!SlewNow \/ Mount!Track \/ Mount!Sync \/ Mount!SetPark
    PROVE  MotionIs'
<1>1. PICK th \in {"slew", "now", "on", "off", "sync", "here"} : Mount!First(th)
  BY DEF Mount!StartSlew, Mount!SlewNow, Mount!Track, Mount!Sync, Mount!SetPark
<1>2. th \in Thens
  BY DEF Thens
<1>3. Mount!RequestIdle /\ main' = Mount!Look(th) /\ UNCHANGED <<parked, parking>>
  BY <1>1 DEF Mount!First, Mount!SetFlags, Mount!AreFlags
<1> QED  BY <1>2, <1>3, IdleIs, LookBegins

LEMMA ParkStep == ASSUME MotionIs, Mount!Park PROVE MotionIs'
<1>1. /\ Mount!RequestIdle /\ UNCHANGED <<parked, parking>>
      /\ main' = Mount!Begin("park", <<<<"stop", 1>>>> \o Mount!GotoAxes("park"), "none")
  BY DEF Mount!Park, Mount!SetFlags, Mount!AreFlags
<1> QED  BY <1>1, IdleIs, ParkBegins

LEMMA UnparkStep == ASSUME MotionIs, Mount!Unpark PROVE MotionIs'
<1> DEFINE f == Mount!AreFlags
<1>1. Mount!RequestIdle /\ Mount!UnparkThen("none", f) /\ f.parked = parked /\ f.parking = parking
  BY DEF Mount!Unpark, Mount!AreFlags
<1>2. main.m = "none" /\ slew = "none" /\ UNCHANGED <<axis, mode, pos, pool, slew>>
  BY <1>1, IdleIs
<1>3. FlagsAreSo(f.parked, f.parking)
  BY <1>1, <1>2, FlagsNow
<1> HIDE DEF f
<1> QED  BY <1>1, <1>2, <1>3, UnparkBegins

LEMMA SiteTimeStep == ASSUME MotionIs, Mount!SiteTime PROVE MotionIs'
<1>1. /\ Mount!RequestIdle /\ UNCHANGED <<parked, parking>>
      /\ \E todo \in {<<>>, Mount!Both("read")} : main' = Mount!Begin("look", todo, "site")
  BY DEF Mount!SiteTime, Mount!SetFlags, Mount!AreFlags, Mount!TryAutoHomeSync
<1> QED  BY <1>1, IdleIs, HomeBegins

\* A new profile comes while a slew operation runs, too.
LEMMA SetProfileStep == ASSUME MotionIs, Mount!SetProfile PROVE MotionIs'
<1>1. /\ main.m = "none" /\ pool.m \in {"none", "abort"} /\ UNCHANGED <<mode, pool, slew>>
      /\ main' = Mount!NoCall \/ \E todo \in {<<>>, Mount!Both("read")} : main' = Mount!Begin("look", todo, "none")
      /\ \/ UNCHANGED <<axis, pos, parked, parking>>
         \/ \E at \in SUBSET {a \in Mount!Axes : axis[a] = "still"} : Mount!ConfigureGeometry(at)
  BY DEF Mount!SetProfile, Mount!Request, Mount!Ready, Mount!TryAutoHomeSync, Mount!SetFlags, Mount!AreFlags
<1>2. CASE UNCHANGED <<axis, pos, parked, parking>>
  BY <1>1, <1>2, HomeBegins
<1>3. ASSUME NEW at \in SUBSET {a \in Mount!Axes : axis[a] = "still"}, Mount!ConfigureGeometry(at)
      PROVE  MotionIs'
  <2>1. \A a \in at : axis[a] = "still"
    BY <1>3
  <2> QED  BY <1>1, <1>3, <2>1, ConfigureStep
<1> QED  BY <1>1, <1>2, <1>3

LEMMA AbortStep == ASSUME MotionIs, Mount!Abort PROVE MotionIs'
<1>1. /\ main.m = "none" /\ UNCHANGED <<axis, mode, pos, pool, slew, parked, parking>>
      /\ main' = Mount!Begin("abort", Mount!AbortAxes, "none")
  BY DEF Mount!Abort, Mount!Request, Mount!Ready, Mount!Quiet
<1>2. FlagsAreSo(parked', parking')
  BY <1>1, FlagsNow
<1>3. /\ MainCall' /\ main'.m = "abort" /\ ~main'.bad
      /\ \A a \in Mount!Axes : Contains(main'.todo, <<"halt", a>>)
  BY <1>1, HaltBegins
<1> QED  BY <1>1, <1>2, <1>3, CallBegins

\* A status poll waits for no call of the operation but its abort.
LEMMA StatusStep == ASSUME MotionIs, Mount!Status PROVE MotionIs'
<1>1. /\ main.m = "none" /\ pool.m \in {"none", "abort"} /\ main' = Mount!Look("none")
      /\ UNCHANGED <<axis, mode, pos, pool, slew, parked, parking>>
  BY DEF Mount!Status, Mount!Ready, Mount!Quiet
<1>2. "none" \in Thens
  BY DEF Thens
<1> QED  BY <1>1, <1>2, LookBegins

-----------------------------------------------------------------------------
(* The operation.                                                          *)

\* A call of the operation begins, or it has none.
LEMMA PoolBegins ==
    ASSUME NEW m, m \in {"status", "refused", "goto", "abort"}, NEW todo, pool' = Mount!Begin(m, todo, "none")
    PROVE  Begun(pool', m, todo, "none") /\ IsCall(pool', PoolKinds)
<1>1. m \in PoolKinds /\ "none" \in Thens
  BY DEF PoolKinds, Thens
<1> QED  BY <1>1, BeginCall

\* The operation ends, with no axis on its way to the sky.
LEMMA SlewEnds ==
    ASSUME MotionIs, Mount!EndSlew, UNCHANGED <<axis, mode, pos, parked, parking, main>>, slew # "none",
           \A a \in Mount!Axes : axis[a] # "sky"
    PROVE  MotionIs'
<1> USE DEF MotionIs
<1>1. slew' = "none" /\ pool' = Mount!NoCall /\ pool'.m = "none" /\ pool'.then = "none" /\ IsCall(pool', PoolKinds)
  BY NoCallIs DEF Mount!EndSlew, PoolKinds
<1>2. MotionTypes' /\ MainCall' /\ PoolCallIs'
  BY <1>1 DEF MotionTypes, MainCall, PoolCallIs
<1>3. Apart'
  BY <1>1 DEF Apart
<1>4. SkyIsOwned' /\ ParkIsOwned' /\ ParkedStands'
  BY <1>1 DEF SkyIsOwned, ParkIsOwned, ParkedStands
<1> QED  BY <1>2, <1>3, <1>4

\* It goes on with another call, or with none.
LEMMA SlewGoesOn ==
    ASSUME MotionIs, UNCHANGED <<axis, mode, pos, parked, parking, main>>, slew # "none", PoolCallIs',
           \/ slew' = "commanding" /\ pool'.m \in {"none", "goto", "refused"}
           \/ slew' = "polling" /\ pool'.m \in {"none", "status"}
           \/ slew' = "aborting" /\ pool'.m = "abort",
           pool'.m \in {"none", "abort"} \/ main.m \in {"none", "abort"},
           pool'.m = "abort" => \A a \in Mount!Axes : Contains(pool'.todo, <<"halt", a>>),
           slew' = "commanding" => \A a \in Mount!Axes : axis[a] # "sky"
    PROVE  MotionIs'
<1> USE DEF MotionIs
<1>1. MotionTypes' /\ MainCall'
  BY DEF MotionTypes, MainCall
<1>2. Apart'
  BY DEF Apart
<1>3. SkyIsOwned' /\ ParkIsOwned' /\ ParkedStands'
  BY DEF SkyIsOwned, ParkIsOwned, ParkedStands
<1> QED  BY <1>1, <1>2, <1>3

LEMMA StartTaskStep == ASSUME MotionIs, Mount!StartTask PROVE MotionIs'
<1>1. /\ slew = "starting" /\ pool.m = "none" /\ UNCHANGED <<axis, mode, pos, parked, parking, main>>
      /\ Mount!EndSlew \/ (slew' = "commanding" /\ pool' = pool)
  BY DEF Mount!StartTask, Mount!Ready
<1>2. \A a \in Mount!Axes : axis[a] # "sky"
  BY <1>1 DEF MotionIs, SkyIsOwned
<1>3. PoolCallIs /\ (pool' = pool => PoolCallIs')
  BY <1>1 DEF MotionIs, PoolCallIs
<1> QED  BY <1>1, <1>2, <1>3, SlewEnds, SlewGoesOn

\* The operation goes to the sky, unless the mount refuses.
LEMMA CommandStep == ASSUME MotionIs, Mount!Command PROVE MotionIs'
<1>1. /\ slew = "commanding" /\ pool.m = "none" /\ main.m \in {"none", "abort"}
      /\ UNCHANGED <<axis, mode, pos, parked, parking, main>>
      /\ Mount!EndSlew \/ (pool' \in Mount!SlewTo("sky", Mount!AreFlags) /\ slew' = slew)
  BY DEF Mount!Command, Mount!Ready, Mount!Unlocked
<1>2. \A a \in Mount!Axes : axis[a] # "sky"
  BY <1>1 DEF MotionIs, SkyIsOwned
<1>3. CASE Mount!EndSlew
  BY <1>1, <1>2, <1>3, SlewEnds
<1>4. CASE pool' \in Mount!SlewTo("sky", Mount!AreFlags) /\ slew' = slew
  <2>1. \/ pool' = Mount!Begin("refused", Mount!Both("read"), "none")
        \/ pool' = Mount!Begin("goto", Mount!GotoAxes("sky"), "none")
    BY <1>4 DEF Mount!SlewTo
  <2>2. CASE pool' = Mount!Begin("refused", Mount!Both("read"), "none")
    <3>1. Begun(pool', "refused", Mount!Both("read"), "none") /\ IsCall(pool', PoolKinds)
      BY <2>2, PoolBegins
    <3>2. pool'.m = "refused" /\ pool'.then = "none" /\ Looks(pool')
      BY <3>1, BothAre DEF Begun, Looks
    <3>3. PoolCallIs'
      BY <3>1, <3>2 DEF PoolCallIs
    <3> QED  BY <1>1, <1>2, <1>4, <3>2, <3>3, SlewGoesOn
  <2>3. CASE pool' = Mount!Begin("goto", Mount!GotoAxes("sky"), "none")
    <3> DEFINE t == Mount!GotoAxes("sky")
    <3>1. Begun(pool', "goto", t, "none") /\ IsCall(pool', PoolKinds)
      BY <2>3, PoolBegins
    <3>2. "sky" \in Mount!Gotos
      BY DEF Mount!Gotos
    <3>3. Formed(t, "sky") /\ t[1] = <<"read", 1>>
      BY <3>2, GotoFormed
    <3> HIDE DEF t
    <3>4. pool'.m = "goto" /\ pool'.then = "none" /\ pool'.todo = t /\ pool'.bad = FALSE
      BY <3>1 DEF Begun
    <3>5. Drives(pool', "sky", axis', mode')
      BY <3>3, <3>4 DEF Drives, Headed
    <3>6. PoolCallIs'
      BY <3>1, <3>4, <3>5 DEF PoolCallIs
    <3> QED  BY <1>1, <1>2, <1>4, <3>4, <3>6, SlewGoesOn
  <2> QED  BY <2>1, <2>2, <2>3
<1> QED  BY <1>1, <1>3, <1>4

LEMMA PollStep == ASSUME MotionIs, Mount!Poll PROVE MotionIs'
<1>1. /\ slew = "polling" /\ main.m \in {"none", "abort"} /\ slew' = slew
      /\ UNCHANGED <<axis, mode, pos, parked, parking, main>>
      /\ pool' = Mount!Begin("status", Mount!Both("read"), "none")
  BY DEF Mount!Poll, Mount!PoolCall, Mount!Unlocked, Mount!Look
<1>2. Begun(pool', "status", Mount!Both("read"), "none") /\ IsCall(pool', PoolKinds)
  BY <1>1, PoolBegins
<1>3. pool'.m = "status" /\ pool'.then = "none" /\ Sees(pool', axis', pos')
  BY <1>2, BothAre DEF Begun, Sees, Looks
<1>4. PoolCallIs'
  BY <1>2, <1>3 DEF PoolCallIs
<1> QED  BY <1>1, <1>3, <1>4, SlewGoesOn

LEMMA GiveUpStep == ASSUME MotionIs, Mount!GiveUp PROVE MotionIs'
<1>1. /\ slew = "polling" /\ slew' = "aborting" /\ UNCHANGED <<axis, mode, pos, parked, parking, main>>
      /\ pool' = Mount!Begin("abort", Mount!AbortAxes, "none")
  BY DEF Mount!GiveUp, Mount!PoolCall
<1>2. Begun(pool', "abort", Mount!AbortAxes, "none") /\ IsCall(pool', PoolKinds)
  BY <1>1, PoolBegins
<1>3. /\ pool'.m = "abort" /\ pool'.then = "none" /\ pool'.todo \in Halts
      /\ \A a \in Mount!Axes : Contains(pool'.todo, <<"halt", a>>)
  BY <1>2, BothAre DEF Begun
<1>4. PoolCallIs'
  BY <1>2, <1>3 DEF PoolCallIs
<1> QED  BY <1>1, <1>3, <1>4, SlewGoesOn

\* A call of the operation is over: it polls, or it has ended and owns no axis.
LEMMA PoolDoneStep == ASSUME MotionIs, Mount!PoolDone PROVE MotionIs'
<1> USE DEF MotionIs
<1> DEFINE ends == \/ pool.bad \/ pool.m \in {"abort", "refused"}
                   \/ pool.m = "status" /\ ~Mount!Slewing(pool)
           f == Mount!Flags(pool)
<1>1. /\ pool.m # "none" /\ pool.todo = <<>> /\ UNCHANGED <<axis, mode, pos, main>>
      /\ parked' = f.parked /\ parking' = f.parking
      /\ IF ends THEN Mount!EndSlew ELSE pool' = Mount!NoCall /\ slew' = "polling"
  BY DEF Mount!PoolDone, Mount!SetFlags
<1>2. /\ pool.m \in PoolKinds /\ slew \in {"commanding", "polling", "aborting"} /\ ~parked /\ ~parking
      /\ (slew = "commanding" => pool.m \in {"goto", "refused", "rescue"})
      /\ (slew = "polling" => pool.m = "status") /\ (slew = "aborting" => pool.m = "abort")
  BY <1>1 DEF Apart, MotionTypes, PoolCallIs, IsCall
<1>3. f = [parked |-> FALSE, parking |-> FALSE]
  <2>1. parked = FALSE /\ parking = FALSE
    BY <1>2 DEF MotionTypes
  <2>2. ~Mount!Settles(pool) /\ pool.m # "park"
    BY <1>2 DEF Mount!Settles, PoolKinds
  <2> QED  BY <2>1, <2>2 DEF Mount!Flags, Mount!NoFlags, Mount!AreFlags
<1>4. parked' = parked /\ parking' = parking
  <2>1. parked = FALSE /\ parking = FALSE
    BY <1>2 DEF MotionTypes
  <2> HIDE DEF f
  <2>2. f.parked = FALSE /\ f.parking = FALSE
    BY <1>3
  <2>3. parked' = FALSE /\ parking' = FALSE
    BY <1>1, <2>2
  <2> QED  BY <2>1, <2>3
<1> HIDE DEF f
<1>5. \A x : ~Contains(<<>>, x)
  BY DEF Contains
<1>6. <<>> # StopOne
  BY DEF StopOne
<1>7. CASE ends
  <2>1. ASSUME NEW a \in Mount!Axes, axis[a] = "sky" PROVE FALSE
    <3>1. CASE pool.m = "status"
      <4>1. Sees(pool, axis, pos) /\ ~Mount!Slewing(pool)
        BY <1>7, <3>1 DEF PoolCallIs, Sees, Looks
      <4>2. axis[a] = "still"
        BY <1>1, <4>1 DEF Sees, Saw, Mount!Slewing, Mount!Axes
      <4> QED  BY <2>1, <4>2
    <3>2. CASE pool.m # "status"
      BY <1>1, <1>2, <1>5, <1>6, <1>7, <2>1, <3>2 DEF SkyIsOwned
    <3> QED  BY <3>1, <3>2
  <2> QED  BY <1>1, <1>2, <1>4, <1>7, <2>1, SlewEnds
<1>8. CASE ~ends
  <2>1. pool' = Mount!NoCall /\ slew' = "polling" /\ pool'.m = "none"
    BY <1>1, <1>8, NoCallIs
  <2>2. PoolCallIs'
    BY <2>1, NoCallIs DEF PoolCallIs, PoolKinds
  <2> QED  BY <1>1, <1>2, <1>4, <2>1, <2>2, SlewGoesOn
<1> QED  BY <1>7, <1>8

-----------------------------------------------------------------------------
(* The invariant.                                                          *)

\* While no exchange is lost, every action of the mount keeps what is so of its motion.
LEMMA MountStep == ASSUME MotionIs, fails = 0, fails' = 0, Mount!MotionNext PROVE MotionIs'
<1>1. CASE Mount!MotionRequests
  BY <1>1, ParkStep, UnparkStep, FirstStep, AbortStep, SiteTimeStep, SetProfileStep, ManualStep
     DEF Mount!MotionRequests
<1>2. CASE Mount!MotionRuns
  BY <1>2, MainExchangeStep, MainDoneStep, ParkHereStep, PoolExchangeStep, PoolDoneStep, StartTaskStep,
     CommandStep, PollStep, GiveUpStep, RestStep DEF Mount!MotionRuns
<1>3. CASE Mount!Status
  BY <1>3, StatusStep
<1> QED  BY <1>1, <1>2, <1>3 DEF Mount!MotionNext

\* An exchange that is lost is counted; nothing takes the count back.
LEMMA LossIsCounted == ASSUME fails \in Nat, Mount!MotionNext PROVE fails' \in Nat /\ fails' >= fails
<1>1. ASSUME NEW c, NEW cn, Mount!Exchange(c, cn) PROVE fails' \in Nat /\ fails' >= fails
  BY <1>1 DEF Mount!Exchange
<1>2. Mount!MainExchange \/ Mount!PoolExchange => fails' \in Nat /\ fails' >= fails
  BY <1>1 DEF Mount!MainExchange, Mount!PoolExchange
<1>3. Mount!MotionRequests \/ Mount!Status => fails' = fails
  BY DEF Mount!MotionRequests, Mount!Status, Mount!Park, Mount!Unpark, Mount!StartSlew, Mount!SlewNow, Mount!Track,
         Mount!Sync, Mount!SetPark, Mount!First, Mount!SiteTime, Mount!Manual, Mount!RequestIdle, Mount!Quiet,
         Mount!Abort, Mount!SetProfile
<1>4. Mount!MotionRuns => Mount!MainExchange \/ Mount!PoolExchange \/ fails' = fails
  BY DEF Mount!MotionRuns, Mount!MainDone, Mount!ParkHere, Mount!PoolDone, Mount!StartTask, Mount!Command,
         Mount!Poll, Mount!GiveUp, Mount!PoolCall, Mount!Arrive, Mount!Rest
<1> QED  BY <1>2, <1>3, <1>4 DEF Mount!MotionNext

LEMMA MotionStep == MotionIInv /\ [Next]_vars => MotionIInv'
<1> SUFFICES ASSUME MotionIInv, [Next]_vars PROVE MotionIInv'
  OBVIOUS
<1>1. CASE MountNext
  <2>1. Mount!MotionNext
    BY <1>1 DEF MountNext
  <2>2. fails' \in Nat /\ (fails' = 0 => fails = 0)
    BY <2>1, LossIsCounted DEF MotionIInv
  <2> QED  BY <2>1, <2>2, MountStep DEF MotionIInv
<1>2. CASE UNCHANGED mountVars
  BY <1>2 DEF mountVars, MotionIInv, MotionIs, MotionTypes, MainCall, PoolCallIs, Apart, SkyIsOwned,
         ParkIsOwned, ParkedStands
<1> QED  BY <1>1, <1>2 DEF Next, vars, LoaderNext, TableNext, SessionNext, FocusNext, CanonNext, SdkNext,
         IndiNext, RecNext, SolveNext, NetNext, HandNext, VideoNext, LinksNext

\* The mount stands still at first, away from the place to park.
LEMMA MotionStarts == Init => MotionIInv
<1> SUFFICES ASSUME Init PROVE MotionIInv
  OBVIOUS
<1>1. /\ axis = [a \in Mount!Axes |-> "still"] /\ mode = [a \in Mount!Axes |-> "turn"]
      /\ pos = [a \in Mount!Axes |-> "away"] /\ parked = FALSE /\ parking = FALSE
      /\ main = Mount!NoCall /\ pool = Mount!NoCall /\ slew = "none" /\ fails = 0
  BY DEF Init, Mount!MotionInit
<1>2. /\ main.m = "none" /\ main.then = "none" /\ IsCall(main, MainKinds)
      /\ pool.m = "none" /\ pool.then = "none" /\ IsCall(pool, PoolKinds)
  BY <1>1, NoCallIs DEF MainKinds, PoolKinds
<1>3. MotionTypes
  BY <1>1 DEF MotionTypes, AxisMaps, ModeMaps, PosMaps, Modes
<1>4. MainCall /\ PoolCallIs
  BY <1>1, <1>2 DEF MainCall, PoolCallIs, Movers
<1>5. Apart /\ SkyIsOwned /\ ParkIsOwned /\ ParkedStands
  BY <1>1, <1>2 DEF Apart, SkyIsOwned, ParkIsOwned, ParkedStands
<1> QED  BY <1>1, <1>3, <1>4, <1>5 DEF MotionIInv, MotionIs

LEMMA MotionTells == MotionIInv => MotionIsKnown
<1> SUFFICES ASSUME MotionIInv PROVE MotionIsKnown
  OBVIOUS
<1>1. Mount!GotoIsWatched
  BY DEF MotionIInv, MotionIs, MotionTypes, MainCall, SkyIsOwned, ParkIsOwned, Mount!GotoIsWatched
<1>2. Mount!ParkedIsParked
  <2> SUFFICES ASSUME parked, fails = 0, main.m # "park"
               PROVE  pos[2] = "park" /\ \A a \in Mount!Axes : axis[a] \notin Mount!Gotos
    BY DEF Mount!ParkedIsParked
  <2>1. /\ pos[2] = "park" /\ axis[1] \notin Mount!Gotos
        /\ \A a \in Mount!Axes : pos[a] = "park" => axis[a] = "still"
    BY DEF MotionIInv, MotionIs, ParkedStands
  <2> QED  BY <2>1 DEF Mount!Axes, Mount!Gotos
<1> QED  BY <1>1, <1>2 DEF MotionIsKnown, Mount!MotionIsKnown

\* Whatever is asked of the mount, in any order and at any time, and whatever it answers,
\* as long as no exchange is lost: no axis goes to a target nobody watches, and a mount
\* that is said to be parked is (oal_native_devices.cpp:280-361).
THEOREM MotionStaysKnown == Spec => []MotionIsKnown
BY MotionStarts, MotionStep, MotionTells, PTL DEF Spec

==============================================================================
