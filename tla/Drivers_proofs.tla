---------------------------- MODULE Drivers_proofs ----------------------------
(***************************************************************************)
(* Proofs about the drivers of serial devices, the session they exchange   *)
(* commands over, and the drivers of Canon cameras.                        *)
(***************************************************************************)
EXTENDS SerialDriver, SerialSession, CanonDriver, TLAPS

-----------------------------------------------------------------------------
(***************************************************************************)
(* DisconnectSticks for every number of sessions, calls and scans.         *)
(*                                                                         *)
(* A scan may put an old copy of the entry back after a disconnect; what   *)
(* makes that harmless is the port.  Whoever forgets a session that is     *)
(* open has closed it, and a session opened later has another number, so   *)
(* no old copy is usable again.                                            *)
(***************************************************************************)

SdSpec == SdInit /\ [][SdNext]_sdVars

Entry == [known : BOOLEAN, connected : BOOLEAN, session : Nat, synced : BOOLEAN]

Sweeps == [pc : {"idle", "open", "identify", "busy", "absent", "swap"},
         old : Entry, found : Entry, session : Nat, tries : Nat]

Call == [m : {"none", "connect", "disconnect", "health", "sync"},
         pc : {"idle", "open", "identify", "busy", "absent", "exchange"},
         d : Entry, session : Nat, tries : Nat]

SdTypes ==
    /\ plugged \in BOOLEAN /\ told \in BOOLEAN
    /\ opened \in Nat /\ port \in Nat
    /\ table \in Entry /\ sweep \in Sweeps /\ dcall \in Call

Scanned == {sweep.old, sweep.found}
Copies == {table, dcall.d} \cup Scanned

\* Sessions are numbered as they are opened.
Numbered ==
    /\ \A d \in Copies : d.session <= opened
    /\ sweep.session <= opened /\ dcall.session <= opened

\* A session that is being identified has the port and is in no entry yet.
Probing(who) ==
    /\ who.pc = "identify" <=> who.session # 0
    /\ who.session # 0 => port = who.session /\ \A d \in Copies : d.session # who.session

\* The port lets one of the two identify at a time.
OneProbe == sweep.session = 0 \/ dcall.session = 0

\* The scan has no session of its own that is still usable, and a call that ends or
\* copies the session has taken the usable entry.
NewestIsUsable ==
    /\ (\E d \in Scanned : Usable(d)) => Usable(table)
    /\ dcall.m \in {"disconnect", "health", "sync"} =>
         ((\E d \in Copies : Usable(d)) => Usable(dcall.d))

\* A device the node was told is disconnected is usable through no copy.
Unusable == ~told => \A d \in Copies : ~Usable(d)

Sessions ==
    Numbered /\ Probing(sweep) /\ Probing(dcall) /\ OneProbe /\ NewestIsUsable /\ Unusable

SdInv == SdTypes /\ Sessions

LEMMA SdInitInv == SdInit => SdInv
<1> SUFFICES ASSUME SdInit PROVE SdInv
  OBVIOUS
<1> USE DEF SdInit, Unknown, Idle, NoCall
<1>1. Unknown \in Entry
  BY DEF Entry
<1>2. Idle \in Sweeps
  BY <1>1 DEF Sweeps
<1>3. NoCall \in Call
  BY <1>1 DEF Call
<1>4. SdTypes
  BY <1>1, <1>2, <1>3 DEF SdTypes
<1>5. Sessions
  BY DEF Sessions, OneProbe, Numbered, Probing, NewestIsUsable, Unusable, Copies, Scanned, Usable, IsOpen
<1> QED  BY <1>4, <1>5 DEF SdInv

\* Sweeping the port leaves it alone or closes it, and never under a probe.
LEMMA SweptPort ==
    ASSUME NEW p, NEW t, NEW s, NEW c
    PROVE  /\ Swept(p, t, s, c) \in {p, 0}
           /\ p \in {s.session, c.session} => Swept(p, t, s, c) = p
BY DEF Swept

\* An entry taken from the table or a new one is an entry.
LEMMA Entries ==
    ASSUME SdTypes
    PROVE  /\ Unknown \in Entry /\ Merged \in Entry
           /\ [dcall.d EXCEPT !.connected = FALSE, !.session = 0] \in Entry
           /\ [dcall.d EXCEPT !.synced = TRUE] \in Entry
           /\ [Unknown EXCEPT !.known = TRUE, !.connected = TRUE, !.session = dcall.session] \in Entry
<1>1. Unknown \in Entry
  BY DEF Entry, Unknown
<1>2. dcall.d \in Entry /\ sweep.old \in Entry /\ table.connected \in BOOLEAN /\ dcall.session \in Nat
  BY DEF SdTypes, Call, Sweeps, Entry
<1> QED  BY <1>1, <1>2 DEF Entry, Merged, Unknown

LEMMA IdleTypes == Idle \in Sweeps /\ NoCall \in Call
<1>1. Unknown \in Entry
  BY DEF Entry, Unknown
<1> QED  BY <1>1 DEF Idle, NoCall, Sweeps, Call

\* A step of a probe moves it on and may give or take its session.
LEMMA ScanMoves ==
    ASSUME NEW s \in Sweeps, NEW pc \in {"open", "identify", "busy", "absent"},
           NEW n \in Nat, NEW t \in Nat
    PROVE  /\ [s EXCEPT !.pc = pc, !.session = n, !.tries = t] \in Sweeps
           /\ [s EXCEPT !.pc = pc, !.session = n] \in Sweeps
           /\ [s EXCEPT !.pc = pc, !.tries = t] \in Sweeps
BY DEF Sweeps

LEMMA CallMoves ==
    ASSUME NEW c \in Call, NEW pc \in {"open", "identify", "busy", "absent"},
           NEW n \in Nat, NEW t \in Nat
    PROVE  /\ [c EXCEPT !.pc = pc, !.session = n, !.tries = t] \in Call
           /\ [c EXCEPT !.pc = pc, !.session = n] \in Call
           /\ [c EXCEPT !.pc = pc, !.tries = t] \in Call
BY DEF Call

\* What the attempts of the scan and of a connect do to the port and themselves:
\* the port is opened for a new session, or it stays as it is.
Opens(who, next) ==
    /\ port = 0 /\ opened' = opened + 1 /\ port' = opened + 1
    /\ next = [who EXCEPT !.pc = "identify", !.session = opened + 1, !.tries = who.tries + 1]

Misses(who, next) ==
    /\ UNCHANGED <<opened, port>>
    /\ \E pc \in {"busy", "open", "absent"} : next = [who EXCEPT !.pc = pc, !.tries = who.tries + 1]

\* Nothing answered: the port is closed.
Closes(who, next) ==
    /\ port' = IF port = who.session THEN 0 ELSE port
    /\ \E pc \in {"open", "absent"} : next = [who EXCEPT !.pc = pc, !.session = 0]

LEMMA ProbeCases ==
    /\ OpenPort(sweep) => Opens(sweep, sweep') \/ Misses(sweep, sweep')
    /\ OpenPort(dcall) => Opens(dcall, dcall') \/ Misses(dcall, dcall')
    /\ NotIdentified(sweep) => Closes(sweep, sweep')
    /\ NotIdentified(dcall) => Closes(dcall, dcall')
BY Zenon DEF OpenPort, NotIdentified, Opens, Misses, Closes

LEMMA ProbeTypes ==
    ASSUME SdTypes
    PROVE  /\ Opens(sweep, sweep') \/ Misses(sweep, sweep') \/ Closes(sweep, sweep') => sweep' \in Sweeps
           /\ Opens(dcall, dcall') \/ Misses(dcall, dcall') \/ Closes(dcall, dcall') => dcall' \in Call
<1>1. sweep \in Sweeps /\ dcall \in Call /\ opened + 1 \in Nat /\ 0 \in Nat
  BY DEF SdTypes
<1>2. sweep.tries + 1 \in Nat /\ dcall.tries + 1 \in Nat
  BY <1>1 DEF Sweeps, Call
<1>3. Opens(sweep, sweep') => sweep' \in Sweeps
  <2>1. [sweep EXCEPT !.pc = "identify", !.session = opened + 1, !.tries = sweep.tries + 1] \in Sweeps
    BY <1>1, <1>2, ScanMoves
  <2> QED  BY <2>1 DEF Opens
<1>4. Misses(sweep, sweep') => sweep' \in Sweeps
  <2>1. \A pc \in {"busy", "open", "absent"} : [sweep EXCEPT !.pc = pc, !.tries = sweep.tries + 1] \in Sweeps
    BY <1>1, <1>2, ScanMoves
  <2> QED  BY <2>1, Zenon DEF Misses
<1>5. Closes(sweep, sweep') => sweep' \in Sweeps
  <2>1. \A pc \in {"open", "absent"} : [sweep EXCEPT !.pc = pc, !.session = 0] \in Sweeps
    BY <1>1, ScanMoves
  <2> QED  BY <2>1, Zenon DEF Closes
<1>6. Opens(dcall, dcall') => dcall' \in Call
  <2>1. [dcall EXCEPT !.pc = "identify", !.session = opened + 1, !.tries = dcall.tries + 1] \in Call
    BY <1>1, <1>2, CallMoves
  <2> QED  BY <2>1 DEF Opens
<1>7. Misses(dcall, dcall') => dcall' \in Call
  <2>1. \A pc \in {"busy", "open", "absent"} : [dcall EXCEPT !.pc = pc, !.tries = dcall.tries + 1] \in Call
    BY <1>1, <1>2, CallMoves
  <2> QED  BY <2>1, Zenon DEF Misses
<1>8. Closes(dcall, dcall') => dcall' \in Call
  <2>1. \A pc \in {"open", "absent"} : [dcall EXCEPT !.pc = pc, !.session = 0] \in Call
    BY <1>1, CallMoves
  <2> QED  BY <2>1, Zenon DEF Closes
<1> QED  BY <1>3, <1>4, <1>5, <1>6, <1>7, <1>8

LEMMA ProbePort ==
    ASSUME SdTypes
    PROVE  \A who, next : Opens(who, next) \/ Misses(who, next) => port' \in Nat /\ opened' \in Nat
BY DEF SdTypes, Opens, Misses

LEMMA SdTypesNext == ASSUME SdTypes, [SdNext]_sdVars PROVE SdTypes'
<1>0. \A p \in Nat : \A t, s, c : Swept(p, t, s, c) \in Nat
  BY DEF Swept
<1> USE DEF SdTypes
<1>1. ASSUME NEW k \in Kinds, Load(k) PROVE SdTypes'
  BY <1>1 DEF Load
<1>2. CASE StartSweep
  <2>1. sweep' \in Sweeps
    BY <1>2, IdleTypes DEF StartSweep, Sweeps
  <2> QED  BY <1>2, <2>1 DEF StartSweep
<1>3. CASE ProbeOpen
  <2>1. sweep' \in Sweeps /\ port' \in Nat /\ opened' \in Nat
    BY <1>3, ProbeCases, ProbeTypes, ProbePort DEF ProbeOpen
  <2> QED  BY <1>3, <2>1 DEF ProbeOpen
<1>4. CASE ProbeIdentify
  <2>1. CASE NotIdentified(sweep)
    <3>1. sweep' \in Sweeps /\ port' \in Nat
      BY <2>1, ProbeCases, ProbeTypes DEF Closes
    <3> QED  BY <1>4, <3>1 DEF ProbeIdentify
  <2>2. CASE sweep' = [sweep EXCEPT !.pc = "swap", !.found = Merged, !.session = 0]
             /\ port' = IF port = sweep.session THEN 0 ELSE port
    <3>1. sweep' \in Sweeps
      BY <2>2, Entries DEF Sweeps
    <3> QED  BY <1>4, <2>2, <3>1 DEF ProbeIdentify
  <2> QED  BY <1>4, <2>1, <2>2 DEF ProbeIdentify
<1>5. CASE Swap
  <2>1. table' \in Entry
    BY <1>5, Entries DEF Swap, Sweeps
  <2> QED  BY <1>0, <1>5, <2>1, IdleTypes DEF Swap
<1>6. ASSUME NEW m \in {"connect", "disconnect", "health", "sync"}, StartCall(m) PROVE SdTypes'
  <2>1. dcall' \in Call
    BY <1>6, IdleTypes DEF StartCall, Call
  <2> QED  BY <1>6, <2>1 DEF StartCall
<1>7. CASE ConnectOpen
  <2>1. dcall' \in Call /\ port' \in Nat /\ opened' \in Nat
    BY <1>7, ProbeCases, ProbeTypes, ProbePort DEF ConnectOpen
  <2> QED  BY <1>7, <2>1 DEF ConnectOpen
<1>8. CASE ConnectIdentify
  <2>1. CASE NotIdentified(dcall) /\ UNCHANGED <<kind, plugged, opened, table, sweep, told, calls>>
    <3>1. dcall' \in Call /\ port' \in Nat
      BY <2>1, ProbeCases, ProbeTypes DEF Closes
    <3> QED  BY <2>1, <3>1
  <2>2. CASE /\ told' = TRUE /\ port' = Swept(port, table', sweep, NoCall)
             /\ Store([Unknown EXCEPT !.known = TRUE, !.connected = TRUE, !.session = dcall.session])
    BY <1>0, <2>2, Entries, IdleTypes DEF Store, Return
  <2> QED  BY <1>8, <2>1, <2>2 DEF ConnectIdentify
<1>9. CASE ConnectFails
  BY <1>0, <1>9, IdleTypes DEF ConnectFails, Return
<1>10. CASE Disconnect
  BY <1>0, <1>10, Entries, IdleTypes DEF Disconnect, Store, Return
<1>11. CASE Health
  <2>1. CASE UNCHANGED <<kind, plugged, opened, table, sweep, told, calls>> /\ Return
             /\ port' = Swept(port, table, sweep, NoCall)
    BY <1>0, <2>1, IdleTypes DEF Return
  <2>2. CASE told' = FALSE /\ Store([dcall.d EXCEPT !.connected = FALSE, !.session = 0])
             /\ port' = IF IsOpen(dcall.d) THEN 0 ELSE Swept(port, table', sweep, NoCall)
    BY <1>0, <2>2, Entries, IdleTypes DEF Store, Return
  <2> QED  BY <1>11, <2>1, <2>2 DEF Health
<1>12. CASE Sync
  <2>1. CASE Store([dcall.d EXCEPT !.synced = TRUE])
    BY <1>0, <1>12, <2>1, Entries, IdleTypes DEF Sync, Store, Return
  <2>2. CASE Return /\ UNCHANGED <<kind, plugged, opened, table, sweep, calls>>
    BY <1>0, <1>12, <2>2, IdleTypes DEF Sync, Return
  <2> QED  BY <1>12, <2>1, <2>2 DEF Sync
<1>13. CASE Plug
  BY <1>13 DEF Plug
<1>14. CASE UNCHANGED sdVars
  BY <1>14 DEF sdVars
<1> QED  BY <1>1, <1>2, <1>3, <1>4, <1>5, <1>6, <1>7, <1>8, <1>9, <1>10, <1>11, <1>12, <1>13, <1>14
         DEF SdNext

\* What a disconnect and a lost probe do: the usable entry, if there is one, is the
\* call's, so closing its session leaves no copy usable.
LEMMA DropsKeep ==
    ASSUME SdTypes, Sessions, dcall.m \in {"disconnect", "health"}, told' = FALSE,
           Store([dcall.d EXCEPT !.connected = FALSE, !.session = 0]),
           port' = IF IsOpen(dcall.d) THEN 0 ELSE Swept(port, table', sweep, NoCall)
    PROVE  Sessions'
<1> USE DEF Sessions, Numbered, Probing, OneProbe, NewestIsUsable, Unusable, Copies, Scanned, Usable, IsOpen
<1>1. table'.session = 0 /\ ~table'.connected
  BY DEF Store, SdTypes, Call, Entry
<1>2. port' \in {port, 0} /\ (IsOpen(dcall.d) => port' = 0)
  BY SweptPort
<1>3. sweep.session # 0 => port' = port
  BY SweptPort
<1>4. \A d \in Scanned : ~Usable(d)'
  BY <1>2 DEF Store
<1> QED  BY <1>1, <1>2, <1>3, <1>4 DEF Store, Return, NoCall, Unknown, SdTypes

LEMMA SessionsNext == ASSUME SdTypes, SdTypes', Sessions, [SdNext]_sdVars PROVE Sessions'
<1> USE DEF Sessions, Numbered, Probing, OneProbe, NewestIsUsable, Unusable, Copies, Scanned, Usable, IsOpen
<1>1. ASSUME NEW k \in Kinds, Load(k) PROVE Sessions'
  BY <1>1 DEF Load
<1>2. CASE StartSweep
  <2>1. /\ sweep'.old = table /\ sweep'.found \in {table, Unknown}
        /\ sweep'.session = 0 /\ sweep'.pc \in {"swap", "open"}
    BY <1>2, IdleTypes DEF StartSweep, Sweeps, Idle
  <2> QED  BY <1>2, <2>1 DEF StartSweep, Unknown, SdTypes
<1>3. CASE ProbeOpen
  <2>1. UNCHANGED <<kind, plugged, table, dcall, told, calls>> /\ sweep.pc = "open"
    BY <1>3 DEF ProbeOpen
  <2>2. sweep'.old = sweep.old /\ sweep'.found = sweep.found
    BY <1>3, ProbeCases DEF ProbeOpen, Opens, Misses, SdTypes, Sweeps
  <2>3. CASE Opens(sweep, sweep')
    <3>1. sweep'.session = opened + 1 /\ sweep'.pc = "identify"
      BY <2>3 DEF Opens, SdTypes, Sweeps
    <3> QED  BY <2>1, <2>2, <2>3, <3>1 DEF Opens, SdTypes, Sweeps, Call, Entry
  <2>4. CASE Misses(sweep, sweep')
    <3>1. sweep'.session = sweep.session /\ sweep'.pc # "identify"
      BY <2>4 DEF Misses, SdTypes, Sweeps
    <3> QED  BY <2>1, <2>2, <2>4, <3>1 DEF Misses
  <2> QED  BY <1>3, <2>3, <2>4, ProbeCases DEF ProbeOpen
<1>4. CASE ProbeIdentify
  <2>1. UNCHANGED <<kind, plugged, opened, table, dcall, told, calls>> /\ sweep.pc = "identify"
    BY <1>4 DEF ProbeIdentify
  <2>2. port' = 0 /\ port = sweep.session /\ sweep.session # 0
    BY <1>4, <2>1, ProbeCases DEF ProbeIdentify, Closes
  <2>3. dcall.session = 0
    BY <2>1 DEF SdTypes
  <2>4. sweep'.session = 0 /\ sweep'.old = sweep.old /\ sweep'.pc # "identify"
    BY <1>4, ProbeCases DEF ProbeIdentify, Closes, SdTypes, Sweeps
  <2>5. sweep'.found \in {sweep.found, Merged} /\ Merged.session = 0
    BY <1>4, ProbeCases DEF ProbeIdentify, Closes, SdTypes, Sweeps, Merged, Unknown, Entry
  <2> QED  BY <2>1, <2>2, <2>3, <2>4, <2>5 DEF SdTypes
<1>5. CASE Swap
  <2>1. UNCHANGED <<opened, dcall, told>> /\ sweep' = Idle /\ sweep.pc # "identify"
    BY <1>5 DEF Swap
  <2>2. table' \in {sweep.found, sweep.old, table, Unknown}
    BY <1>5 DEF Swap
  <2>3. port' \in {port, 0} /\ (dcall.session # 0 /\ port = dcall.session => port' = port)
    BY <1>5, SweptPort DEF Swap
  <2> QED  BY <2>1, <2>2, <2>3 DEF SdTypes, Idle, Unknown
<1>6. ASSUME NEW m \in {"connect", "disconnect", "health", "sync"}, StartCall(m) PROVE Sessions'
  <2>1. UNCHANGED <<port, opened, table, sweep, told>>
    BY <1>6 DEF StartCall
  <2>2. dcall'.d = table /\ dcall'.session = 0 /\ dcall'.pc # "identify"
    BY <1>6, IdleTypes DEF StartCall, NoCall, Call
  <2> QED  BY <2>1, <2>2 DEF SdTypes
<1>7. CASE ConnectOpen
  <2>1. UNCHANGED <<kind, plugged, table, sweep, told, calls>> /\ dcall.pc = "open" /\ dcall.m = "connect"
    BY <1>7 DEF ConnectOpen
  <2>2. dcall'.d = dcall.d /\ dcall'.m = dcall.m
    BY <1>7, ProbeCases DEF ConnectOpen, Opens, Misses, SdTypes, Call
  <2>3. CASE Opens(dcall, dcall')
    <3>1. dcall'.session = opened + 1 /\ dcall'.pc = "identify"
      BY <2>3 DEF Opens, SdTypes, Call
    <3> QED  BY <2>1, <2>2, <2>3, <3>1 DEF Opens, SdTypes, Sweeps, Call, Entry
  <2>4. CASE Misses(dcall, dcall')
    <3>1. dcall'.session = dcall.session /\ dcall'.pc # "identify"
      BY <2>4 DEF Misses, SdTypes, Call
    <3> QED  BY <2>1, <2>2, <2>4, <3>1 DEF Misses
  <2> QED  BY <1>7, <2>3, <2>4, ProbeCases DEF ConnectOpen
<1>8. CASE ConnectIdentify
  <2>0. dcall.session # 0 /\ port = dcall.session /\ sweep.session = 0 /\ dcall.m = "connect"
    BY <1>8 DEF ConnectIdentify
  <2>1. CASE NotIdentified(dcall) /\ UNCHANGED <<kind, plugged, opened, table, sweep, told, calls>>
    <3>1. port' = 0 /\ dcall'.session = 0 /\ dcall'.d = dcall.d /\ dcall'.pc # "identify" /\ dcall'.m = dcall.m
      BY <2>0, <2>1, ProbeCases DEF Closes, SdTypes, Call
    <3> QED  BY <2>0, <2>1, <3>1 DEF SdTypes
  <2>2. CASE /\ told' = TRUE /\ port' = Swept(port, table', sweep, NoCall)
             /\ Store([Unknown EXCEPT !.known = TRUE, !.connected = TRUE, !.session = dcall.session])
    <3>1. port' \in {port, 0}
      BY <2>2, SweptPort
    <3>2. table'.session = dcall.session /\ table'.known /\ table'.connected
      BY <2>2 DEF Store, Unknown
    <3> QED  BY <2>0, <2>2, <3>1, <3>2 DEF Store, Return, NoCall, Unknown
  <2> QED  BY <1>8, <2>1, <2>2 DEF ConnectIdentify
<1>9. CASE ConnectFails
  <2>1. port' \in {port, 0} /\ (sweep.session # 0 /\ port = sweep.session => port' = port)
    BY <1>9, SweptPort DEF ConnectFails
  <2> QED  BY <1>9, <2>1 DEF ConnectFails, Return, NoCall, Unknown
<1>10. CASE Disconnect
  BY <1>10, DropsKeep DEF Disconnect
<1>11. CASE Health
  <2>1. CASE told' = FALSE /\ Store([dcall.d EXCEPT !.connected = FALSE, !.session = 0])
             /\ port' = IF IsOpen(dcall.d) THEN 0 ELSE Swept(port, table', sweep, NoCall)
    BY <1>11, <2>1, DropsKeep DEF Health
  <2>2. CASE UNCHANGED <<kind, plugged, opened, table, sweep, told, calls>> /\ Return
             /\ port' = Swept(port, table, sweep, NoCall)
    <3>1. port' \in {port, 0} /\ (sweep.session # 0 /\ port = sweep.session => port' = port)
      BY <2>2, SweptPort
    <3> QED  BY <2>2, <3>1 DEF Return, NoCall, Unknown
  <2> QED  BY <1>11, <2>1, <2>2 DEF Health
<1>12. CASE Sync
  <2>1. port' \in {port, 0} /\ (sweep.session # 0 /\ port = sweep.session => port' = port)
    BY <1>12, SweptPort DEF Sync
  <2>2. CASE Store([dcall.d EXCEPT !.synced = TRUE])
    <3>1. table'.session = dcall.d.session /\ table'.known = dcall.d.known /\ table'.connected = dcall.d.connected
      BY <2>2 DEF Store, SdTypes, Call, Entry
    <3> QED  BY <1>12, <2>1, <2>2, <3>1 DEF Sync, Store, Return, NoCall, Unknown
  <2>3. CASE Return /\ UNCHANGED <<kind, plugged, opened, table, sweep, calls>>
    BY <1>12, <2>1, <2>3 DEF Sync, Return, NoCall, Unknown
  <2> QED  BY <1>12, <2>2, <2>3 DEF Sync
<1>13. CASE Plug
  BY <1>13 DEF Plug
<1>14. CASE UNCHANGED sdVars
  BY <1>14 DEF sdVars
<1> QED  BY <1>1, <1>2, <1>3, <1>4, <1>5, <1>6, <1>7, <1>8, <1>9, <1>10, <1>11, <1>12, <1>13, <1>14
         DEF SdNext

\* A device that was disconnected, or whose loss was reported, cannot be used until it
\* is connected again, however often a scan puts an older copy of its entry back in
\* the table (eqdrive, skywatcher and gemini device.disconnect, discover).
THEOREM DisconnectHolds == SdSpec => []DisconnectSticks
<1>1. SdInit => SdInv
  BY SdInitInv
<1>2. SdInv /\ [SdNext]_sdVars => SdInv'
  BY SdTypesNext, SessionsNext DEF SdInv
<1>3. SdInv => DisconnectSticks
  BY DEF SdInv, Sessions, Unusable, Copies, DisconnectSticks
<1> QED  BY <1>1, <1>2, <1>3, PTL DEF SdSpec

-----------------------------------------------------------------------------
(***************************************************************************)
(* RepliesMatch for every set of callers and every number of exchanges.    *)
(* It is not inductive: that a read takes only its own answer follows from *)
(* what was left of the line when the exchange began - nothing, if the     *)
(* device owed nothing and the old input was discarded (OwnLine).          *)
(***************************************************************************)

SsSpec == SsInit /\ [][SsNext]_ssVars

Job == [job : Jobs \cup {"none"}, by : Callers \cup {"none"},
        pc : {"idle", "start", "write", "read"}, n : Nat, owed : BOOLEAN]

SsTypes ==
    /\ portOpen \in BOOLEAN /\ jobs \in Seq(Callers)
    /\ asked \in [Callers -> Jobs \cup {"none"}]
    /\ worker \in Job
    /\ owing \in Seq(Nat) /\ input \in Seq(Nat) /\ numbered \in Nat

\* An exchange that began with nothing owed has the line to itself: nothing is on
\* it before the command is written, and its own answer at most after that.
OwnLine ==
    ~worker.owed =>
        /\ worker.pc = "write" => owing = <<>> /\ input = <<>>
        /\ worker.pc = "read" => \/ owing = <<worker.n>> /\ input = <<>>
                                 \/ owing = <<>> /\ (input = <<>> \/ input = <<worker.n>>)

SsInv == SsTypes /\ OwnLine /\ RepliesMatch

LEMMA SsInitInv == SsInit => SsInv
<1> SUFFICES ASSUME SsInit PROVE SsInv
  OBVIOUS
<1>1. SsTypes
  <2>1. worker \in Job
    BY DEF SsInit, NoJob, Job, Jobs
  <2>2. jobs \in Seq(Callers) /\ owing \in Seq(Nat) /\ input \in Seq(Nat)
    BY DEF SsInit
  <2>3. asked \in [Callers -> Jobs \cup {"none"}]
    BY DEF SsInit
  <2> QED  BY <2>1, <2>2, <2>3 DEF SsInit, SsTypes
<1>2. OwnLine /\ RepliesMatch
  BY DEF SsInit, OwnLine, RepliesMatch, NoJob, NoReply
<1> QED  BY <1>1, <1>2 DEF SsInv

\* A job that returns leaves the worker idle and its caller free.
LEMMA ReturnedTypes == ASSUME SsTypes, Returned
                       PROVE worker' \in Job /\ asked' \in [Callers -> Jobs \cup {"none"}]
<1>1. NoJob \in Job
  BY DEF NoJob, Job
<1> QED  BY <1>1 DEF Returned, SsTypes

LEMMA SsTypesNext == ASSUME SsTypes, [SsNext]_ssVars PROVE SsTypes'
<1>0. <<>> \in Seq(Nat)
  OBVIOUS
<1> USE DEF SsTypes
<1>1. ASSUME NEW c \in Callers, NEW j \in Jobs, Run(c, j) PROVE SsTypes'
  BY <1>1 DEF Run
<1>2. CASE NextJob
  <2>1. Head(jobs) \in Callers /\ Tail(jobs) \in Seq(Callers)
    BY <1>2 DEF NextJob
  <2>2. asked[Head(jobs)] \in Jobs \cup {"none"}
    BY <2>1
  <2>3. worker' \in Job
    BY <1>2, <2>1, <2>2 DEF NextJob, NoJob, Job
  <2> QED  BY <1>2, <2>1, <2>3 DEF NextJob
<1>3. CASE Open
  BY <1>0, <1>3, ReturnedTypes DEF Open
<1>4. CASE Close
  BY <1>0, <1>4, ReturnedTypes DEF Close
<1>5. CASE NotOpen
  BY <1>5, ReturnedTypes DEF NotOpen
<1>6. CASE Clear
  <2>1. worker' \in Job
    <3>1. ASSUME NEW n \in Nat, NEW b \in BOOLEAN
          PROVE [worker EXCEPT !.pc = "write", !.n = n, !.owed = b] \in Job
      BY DEF Job
    <3>2. (owing # <<>>) \in BOOLEAN /\ numbered + 1 \in Nat
      OBVIOUS
    <3> QED  BY <1>6, <3>1, <3>2, Zenon DEF Clear
  <2>2. numbered' \in Nat /\ input' \in Seq(Nat)
    BY <1>0, <1>6 DEF Clear
  <2>3. portOpen' \in BOOLEAN /\ jobs' \in Seq(Callers) /\ owing' \in Seq(Nat)
    BY <1>6 DEF Clear
  <2>4. asked' \in [Callers -> Jobs \cup {"none"}]
    BY <1>6 DEF Clear
  <2> QED  BY <2>1, <2>2, <2>3, <2>4
<1>7. CASE Write
  <2>1. worker.n \in Nat /\ Append(owing, worker.n) \in Seq(Nat)
    BY DEF Job
  <2>2. CASE Returned /\ owing' \in {owing, Append(owing, worker.n)}
    BY <1>7, <2>1, <2>2, ReturnedTypes DEF Write
  <2>3. CASE owing' = Append(owing, worker.n) /\ worker' = [worker EXCEPT !.pc = "read"] /\ UNCHANGED asked
    <3>1. worker' \in Job
      BY <2>3 DEF Job
    <3> QED  BY <1>7, <2>1, <2>3, <3>1 DEF Write
  <2> QED  BY <1>7, <2>2, <2>3 DEF Write
<1>8. CASE Answer
  <2>1. Head(owing) \in Nat /\ Tail(owing) \in Seq(Nat)
    BY <1>8 DEF Answer
  <2>2. Append(input, Head(owing)) \in Seq(Nat)
    BY <2>1
  <2> QED  BY <1>8, <2>1, <2>2 DEF Answer
<1>9. CASE Read \/ TimeOut
  BY <1>0, <1>9, ReturnedTypes DEF Read, TimeOut
<1>10. CASE UNCHANGED ssVars
  BY <1>10 DEF ssVars
<1> QED  BY <1>1, <1>2, <1>3, <1>4, <1>5, <1>6, <1>7, <1>8, <1>9, <1>10 DEF SsNext

\* Only the device and the worker touch the line, and the worker runs one job.
LEMMA OwnLineNext == ASSUME SsTypes, OwnLine, [SsNext]_ssVars PROVE OwnLine'
<1> USE DEF OwnLine, NoJob
<1>1. ASSUME NEW c \in Callers, NEW j \in Jobs, Run(c, j) PROVE OwnLine'
  BY <1>1 DEF Run
<1>2. CASE NextJob
  BY <1>2 DEF NextJob, Job, SsTypes
<1>3. CASE Open \/ Close \/ NotOpen
  BY <1>3 DEF Open, Close, NotOpen, Returned
<1>4. CASE Clear
  BY <1>4 DEF Clear, SsTypes, Job
<1>5. CASE Write
  <2>1. owing = <<>> => Append(owing, worker.n) = <<worker.n>>
    BY DEF SsTypes
  <2>2. CASE Returned
    BY <2>2 DEF Returned
  <2>3. CASE owing' = Append(owing, worker.n) /\ worker' = [worker EXCEPT !.pc = "read"]
    BY <1>5, <2>1, <2>3 DEF Write, SsTypes, Job
  <2> QED  BY <1>5, <2>2, <2>3 DEF Write
<1>6. CASE Answer
  <2>1. owing # <<>> /\ worker' = worker
    BY <1>6 DEF Answer
  <2>2. CASE ~worker.owed /\ worker.pc = "read"
    <3>1. owing = <<worker.n>> /\ input = <<>>
      BY <2>1, <2>2
    <3>2. Head(owing) = worker.n /\ Tail(owing) = <<>> /\ Append(input, worker.n) = <<worker.n>>
      BY <3>1 DEF SsTypes
    <3> QED  BY <1>6, <2>1, <3>1, <3>2 DEF Answer
  <2> QED  BY <2>1, <2>2
<1>7. CASE Read \/ TimeOut
  BY <1>7 DEF Read, TimeOut, Returned
<1>8. CASE UNCHANGED ssVars
  BY <1>8 DEF ssVars
<1> QED  BY <1>1, <1>2, <1>3, <1>4, <1>5, <1>6, <1>7, <1>8 DEF SsNext

\* The reply changes only when a worker reads, and then OwnLine says what is read.
LEMMA RepliesMatchNext ==
    ASSUME SsTypes, OwnLine, RepliesMatch, [SsNext]_ssVars PROVE RepliesMatch'
<1> USE DEF RepliesMatch
<1>1. CASE Read
  BY <1>1 DEF Read, OwnLine, SsTypes
<1>2. CASE reply' = reply
  BY <1>2
<1> QED  BY <1>1, <1>2 DEF SsNext, ssVars, Run, NextJob, Open, Close, Clear, NotOpen, Write, Answer, TimeOut

\* A reply that is not exactly the answer to its own command is taken only by an
\* exchange that began while an older command, whose write or whose answer had timed
\* out, was unanswered, however many threads use the session
\* (OalBlockingSerialSession, common_blocking_serial_session.h:112-176).
THEOREM RepliesAreOwn == SsSpec => []RepliesMatch
<1>1. SsInit => SsInv
  BY SsInitInv
<1>2. SsInv /\ [SsNext]_ssVars => SsInv'
  BY SsTypesNext, OwnLineNext, RepliesMatchNext DEF SsInv
<1>3. SsInv => RepliesMatch
  BY DEF SsInv
<1> QED  BY <1>1, <1>2, <1>3, PTL DEF SsSpec

-----------------------------------------------------------------------------
(***************************************************************************)
(* ShutterCloses and FrameIsOwn for any number of captures and faults.     *)
(*                                                                         *)
(* Unless an earlier capture left a file behind, whatever the camera still *)
(* holds - an open shutter, a picture it has not announced, a file nobody  *)
(* took - is of the capture in progress (OwnTraces); with one file for     *)
(* each picture there is at most one such trace (OneTrace).  While a       *)
(* session is being closed only the camera may hold something (Closing).   *)
(***************************************************************************)

CdSpec == CdInit /\ [][CdNext]_cdVars

CamEntry == [connected : BOOLEAN, abort : BOOLEAN, lost : BOOLEAN]
Points == {"idle", "set", "press", "hold", "expose", "wait", "load", "show", "gone", "closing"}
Shot == [pc : Points, n : Nat, bulb : BOOLEAN, cancelled : BOOLEAN, exposed : BOOLEAN, item : Nat]
Frame == [of : Nat, picture : Nat, left : BOOLEAN]

CdTypes ==
    /\ usb \in BOOLEAN /\ session \in BOOLEAN /\ known \in BOOLEAN /\ hint \in BOOLEAN
    /\ left \in BOOLEAN /\ stuck \in BOOLEAN
    /\ cam \in CamEntry /\ shot \in Shot /\ frame \in Frame
    /\ shutter \in Nat /\ files \in {1, 2} /\ shots \in Nat
    /\ making \in Seq(Nat) /\ pending \in Seq(Nat)

\* Pictures come from a session, and a session is with a camera that is connected, or
\* being closed, or left by an entry that was dropped while it was.
SessionHeld ==
    /\ making # <<>> => session
    /\ session => cam.connected \/ shot.pc = "closing" \/ (left /\ shot.pc \in {"idle", "gone"})

\* A shutter that is open without a command having failed is that of the capture.
ShutterHeld == ~stuck /\ shutter # 0 => shot.pc \in {"hold", "expose"} /\ session

Nothing == pending = <<>> /\ making = <<>> /\ shutter = 0

OwnTraces ==
    /\ \A i \in 1 .. Len(pending) : pending[i] = shot.n
    /\ \A i \in 1 .. Len(making) : making[i] = shot.n
    /\ shutter \in {0, shot.n}
    /\ ~shot.exposed \/ shot.pc \in {"idle", "gone", "set", "press"} => Nothing
    /\ shot.pc \in {"load", "show"} => shot.item = shot.n

OneTrace ==
    /\ shot.pc \in {"load", "show"} => Nothing
    /\ \/ Len(pending) + Len(making) <= 1 /\ shutter = 0
       \/ pending = <<>> /\ making = <<>>

Traces == ~left /\ shot.pc # "closing" => OwnTraces /\ (files = 1 => OneTrace)

Closing == ~left /\ shot.pc = "closing" => pending = <<>> /\ shutter = 0

CdInv == CdTypes /\ SessionHeld /\ ShutterHeld /\ Traces /\ Closing /\ FrameIsOwn

LEMMA CdInitInv == CdInit => CdInv
<1> SUFFICES ASSUME CdInit PROVE CdInv
  OBVIOUS
<1> USE DEF CdInit, NoShot, NoFrame, Closed
<1>1. CdTypes
  <2>1. cam \in CamEntry
    BY DEF CamEntry
  <2>2. shot \in Shot
    BY DEF Shot, Points
  <2>3. frame \in Frame
    BY DEF Frame
  <2>4. making \in Seq(Nat) /\ pending \in Seq(Nat)
    OBVIOUS
  <2> QED  BY <2>1, <2>2, <2>3, <2>4 DEF CdTypes
<1>2. SessionHeld /\ ShutterHeld /\ FrameIsOwn
  <2>1. SessionHeld
    BY DEF SessionHeld
  <2>2. ShutterHeld
    BY DEF ShutterHeld
  <2>3. FrameIsOwn
    BY DEF FrameIsOwn
  <2> QED  BY <2>1, <2>2, <2>3
<1>3. Nothing /\ pending = <<>> /\ making = <<>> /\ shot.pc = "idle"
  BY DEF Nothing
<1>4. OwnTraces /\ OneTrace
  BY <1>3 DEF OwnTraces, OneTrace
<1> QED  BY <1>1, <1>2, <1>3, <1>4 DEF CdInv, Traces, Closing

-----------------------------------------------------------------------------
(* Types *)

\* What a step may make of the capture in progress.
LEMMA ShotMoves ==
    ASSUME NEW s \in Shot, NEW p \in Points, NEW n \in Nat, NEW b \in BOOLEAN
    PROVE  /\ NoShot \in Shot
           /\ [NoShot EXCEPT !.pc = "set", !.n = n, !.bulb = b] \in Shot
           /\ [s EXCEPT !.pc = p] \in Shot
           /\ [s EXCEPT !.cancelled = b] \in Shot
           /\ [s EXCEPT !.pc = p, !.bulb = FALSE] \in Shot
           /\ [s EXCEPT !.pc = p, !.exposed = TRUE] \in Shot
           /\ [s EXCEPT !.pc = "load", !.exposed = TRUE, !.item = n] \in Shot
           /\ [s EXCEPT !.pc = "load", !.item = n] \in Shot
BY DEF Shot, NoShot, Points

LEMMA NoShotMoves ==
    /\ NoShot \in Shot /\ [NoShot EXCEPT !.pc = "closing"] \in Shot
    /\ NoShot.pc = "idle" /\ ~NoShot.exposed
BY DEF Shot, NoShot, Points

LEMMA CamMoves ==
    ASSUME NEW c \in CamEntry
    PROVE  /\ Closed \in CamEntry /\ [Closed EXCEPT !.connected = TRUE] \in CamEntry
           /\ [c EXCEPT !.connected = FALSE, !.abort = TRUE] \in CamEntry
           /\ [c EXCEPT !.abort = TRUE] \in CamEntry /\ [c EXCEPT !.abort = FALSE] \in CamEntry
           /\ [connected |-> FALSE, abort |-> TRUE, lost |-> TRUE] \in CamEntry
BY DEF CamEntry, Closed

\* The types of what the camera holds and what was left of it.
LEMMA ShutTypes ==
    ASSUME CdTypes, Shut PROVE shutter' \in Nat /\ making' \in Seq(Nat)
BY DEF CdTypes, Shut

LEMMA ReleaseTypes ==
    ASSUME CdTypes, Released \/ Jammed
    PROVE  shutter' \in Nat /\ making' \in Seq(Nat) /\ stuck' \in BOOLEAN
BY ShutTypes DEF CdTypes, Released, Jammed

LEMMA EndTypes ==
    ASSUME CdTypes, NEW took \in BOOLEAN, End(took) PROVE shot' \in Shot /\ left' \in BOOLEAN
<1>1. (left \/ (shot.exposed /\ (~took \/ files = 2))) \in BOOLEAN
  OBVIOUS
<1>2. shot' = NoShot /\ left' \in BOOLEAN
  BY <1>1, Zenon DEF End
<1>3. NoShot \in Shot
  BY DEF NoShot, Shot, Points
<1> QED  BY <1>2, <1>3

LEMMA AtTypes ==
    ASSUME CdTypes, NEW pc, NEW next \in Points, At(pc, next)
    PROVE  shot' \in Shot /\ cam' \in CamEntry /\ frame' \in Frame /\ left' \in BOOLEAN
           /\ pending' \in Seq(Nat) /\ shots' \in Nat
           /\ usb' \in BOOLEAN /\ session' \in BOOLEAN /\ known' \in BOOLEAN /\ hint' \in BOOLEAN /\ files' \in {1, 2}
BY ShotMoves DEF CdTypes, At, entry

LEMMA CdTypesNext == ASSUME CdTypes, [CdNext]_cdVars PROVE CdTypes'
<1> USE DEF CdTypes, entry, camera
<1>0. <<>> \in Seq(Nat) /\ (shutter # 0) \in BOOLEAN /\ (shutter # 0 \/ session) \in BOOLEAN
  OBVIOUS
<1>1. ASSUME NEW k \in {"edsdk", "gphoto"}, Start(k) PROVE CdTypes'
  BY <1>1 DEF Start
<1>2. CASE RefreshEnumeration
  <2>1. /\ known' \in BOOLEAN /\ hint' \in BOOLEAN
        /\ UNCHANGED <<body, usb, session, camera, frame, stuck, shots, faults>>
    BY <1>2 DEF RefreshEnumeration
  <2>2. CASE UNCHANGED <<cam, pending, left, shot>>
    BY <2>1, <2>2
  <2>3. CASE cam' = Closed /\ pending' = <<>> /\ left' = (shutter # 0 \/ session)
             /\ shot' = IF shot.pc = "idle" THEN shot ELSE [shot EXCEPT !.pc = "gone"]
    <3>1. cam' \in CamEntry /\ shot' \in Shot /\ left' \in BOOLEAN
      BY <1>0, <2>3, CamMoves, ShotMoves DEF Points
    <3> QED  BY <1>0, <2>1, <2>3, <3>1
  <2> QED  BY <1>2, <2>2, <2>3 DEF RefreshEnumeration
<1>3. CASE ListDevices
  BY <1>3 DEF ListDevices
<1>4. CASE Connected
  <2>1. cam' \in CamEntry /\ pending' \in Seq(Nat) /\ left' \in BOOLEAN
    BY <1>0, <1>4, CamMoves DEF Connected, OpenSession, ConfigureCameraObject
  <2> QED  BY <1>0, <1>4, <2>1 DEF Connected
<1>5. /\ ReleaseItems => cam' \in CamEntry /\ left' \in BOOLEAN /\ pending' \in Seq(Nat)
      /\ CloseSession => making' \in Seq(Nat) /\ session' \in BOOLEAN
      /\ FreeCamera => /\ cam' \in CamEntry /\ left' \in BOOLEAN /\ session' \in BOOLEAN
                       /\ making' \in Seq(Nat) /\ pending' \in Seq(Nat)
  BY <1>0, CamMoves DEF ReleaseItems, CloseSession, FreeCamera
<1>6. CASE ConnectRefused
  <2>1. CASE FreeCamera
    BY <1>5, <1>6, <2>1 DEF ConnectRefused
  <2>2. CASE UNCHANGED <<cam, pending, making, left, session>>
    BY <1>6, <2>2 DEF ConnectRefused
  <2> QED  BY <1>6, <2>1, <2>2 DEF ConnectRefused
<1>7. CASE DisconnectCamera \/ SessionCloses
  <2>1. CASE DisconnectCamera /\ ReleaseItems /\ shot' = [NoShot EXCEPT !.pc = "closing"]
             /\ UNCHANGED <<making, session>>
    <3>1. shot' \in Shot
      BY <2>1, NoShotMoves
    <3> QED  BY <1>5, <2>1, <3>1 DEF DisconnectCamera
  <2>2. CASE DisconnectCamera /\ FreeCamera /\ UNCHANGED shot
    BY <1>5, <2>2 DEF DisconnectCamera
  <2>3. CASE DisconnectCamera /\ cam' = [cam EXCEPT !.abort = TRUE]
             /\ UNCHANGED <<making, pending, left, session, shot>>
    BY <2>3, CamMoves DEF DisconnectCamera
  <2>4. CASE SessionCloses
    <3>1. shot' \in Shot
      BY <2>4, NoShotMoves DEF SessionCloses
    <3> QED  BY <1>5, <2>4, <3>1 DEF SessionCloses
  <2> QED  BY <1>7, <2>1, <2>2, <2>3, <2>4 DEF DisconnectCamera
<1>8. CASE Stop
  <2>1. (ReleaseItems /\ CloseSession) \/ FreeCamera
    BY <1>8 DEF Stop
  <2> QED  BY <1>5, <1>8, <2>1 DEF Stop
<1>9. CASE Power
  <2>1. (hint \/ (Edsdk /\ ~usb)) \in BOOLEAN
    OBVIOUS
  <2>2. hint' \in BOOLEAN
    BY <1>9, <2>1, Zenon DEF Power
  <2> QED  BY <1>0, <1>9, <2>2 DEF Power
<1>10. CASE Shutdown
  BY <1>10, CamMoves DEF Shutdown
<1>11. CASE Announce
  <2>1. [i \in 1 .. files |-> Head(making)] \in Seq(Nat) /\ Tail(making) \in Seq(Nat)
    BY <1>11 DEF Announce
  <2>2. pending' \in Seq(Nat)
    BY <1>11, <2>1 DEF Announce
  <2>3. left' \in BOOLEAN
    <3>1. (left \/ shot.pc = "closing") \in BOOLEAN
      OBVIOUS
    <3> QED  BY <1>11, <3>1, Zenon DEF Announce
  <2> QED  BY <1>11, <2>1, <2>2, <2>3 DEF Announce
<1>12. CASE Abort
  <2>1. shutter' \in Nat /\ making' \in Seq(Nat)
    BY <1>12, ShutTypes DEF Abort
  <2> QED  BY <1>12, <2>1, CamMoves DEF Abort
<1>13. CASE Cancel
  <2>1. Edsdk \in BOOLEAN
    BY DEF Edsdk
  <2>2. \A b \in BOOLEAN : [shot EXCEPT !.cancelled = b] \in Shot
    BY DEF Shot
  <2>3. shot' \in Shot
    BY <1>13, <2>1, <2>2, Zenon DEF Cancel
  <2> QED  BY <1>13, <2>3 DEF Cancel
<1>14. ASSUME NEW bulb \in BOOLEAN, Begin(bulb) PROVE CdTypes'
  <2>1. shots + 1 \in Nat
    OBVIOUS
  <2>2. shot' \in Shot
    BY <1>14, <2>1, ShotMoves DEF Begin, Points
  <2> QED  BY <1>14, <2>1, <2>2, CamMoves DEF Begin
<1>15. CASE Configure
  <2>1. CASE Configured
    BY <2>1, AtTypes DEF Configured, Points
  <2>2. CASE NotConfigured
    BY <2>2, EndTypes DEF NotConfigured, Fail
  <2>3. CASE AsItIs
    BY <2>3, ShotMoves DEF AsItIs, Points
  <2> QED  BY <1>15, <2>1, <2>2, <2>3 DEF Configure, SetIsoAndTv, SetExposure
<1>16. CASE Press
  <2>1. CASE Fail /\ UNCHANGED <<shutter, making>>
    BY <1>16, <2>1, EndTypes DEF Press, Fail
  <2>2. CASE shutter' = shot.n /\ UNCHANGED <<cam, making, pending, frame, left, shots>>
             /\ shot' = [shot EXCEPT !.pc = IF shot.bulb THEN "expose" ELSE "hold", !.exposed = TRUE]
    <3>0. shot.n \in Nat
      BY DEF Shot
    <3>1. shot' \in Shot
      <4>1. CASE shot.bulb
        BY <2>2, <3>0, <4>1, ShotMoves DEF Points
      <4>2. CASE ~shot.bulb
        BY <2>2, <3>0, <4>2, ShotMoves DEF Points
      <4> QED  BY <4>1, <4>2
    <3> QED  BY <1>16, <2>2, <3>0, <3>1 DEF Press
  <2> QED  BY <1>16, <2>1, <2>2 DEF Press
<1>17. CASE Shoot
  <2>1. CASE Fail
    BY <1>17, <2>1, EndTypes DEF Shoot, Fail
  <2>2. CASE UNCHANGED <<cam, pending, frame, left, shots>>
             /\ shot' = [shot EXCEPT !.pc = "load", !.exposed = TRUE, !.item = shot.n]
    <3>0. shot.n \in Nat
      BY DEF Shot
    <3>1. shot' \in Shot
      BY <2>2, <3>0, ShotMoves DEF Points
    <3> QED  BY <1>17, <2>2, <3>1 DEF Shoot
  <2> QED  BY <1>17, <2>1, <2>2 DEF Shoot
<1>18. CASE LetGo
  <2>1. CASE At("hold", "wait") /\ Released
    BY <2>1, AtTypes, ReleaseTypes DEF Points
  <2>2. CASE Jammed /\ Fail /\ UNCHANGED entry
    BY <2>2, EndTypes, ReleaseTypes DEF Fail
  <2> QED  BY <1>18, <2>1, <2>2 DEF LetGo
<1>19. CASE Aborted
  BY <1>19, EndTypes, ReleaseTypes DEF Aborted, Fail
<1>20. CASE TimeUp
  <2>1. CASE At("expose", "wait") /\ (Released \/ Jammed)
    BY <2>1, AtTypes, ReleaseTypes DEF Points
  <2>2. CASE Jammed /\ Fail /\ UNCHANGED entry
    BY <2>2, EndTypes, ReleaseTypes DEF Fail
  <2> QED  BY <1>20, <2>1, <2>2 DEF TimeUp
<1>21. CASE Take
  <2>1. Head(pending) \in Nat /\ Tail(pending) \in Seq(Nat)
    BY <1>21 DEF Take
  <2>2. shot' \in Shot
    BY <1>21, <2>1, ShotMoves DEF Take, Points
  <2> QED  BY <1>21, <2>1, <2>2 DEF Take
<1>22. CASE NoFile
  BY <1>22, EndTypes DEF NoFile, Fail
<1>23. CASE LoadFile
  <2>1. CASE Loaded
    BY <2>1, AtTypes DEF Loaded, Points
  <2>2. CASE NotLoaded
    <3>1. shot' \in Shot /\ left' \in BOOLEAN
      BY <2>2, EndTypes DEF NotLoaded
    <3> QED  BY <2>2, <3>1 DEF NotLoaded
  <2> QED  BY <1>23, <2>1, <2>2 DEF LoadFile, Download, FileBytes
<1>24. CASE Publish
  <2>1. shot' \in Shot /\ left' \in BOOLEAN
    BY <1>24, EndTypes DEF Publish, PublishFrame, StoreOriginal, PublishPreview
  <2>2. frame' \in Frame
    BY <1>24 DEF Publish, PublishFrame, StoreOriginal, PublishPreview, Frame, Shot
  <2> QED  BY <1>24, <2>1, <2>2 DEF Publish, StoreOriginal, PublishPreview, PublishFrame
<1>25. CASE Gone
  <2>1. NoShot \in Shot
    BY DEF NoShot, Shot, Points
  <2> QED  BY <1>5, <1>25, <2>1 DEF Gone
<1>26. CASE UNCHANGED cdVars
  BY <1>26 DEF cdVars
<1> QED  BY <1>1, <1>2, <1>3, <1>4, <1>6, <1>7, <1>8, <1>9, <1>10, <1>11, <1>12, <1>13, <1>14, <1>15,
            <1>16, <1>17, <1>18, <1>19, <1>20, <1>21, <1>22, <1>23, <1>24, <1>25, <1>26
         DEF CdNext, Scan, Connect

-----------------------------------------------------------------------------
(* The session and the shutter *)

\* Sessions come and go with the camera; only a press opens the shutter, and only a
\* command that failed lets a capture end with it open.
LEMMA HeldNext == ASSUME CdTypes, SessionHeld, ShutterHeld, [CdNext]_cdVars PROVE SessionHeld' /\ ShutterHeld'
<1> USE DEF CdTypes, CamEntry, Shot, SessionHeld, ShutterHeld, entry, camera
<1>1. ASSUME NEW k \in {"edsdk", "gphoto"}, Start(k) PROVE SessionHeld' /\ ShutterHeld'
  BY <1>1 DEF Start
<1>2. CASE RefreshEnumeration
  <2>1. UNCHANGED <<session, shutter, making, files, frame, stuck>>
    BY <1>2 DEF RefreshEnumeration
  <2>2. CASE UNCHANGED <<cam, left, shot, pending>>
    BY <2>1, <2>2
  <2>3. CASE /\ ~cam.connected /\ cam' = Closed /\ pending' = <<>> /\ left' = (shutter # 0 \/ session)
             /\ shot' = IF shot.pc = "idle" THEN shot ELSE [shot EXCEPT !.pc = "gone"]
    <3>1. shot'.pc = IF shot.pc = "idle" THEN "idle" ELSE "gone"
      BY <2>3
    <3>2. ~cam'.connected
      BY <2>3 DEF Closed
    <3> QED  BY <2>1, <2>3, <3>1, <3>2
  <2> QED  BY <1>2, <2>2, <2>3 DEF RefreshEnumeration
<1>3. CASE ListDevices
  BY <1>3 DEF ListDevices
<1>4. CASE Connected
  BY <1>4 DEF Connected, OpenSession, ConfigureCameraObject, Closed
<1>5. CASE ConnectRefused
  BY <1>5 DEF ConnectRefused, FreeCamera
<1>6. CASE DisconnectCamera \/ SessionCloses
  <2>1. CASE DisconnectCamera /\ ReleaseItems /\ shot.pc = "idle"
             /\ shot' = [NoShot EXCEPT !.pc = "closing"] /\ UNCHANGED <<making, session>>
    <3>1. shot'.pc = "closing" /\ UNCHANGED <<shutter, stuck>>
      BY <2>1 DEF DisconnectCamera, NoShot
    <3> QED  BY <2>1, <3>1
  <2>2. CASE DisconnectCamera /\ FreeCamera /\ UNCHANGED shot /\ shot.pc = "idle"
    BY <2>2 DEF DisconnectCamera, FreeCamera
  <2>3. CASE DisconnectCamera /\ cam' = [cam EXCEPT !.abort = TRUE]
             /\ UNCHANGED <<making, pending, left, session, shot>>
    BY <2>3 DEF DisconnectCamera
  <2>4. CASE SessionCloses
    BY <2>4, NoShotMoves DEF SessionCloses, CloseSession
  <2> QED  BY <1>6, <2>1, <2>2, <2>3, <2>4 DEF DisconnectCamera
<1>7. CASE Stop
  BY <1>7 DEF Stop, ReleaseItems, CloseSession, FreeCamera
<1>8. CASE Power
  BY <1>8 DEF Power
<1>9. CASE Shutdown
  BY <1>9 DEF Shutdown
<1>10. CASE Announce
  BY <1>10 DEF Announce
<1>11. CASE Abort
  BY <1>11 DEF Abort, Shut, Works, Fails
<1>12. CASE Cancel
  BY <1>12 DEF Cancel
<1>13. ASSUME NEW bulb \in BOOLEAN, Begin(bulb) PROVE SessionHeld' /\ ShutterHeld'
  BY <1>13 DEF Begin, NoShot
<1>14. CASE Configure
  BY <1>14 DEF Configure, SetIsoAndTv, SetExposure, Configured, NotConfigured, AsItIs, At, Fail, End, NoShot
<1>15. CASE Press
  <2>1. CASE Works /\ shutter' = shot.n /\ UNCHANGED <<cam, making, left>>
             /\ shot' = [shot EXCEPT !.pc = IF shot.bulb THEN "expose" ELSE "hold", !.exposed = TRUE]
    <3>1. shot'.pc \in {"expose", "hold"} /\ session /\ UNCHANGED <<session, stuck>> /\ shot.pc = "press"
      BY <1>15, <2>1 DEF Press, Works
    <3> QED  BY <2>1, <3>1
  <2>2. CASE Fail /\ UNCHANGED <<shutter, making>>
    <3>1. shot.pc = "press" /\ UNCHANGED <<session, stuck, cam>> /\ shot'.pc = "idle" /\ (left => left')
      BY <1>15, <2>2, NoShotMoves DEF Press, Fail, End
    <3> QED  BY <2>2, <3>1
  <2> QED  BY <1>15, <2>1, <2>2 DEF Press
<1>16. CASE Shoot
  BY <1>16 DEF Shoot, Fail, End, NoShot
<1>17. CASE LetGo
  BY <1>17 DEF LetGo, At, Released, Jammed, Fail, End, Shut, Works, NoShot
<1>18. CASE Aborted
  BY <1>18 DEF Aborted, Released, Jammed, Fail, End, Shut, Works, NoShot
<1>19. CASE TimeUp
  BY <1>19 DEF TimeUp, At, Released, Jammed, Fail, End, Shut, Works, NoShot
<1>20. CASE Take
  BY <1>20 DEF Take
<1>21. CASE NoFile
  BY <1>21 DEF NoFile, Fail, End, NoShot
<1>22. CASE LoadFile
  BY <1>22 DEF LoadFile, Download, FileBytes, Loaded, NotLoaded, At, End, NoShot
<1>23. CASE Publish
  BY <1>23 DEF Publish, PublishFrame, PublishPreview, StoreOriginal, End, NoShot
<1>24. CASE Gone
  BY <1>24 DEF Gone, CloseSession, NoShot
<1>25. CASE UNCHANGED cdVars
  BY <1>25 DEF cdVars
<1> QED  BY <1>1, <1>2, <1>3, <1>4, <1>5, <1>6, <1>7, <1>8, <1>9, <1>10, <1>11, <1>12, <1>13, <1>14, <1>15, <1>16, <1>17, <1>18, <1>19, <1>20, <1>21, <1>22, <1>23, <1>24, <1>25
         DEF CdNext, Scan, Connect

-----------------------------------------------------------------------------
(* What the camera holds *)

\* Nothing is held: that is anybody's.
LEMMA NothingHeld ==
    ASSUME Nothing', shot'.pc \notin {"load", "show"} PROVE Traces'
BY DEF Nothing, Traces, OwnTraces, OneTrace

LEMMA NothingStays ==
    ASSUME Nothing, pending' = pending, Shut \/ UNCHANGED <<shutter, making>> PROVE Nothing'
BY DEF Nothing, Shut

\* A capture that ends without a picture leaves its traces to the next one only if the
\* shutter had opened.
LEMMA FailTraces ==
    ASSUME CdTypes, Traces, shot.pc # "closing", Fail, Shut \/ UNCHANGED <<shutter, making>> PROVE Traces'
<1>1. CASE left'
  BY <1>1 DEF Traces
<1>2. CASE ~left'
  <2>1. ~left /\ ~shot.exposed /\ shot'.pc = "idle" /\ pending' = pending
    BY <1>2 DEF Fail, End, NoShot
  <2>2. Nothing
    BY <2>1 DEF Traces, OwnTraces
  <2> QED  BY <2>1, <2>2, NothingStays, NothingHeld
<1> QED  BY <1>1, <1>2

\* The shutter closes over the picture of the capture, or was closed.
LEMMA ShutTraces ==
    ASSUME CdTypes, Traces, Shut, UNCHANGED <<pending, left, files>>,
           shot'.n = shot.n, shot'.item = shot.item, shot'.exposed = shot.exposed,
           shot'.pc = shot.pc \/ (shot.pc \in {"hold", "expose"} /\ shot'.pc = "wait")
    PROVE  Traces'
<1> SUFFICES ASSUME ~left, shot.pc # "closing" PROVE Traces'
  BY DEF Traces
<1>1. OwnTraces /\ (files = 1 => OneTrace)
  BY DEF Traces
<1>2. CASE shutter = 0
  <2>1. UNCHANGED <<shutter, making>>
    BY <1>2 DEF Shut
  <2> QED  BY <1>1, <2>1 DEF Traces, OwnTraces, OneTrace, Nothing
<1>3. CASE shutter # 0
  <2>1. shutter' = 0 /\ making' = Append(making, shutter) /\ shutter = shot.n
    BY <1>1, <1>3 DEF Shut, OwnTraces
  <2>2. /\ Len(making') = Len(making) + 1
        /\ \A i \in 1 .. Len(making') : making'[i] = shot.n
    BY <1>1, <2>1 DEF OwnTraces, CdTypes
  <2>3. shot.exposed /\ shot.pc \notin {"idle", "gone", "set", "press"}
    BY <1>1, <1>3 DEF OwnTraces, Nothing
  <2>4. OwnTraces'
    BY <1>1, <2>1, <2>2, <2>3 DEF OwnTraces, Shot, CdTypes
  <2>5. files = 1 => OneTrace'
    <3>1. files = 1 => pending = <<>> /\ making = <<>>
      BY <1>1, <1>3 DEF OneTrace
    <3>2. files = 1 => Len(pending') + Len(making') <= 1
      BY <2>2, <3>1
    <3>3. files = 1 => shot'.pc \notin {"load", "show"}
      BY <1>1, <1>3 DEF OneTrace, Nothing
    <3> QED  BY <2>1, <3>2, <3>3 DEF OneTrace
  <2> QED  BY <2>4, <2>5 DEF Traces
<1> QED  BY <1>2, <1>3

\* The files a picture makes are put behind those there are.
LEMMA AppendedFiles ==
    ASSUME NEW a \in Seq(Nat), NEW b \in Seq(Nat)
    PROVE  /\ Len(a \o b) = Len(a) + Len(b)
           /\ \A i \in 1 .. Len(a \o b) : (a \o b)[i] = IF i <= Len(a) THEN a[i] ELSE b[i - Len(a)]
OBVIOUS

\* A step keeps the camera's traces those of the capture in progress, or some are left.
LEMMA TracesNext ==
    ASSUME CdTypes, CdTypes', SessionHeld, Traces, Closing, [CdNext]_cdVars PROVE Traces'
<1>0. ASSUME shot.pc \in {"idle", "gone", "set", "press"}, ~left PROVE Nothing
  BY <1>0 DEF Traces, OwnTraces
<1> USE DEF CdTypes, CamEntry, Shot, SessionHeld, Traces, OwnTraces, OneTrace, Nothing, entry, camera
<1>1. ASSUME NEW k \in {"edsdk", "gphoto"}, Start(k) PROVE Traces'
  BY <1>1 DEF Start
<1>2. CASE RefreshEnumeration
  <2>1. UNCHANGED <<session, shutter, making, files, frame, stuck>>
    BY <1>2 DEF RefreshEnumeration
  <2>2. CASE UNCHANGED <<cam, left, shot, pending>>
    BY <2>1, <2>2
  <2>3. CASE /\ ~cam.connected /\ cam' = Closed /\ pending' = <<>> /\ left' = (shutter # 0 \/ session)
             /\ shot' = IF shot.pc = "idle" THEN shot ELSE [shot EXCEPT !.pc = "gone"]
    <3>1. shot'.pc \in {"idle", "gone"}
      BY <2>3
    <3>2. ~left' => Nothing'
      BY <2>1, <2>3
    <3> QED  BY <3>1, <3>2, NothingHeld
  <2> QED  BY <1>2, <2>2, <2>3 DEF RefreshEnumeration
<1>3. CASE ListDevices
  BY <1>3 DEF ListDevices
<1>4. CASE Connected
  BY <1>4 DEF Connected, OpenSession, ConfigureCameraObject, Closed
<1>5. CASE ConnectRefused
  BY <1>5 DEF ConnectRefused, FreeCamera
<1>6. CASE DisconnectCamera
  <2>1. CASE shot'.pc = "closing"
    BY <2>1
  <2>2. CASE shot.pc = "idle" /\ FreeCamera /\ UNCHANGED shot
    BY <1>6, <2>2 DEF DisconnectCamera, FreeCamera
  <2>3. CASE UNCHANGED <<making, pending, left, session, shot>>
    BY <1>6, <2>3 DEF DisconnectCamera
  <2> QED  BY <1>6, <2>1, <2>2, <2>3 DEF DisconnectCamera, NoShot
<1>26. CASE SessionCloses
  <2>1. ~left' => Nothing'
    BY <1>26 DEF SessionCloses, CloseSession, Closing
  <2>2. shot'.pc = "idle"
    BY <1>26 DEF SessionCloses, NoShot
  <2> QED  BY <2>1, <2>2, NothingHeld
<1>7. CASE Stop
  BY <1>7 DEF Stop, ReleaseItems, CloseSession, FreeCamera
<1>8. CASE Power
  BY <1>8 DEF Power
<1>9. CASE Shutdown
  BY <1>9 DEF Shutdown
<1>10. CASE Announce
  <2> SUFFICES ASSUME ~left, shot.pc # "closing" PROVE Traces'
    BY <1>10 DEF Announce
  <2>1. making # <<>> /\ Head(making) = shot.n /\ UNCHANGED <<shutter, shot, left, files>>
    BY <1>10 DEF Announce
  <2>2. /\ Len(making') = Len(making) - 1
        /\ \A i \in 1 .. Len(making') : making'[i] = shot.n
    BY <1>10, <2>1 DEF Announce
  <2> DEFINE new == [i \in 1 .. files |-> Head(making)]
  <2>3. new \in Seq(Nat) /\ Len(new) = files /\ \A i \in 1 .. files : new[i] = shot.n
    BY <2>1
  <2>4. /\ Len(pending') = Len(pending) + files
        /\ \A i \in 1 .. Len(pending') : pending'[i] = shot.n
    <3>1. pending' = pending \o new
      BY <1>10 DEF Announce
    <3>2. pending \in Seq(Nat) /\ files \in Nat /\ \A i \in 1 .. Len(pending) : pending[i] = shot.n
      OBVIOUS
    <3> HIDE DEF new
    <3>3. /\ Len(pending') = Len(pending) + Len(new)
          /\ \A i \in 1 .. Len(pending') :
                pending'[i] = IF i <= Len(pending) THEN pending[i] ELSE new[i - Len(pending)]
      BY ONLY <2>3, <3>1, <3>2, AppendedFiles
    <3>4. Len(pending) \in Nat
      BY <3>2
    <3>5. ASSUME NEW i \in 1 .. Len(pending') PROVE pending'[i] = shot.n
      <4>1. CASE i <= Len(pending)
        BY ONLY <3>2, <3>3, <3>4, <3>5, <4>1
      <4>2. CASE ~(i <= Len(pending))
        <5>1. i - Len(pending) \in 1 .. files
          BY ONLY <2>3, <3>2, <3>3, <3>4, <3>5, <4>2
        <5> QED  BY ONLY <2>3, <3>3, <3>5, <4>2, <5>1
      <4> QED  BY <4>1, <4>2
    <3> QED  BY ONLY <2>3, <3>3, <3>5
  <2>5. ~Nothing
    BY <2>1
  <2>6. OwnTraces'
    BY <2>1, <2>2, <2>4
  <2>7. files = 1 => OneTrace'
    <3> SUFFICES ASSUME files = 1 PROVE OneTrace'
      OBVIOUS
    <3>1. OneTrace /\ Len(making) # 0
      BY <2>1
    <3>2. shutter = 0 /\ Len(pending) + Len(making) <= 1
      BY <2>1, <3>1
    <3> QED  BY <2>1, <2>2, <2>4, <3>1, <3>2
  <2> QED  BY <2>1, <2>6, <2>7
<1>11. CASE Abort
  <2>1. UNCHANGED <<pending, left, files, shot>>
    BY <1>11 DEF Abort
  <2>2. Shut \/ UNCHANGED <<shutter, making>>
    BY <1>11 DEF Abort
  <2>3. CASE UNCHANGED <<shutter, making>>
    BY <2>1, <2>3
  <2> QED  BY <2>1, <2>2, <2>3, ShutTraces
<1>12. CASE Cancel
  BY <1>12 DEF Cancel
<1>13. ASSUME NEW bulb \in BOOLEAN, Begin(bulb) PROVE Traces'
  BY <1>13 DEF Begin, NoShot
<1>14. CASE Configure
  <2>1. UNCHANGED <<shutter, making, files>>
    BY <1>14 DEF Configure, SetIsoAndTv, SetExposure, Configured, NotConfigured, AsItIs, At
  <2>2. CASE Fail
    <3>1. shot.pc = "set"
      BY <1>14 DEF Configure, SetIsoAndTv, SetExposure, Configured, NotConfigured, AsItIs, At
    <3> QED  BY <2>1, <2>2, <3>1, FailTraces
  <2>3. CASE Configured \/ AsItIs
    <3>1. shot.pc = "set" /\ shot'.pc = "press" /\ UNCHANGED <<pending, left>>
      BY <2>3 DEF Configured, AsItIs, At
    <3>2. ~left => Nothing'
      BY <1>0, <2>1, <3>1
    <3> QED  BY <3>1, <3>2, NothingHeld
  <2> QED  BY <1>14, <2>2, <2>3 DEF Configure, SetIsoAndTv, SetExposure, NotConfigured
<1>15. CASE Press
  <2>1. CASE Fail /\ UNCHANGED <<shutter, making>>
    <3>1. shot.pc = "press"
      BY <1>15 DEF Press
    <3> QED  BY <2>1, <3>1, FailTraces
  <2>2. CASE /\ shutter' = shot.n /\ UNCHANGED <<making, pending, left>>
             /\ shot' = [shot EXCEPT !.pc = IF shot.bulb THEN "expose" ELSE "hold", !.exposed = TRUE]
    <3>1. shot'.n = shot.n /\ shot'.exposed /\ shot'.pc \in {"expose", "hold"} /\ shot.pc = "press"
      BY <1>15, <2>2 DEF Press
    <3>2. ~left => pending' = <<>> /\ making' = <<>>
      BY <1>0, <2>2, <3>1
    <3> QED  BY <2>2, <3>1, <3>2
  <2> QED  BY <1>15, <2>1, <2>2 DEF Press
<1>16. CASE Shoot
  <2>1. UNCHANGED <<shutter, making>> /\ shot.pc = "press"
    BY <1>16 DEF Shoot
  <2>2. CASE Fail
    BY <2>1, <2>2, FailTraces
  <2>3. CASE /\ UNCHANGED <<pending, left>>
             /\ shot' = [shot EXCEPT !.pc = "load", !.exposed = TRUE, !.item = shot.n]
    <3>1. shot'.n = shot.n /\ shot'.exposed /\ shot'.pc = "load" /\ shot'.item = shot.n
      BY <2>3
    <3>2. ~left => Nothing'
      BY <1>0, <2>1, <2>3
    <3> QED  BY <2>3, <3>1, <3>2
  <2> QED  BY <1>16, <2>2, <2>3 DEF Shoot
<1>17. CASE LetGo
  <2>1. CASE At("hold", "wait") /\ Released
    <3>1. /\ Shut /\ UNCHANGED <<pending, left, files>> /\ shot.pc = "hold"
          /\ shot' = [shot EXCEPT !.pc = "wait"]
      BY <2>1 DEF At, Released
    <3> QED  BY <3>1, ShutTraces
  <2>2. CASE Jammed /\ Fail
    <3>1. shot.pc = "hold"
      BY <1>17 DEF LetGo, At
    <3> QED  BY <2>2, <3>1, FailTraces DEF Jammed
  <2> QED  BY <1>17, <2>1, <2>2 DEF LetGo
<1>18. CASE Aborted
  BY <1>18 DEF Aborted, Released, Jammed, Fail, End, Shut, Works, NoShot
<1>19. CASE TimeUp
  <2>1. CASE At("expose", "wait") /\ Released
    <3>1. /\ Shut /\ UNCHANGED <<pending, left, files>> /\ shot.pc = "expose"
          /\ shot' = [shot EXCEPT !.pc = "wait"]
      BY <2>1 DEF At, Released
    <3> QED  BY <3>1, ShutTraces
  <2>2. CASE Jammed /\ Fail
    <3>1. shot.pc = "expose"
      BY <1>19 DEF TimeUp, At
    <3> QED  BY <2>2, <3>1, FailTraces DEF Jammed
  <2>3. CASE At("expose", "wait") /\ Jammed /\ UNCHANGED entry
    <3>1. UNCHANGED <<shutter, making, pending, left, files>> /\ shot.pc = "expose"
          /\ shot' = [shot EXCEPT !.pc = "wait"]
      BY <2>3 DEF Jammed, At
    <3> QED  BY <3>1
  <2> QED  BY <1>19, <2>1, <2>2, <2>3 DEF TimeUp, At
<1>20. CASE Take
  <2> SUFFICES ASSUME ~left PROVE Traces'
    BY <1>20 DEF Take
  <2>1. /\ shot.pc = "wait" /\ pending # <<>> /\ UNCHANGED <<shutter, making, left, files>>
        /\ shot' = [shot EXCEPT !.pc = "load", !.item = Head(pending)] /\ pending' = Tail(pending)
    BY <1>20 DEF Take
  <2>2. /\ Head(pending) = shot.n /\ Len(pending') = Len(pending) - 1
        /\ \A i \in 1 .. Len(pending') : pending'[i] = shot.n
    <3>1. pending \in Seq(Nat) /\ \A i \in 1 .. Len(pending) : pending[i] = shot.n
      BY <2>1
    <3>2. Len(pending') = Len(pending) - 1 /\ \A i \in 1 .. Len(pending') : pending'[i] = pending[i + 1]
      BY ONLY <2>1, <3>1
    <3> QED  BY ONLY <2>1, <3>1, <3>2
  <2>3. shot'.pc = "load" /\ shot'.item = shot.n /\ shot'.n = shot.n /\ shot'.exposed /\ shot.exposed
    BY <2>1, <2>2
  <2>4. files = 1 => Nothing'
    BY <2>1, <2>2
  <2> QED  BY <2>1, <2>2, <2>3, <2>4
<1>21. CASE NoFile
  BY <1>21 DEF NoFile, Fail, End, NoShot
<1>22. CASE LoadFile
  <2>1. shot.pc = "load" /\ UNCHANGED <<shutter, making, pending, files>>
    BY <1>22 DEF LoadFile, Download, FileBytes, Loaded, NotLoaded, At
  <2>2. CASE Loaded
    <3>1. shot' = [shot EXCEPT !.pc = "show"] /\ left' = left
      BY <2>2 DEF Loaded, At
    <3> QED  BY <2>1, <3>1
  <2>3. CASE NotLoaded
    <3>1. shot'.pc = "idle" /\ (~left' => ~left /\ (shot.exposed => files = 1))
      BY <2>3 DEF NotLoaded, End, NoShot
    <3>2. ~left' => Nothing
      BY <2>1, <3>1
    <3>3. ~left' => Nothing'
      BY <2>1, <3>2
    <3> QED  BY <3>1, <3>3, NothingHeld
  <2> QED  BY <1>22, <2>2, <2>3 DEF LoadFile, Download, FileBytes
<1>23. CASE Publish
  BY <1>23 DEF Publish, PublishFrame, PublishPreview, StoreOriginal, End, NoShot
<1>24. CASE Gone
  BY <1>24 DEF Gone, CloseSession, NoShot
<1>25. CASE UNCHANGED cdVars
  BY <1>25 DEF cdVars
<1> QED  BY <1>1, <1>2, <1>3, <1>4, <1>5, <1>6, <1>7, <1>8, <1>9, <1>10, <1>11, <1>12, <1>13, <1>14, <1>15, <1>16, <1>17, <1>18, <1>19, <1>20, <1>21, <1>22, <1>23, <1>24, <1>25, <1>26
         DEF CdNext, Scan, Connect

\* A close that has begun leaves nothing behind unless something is announced.
LEMMA ClosingNext == ASSUME CdTypes, Closing, [CdNext]_cdVars PROVE Closing'
<1> USE DEF CdTypes, Shot, Closing, entry, camera
<1>1. ASSUME shot'.pc # "closing" PROVE Closing'
  BY <1>1
<1>2. CASE DisconnectCamera
  <2>1. CASE ReleaseItems
    BY <1>2, <2>1 DEF DisconnectCamera, ReleaseItems
  <2>2. CASE UNCHANGED shot /\ ~ReleaseItems
    BY <1>2, <2>2 DEF DisconnectCamera, FreeCamera
  <2> QED  BY <1>2, <2>1, <2>2 DEF DisconnectCamera
<1>3. CASE Announce
  BY <1>3 DEF Announce
<1>4. CASE Abort
  BY <1>4 DEF Abort, Shut
<1>5. CASE Power \/ Shutdown \/ ListDevices \/ \E k \in {"edsdk", "gphoto"} : Start(k)
  BY <1>5 DEF Power, Shutdown, ListDevices, Start
<1>6. CASE UNCHANGED cdVars
  BY <1>6 DEF cdVars
<1>7. CASE RefreshEnumeration
  BY <1>7 DEF RefreshEnumeration
<1>8. CASE Connected \/ ConnectRefused \/ Stop
  BY <1>8 DEF Connected, ConnectRefused, Stop
<1>9. CASE SessionCloses \/ Gone \/ (\E bulb \in BOOLEAN : Begin(bulb)) \/ Cancel
  <2>1. shot' = NoShot \/ (\E bulb \in BOOLEAN : Begin(bulb)) \/ Cancel
    BY <1>9 DEF SessionCloses, Gone
  <2>2. shot'.pc # "closing"
    BY <2>1, NoShotMoves DEF Begin, Cancel, NoShot
  <2> QED  BY <1>1, <2>2
<1>10. ASSUME Fail \/ (\E took \in BOOLEAN : End(took)) PROVE Closing'
  BY <1>1, <1>10, NoShotMoves DEF Fail, End
<1>11. ASSUME NEW pc, NEW next, At(pc, next), next # "closing" PROVE Closing'
  BY <1>1, <1>11 DEF At
<1>12. CASE Configure \/ LetGo \/ TimeUp \/ LoadFile
  <2>1. Fail \/ AsItIs \/ Configured \/ At("hold", "wait") \/ At("expose", "wait") \/ Loaded \/ NotLoaded
    BY <1>12 DEF Configure, SetIsoAndTv, SetExposure, NotConfigured, LetGo, TimeUp, LoadFile, Download, FileBytes
  <2>2. AsItIs => Closing'
    BY <1>1 DEF AsItIs
  <2> QED  BY <1>10, <1>11, <2>1, <2>2 DEF Configured, Loaded, NotLoaded
<1>13. CASE Press \/ Shoot \/ Aborted \/ Take \/ NoFile \/ Publish
  <2>1. CASE Press \/ Shoot
    <3>1. \A p : p # "closing" => [shot EXCEPT !.pc = p, !.exposed = TRUE].pc # "closing"
      OBVIOUS
    <3>2. [shot EXCEPT !.pc = "load", !.exposed = TRUE, !.item = shot.n].pc # "closing"
      OBVIOUS
    <3>3. Press => Fail \/ shot'.pc # "closing"
      BY <3>1 DEF Press
    <3>4. Shoot => Fail \/ shot'.pc # "closing"
      BY <3>2 DEF Shoot
    <3> QED  BY <1>1, <1>10, <2>1, <3>3, <3>4
  <2>2. CASE Take
    BY <1>1, <2>2 DEF Take
  <2> QED  BY <1>10, <1>13, <2>1, <2>2 DEF Aborted, NoFile, Publish, PublishFrame, PublishPreview, StoreOriginal
<1> QED  BY <1>2, <1>3, <1>4, <1>5, <1>6, <1>7, <1>8, <1>9, <1>12, <1>13 DEF CdNext, Scan, Connect

\* A frame shows the file its capture took.
LEMMA FrameNext == ASSUME CdTypes, Traces, FrameIsOwn, [CdNext]_cdVars PROVE FrameIsOwn'
<1> USE DEF CdTypes, Shot, Frame, Traces, OwnTraces, FrameIsOwn, entry, camera
<1>1. ASSUME NEW k \in {"edsdk", "gphoto"}, Start(k) PROVE FrameIsOwn'
  BY <1>1 DEF Start
<1>2. CASE RefreshEnumeration
  BY <1>2 DEF RefreshEnumeration, Closed
<1>3. CASE ListDevices
  BY <1>3 DEF ListDevices
<1>4. CASE Connected
  BY <1>4 DEF Connected, OpenSession, ConfigureCameraObject, Closed
<1>5. CASE ConnectRefused
  BY <1>5 DEF ConnectRefused, FreeCamera
<1>6. CASE DisconnectCamera \/ SessionCloses
  BY <1>6 DEF DisconnectCamera, SessionCloses, ReleaseItems, CloseSession, FreeCamera, NoShot
<1>7. CASE Stop
  BY <1>7 DEF Stop, ReleaseItems, CloseSession, FreeCamera
<1>8. CASE Power
  BY <1>8 DEF Power
<1>9. CASE Shutdown
  BY <1>9 DEF Shutdown
<1>10. CASE Announce
  BY <1>10 DEF Announce
<1>11. CASE Abort
  BY <1>11 DEF Abort, Shut, Works, Fails
<1>12. CASE Cancel
  BY <1>12 DEF Cancel
<1>13. ASSUME NEW bulb \in BOOLEAN, Begin(bulb) PROVE FrameIsOwn'
  BY <1>13 DEF Begin, NoShot
<1>14. CASE Configure
  BY <1>14 DEF Configure, SetIsoAndTv, SetExposure, Configured, NotConfigured, AsItIs, At, Fail, End, NoShot
<1>15. CASE Press
  BY <1>15 DEF Press, Works, Fail, End, NoShot
<1>16. CASE Shoot
  BY <1>16 DEF Shoot, Fail, End, NoShot
<1>17. CASE LetGo
  BY <1>17 DEF LetGo, At, Released, Jammed, Fail, End, Shut, Works, NoShot
<1>18. CASE Aborted
  BY <1>18 DEF Aborted, Released, Jammed, Fail, End, Shut, Works, NoShot
<1>19. CASE TimeUp
  BY <1>19 DEF TimeUp, At, Released, Jammed, Fail, End, Shut, Works, NoShot
<1>20. CASE Take
  BY <1>20 DEF Take
<1>21. CASE NoFile
  BY <1>21 DEF NoFile, Fail, End, NoShot
<1>22. CASE LoadFile
  BY <1>22 DEF LoadFile, Download, FileBytes, Loaded, NotLoaded, At, End, NoShot
<1>23. CASE Publish
  BY <1>23 DEF Publish, PublishFrame, PublishPreview, StoreOriginal, End, NoShot
<1>24. CASE Gone
  BY <1>24 DEF Gone, CloseSession, NoShot
<1>25. CASE UNCHANGED cdVars
  BY <1>25 DEF cdVars
<1> QED  BY <1>1, <1>2, <1>3, <1>4, <1>5, <1>6, <1>7, <1>8, <1>9, <1>10, <1>11, <1>12, <1>13, <1>14, <1>15, <1>16, <1>17, <1>18, <1>19, <1>20, <1>21, <1>22, <1>23, <1>24, <1>25
         DEF CdNext, Scan, Connect

LEMMA CdInvariance == CdSpec => []CdInv
<1>1. CdInv /\ [CdNext]_cdVars => CdInv'
  BY CdTypesNext, HeldNext, TracesNext, ClosingNext, FrameNext DEF CdInv
<1> QED  BY <1>1, CdInitInv, PTL DEF CdSpec

\* With no capture in progress the shutter is open only if a command that was to release
\* it failed, whenever aborts, a camera switched off and scans come, for any number of
\* captures (oal_driver_canon_edsdk.cpp:564-575, oal_driver_canon.cpp capture).
THEOREM ShutterIsClosed == CdSpec => []ShutterCloses
<1>1. CdInv => ShutterCloses
  BY DEF CdInv, ShutterHeld, ShutterCloses
<1> QED  BY <1>1, CdInvariance, PTL

\* A frame shows another capture's picture only after a capture that left a file of its
\* own behind: aborted before the file came, or made in two files, or a file announced
\* while EDSDK closed the session.  Nothing else, no lost cable, no scan that drops an
\* entry and no new session, mixes the pictures of captures
\* (oal_driver_canon_edsdk.cpp:230-255, oal_driver_canon.cpp:267-277).
THEOREM FramesAreOwn == CdSpec => []FrameIsOwn
<1>1. CdInv => FrameIsOwn
  BY DEF CdInv
<1> QED  BY <1>1, CdInvariance, PTL

==============================================================================
