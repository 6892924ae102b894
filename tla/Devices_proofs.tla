---------------------------- MODULE Devices_proofs ----------------------------
(***************************************************************************)
(* Proofs about Devices, for any drivers, roles and bounds.                *)
(*                                                                         *)
(* Who may be in a driver once the loader is cleared is not inductive:     *)
(* DevicesIInv adds who may be in a call at all (an operation that calls,  *)
(* or a probe that was asked for) and what each step of shutdown() has     *)
(* waited for, or given up on.  That no request is lost needs to know when *)
(* the scan waits for the main thread.                                     *)
(***************************************************************************)
EXTENDS Devices, TLAPS

OpRecord == [st : {"idle", "queued", "held", "calling", "ended"},
             dev : Drivers \cup {None}, stop : BOOLEAN, proxy : {"current", "last", "closed"}]
ScanRecord == [pc : {"off", "enumerate", "reload", "wait", "again", "finish"},
               ids : SUBSET Drivers, hard : BOOLEAN, inUse : SUBSET Drivers,
               todo : SUBSET Drivers, found : SUBSET Drivers, reload : SUBSET Drivers]
PendRecord == [ids : SUBSET Drivers, hard : BOOLEAN]

-----------------------------------------------------------------------------
(* The invariant.                                                          *)

\* An operation that is not over has a device.
HasDevice == \A r \in Roles : op[r].st # "idle" => op[r].dev \in Drivers

\* Who is in a call of a device is an operation that makes it or the health
\* thread that has yet to probe it.
InCall ==
    \A d \in Drivers : /\ busy[d] = "operation" => \E r \in Roles : op[r].st = "calling" /\ op[r].dev = d
                       /\ busy[d] = "health" => d \in health

\* What the steps of shutdown() have waited for, or given up waiting for.
Stopped ==
    /\ stage \in {"joinHealth", "joinScan", "cleared"} => \A r \in Roles : op[r].st = "idle"
    /\ stage \in {"joinScan", "cleared"} /\ health # {} => "health" \in outlasted
    /\ stage = "cleared" /\ ScanRunning => "scan" \in outlasted

\* A scan waits for as long as the reload it asked the main thread for is posted.
Waiting == stage = "up" /\ Plain("restart") \in posted => scan.pc = "wait"

DevicesIInv == TypeOK /\ HasDevice /\ InCall /\ Stopped /\ Waiting /\ NoLostRequest

-----------------------------------------------------------------------------
(* The types.                                                              *)

\* The messages of the main thread.
LEMMA MessagesAre ==
    /\ \A ids \in SUBSET Drivers, hard \in BOOLEAN : Rescan(ids, hard) \in Messages
    /\ \A g \in 1 .. MaxGen, i \in 1 .. Retries : Retry(g, i) \in Messages
    /\ \A d \in Drivers : Gone(d) \in Messages
    /\ \A k \in {"hint", "restart", "result", "finished"} : Plain(k) \in Messages
    /\ \A m \in Messages : /\ m.k = "rescan" => m.ids \subseteq Drivers /\ m.hard \in BOOLEAN
                           /\ m.k = "retry" => m.i \in Nat /\ m.gen \in Nat
BY DevicesAssumption DEF Messages, Rescan, Retry, Gone, Plain

\* The kinds of the messages.
LEMMA KindsAre ==
    /\ \A ids, hard : /\ Rescan(ids, hard).k = "rescan" /\ Rescan(ids, hard).ids = ids
                      /\ Rescan(ids, hard).hard = hard
    /\ \A g, i : Retry(g, i).k = "retry"
    /\ \A d : Gone(d).k = "gone"
    /\ \A k : Plain(k).k = k
BY DEF Rescan, Retry, Gone, Plain

\* What TypeOK says, with its records named.
Types ==
    /\ stage \in {"up", "draining", "joinHealth", "joinScan", "cleared"}
    /\ outlasted \subseteq {"health", "scan"}
    /\ visible \subseteq Drivers /\ loaded \subseteq Drivers
    /\ open \subseteq Drivers /\ cache \subseteq Drivers
    /\ handle \in [Roles -> Drivers \cup {None}] /\ bind \in [Roles -> Drivers \cup {None}]
    /\ op \in [Roles -> OpRecord]
    /\ busy \in [Drivers -> {"free", "operation", "health"}]
    /\ scan \in ScanRecord /\ pend \in PendRecord
    /\ posted \subseteq Messages
    /\ gen \in 0 .. MaxGen /\ health \subseteq Drivers
    /\ owed \subseteq Drivers \X BOOLEAN
    /\ user \in 0 .. MaxUser /\ plug \in 0 .. MaxPlug

\* They are the same of a state and of the next.
LEMMA Typed == (TypeOK <=> Types) /\ (TypeOK' <=> Types')
BY DEF TypeOK, Types, OpRecord, ScanRecord, PendRecord

\* A request starts a scan or waits for the one that runs.
LEMMA RequestTyped ==
    ASSUME TypeOK, NEW ids \in SUBSET Drivers, NEW hard \in BOOLEAN,
           NEW more \in SUBSET Messages, Request(ids, hard, more)
    PROVE  /\ scan' \in ScanRecord /\ pend' \in PendRecord /\ posted' \subseteq Messages
           /\ owed' \subseteq Drivers \X BOOLEAN
<1>1. InUse \subseteq Drivers
  BY DEF InUse
<1>2. owed' \subseteq Drivers \X BOOLEAN
  BY DEF Request, TypeOK
<1>3. scan' \in ScanRecord
  <2>1. CASE ScanRunning
    BY <2>1 DEF Request, TypeOK, ScanRecord
  <2>2. CASE ~ScanRunning
    <3>1. scan' = [pc |-> "enumerate", ids |-> ids, hard |-> hard, inUse |-> InUse,
                   todo |-> ids, found |-> {}, reload |-> {}]
      BY <2>2 DEF Request, NoScan
    <3> QED  BY <1>1, <3>1 DEF ScanRecord
  <2> QED  BY <2>1, <2>2
<1>4. pend' \in PendRecord
  BY DEF Request, TypeOK, PendRecord
<1> QED  BY <1>2, <1>3, <1>4 DEF Request

\* A reload closes the device of one driver.
LEMMA RestartTyped ==
    ASSUME TypeOK, NEW d \in Drivers, Restart(d)
    PROVE  loaded' \subseteq loaded /\ open' \subseteq open /\ cache' \subseteq cache
BY DEF Restart

\* The handlers of the main thread keep the types.
LEMMA MainTyped ==
    ASSUME TypeOK, Main
    PROVE  TypeOK'
<1>1. ASSUME NEW m \in posted, OnRescan(m) PROVE TypeOK'
  <2>1. m \in Messages /\ m.k = "rescan"
    BY <1>1 DEF OnRescan, TypeOK
  <2>2. m.ids \subseteq Drivers /\ m.hard \in BOOLEAN /\ posted \ {m} \subseteq Messages
    BY <2>1, MessagesAre DEF TypeOK
  <2>3. Request(m.ids, m.hard, posted \ {m})
    BY <1>1 DEF OnRescan
  <2> QED  BY <1>1, <2>2, <2>3, RequestTyped, Typed DEF Types, OnRescan, hardware, roles
<1>2. ASSUME NEW m \in posted, OnRetry(m) PROVE TypeOK'
  <2>1. posted \ {m} \subseteq Messages /\ {Canon} \subseteq Drivers /\ (m.i = Retries) \in BOOLEAN
    BY DevicesAssumption DEF TypeOK
  <2>2. \/ Request({Canon}, m.i = Retries, posted \ {m})
        \/ posted' = posted \ {m} /\ UNCHANGED <<scan, pend, owed>>
    BY <1>2 DEF OnRetry
  <2>3. /\ scan' \in ScanRecord /\ pend' \in PendRecord /\ posted' \subseteq Messages
        /\ owed' \subseteq Drivers \X BOOLEAN
    BY <2>1, <2>2, RequestTyped, Typed DEF Types
  <2> QED  BY <1>2, <2>3, Typed DEF Types, OnRetry, hardware, roles
<1>3. ASSUME NEW d \in Drivers, OnGone(d) PROVE TypeOK'
  <2>1. posted' \subseteq Messages /\ owed' \subseteq Drivers \X BOOLEAN
    <3>1. Rescan({d}, FALSE) \in Messages
      BY MessagesAre
    <3>2. posted' \subseteq posted \cup {Rescan({d}, FALSE)}
      BY <1>3 DEF OnGone
    <3>3. owed' = owed \cup {<<d, FALSE>>}
      BY <1>3 DEF OnGone
    <3>4. <<d, FALSE>> \in Drivers \X BOOLEAN
      OBVIOUS
    <3> QED  BY <3>1, <3>2, <3>3, <3>4 DEF TypeOK
  <2>2. handle' \in [Roles -> Drivers \cup {None}]
    BY <1>3 DEF OnGone, TypeOK
  <2>3. op' \in [Roles -> OpRecord]
    <3> SUFFICES ASSUME NEW r \in Roles PROVE op'[r] \in OpRecord /\ DOMAIN op' = Roles
      BY <1>3 DEF OnGone, TypeOK
    <3> QED  BY <1>3, Typed, ZenonT(60) DEF Types, OnGone, OpRecord, Locked
  <2>4. open' \subseteq Drivers
    BY <1>3 DEF OnGone, TypeOK
  <2> QED  BY <1>3, <2>1, <2>2, <2>3, <2>4, Typed DEF Types, OnGone, hardware
<1>4. CASE OnHint
  <2>1. gen \in Nat /\ gen' = gen + 1 /\ gen' \in 1 .. MaxGen
    BY <1>4, DevicesAssumption DEF OnHint, TypeOK
  <2>2. posted' \subseteq Messages
    BY <1>4, <2>1, MessagesAre DEF OnHint, TypeOK
  <2> QED  BY <1>4, <2>1, <2>2, Typed DEF Types, OnHint, hardware, roles
<1>5. CASE OnFinished
  <2>1. /\ pend.ids \subseteq Drivers /\ pend.hard \in BOOLEAN /\ NoPending \in PendRecord
    BY DEF TypeOK, NoPending, PendRecord
  <2>2. Rescan(pend.ids, pend.hard) \in Messages
    BY <2>1, MessagesAre
  <2>3. posted' \subseteq Messages /\ pend' \in PendRecord
    BY <1>5, <2>1, <2>2, Typed DEF Types, OnFinished
  <2> QED  BY <1>5, <2>3, Typed DEF Types, OnFinished, hardware, roles
<1>6. CASE OnRestart
  <2>1. loaded' \subseteq Drivers /\ open' \subseteq Drivers /\ cache' \subseteq Drivers
    BY <1>6, RestartTyped, DevicesAssumption DEF OnRestart, TypeOK
  <2>2. scan' \in ScanRecord
    BY <1>6, Typed DEF Types, OnRestart, ScanRecord
  <2> QED  BY <1>6, <2>1, <2>2, Typed DEF Types, OnRestart, roles
<1>7. CASE OnResult
  <2> DEFINE back == {r \in Roles : /\ stage = "up" /\ handle[r] = None /\ ~Locked(r)
                                    /\ bind[r] # None /\ Connectable(r, bind[r])}
  <2>1. PICK won \in SUBSET back :
           /\ handle' = [r \in Roles |-> IF r \in won THEN bind[r] ELSE handle[r]]
           /\ open' = open \cup {bind[r] : r \in won}
    BY <1>7 DEF OnResult
  <2>2. \A r \in won : r \in Roles /\ bind[r] \in Drivers
    BY DEF TypeOK
  <2>3. handle' \in [Roles -> Drivers \cup {None}] /\ open' \subseteq Drivers
    BY <2>1, <2>2 DEF TypeOK
  <2> QED  BY <1>7, <2>3, Typed DEF Types, OnResult, hardware, threads
<1>8. CASE DisconnectAll
  BY <1>8, Typed DEF Types, DisconnectAll, Stopping, hardware, threads
<1>9. CASE JoinHealth \/ Clear
  BY <1>9, Typed DEF Types, JoinHealth, Clear, Unload, Await, Stopping, hardware, roles, threads
<1> QED  BY <1>1, <1>2, <1>3, <1>4, <1>5, <1>6, <1>7, <1>8, <1>9 DEF Main

\* The steps of the discovery thread keep the types.
LEMMA ScanTyped ==
    ASSUME TypeOK, Scan
    PROVE  TypeOK'
<1>1. ASSUME NEW d \in Drivers, Enumerate(d) PROVE TypeOK'
  <2>1. scan' \in ScanRecord /\ owed' \subseteq Drivers \X BOOLEAN
    BY <1>1, Typed DEF Types, Enumerate, ScanRecord
  <2> QED  BY <1>1, <2>1, Typed DEF Types, Enumerate, ScanStep, roles
<1>2. ASSUME NEW d \in Drivers, ReloadHere(d) PROVE TypeOK'
  <2>1. loaded' \subseteq Drivers /\ open' \subseteq Drivers /\ cache' \subseteq Drivers
    BY <1>2, RestartTyped DEF ReloadHere, TypeOK
  <2>2. scan' \in ScanRecord
    BY <1>2, Typed DEF Types, ReloadHere, ScanRecord
  <2> QED  BY <1>2, <2>1, <2>2, Typed DEF Types, ReloadHere, ScanStep, roles
<1>3. CASE Enumerated
  <2>1. cache' \subseteq Drivers
    BY <1>3, Typed DEF Types, Enumerated, Merge, ScanRecord
  <2>2. scan' \in ScanRecord /\ owed' \subseteq Drivers \X BOOLEAN
    BY <1>3, Typed DEF Types, Enumerated, ScanRecord
  <2> QED  BY <1>3, <2>1, <2>2, Typed DEF Types, Enumerated, ScanStep, roles
<1>4. CASE AskReload \/ Report \/ ScanEnds \/ Unblocked
  <2>1. posted' \subseteq Messages
    BY <1>4, MessagesAre, Typed DEF Types, AskReload, Report, ScanEnds, Unblocked
  <2>2. scan' \in ScanRecord
    <3>1. NoScan \in ScanRecord
      BY DEF NoScan, ScanRecord
    <3>2. AskReload => scan' \in ScanRecord
      BY DevicesAssumption, Typed DEF Types, AskReload, ScanRecord
    <3>3. Report => scan' \in ScanRecord
      BY Typed DEF Types, Report, ScanRecord
    <3> QED  BY <1>4, <3>1, <3>2, <3>3 DEF ScanEnds, Unblocked
  <2> QED  BY <1>4, <2>1, <2>2, Typed DEF Types, AskReload, Report, ScanEnds, Unblocked, ScanStep, roles
<1>5. CASE ScanAgain
  <2>1. cache' \subseteq Drivers /\ scan' \in ScanRecord
    BY <1>5, Typed DEF Types, ScanAgain, Merge, ScanRecord
  <2> QED  BY <1>5, <2>1, Typed DEF Types, ScanAgain, ScanStep, roles
<1> QED  BY <1>1, <1>2, <1>3, <1>4, <1>5 DEF Scan

\* The requests of the clients keep the types.
LEMMA UserTyped ==
    ASSUME TypeOK, User
    PROVE  TypeOK'
<1>0. user < MaxUser => user + 1 \in 0 .. MaxUser
  BY DevicesAssumption DEF TypeOK
<1>1. ASSUME NEW r \in Roles, Submit(r) PROVE TypeOK'
  <2>1. op' \in [Roles -> OpRecord]
    BY <1>1, Typed DEF Types, Submit, OpRecord, NoOperation
  <2> QED  BY <1>0, <1>1, <2>1, Typed DEF Types, Submit, hardware, threads
<1>2. ASSUME NEW r \in Roles, Grant(r) PROVE TypeOK'
  <2>1. op' \in [Roles -> OpRecord]
    BY <1>2, Typed DEF Types, Grant, OpRecord
  <2> QED  BY <1>2, <2>1, Typed DEF Types, Grant, OpStep, hardware, threads
<1>3. ASSUME NEW r \in Roles, Disconnect(r) PROVE TypeOK'
  <2>1. op' \in [Roles -> OpRecord]
    BY <1>3, Typed DEF Types, Disconnect, OpRecord
  <2>2. posted' \subseteq Messages
    <3>1. handle[r] # None => Gone(handle[r]) \in Messages
      BY MessagesAre DEF TypeOK
    <3> QED  BY <1>3, <3>1 DEF Disconnect, TypeOK
  <2>3. handle' \in [Roles -> Drivers \cup {None}] /\ bind' \in [Roles -> Drivers \cup {None}]
    BY <1>3 DEF Disconnect, TypeOK
  <2> QED  BY <1>0, <1>3, <2>1, <2>2, <2>3, Typed DEF Types, Disconnect, Ask, hardware, threads
<1>4. ASSUME NEW r \in Roles, NEW d \in Drivers, Connect(r, d) PROVE TypeOK'
  <2>1. op' \in [Roles -> OpRecord]
    BY <1>4, Typed, SMTT(30) DEF Types, Connect, Drop, OpRecord
  <2>2. posted' \subseteq Messages
    <3>1. handle[r] # None => Gone(handle[r]) \in Messages
      BY MessagesAre DEF TypeOK
    <3> QED  BY <1>4, <3>1 DEF Connect, Drop, TypeOK
  <2>3. handle' \in [Roles -> Drivers \cup {None}] /\ bind' \in [Roles -> Drivers \cup {None}]
    BY <1>4 DEF Connect, TypeOK
  <2>4. open' \subseteq Drivers
    BY <1>4 DEF Connect, Drop, TypeOK
  <2> QED  BY <1>0, <1>4, <2>1, <2>2, <2>3, <2>4, Typed DEF Types, Connect, Ask, hardware, threads
<1>5. CASE AskRefresh
  <2>1. /\ scan' \in ScanRecord /\ pend' \in PendRecord /\ posted' \subseteq Messages
        /\ owed' \subseteq Drivers \X BOOLEAN
    BY <1>5, RequestTyped DEF AskRefresh, TypeOK
  <2> QED  BY <1>0, <1>5, <2>1, Typed DEF Types, AskRefresh, hardware
<1>6. CASE Shutdown
  <2>1. op' \in [Roles -> OpRecord]
    <3> SUFFICES ASSUME NEW r \in Roles PROVE op'[r] \in OpRecord /\ DOMAIN op' = Roles
      BY <1>6 DEF Shutdown, TypeOK
    <3> QED  BY <1>6, Typed, ZenonT(60) DEF Types, Shutdown, OpRecord, Locked
  <2>2. posted' \subseteq Messages
    BY <1>6 DEF Shutdown, TypeOK
  <2> QED  BY <1>6, <2>1, <2>2, Typed DEF Types, Shutdown, Stopping, hardware, threads
<1> QED  BY <1>1, <1>2, <1>3, <1>4, <1>5, <1>6 DEF User

\* So do the operations, the probes and the hardware.
LEMMA OthersTyped ==
    ASSUME TypeOK, HasDevice,
           \/ StartHealth
           \/ \E r \in Roles : Pool(r)
           \/ \E d \in Drivers : Health(d) \/ PlugIn(d) \/ Unplug(d)
    PROVE  TypeOK'
<1>1. CASE StartHealth
  BY <1>1, Typed DEF Types, StartHealth, hardware, roles, threads
<1>2. ASSUME NEW r \in Roles, Call(r) \/ Return(r) PROVE TypeOK'
  <2>1. op' \in [Roles -> OpRecord]
    <3>1. Call(r) => op' \in [Roles -> OpRecord]
      BY Typed DEF Types, Call, OpRecord
    <3>2. Return(r) => op' \in [Roles -> OpRecord]
      <4> DEFINE stop == op[r].stop \/ op[r].dev \notin open \cap visible
      <4>1. op[r] \in OpRecord /\ stop \in BOOLEAN
        BY Typed DEF Types, OpRecord
      <4>2. Return(r) => op' = [op EXCEPT ![r] = [@ EXCEPT !.st = "held", !.stop = stop]]
        BY Typed DEF Types, Return
      <4> HIDE DEF stop
      <4>3. [op[r] EXCEPT !.st = "held", !.stop = stop] \in OpRecord
        BY <4>1 DEF OpRecord
      <4> QED  BY <4>2, <4>3, Typed DEF Types
    <3> QED  BY <1>2, <3>1, <3>2
  <2>2. busy' \in [Drivers -> {"free", "operation", "health"}]
    BY <1>2 DEF Call, Return, TypeOK
  <2>3. posted' \subseteq Messages /\ open' \subseteq Drivers
    BY <1>2, MessagesAre DEF Call, Return, TypeOK
  <2> QED  BY <1>2, <2>1, <2>2, <2>3, Typed DEF Types, Call, Return, OpStep, hardware, threads
<1>3. ASSUME NEW r \in Roles, End(r) PROVE TypeOK'
  <2>1. op' \in [Roles -> OpRecord]
    BY <1>3, Typed DEF Types, End, OpRecord
  <2> QED  BY <1>3, <2>1, Typed DEF Types, End, OpStep, hardware, threads
<1>4. ASSUME NEW r \in Roles, Destroy(r) PROVE TypeOK'
  <2>1. op' \in [Roles -> OpRecord]
    BY <1>4, Typed DEF Types, Destroy, OpRecord, NoOperation
  <2>2. posted' \subseteq Messages /\ open' \subseteq Drivers
    BY <1>4, MessagesAre DEF Destroy, OpStep, TypeOK, HasDevice
  <2> QED  BY <1>4, <2>1, <2>2, Typed DEF Types, Destroy, OpStep, hardware, threads
<1>5. ASSUME NEW d \in Drivers, Health(d) PROVE TypeOK'
  <2>1. busy' \in [Drivers -> {"free", "operation", "health"}] /\ health' \subseteq Drivers
    BY <1>5 DEF Health, Probe, Unknown, Probed, TypeOK
  <2>2. posted' \subseteq Messages /\ open' \subseteq Drivers
    BY <1>5, MessagesAre DEF Health, Probe, Unknown, Probed, TypeOK
  <2> QED  BY <1>5, <2>1, <2>2, Typed DEF Types, Health, Probe, Unknown, Probed, hardware, roles, threads
<1>6. ASSUME NEW d \in Drivers, PlugIn(d) \/ Unplug(d) PROVE TypeOK'
  <2>1. plug' \in 0 .. MaxPlug
    BY <1>6, DevicesAssumption DEF PlugIn, Unplug, TypeOK
  <2>2. posted' \subseteq Messages /\ open' \subseteq Drivers /\ visible' \subseteq Drivers
    BY <1>6, MessagesAre DEF PlugIn, Unplug, TypeOK
  <2> QED  BY <1>6, <2>1, <2>2, Typed DEF Types, PlugIn, Unplug, roles, threads
<1>7. ASSUME NEW r \in Roles, Pool(r) PROVE TypeOK'
  BY <1>2, <1>3, <1>4, <1>7 DEF Pool
<1> QED  BY <1>1, <1>5, <1>6, <1>7

\* Every step keeps the types.
LEMMA TypeStep ==
    ASSUME TypeOK, HasDevice, Next
    PROVE  TypeOK'
BY MainTyped, ScanTyped, UserTyped, OthersTyped DEF Next

-----------------------------------------------------------------------------
(* No call after the loader is cleared.                                    *)

\* What a step may do to an operation: begin one on a connected device, while
\* the node is up, or take one that has begun further.
OpsGoOn ==
    \A r \in Roles :
        \/ op'[r].st = op[r].st /\ op'[r].dev = op[r].dev
        \/ op'[r].st = "idle"
        \/ stage = "up" /\ stage' = "up" /\ op'[r].dev \in Drivers
        \/ op[r].st # "idle" /\ op'[r].dev = op[r].dev

\* Only the pool changes who is in a call of an operation, and only the health
\* thread whose probe is under way.
CallsGoOn ==
    \A d \in Drivers :
        /\ busy'[d] = "operation" =>
               \/ /\ busy[d] = "operation"
                  /\ \A r \in Roles : op[r].st = "calling" /\ op[r].dev = d =>
                                         op'[r].st = "calling" /\ op'[r].dev = d
               \/ \E r \in Roles : op'[r].st = "calling" /\ op'[r].dev = d
        /\ busy'[d] = "health" => d \in health'

\* Every step begins operations only while the node is up.
LEMMA OpsStep ==
    ASSUME TypeOK, HasDevice, InCall, Next
    PROVE  OpsGoOn /\ CallsGoOn
<1>0. op \in [Roles -> OpRecord] /\ handle \in [Roles -> Drivers \cup {None}]
      /\ busy \in [Drivers -> {"free", "operation", "health"}]
  BY Typed DEF Types
<1>1. ASSUME UNCHANGED <<op, busy, health>> PROVE OpsGoOn /\ CallsGoOn
  BY <1>1 DEF OpsGoOn, CallsGoOn, InCall
<1>2. CASE Scan
  BY <1>1, <1>2 DEF Scan, Enumerate, ReloadHere, Enumerated, AskReload, ScanAgain, Report, ScanEnds,
                    Unblocked, ScanStep, roles
<1>3. CASE Main
  <2>1. ASSUME NEW d \in Drivers, OnGone(d) PROVE OpsGoOn /\ CallsGoOn
    <3>1. /\ \A r \in Roles : op'[r].st = op[r].st /\ op'[r].dev = op[r].dev
          /\ UNCHANGED <<busy, health>>
      BY <1>0, <2>1, ZenonT(60) DEF OnGone, OpRecord
    <3> QED  BY <3>1 DEF OpsGoOn, CallsGoOn, InCall
  <2>2. ASSUME ~\E d \in Drivers : OnGone(d) PROVE UNCHANGED <<op, busy, health>>
    BY <1>3, <2>2 DEF Main, OnRescan, OnRetry, OnHint, OnFinished, OnRestart, OnResult,
                      DisconnectAll, JoinHealth, Clear, Unload, roles
  <2> QED  BY <1>1, <2>1, <2>2
<1>4. CASE User
  <2>1. ASSUME NEW r \in Roles, Submit(r) PROVE OpsGoOn /\ CallsGoOn
    <3>1. /\ handle[r] \in Drivers /\ stage = "up" /\ stage' = "up" /\ op[r].st = "idle"
          /\ op'[r].dev = handle[r]
          /\ \A s \in Roles \ {r} : op'[s] = op[s]
          /\ UNCHANGED <<busy, health>>
      BY <1>0, <2>1 DEF Submit, NoOperation, hardware
    <3> QED  BY <3>1 DEF OpsGoOn, CallsGoOn, InCall
  <2>2. ASSUME NEW r \in Roles, Grant(r) PROVE OpsGoOn /\ CallsGoOn
    <3>1. /\ op[r].st = "queued" /\ op'[r].st = "held" /\ op'[r].dev = op[r].dev
          /\ \A s \in Roles \ {r} : op'[s] = op[s]
          /\ UNCHANGED <<busy, health>>
      BY <1>0, <2>2 DEF Grant, OpStep, OpRecord
    <3> QED  BY <3>1 DEF OpsGoOn, CallsGoOn, InCall
  <2>3. ASSUME (\E r \in Roles : Disconnect(r) \/ \E d \in Drivers : Connect(r, d))
               \/ Shutdown \/ AskRefresh
        PROVE  OpsGoOn /\ CallsGoOn
    <3> DEFINE Same == \A r \in Roles : op'[r].st = op[r].st /\ op'[r].dev = op[r].dev
    <3>1. ASSUME NEW r \in Roles, Disconnect(r) \/ \E d \in Drivers : Connect(r, d) PROVE Same
      <4>1. op' = op \/ \E p \in {"last", "closed"} : op' = [op EXCEPT ![r].proxy = p]
        BY <3>1 DEF Disconnect, Connect, Drop
      <4> QED  BY <1>0, <4>1 DEF OpRecord
    <3>2. Shutdown => Same
      BY <1>0 DEF Shutdown, OpRecord
    <3>3. AskRefresh => Same
      BY DEF AskRefresh
    <3>4. UNCHANGED <<busy, health>>
      BY <2>3 DEF Disconnect, Connect, Ask, Shutdown, AskRefresh
    <3> QED  BY <2>3, <3>1, <3>2, <3>3, <3>4 DEF OpsGoOn, CallsGoOn, InCall
  <2> QED  BY <1>4, <2>1, <2>2, <2>3 DEF User
<1>5. CASE StartHealth
  BY <1>5 DEF StartHealth, OpsGoOn, CallsGoOn, InCall, roles
<1>6. ASSUME NEW r \in Roles, Pool(r) PROVE OpsGoOn /\ CallsGoOn
  <2>1. /\ \A s \in Roles \ {r} : op'[s] = op[s]
        /\ \/ op'[r].st = "idle"
           \/ op[r].st # "idle" /\ op'[r].dev = op[r].dev
        /\ health' = health
    BY <1>0, <1>6 DEF Pool, Call, Return, End, Destroy, OpStep, OpRecord, NoOperation
  <2>2. OpsGoOn
    BY <2>1 DEF OpsGoOn
  <2>3. CASE Call(r)
    <3>1. /\ op'[r].st = "calling" /\ op'[r].dev = op[r].dev /\ op[r].dev \in Drivers
          /\ busy'[op[r].dev] = "operation"
          /\ \A d \in Drivers \ {op[r].dev} : busy'[d] = busy[d]
          /\ op[r].st # "calling"
      BY <1>0, <2>3 DEF Call, OpStep, OpRecord, HasDevice
    <3> QED  BY <2>1, <2>2, <3>1 DEF CallsGoOn, InCall
  <2>4. CASE Return(r)
    <3>1. /\ op[r].dev \in Drivers
          /\ busy'[op[r].dev] = "free"
          /\ \A d \in Drivers \ {op[r].dev} : busy'[d] = busy[d]
      BY <1>0, <2>4 DEF Return, OpStep, HasDevice
    <3> QED  BY <2>1, <2>2, <3>1 DEF CallsGoOn, InCall
  <2>5. CASE End(r) \/ Destroy(r)
    <3>1. op[r].st # "calling" /\ busy' = busy
      BY <2>5 DEF End, Destroy, OpStep
    <3> QED  BY <2>1, <2>2, <3>1 DEF CallsGoOn, InCall
  <2> QED  BY <1>6, <2>3, <2>4, <2>5 DEF Pool
<1>7. ASSUME NEW d \in Drivers, Health(d) PROVE OpsGoOn /\ CallsGoOn
  <2>1. /\ op' = op
        /\ \A e \in Drivers \ {d} : busy'[e] = busy[e] /\ (e \in health <=> e \in health')
        /\ \/ busy'[d] = "health" /\ d \in health'
           \/ busy'[d] = "free"
    <3>1. Probe(d) \/ Probed(d) \/ Unknown(d)
      BY <1>7 DEF Health
    <3>2. op' = op
      BY <3>1 DEF Probe, Unknown, Probed, roles
    <3>3. ASSUME Unknown(d) PROVE busy' = busy /\ busy[d] = "free" /\ health' = health \ {d}
      BY <3>3 DEF Unknown, Free
    <3>4. ASSUME Probe(d) PROVE busy' = [busy EXCEPT ![d] = "health"] /\ health' = health /\ d \in health
      BY <3>4 DEF Probe
    <3>5. ASSUME Probed(d) PROVE busy' = [busy EXCEPT ![d] = "free"] /\ health' = health \ {d}
      BY <3>5 DEF Probed
    <3> QED  BY <1>0, <3>1, <3>2, <3>3, <3>4, <3>5
  <2> QED  BY <2>1 DEF OpsGoOn, CallsGoOn, InCall
<1>8. ASSUME NEW d \in Drivers, PlugIn(d) \/ Unplug(d) PROVE OpsGoOn /\ CallsGoOn
  BY <1>1, <1>8 DEF PlugIn, Unplug, roles
<1> QED  BY <1>2, <1>3, <1>4, <1>5, <1>6, <1>7, <1>8 DEF Next

\* What the stages of shutdown() waited for stays so.
LEMMA StoppedStep ==
    ASSUME TypeOK, HasDevice, InCall, Stopped, Next
    PROVE  HasDevice' /\ InCall' /\ Stopped'
<1>1. OpsGoOn /\ CallsGoOn
  BY OpsStep
<1>2. HasDevice' /\ InCall'
  BY <1>1 DEF OpsGoOn, CallsGoOn, HasDevice, InCall
<1>3. \/ UNCHANGED <<stage, outlasted>>
      \/ stage = "up" /\ stage' = "draining"
      \/ stage = "draining" /\ stage' = "joinHealth" /\ \A r \in Roles : op'[r].st = "idle"
      \/ /\ stage = "joinHealth" /\ stage' = "joinScan" /\ op' = op
         /\ health' # {} => "health" \in outlasted'
      \/ /\ stage = "joinScan" /\ stage' = "cleared" /\ health' = health /\ op' = op
         /\ outlasted \subseteq outlasted' /\ (ScanRunning' => "scan" \in outlasted')
  <2>1. Main => \/ UNCHANGED <<stage, outlasted>>
                \/ stage = "draining" /\ stage' = "joinHealth" /\ \A r \in Roles : op'[r].st = "idle"
                \/ /\ stage = "joinHealth" /\ stage' = "joinScan" /\ op' = op
                   /\ health' # {} => "health" \in outlasted'
                \/ /\ stage = "joinScan" /\ stage' = "cleared" /\ health' = health /\ op' = op
                   /\ outlasted \subseteq outlasted' /\ (ScanRunning' => "scan" \in outlasted')
    BY DEF Main, OnRescan, OnRetry, OnGone, OnHint, OnFinished, OnRestart, OnResult,
           DisconnectAll, JoinHealth, Clear, Unload, Await, Stopping, roles, threads, HealthEnded,
           ScanEnded, ScanRunning
  <2>2. Scan \/ StartHealth => UNCHANGED <<stage, outlasted>>
    BY DEF Scan, Enumerate, ReloadHere, Enumerated, AskReload, ScanAgain, Report, ScanEnds,
           Unblocked, ScanStep, StartHealth
  <2>3. User => UNCHANGED <<stage, outlasted>> \/ (stage = "up" /\ stage' = "draining")
    BY DEF User, Submit, Grant, OpStep, Disconnect, Connect, Ask, AskRefresh, Shutdown, Stopping
  <2>4. ASSUME \/ \E r \in Roles : Pool(r)
               \/ \E d \in Drivers : Health(d) \/ PlugIn(d) \/ Unplug(d)
        PROVE  UNCHANGED <<stage, outlasted>>
    BY <2>4 DEF Pool, Call, Return, End, Destroy, OpStep, Health, Probe, Unknown, Probed, PlugIn, Unplug
  <2> QED  BY <2>1, <2>2, <2>3, <2>4 DEF Next
<1>4. stage \in {"joinScan", "cleared"} => health' \subseteq health
  <2> SUFFICES ASSUME stage # "up" PROVE health' \subseteq health
    OBVIOUS
  <2>1. Main \/ Scan \/ User => health' = health
    BY DEF Main, OnRescan, OnRetry, OnGone, OnHint, OnFinished, OnRestart, OnResult,
           DisconnectAll, JoinHealth, Clear, Unload, Scan, Enumerate, ReloadHere, Enumerated, AskReload,
           ScanAgain, Report, ScanEnds, Unblocked, ScanStep,
           User, Submit, Grant, OpStep, Disconnect, Connect, Ask, AskRefresh, Shutdown
  <2>2. ASSUME \/ \E r \in Roles : Pool(r)
               \/ \E d \in Drivers : Health(d) \/ PlugIn(d) \/ Unplug(d)
        PROVE  health' \subseteq health
    BY <2>2 DEF Pool, Call, Return, End, Destroy, OpStep, Health, Probe, Unknown, Probed, PlugIn, Unplug
  <2> QED  BY <2>1, <2>2 DEF Next, StartHealth
<1>5. stage = "cleared" /\ ScanRunning' => ScanRunning
  <2> SUFFICES ASSUME stage = "cleared" PROVE ScanRunning' => ScanRunning
    OBVIOUS
  <2>2. Scan => ScanRunning
    BY DEF Scan, Enumerate, ReloadHere, Enumerated, AskReload, ScanAgain, Report, ScanEnds,
           Unblocked, ScanStep, ScanRunning
  <2>3. Main \/ User \/ StartHealth => scan' = scan
    BY DEF Main, OnRescan, OnRetry, OnGone, OnHint, OnFinished, OnRestart, OnResult,
           DisconnectAll, JoinHealth, Clear, Unload, Stopping, threads,
           User, Submit, Grant, OpStep, Disconnect, Connect, Ask, AskRefresh, Shutdown, StartHealth
  <2>4. ASSUME \/ \E r \in Roles : Pool(r)
               \/ \E d \in Drivers : Health(d) \/ PlugIn(d) \/ Unplug(d)
        PROVE  scan' = scan
    BY <2>4 DEF Pool, Call, Return, End, Destroy, OpStep, Health, Probe, Unknown, Probed, PlugIn, Unplug, threads
  <2> QED  BY <2>2, <2>3, <2>4 DEF Next, ScanRunning
<1>6. stage \in {"joinHealth", "joinScan", "cleared"} => \A r \in Roles : op'[r].st = "idle"
  BY <1>1 DEF OpsGoOn, Stopped
<1> QED  BY <1>2, <1>3, <1>4, <1>5, <1>6 DEF Stopped

-----------------------------------------------------------------------------
(* No request is lost.                                                     *)

\* A step that takes no message of a scan away and touches no scan keeps all
\* requests.
LEMMA ComingKept ==
    ASSUME stage = "up", NoLostRequest, Waiting, UNCHANGED <<scan, pend, owed>>,
           \A m \in posted : m.k = "rescan" => m \in posted',
           Plain("finished") \in posted => Plain("finished") \in posted',
           Plain("restart") \in posted' => Plain("restart") \in posted
    PROVE  NoLostRequest' /\ Waiting'
BY DEF NoLostRequest, Waiting, Coming, ScanRunning

\* A request that is granted or kept stands for the messages that asked for it.
LEMMA RequestKept ==
    ASSUME TypeOK, stage = "up", NoLostRequest, Waiting,
           NEW ids \in SUBSET Drivers, NEW hard \in BOOLEAN, NEW more \in SUBSET posted,
           Request(ids, hard, more),
           \A m \in posted : m.k = "rescan" => m \in more \/ (m.ids \subseteq ids /\ (m.hard => hard)),
           Plain("finished") \in posted => Plain("finished") \in more
    PROVE  NoLostRequest' /\ Waiting'
<1>1. posted' = more /\ owed' = owed \cup (ids \X {FALSE}) \cup (IF hard THEN ids \X {TRUE} ELSE {})
  BY DEF Request
<1>2. \A d \in Drivers, h \in BOOLEAN :
         <<d, h>> \in owed' => Coming(d, h) \/ (d \in ids /\ (h => hard))
  <2> SUFFICES ASSUME NEW d \in Drivers, NEW h \in BOOLEAN, <<d, h>> \in owed', <<d, h>> \notin owed
               PROVE  d \in ids /\ (h => hard)
    BY DEF NoLostRequest
  <2> QED  BY <1>1
<1>3. CASE ScanRunning
  <2>1. /\ scan' = scan /\ pend'.ids = pend.ids \cup ids /\ pend'.hard = (pend.hard \/ hard)
    BY <1>3 DEF Request
  <2>2. ASSUME NEW d \in Drivers, NEW h \in BOOLEAN, <<d, h>> \in owed' PROVE Coming(d, h)'
    <3>1. CASE d \in ids /\ (h => hard)
      BY <2>1, <3>1 DEF Coming
    <3>2. CASE Coming(d, h)
      <4>1. CASE \E m \in posted : m.k = "rescan" /\ d \in m.ids /\ (h => m.hard)
        BY <1>1, <2>1, <4>1 DEF Coming
      <4>2. CASE d \in pend.ids /\ (h => pend.hard)
        BY <2>1, <4>2 DEF Coming
      <4> QED  BY <2>1, <3>2, <4>1, <4>2 DEF Coming
    <3> QED  BY <1>2, <2>2, <3>1, <3>2
  <2> QED  BY <1>1, <1>3, <2>1, <2>2 DEF NoLostRequest, Waiting, ScanRunning
<1>4. CASE ~ScanRunning
  <2>1. /\ scan'.pc = "enumerate" /\ scan'.ids = ids /\ scan'.hard = hard /\ scan'.todo = ids
        /\ pend' = pend
    BY <1>4 DEF Request, NoScan
  <2>2. ASSUME NEW d \in Drivers, NEW h \in BOOLEAN, <<d, h>> \in owed' PROVE Coming(d, h)'
    <3>1. CASE d \in ids /\ (h => hard)
      BY <2>1, <3>1 DEF Coming
    <3>2. CASE Coming(d, h)
      <4>1. CASE \E m \in posted : m.k = "rescan" /\ d \in m.ids /\ (h => m.hard)
        BY <1>1, <2>1, <3>1, <4>1 DEF Coming
      <4>2. scan.pc = "off"
        BY <1>4 DEF ScanRunning
      <4> QED  BY <2>1, <3>2, <4>1, <4>2 DEF Coming
    <3> QED  BY <1>2, <2>2, <3>1, <3>2
  <2>3. Plain("restart") \notin posted'
    BY <1>1, <1>4 DEF Waiting, ScanRunning
  <2> QED  BY <1>1, <2>1, <2>2, <2>3 DEF NoLostRequest, Waiting, ScanRunning
<1> QED  BY <1>3, <1>4

\* Every step that leaves the node up keeps the requests.
LEMMA RequestStep ==
    ASSUME TypeOK, Waiting, NoLostRequest, Next, stage' = "up"
    PROVE  NoLostRequest' /\ Waiting'
<1>0. stage = "up"
  BY DEF Next, Main, OnRescan, OnRetry, OnGone, OnHint, OnFinished, OnRestart, OnResult,
         DisconnectAll, JoinHealth, Clear, Unload, Stopping, Scan, Enumerate, ReloadHere, Enumerated,
         AskReload, ScanAgain, Report, ScanEnds, Unblocked, ScanStep, User, Submit, Grant, OpStep,
         Disconnect, Connect, Ask, AskRefresh, Shutdown, StartHealth, Pool, Call, Return, End,
         Destroy, Health, Probe, Unknown, Probed, PlugIn, Unplug
<1>1. ASSUME NEW m \in posted, OnRescan(m) PROVE NoLostRequest' /\ Waiting'
  <2>1. m \in Messages /\ m.k = "rescan" /\ Request(m.ids, m.hard, posted \ {m})
    BY <1>1 DEF OnRescan, TypeOK
  <2>2. m.ids \in SUBSET Drivers /\ m.hard \in BOOLEAN /\ Plain("finished") # m
    BY <2>1, MessagesAre, KindsAre
  <2> QED  BY <1>0, <2>1, <2>2, RequestKept
<1>2. ASSUME NEW m \in posted, OnRetry(m) PROVE NoLostRequest' /\ Waiting'
  <2>1. m.k = "retry" /\ Plain("finished") # m /\ {Canon} \in SUBSET Drivers
        /\ (m.i = Retries) \in BOOLEAN
    BY <1>2, KindsAre, DevicesAssumption DEF OnRetry
  <2>2. \/ Request({Canon}, m.i = Retries, posted \ {m})
        \/ posted' = posted \ {m} /\ UNCHANGED <<scan, pend, owed>>
    BY <1>2 DEF OnRetry
  <2>3. CASE Request({Canon}, m.i = Retries, posted \ {m})
    <3> DEFINE hard == m.i = Retries
               more == posted \ {m}
               ids == {Canon}
    <3>1. hard \in BOOLEAN /\ more \in SUBSET posted /\ ids \in SUBSET Drivers
      BY <2>1
    <3>2. \A n \in posted : n.k = "rescan" => n \in more
      BY <2>1
    <3>3. Plain("finished") \in posted => Plain("finished") \in more
      BY <2>1
    <3>4. Request(ids, hard, more)
      BY <2>3
    <3> HIDE DEF hard, more, ids
    <3> QED  BY <1>0, <3>1, <3>2, <3>3, <3>4, RequestKept
  <2>4. CASE posted' = posted \ {m} /\ UNCHANGED <<scan, pend, owed>>
    BY <1>0, <2>1, <2>4, ComingKept
  <2> QED  BY <2>2, <2>3, <2>4
<1>3. ASSUME NEW d \in Drivers, OnGone(d) PROVE NoLostRequest' /\ Waiting'
  <2>1. /\ UNCHANGED <<scan, pend>> /\ owed' = owed \cup {<<d, FALSE>>}
        /\ posted \ {Gone(d)} \subseteq posted'
        /\ posted' \subseteq posted \cup {Rescan({d}, FALSE)} /\ Rescan({d}, FALSE) \in posted'
    BY <1>3 DEF OnGone
  <2>2. Gone(d).k = "gone" /\ Plain("finished").k = "finished" /\ Plain("restart").k = "restart"
        /\ Rescan({d}, FALSE).k = "rescan" /\ Rescan({d}, FALSE).ids = {d}
    BY KindsAre
  <2>3. ASSUME NEW e \in Drivers, NEW h \in BOOLEAN, <<e, h>> \in owed' PROVE Coming(e, h)'
    <3>1. CASE e = d /\ h = FALSE
      BY <2>1, <2>2, <3>1 DEF Coming
    <3>2. CASE <<e, h>> \in owed
      <4>1. Coming(e, h)
        BY <1>0, <3>2 DEF NoLostRequest
      <4> QED  BY <2>1, <2>2, <4>1 DEF Coming
    <3> QED  BY <2>1, <2>3, <3>1, <3>2
  <2> QED  BY <1>0, <2>1, <2>2, <2>3 DEF NoLostRequest, Waiting, ScanRunning
<1>4. CASE OnHint
  <2>1. /\ UNCHANGED <<scan, pend, owed>>
        /\ posted' = (posted \ {Plain("hint")}) \cup {Retry(gen + 1, i) : i \in 1 .. Retries}
    BY <1>4 DEF OnHint
  <2> QED  BY <1>0, <2>1, KindsAre, ComingKept
<1>5. CASE OnFinished
  <2> DEFINE more == Rescan(pend.ids, pend.hard)
  <2>1. /\ UNCHANGED <<scan, owed>> /\ pend' = NoPending
        /\ posted' = (posted \ {Plain("finished")}) \cup (IF pend.ids = {} THEN {} ELSE {more})
    BY <1>0, <1>5 DEF OnFinished
  <2>2. Plain("finished").k = "finished" /\ Plain("restart").k = "restart"
        /\ more.k = "rescan" /\ more.ids = pend.ids /\ more.hard = pend.hard
    BY KindsAre
  <2> HIDE DEF more
  <2>3. ASSUME NEW e \in Drivers, NEW h \in BOOLEAN, <<e, h>> \in owed' PROVE Coming(e, h)'
    <3>1. Coming(e, h)
      BY <1>0, <2>1, <2>3 DEF NoLostRequest
    <3>2. CASE e \in pend.ids /\ (h => pend.hard)
      BY <2>1, <2>2, <3>2 DEF Coming
    <3> QED  BY <2>1, <2>2, <3>1, <3>2 DEF Coming
  <2> QED  BY <1>0, <2>1, <2>2, <2>3 DEF NoLostRequest, Waiting
<1>6. CASE OnRestart
  <2>1. /\ scan.pc = "wait" /\ UNCHANGED <<pend, owed>> /\ posted' = posted \ {Plain("restart")}
        /\ scan'.pc \in {"again", "reload"}
    BY <1>0, <1>6, Typed DEF OnRestart, Waiting, Types, ScanRecord
  <2>2. Plain("finished").k = "finished" /\ Plain("restart").k = "restart"
    BY KindsAre
  <2> QED  BY <1>0, <2>1, <2>2 DEF NoLostRequest, Waiting, Coming, ScanRunning
<1>7. CASE OnResult
  BY <1>0, <1>7, KindsAre, ComingKept DEF OnResult, threads
<1>8. ASSUME NEW d \in Drivers, Enumerate(d) PROVE NoLostRequest' /\ Waiting'
  <2>1. /\ scan.pc = "enumerate" /\ scan'.pc = scan.pc /\ scan'.ids = scan.ids /\ scan'.hard = scan.hard
        /\ scan'.todo = scan.todo \ {d} /\ owed' = owed \ {<<d, FALSE>>}
        /\ UNCHANGED <<pend, posted>>
    BY <1>8, Typed DEF Enumerate, ScanStep, Types, ScanRecord
  <2>2. ASSUME NEW e \in Drivers, NEW h \in BOOLEAN, <<e, h>> \in owed' PROVE Coming(e, h)'
    <3>1. Coming(e, h) /\ (h \/ e # d)
      BY <1>0, <2>1, <2>2 DEF NoLostRequest
    <3> QED  BY <2>1, <3>1 DEF Coming
  <2> QED  BY <1>0, <2>1, <2>2 DEF NoLostRequest, Waiting, ScanRunning
<1>9. CASE Enumerated
  <2>1. /\ scan.pc = "enumerate" /\ scan.todo = {} /\ scan'.pc = "reload"
        /\ owed' = owed \ (IF scan.hard THEN scan.ids \X {TRUE} ELSE {})
        /\ UNCHANGED <<pend, posted>>
    BY <1>9, Typed DEF Enumerated, ScanStep, Types, ScanRecord
  <2>2. ASSUME NEW e \in Drivers, NEW h \in BOOLEAN, <<e, h>> \in owed' PROVE Coming(e, h)'
    <3>1. Coming(e, h) /\ (h /\ scan.hard => e \notin scan.ids)
      BY <1>0, <2>1, <2>2 DEF NoLostRequest
    <3> QED  BY <2>1, <3>1 DEF Coming
  <2> QED  BY <1>0, <2>1, <2>2 DEF NoLostRequest, Waiting, ScanRunning
<1>10. CASE (\E d \in Drivers : ReloadHere(d)) \/ AskReload \/ ScanAgain \/ Report \/ ScanEnds
  <2> DEFINE Quiet == /\ scan.pc \in {"reload", "again", "finish"} /\ scan'.pc # "enumerate"
                      /\ UNCHANGED <<pend, owed>> /\ posted \subseteq posted'
                      /\ scan'.pc # "off" \/ Plain("finished") \in posted'
                      /\ Plain("restart") \in posted' => Plain("restart") \in posted \/ scan'.pc = "wait"
  <2>0. scan \in ScanRecord
    BY Typed DEF Types
  <2>1. Quiet
    <3>1. ASSUME NEW d \in Drivers, ReloadHere(d) PROVE Quiet
      <4>1. scan.pc = "reload" /\ scan'.pc \in {"again", "reload"} /\ UNCHANGED <<pend, owed, posted>>
        BY <2>0, <3>1 DEF ReloadHere, ScanStep, ScanRecord
      <4> QED  BY <4>1
    <3>2. AskReload => Quiet
      BY <2>0 DEF AskReload, ScanStep, ScanRecord
    <3>3. ScanAgain => Quiet
      BY <2>0 DEF ScanAgain, ScanStep, ScanRecord
    <3>4. Report => Quiet
      BY <2>0, KindsAre DEF Report, ScanStep, ScanRecord
    <3>5. ScanEnds => Quiet
      BY <2>0, KindsAre DEF ScanEnds, ScanStep, NoScan
    <3> QED  BY <1>10, <3>1, <3>2, <3>3, <3>4, <3>5
  <2>3. ASSUME NEW e \in Drivers, NEW h \in BOOLEAN, <<e, h>> \in owed' PROVE Coming(e, h)'
    <3>1. Coming(e, h)
      BY <1>0, <2>1, <2>3 DEF NoLostRequest
    <3> QED  BY <2>1, <3>1 DEF Coming
  <2>4. Waiting'
    BY <1>0, <2>1 DEF Waiting
  <2>5. pend' # NoPending => ScanRunning' \/ Plain("finished") \in posted'
    BY <2>1 DEF ScanRunning
  <2> HIDE DEF Quiet
  <2> QED  BY <2>3, <2>4, <2>5 DEF NoLostRequest
<1>11. CASE AskRefresh
  BY <1>0, <1>11, RequestKept DEF AskRefresh
<1>12. ASSUME NEW r \in Roles,
              Submit(r) \/ Grant(r) \/ Disconnect(r) \/ (\E d \in Drivers : Connect(r, d)) \/ Pool(r)
       PROVE  NoLostRequest' /\ Waiting'
  <2>1. UNCHANGED <<scan, pend, owed>>
    BY <1>12 DEF Submit, Grant, Disconnect, Connect, Ask, Pool, Call, Return, End, Destroy, OpStep, threads
  <2>2. posted' = posted \/ \E d : posted' = posted \cup {Gone(d)}
    BY <1>12 DEF Submit, Grant, Disconnect, Connect, Drop, Pool, Call, Return, End, Destroy
  <2> QED  BY <1>0, <2>1, <2>2, KindsAre, ComingKept
<1>13. ASSUME NEW d \in Drivers, Health(d) \/ PlugIn(d) \/ Unplug(d)
       PROVE  NoLostRequest' /\ Waiting'
  <2>1. UNCHANGED <<scan, pend, owed>>
    BY <1>13 DEF Health, Probe, Unknown, Probed, PlugIn, Unplug, threads
  <2>2. posted' = posted \/ posted' = posted \cup {Gone(d)} \/ posted' = posted \cup {Plain("hint")}
    BY <1>13 DEF Health, Probe, Unknown, Probed, PlugIn, Unplug
  <2> QED  BY <1>0, <2>1, <2>2, KindsAre, ComingKept
<1>14. CASE StartHealth
  BY <1>0, <1>14, ComingKept DEF StartHealth, threads
<1>15. /\ ~Unblocked /\ ~Shutdown /\ ~DisconnectAll /\ ~JoinHealth /\ ~Clear
  BY <1>0 DEF Unblocked, Shutdown, DisconnectAll, JoinHealth, Clear, Unload, Stopping
<1> QED  BY <1>1, <1>2, <1>3, <1>4, <1>5, <1>6, <1>7, <1>8, <1>9, <1>10, <1>11, <1>12, <1>13, <1>14, <1>15
         DEF Next, Main, Scan, User

-----------------------------------------------------------------------------
(* The theorems.                                                           *)

\* A node that starts satisfies the invariant.
LEMMA InitInv == Init => DevicesIInv
<1> SUFFICES ASSUME Init PROVE DevicesIInv
  OBVIOUS
<1>1. TypeOK
  <2>1. posted \subseteq Messages
    BY MessagesAre DEF Init
  <2>2. scan \in ScanRecord /\ pend \in PendRecord
    BY DEF Init, NoScan, NoPending, ScanRecord, PendRecord
  <2>3. op \in [Roles -> OpRecord] /\ busy \in [Drivers -> {"free", "operation", "health"}]
    BY DEF Init, NoOperation, OpRecord
  <2>4. handle \in [Roles -> Drivers \cup {None}] /\ bind \in [Roles -> Drivers \cup {None}]
    BY DevicesAssumption DEF Init
  <2>5. gen \in 0 .. MaxGen /\ user \in 0 .. MaxUser /\ plug \in 0 .. MaxPlug
    BY DevicesAssumption DEF Init
  <2>6. owed \subseteq Drivers \X BOOLEAN
    <3> SUFFICES ASSUME NEW x \in owed PROVE x \in Drivers \X BOOLEAN
      OBVIOUS
    <3>1. PICK d \in Drivers : x = <<d, FALSE>>
      BY DEF Init
    <3>2. <<d, FALSE>> \in Drivers \X BOOLEAN
      OBVIOUS
    <3> QED  BY <3>1, <3>2
  <2>7. /\ stage = "up" /\ visible \subseteq Drivers /\ loaded \subseteq Drivers /\ open = {}
        /\ cache = {} /\ health = {} /\ outlasted = {}
    BY DEF Init
  <2> QED  BY <2>1, <2>2, <2>3, <2>4, <2>5, <2>6, <2>7, Typed DEF Types
<1>2. HasDevice /\ InCall /\ Stopped
  BY DEF Init, HasDevice, InCall, Stopped, NoOperation
<1>3. Waiting /\ NoLostRequest
  <2>1. \A d \in Drivers, h \in BOOLEAN : <<d, h>> \in owed => Coming(d, h)
    BY KindsAre DEF Init, Coming
  <2>2. pend = NoPending
    BY DEF Init
  <2>3. Plain("restart") \notin posted
    <3>1. posted = {Rescan(Drivers, FALSE)}
      BY DEF Init
    <3>2. Plain("restart").k = "restart" /\ Rescan(Drivers, FALSE).k = "rescan"
      BY KindsAre
    <3> QED  BY <3>1, <3>2
  <2> QED  BY <2>1, <2>2, <2>3 DEF Waiting, NoLostRequest
<1> QED  BY <1>1, <1>2, <1>3 DEF DevicesIInv

\* Every step keeps it.
LEMMA StepInv == DevicesIInv /\ [Next]_vars => DevicesIInv'
<1> SUFFICES ASSUME DevicesIInv, [Next]_vars PROVE DevicesIInv'
  OBVIOUS
<1>1. CASE Next
  <2>1. TypeOK' /\ HasDevice' /\ InCall' /\ Stopped'
    BY <1>1, TypeStep, StoppedStep DEF DevicesIInv
  <2>2. stage' = "up" => NoLostRequest' /\ Waiting'
    BY <1>1, RequestStep DEF DevicesIInv
  <2> QED  BY <2>1, <2>2 DEF DevicesIInv, NoLostRequest, Waiting
<1>2. CASE UNCHANGED vars
  <2>1. TypeOK' /\ HasDevice' /\ InCall' /\ Stopped'
    BY <1>2, Typed DEF DevicesIInv, Types, HasDevice, InCall, Stopped, ScanRunning, vars
  <2>2. NoLostRequest' /\ Waiting'
    BY <1>2 DEF DevicesIInv, NoLostRequest, Waiting, Coming, ScanRunning, vars
  <2> QED  BY <2>1, <2>2 DEF DevicesIInv
<1> QED  BY <1>1, <1>2

\* The invariant holds of every node.
THEOREM DevicesInvHolds == Spec => []DevicesIInv
BY InitInv, StepInv, PTL DEF Spec

\* When shutdown() has cleared the loader no operation is in a driver or about to
\* call one, and a probe or a scan only if the wait for its thread gave up.
THEOREM NoneInsideAfterClear == Spec => []DevicesInv
<1>1. DevicesIInv => DevicesInv
  BY DEF DevicesIInv, DevicesInv, NoCallAfterClear, HasDevice, InCall, Stopped, TypeOK, Free
<1> QED  BY <1>1, DevicesInvHolds, PTL

\* While the node is up every scan that was asked for is still to come.
THEOREM ScansKept == Spec => []NoLostRequest
<1>1. DevicesIInv => NoLostRequest
  BY DEF DevicesIInv
<1> QED  BY <1>1, DevicesInvHolds, PTL
=============================================================================
