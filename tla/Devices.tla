------------------------------- MODULE Devices -------------------------------
(***************************************************************************)
(* How the node finds native devices, connects and loses them, and stops:  *)
(* ApplicationController's discovery, health and shutdown code around the  *)
(* native driver loader.  Three kinds of threads meet here: the main       *)
(* thread (one posted event or timer at a time), one discovery thread and  *)
(* one health thread, next to the operation pool.                          *)
(*                                                                         *)
(* A driver has one device, which bears its name.  Canon is the driver     *)
(* with hot-plug events, whose library may only be reloaded by the main    *)
(* thread.  The per-device call mutex is busy[d]; the driver-wide mutex is *)
(* only taken by a scan and by a reload, which never overlap.              *)
(***************************************************************************)
EXTENDS Naturals, FiniteSets

CONSTANTS Drivers, Roles, Canon, None,
          Retries,   \* rediscovery timers per hot-plug event (the code has 4)
          MaxGen,    \* bound: hot-plug events
          MaxUser,   \* bound: connects, disconnects, refreshes and operations
          MaxPlug    \* bound: times a device is plugged or unplugged

ASSUME DevicesAssumption ==
    /\ Canon \in Drivers /\ None \notin Drivers
    /\ Retries \in Nat \ {0} /\ MaxGen \in Nat /\ MaxUser \in Nat /\ MaxPlug \in Nat

VARIABLES
    stage,     \* "up", then the steps of shutdown()
    outlasted, \* waits of shutdown() for a thread that gave up: "health", "scan"
    visible,   \* devices the vendor SDKs can enumerate
    loaded,    \* drivers whose library is loaded
    open,      \* devices a driver holds open
    cache,     \* deviceCache_
    handle,    \* camera_, guideCamera_, ...: the device a role is connected to
    bind,      \* the persisted auto-connect binding of a role
    op,        \* the operation of a role; its proxy is the role's, or the last
               \* reference to an earlier one, or one told to disconnect
    busy,      \* who is inside a driver call of a device
    scan,      \* the discovery thread
    pend,      \* pendingNativeDiscovery...
    posted,    \* events and timers the main thread has not yet run
    gen,       \* canonHotplugGeneration_
    health,    \* devices the health thread has yet to probe
    owed,      \* scans asked for and not yet made: <<driver, hard>>
    user, plug \* counters of MaxUser and MaxPlug

vars == <<stage, outlasted, visible, loaded, open, cache, handle, bind, op, busy,
          scan, pend, posted, gen, health, owed, user, plug>>
hardware == <<visible, loaded, plug>>
roles == <<handle, bind, op, user>>
threads == <<scan, pend, owed, gen>>

NoScan == [pc |-> "off", ids |-> {}, hard |-> FALSE, inUse |-> {}, todo |-> {},
           found |-> {}, reload |-> {}]
NoPending == [ids |-> {}, hard |-> FALSE]
NoOperation == [st |-> "idle", dev |-> None, stop |-> FALSE, proxy |-> "current"]

Rescan(ids, hard) == [k |-> "rescan", ids |-> ids, hard |-> hard]
Retry(g, i) == [k |-> "retry", gen |-> g, i |-> i]
Gone(d) == [k |-> "gone", d |-> d]
Plain(kind) == [k |-> kind]

Messages == [k : {"rescan"}, ids : SUBSET Drivers, hard : BOOLEAN]
            \cup [k : {"retry"}, gen : 1..MaxGen, i : 1..Retries]
            \cup [k : {"gone"}, d : Drivers]
            \cup [k : {"hint", "restart", "result", "finished"}]

TypeOK ==
    /\ stage \in {"up", "draining", "joinHealth", "joinScan", "cleared"}
    /\ outlasted \subseteq {"health", "scan"}
    /\ visible \subseteq Drivers /\ loaded \subseteq Drivers
    /\ open \subseteq Drivers /\ cache \subseteq Drivers
    /\ handle \in [Roles -> Drivers \cup {None}] /\ bind \in [Roles -> Drivers \cup {None}]
    /\ op \in [Roles -> [st : {"idle", "queued", "held", "calling", "ended"},
                         dev : Drivers \cup {None}, stop : BOOLEAN,
                         proxy : {"current", "last", "closed"}]]
    /\ busy \in [Drivers -> {"free", "operation", "health"}]
    /\ scan \in [pc : {"off", "enumerate", "reload", "wait", "again", "finish"},
                 ids : SUBSET Drivers, hard : BOOLEAN, inUse : SUBSET Drivers,
                 todo : SUBSET Drivers, found : SUBSET Drivers, reload : SUBSET Drivers]
    /\ pend \in [ids : SUBSET Drivers, hard : BOOLEAN]
    /\ posted \subseteq Messages
    /\ gen \in 0..MaxGen /\ health \subseteq Drivers
    /\ owed \subseteq Drivers \X BOOLEAN
    /\ user \in 0..MaxUser /\ plug \in 0..MaxPlug

\* The constructor has loaded the drivers; node main() asks for one full scan.
\* The last run left Canon cameras bound, one of which may not be there.
Init ==
    /\ stage = "up" /\ outlasted = {} /\ visible \in {Drivers, Drivers \ {Canon}} /\ loaded = Drivers
    /\ open = {} /\ cache = {}
    /\ handle = [r \in Roles |-> None] /\ bind = [r \in Roles |-> Canon]
    /\ op = [r \in Roles |-> NoOperation]
    /\ busy = [d \in Drivers |-> "free"]
    /\ scan = NoScan /\ pend = NoPending
    /\ posted = {Rescan(Drivers, FALSE)} /\ owed = {<<d, FALSE>> : d \in Drivers}
    /\ gen = 0 /\ health = {} /\ user = 0 /\ plug = 0

Locked(r) == op[r].st \in {"held", "calling"}
InUse == {handle[r] : r \in Roles} \cap Drivers
ScanRunning == scan.pc # "off"
Free(d) == busy[d] = "free"

-----------------------------------------------------------------------------
(* Asking for a scan *)

\* mutant: the newest request replaces those that wait
RequestReplaces(ids, hard, more) ==
    /\ posted' = more
    /\ owed' = owed \cup (ids \X {FALSE}) \cup (IF hard THEN ids \X {TRUE} ELSE {})
    /\ IF ScanRunning
       THEN pend' = [ids |-> ids, hard |-> hard] /\ UNCHANGED scan
       ELSE /\ scan' = [NoScan EXCEPT !.pc = "enumerate", !.ids = ids, !.hard = hard,
                                      !.inUse = InUse, !.todo = ids]
            /\ UNCHANGED pend

\* A scan thread starts, unless one runs: then the request is kept for it.
\* `more' is what the event that asks posts besides.
Request(ids, hard, more) ==
    /\ posted' = more
    /\ owed' = owed \cup (ids \X {FALSE}) \cup (IF hard THEN ids \X {TRUE} ELSE {})
    /\ IF ScanRunning
       THEN /\ pend' = [ids |-> pend.ids \cup ids, hard |-> pend.hard \/ hard]
            /\ UNCHANGED scan
       ELSE /\ scan' = [NoScan EXCEPT !.pc = "enumerate", !.ids = ids, !.hard = hard,
                                      !.inUse = InUse, !.todo = ids]
            /\ UNCHANGED pend

\* A device event waits 0 ms, the scan that follows it 350 ms.
OnRescan(m) ==
    /\ m \in posted /\ m.k = "rescan" /\ stage = "up"
    /\ \A d \in m.ids : Gone(d) \notin posted
    /\ Request(m.ids, m.hard, posted \ {m})
    /\ UNCHANGED <<stage, outlasted, hardware, open, cache, roles, busy, gen, health>>

\* A hot-plug event starts a series of timers; only the newest series counts.
OnHint ==
    /\ Plain("hint") \in posted /\ stage = "up" /\ gen < MaxGen
    /\ gen' = gen + 1
    /\ posted' = (posted \ {Plain("hint")}) \cup {Retry(gen + 1, i) : i \in 1..Retries}
    /\ UNCHANGED <<stage, outlasted, hardware, open, cache, roles, busy, scan, pend, owed, health>>

\* mutant: no timer of the series asks for a reload
OnRetrySoft(m) ==
    /\ m \in posted /\ m.k = "retry" /\ stage = "up"
    /\ \A n \in posted : n.k = "retry" /\ n.gen = m.gen => n.i >= m.i
    /\ IF m.gen = gen /\ Canon \notin cache
       THEN Request({Canon}, FALSE, posted \ {m})
       ELSE posted' = posted \ {m} /\ UNCHANGED <<scan, pend, owed>>
    /\ UNCHANGED <<stage, outlasted, hardware, open, cache, roles, busy, gen, health>>

\* The timers of a series expire in order; the last one asks for a reload.
OnRetry(m) ==
    /\ m \in posted /\ m.k = "retry" /\ stage = "up"
    /\ \A n \in posted : n.k = "retry" /\ n.gen = m.gen => n.i >= m.i
    /\ IF m.gen = gen /\ Canon \notin cache
       THEN Request({Canon}, m.i = Retries, posted \ {m})
       ELSE posted' = posted \ {m} /\ UNCHANGED <<scan, pend, owed>>
    /\ UNCHANGED <<stage, outlasted, hardware, open, cache, roles, busy, gen, health>>

\* The end of the thread: what was asked for meanwhile is posted as one scan.
OnFinished ==
    /\ Plain("finished") \in posted /\ Plain("result") \notin posted
    /\ stage \in {"up", "draining"}
    /\ IF stage = "up"
       THEN /\ posted' = (posted \ {Plain("finished")})
                         \cup (IF pend.ids = {} THEN {} ELSE {Rescan(pend.ids, pend.hard)})
            /\ pend' = NoPending
       ELSE posted' = posted \ {Plain("finished")} /\ UNCHANGED pend
    /\ UNCHANGED <<stage, outlasted, hardware, open, cache, roles, busy, scan, gen, health, owed>>

-----------------------------------------------------------------------------
(* The discovery thread *)

ScanStep(pcs) == scan.pc \in pcs /\ UNCHANGED <<stage, outlasted, visible, plug, roles, busy, gen, health>>

Enumerate(d) ==
    /\ ScanStep({"enumerate"}) /\ d \in scan.todo
    /\ scan' = [scan EXCEPT !.todo = @ \ {d},
                            !.found = @ \cup (visible \cap loaded \cap {d})]
    /\ owed' = owed \ {<<d, FALSE>>}
    /\ UNCHANGED <<loaded, open, cache, pend, posted>>

\* Only the drivers scanned are replaced in the cache.
Merge(ids, found) == (cache \ ids) \cup found

\* A hard scan reloads the drivers it was asked about that have no device now
\* and no role when the scan began.
Enumerated ==
    /\ ScanStep({"enumerate"}) /\ scan.todo = {}
    /\ cache' = Merge(scan.ids, scan.found)
    /\ scan' = [scan EXCEPT !.pc = "reload",
                  !.reload = IF scan.hard THEN (scan.ids \ scan.inUse) \ cache' ELSE {}]
    /\ owed' = owed \ (IF scan.hard THEN scan.ids \X {TRUE} ELSE {})
    /\ UNCHANGED <<loaded, open, pend, posted>>

\* Stop, unload, load, start: the device is closed; a failed reload leaves the
\* driver without a library for good.
Restart(d) ==
    IF d \notin loaded THEN UNCHANGED <<loaded, open, cache>>
    ELSE \E fails \in BOOLEAN :
           /\ loaded' = IF fails THEN loaded \ {d} ELSE loaded
           /\ open' = open \ {d}
           /\ cache' = IF fails THEN cache ELSE cache \ {d}

ReloadHere(d) ==
    /\ ScanStep({"reload"}) /\ d \in scan.reload \ {Canon}
    /\ Restart(d)
    /\ scan' = [scan EXCEPT !.reload = @ \ {d}, !.pc = IF d \in loaded' THEN "again" ELSE "reload",
                            !.todo = {d}]
    /\ UNCHANGED <<pend, posted, owed>>

\* Canon is reloaded by the main thread, for which the scan waits.
AskReload ==
    /\ ScanStep({"reload"}) /\ scan.reload = {Canon}
    /\ posted' = posted \cup {Plain("restart")}
    /\ scan' = [scan EXCEPT !.pc = "wait", !.todo = {Canon}]
    /\ UNCHANGED <<loaded, open, cache, pend, owed>>

OnRestart ==
    /\ Plain("restart") \in posted /\ stage \in {"up", "draining"}
    /\ posted' = posted \ {Plain("restart")}
    /\ IF stage = "up" THEN Restart(Canon) ELSE UNCHANGED <<loaded, open, cache>>
    /\ scan' = [scan EXCEPT !.reload = {},
                  !.pc = IF stage = "up" /\ Canon \in loaded' THEN "again" ELSE "reload"]
    /\ UNCHANGED <<stage, outlasted, visible, plug, roles, busy, gen, health, pend, owed>>

ScanAgain ==
    /\ ScanStep({"again"})
    /\ cache' = Merge(scan.todo, visible \cap loaded \cap scan.todo)
    /\ scan' = [scan EXCEPT !.pc = "reload", !.todo = {}]
    /\ UNCHANGED <<loaded, open, pend, posted, owed>>

Report ==
    /\ ScanStep({"reload"}) /\ scan.reload = {}
    /\ scan' = [scan EXCEPT !.pc = "finish"]
    /\ posted' = posted \cup {Plain("result")}
    /\ UNCHANGED <<loaded, open, cache, pend, owed>>

\* From here on isRunning() is false, and finished() is on its way.
ScanEnds ==
    /\ ScanStep({"finish"})
    /\ scan' = NoScan /\ posted' = posted \cup {Plain("finished")}
    /\ UNCHANGED <<loaded, open, cache, pend, owed>>

\* The controller is gone: a call that waits for its thread is dropped.
Unblocked ==
    /\ ScanStep({"wait"}) /\ stage = "cleared"
    /\ scan' = NoScan
    /\ UNCHANGED <<loaded, open, cache, pend, posted, owed>>

Scan == \/ \E d \in Drivers : Enumerate(d) \/ ReloadHere(d)
        \/ Enumerated \/ AskReload \/ ScanAgain \/ Report \/ ScanEnds \/ Unblocked

-----------------------------------------------------------------------------
(* Connecting and disconnecting, on the main thread                         *)

\* What the end of a role's old proxy does: its destructor disconnects the
\* device, at once or when the operation that still holds the proxy is gone.
Shared(r) == op[r].st # "idle" /\ op[r].proxy = "current"

Drop(r, now) ==
    /\ open' = IF handle[r] = None \/ Shared(r) THEN now ELSE now \ {handle[r]}
    /\ posted' = IF handle[r] = None \/ Shared(r) THEN posted
                 ELSE posted \cup {Gone(handle[r])}
    /\ op' = IF Shared(r) THEN [op EXCEPT ![r].proxy = "last"] ELSE op

\* One request of a client to the main thread, which waits for the devices it
\* is about to call.
Ask(r, devices) ==
    /\ stage = "up" /\ user < MaxUser /\ user' = user + 1 /\ ~Locked(r)
    /\ \A d \in devices \cap Drivers : Free(d)
    /\ UNCHANGED <<stage, outlasted, hardware, cache, busy, threads, health>>

\* The device must be in the cache, and not the other role's.
Connectable(r, d) == d \in cache \cap loaded \cap visible /\ \A s \in Roles \ {r} : handle[s] # d

Connect(r, d) ==
    /\ Ask(r, {d, handle[r]})
    /\ IF Connectable(r, d)
       THEN /\ Drop(r, open \cup {d})
            /\ handle' = [handle EXCEPT ![r] = d] /\ bind' = [bind EXCEPT ![r] = d]
       ELSE UNCHANGED <<open, posted, op, handle, bind>>

\* The proxy is told to disconnect, so that its destructor has nothing to do.
Disconnect(r) ==
    /\ Ask(r, {handle[r]})
    /\ open' = open \ {handle[r]}
    /\ posted' = posted \cup (IF handle[r] = None THEN {} ELSE {Gone(handle[r])})
    /\ handle' = [handle EXCEPT ![r] = None] /\ bind' = [bind EXCEPT ![r] = None]
    /\ op' = IF Shared(r) THEN [op EXCEPT ![r].proxy = "closed"] ELSE op

\* A driver reported a device as lost: its roles are emptied, the operation that
\* holds one is cancelled, and its driver is scanned again a little later.
OnGone(d) ==
    /\ Gone(d) \in posted /\ stage = "up" /\ Free(d)
    /\ LET lost == {r \in Roles : handle[r] = d} IN
       /\ handle' = [r \in Roles |-> IF r \in lost THEN None ELSE handle[r]]
       /\ op' = [r \in Roles |->
                   IF r \notin lost THEN op[r]
                   ELSE [op[r] EXCEPT !.stop = @ \/ Locked(r),
                                      !.proxy = IF Shared(r) THEN "last" ELSE @]]
       /\ open' = IF \A r \in lost : Shared(r) THEN open ELSE open \ {d}
       /\ posted' = (IF \A r \in lost : Shared(r) THEN posted \ {Gone(d)} ELSE posted)
                    \cup {Rescan({d}, FALSE)}
    /\ owed' = owed \cup {<<d, FALSE>>}
    /\ UNCHANGED <<stage, outlasted, hardware, cache, bind, user, busy, scan, pend, gen, health>>

\* After a scan the node reconnects what is bound and was found.
OnResult ==
    /\ Plain("result") \in posted /\ stage \in {"up", "draining"}
    /\ posted' = posted \ {Plain("result")}
    /\ LET back == {r \in Roles : /\ stage = "up" /\ handle[r] = None /\ ~Locked(r)
                                  /\ bind[r] # None /\ Connectable(r, bind[r])} IN
       /\ \A r \in back : Free(bind[r])
       /\ \E won \in SUBSET back :
            /\ \A r, s \in won : r # s => bind[r] # bind[s]
            /\ \A r \in back : \E s \in won : bind[s] = bind[r]
            /\ handle' = [r \in Roles |-> IF r \in won THEN bind[r] ELSE handle[r]]
            /\ open' = open \cup {bind[r] : r \in won}
    /\ UNCHANGED <<stage, outlasted, hardware, cache, bind, op, user, busy, threads, health>>

AskRefresh ==
    /\ stage = "up" /\ user < MaxUser /\ user' = user + 1
    /\ Request(Drivers, TRUE, posted)
    /\ UNCHANGED <<stage, outlasted, hardware, open, cache, handle, bind, op, busy, gen, health>>

-----------------------------------------------------------------------------
(* Operations of the pool and the health thread *)

Submit(r) ==
    /\ stage = "up" /\ user < MaxUser /\ op[r].st = "idle" /\ handle[r] # None
    /\ op' = [op EXCEPT ![r] = [NoOperation EXCEPT !.st = "queued", !.dev = handle[r]]]
    /\ user' = user + 1
    /\ UNCHANGED <<stage, outlasted, hardware, open, cache, handle, bind, busy, threads, posted, health>>

OpStep(r, st) == op[r].st = st /\ UNCHANGED <<stage, outlasted, hardware, cache, handle, bind,
                                              user, threads, health>>

Grant(r) ==
    /\ OpStep(r, "queued") /\ stage = "up"
    /\ op' = [op EXCEPT ![r].st = "held"] /\ UNCHANGED <<open, busy, posted>>

Call(r) ==
    /\ OpStep(r, "held") /\ ~op[r].stop /\ Free(op[r].dev)
    /\ op' = [op EXCEPT ![r].st = "calling"]
    /\ busy' = [busy EXCEPT ![op[r].dev] = "operation"]
    /\ UNCHANGED <<open, posted>>

\* A call that fails because the device is gone closes it and says so.
Return(r) ==
    /\ OpStep(r, "calling")
    /\ busy' = [busy EXCEPT ![op[r].dev] = "free"]
    /\ IF op[r].dev \in open \ visible
       THEN open' = open \ {op[r].dev} /\ posted' = posted \cup {Gone(op[r].dev)}
       ELSE UNCHANGED <<open, posted>>
    /\ op' = [op EXCEPT ![r].st = "held", ![r].stop = @ \/ op[r].dev \notin open \cap visible]

\* finish() releases the lock; the task, and the proxy it holds, goes later.
End(r) ==
    /\ OpStep(r, "held") \/ (stage = "draining" /\ OpStep(r, "queued"))
    /\ op' = [op EXCEPT ![r].st = "ended"] /\ UNCHANGED <<open, busy, posted>>

Destroy(r) ==
    /\ OpStep(r, "ended")
    /\ IF op[r].proxy = "last"
       THEN /\ Free(op[r].dev)
            /\ open' = open \ {op[r].dev} /\ posted' = posted \cup {Gone(op[r].dev)}
       ELSE UNCHANGED <<open, posted>>
    /\ op' = [op EXCEPT ![r] = NoOperation] /\ UNCHANGED busy

\* Every 1.8 s: the devices of unlocked roles, probed one after another.
StartHealth ==
    /\ stage = "up" /\ health = {} /\ \A d \in Drivers : busy[d] # "health"
    /\ health' = {handle[r] : r \in {s \in Roles : ~Locked(s)}} \cap Drivers
    /\ health' # {}
    /\ UNCHANGED <<stage, outlasted, hardware, open, cache, roles, busy, threads, posted>>

Probe(d) ==
    /\ d \in health \cap loaded /\ Free(d) /\ busy' = [busy EXCEPT ![d] = "health"]
    /\ UNCHANGED <<stage, outlasted, hardware, open, cache, roles, threads, posted, health>>

\* A driver that is no longer loaded is not asked.
Unknown(d) ==
    /\ d \in health \ loaded /\ Free(d) /\ health' = health \ {d}
    /\ UNCHANGED <<stage, outlasted, hardware, open, cache, roles, busy, threads, posted>>

Probed(d) ==
    /\ busy[d] = "health" /\ busy' = [busy EXCEPT ![d] = "free"] /\ health' = health \ {d}
    /\ IF d \in open \ visible
       THEN open' = open \ {d} /\ posted' = posted \cup {Gone(d)}
       ELSE UNCHANGED <<open, posted>>
    /\ UNCHANGED <<stage, outlasted, hardware, cache, roles, threads>>

\* Devices come and go; the Canon SDK reports both.
PlugIn(d) ==
    /\ plug < MaxPlug /\ stage = "up" /\ d \notin visible
    /\ visible' = visible \cup {d} /\ plug' = plug + 1
    /\ posted' = posted \cup (IF d = Canon THEN {Plain("hint")} ELSE {})
    /\ UNCHANGED <<stage, outlasted, loaded, open, cache, roles, busy, threads, health>>

Unplug(d) ==
    /\ plug < MaxPlug /\ stage = "up" /\ d \in visible
    /\ visible' = visible \ {d} /\ plug' = plug + 1
    /\ IF d = Canon /\ d \in open
       THEN open' = open \ {d} /\ posted' = posted \cup {Gone(d)}
       ELSE UNCHANGED <<open, posted>>
    /\ UNCHANGED <<stage, outlasted, loaded, cache, roles, busy, threads, health>>

-----------------------------------------------------------------------------
(* shutdown(): one handler of the main thread that serves events only while *)
(* it waits for the pool.  Timers and device events do nothing from then on *)
(* and are left out.                                                        *)

Stopping(from, to) == stage = from /\ stage' = to

Shutdown ==
    /\ Stopping("up", "draining")
    /\ op' = [r \in Roles |-> [op[r] EXCEPT !.stop = @ \/ Locked(r)]]
    /\ posted' = posted \cap {Plain("result"), Plain("restart"), Plain("finished")}
    /\ UNCHANGED <<outlasted, hardware, open, cache, handle, bind, user, busy, threads, health>>

\* mutant: no wait for the tasks of the pool
DisconnectAtOnce ==
    /\ Stopping("draining", "joinHealth") /\ \A d \in InUse : Free(d)
    /\ open' = open \ InUse /\ handle' = [r \in Roles |-> None]
    /\ UNCHANGED <<outlasted, hardware, cache, bind, op, user, busy, threads, posted, health>>

DisconnectAll ==
    /\ Stopping("draining", "joinHealth") /\ \A r \in Roles : op[r].st = "idle"
    /\ \A d \in InUse : Free(d)
    /\ open' = open \ InUse /\ handle' = [r \in Roles |-> None]
    /\ UNCHANGED <<outlasted, hardware, cache, bind, op, user, busy, threads, posted, health>>

\* The two waits take 6 s at most, then shutdown() goes on whether the thread has
\* ended or not; a scan that waits for this very thread never ends.
HealthEnded == health = {}
ScanEnded == scan.pc = "off"

Await(thread, ended) ==
    \/ ended /\ UNCHANGED outlasted
    \/ ~ended /\ outlasted' = outlasted \cup {thread}

JoinHealth ==
    /\ Stopping("joinHealth", "joinScan") /\ Await("health", HealthEnded)
    /\ UNCHANGED <<hardware, open, cache, roles, busy, threads, posted, health>>

\* clear() takes no call mutex: it unloads the libraries whoever is inside.
Unload ==
    /\ loaded' = {} /\ open' = {} /\ cache' = {}
    /\ posted' = {} /\ UNCHANGED <<visible, plug, roles, busy, threads, health>>

\* mutant: a wait without limit, also for a thread that waits for this one
ClearAfterScan ==
    Stopping("joinScan", "cleared") /\ ScanEnded /\ UNCHANGED outlasted /\ Unload

Clear == Stopping("joinScan", "cleared") /\ Await("scan", ScanEnded) /\ Unload

Main == \/ \E m \in posted : OnRescan(m) \/ OnRetry(m)
        \/ \E d \in Drivers : OnGone(d)
        \/ OnHint \/ OnFinished \/ OnRestart \/ OnResult
        \/ DisconnectAll \/ JoinHealth \/ Clear
Pool(r) == Call(r) \/ Return(r) \/ End(r) \/ Destroy(r)
Health(d) == Probe(d) \/ Unknown(d) \/ Probed(d)
User == \/ \E r \in Roles : \/ Submit(r) \/ Grant(r) \/ Disconnect(r)
                            \/ \E d \in Drivers : Connect(r, d)
        \/ AskRefresh \/ Shutdown

Next == \/ Main \/ Scan \/ User \/ StartHealth
        \/ \E r \in Roles : Pool(r)
        \/ \E d \in Drivers : Health(d) \/ PlugIn(d) \/ Unplug(d)

Spec == Init /\ [][Next]_vars

\* The event loop serves what is posted, threads run, a call returns, and a
\* mutex is not withheld from a thread for ever.  No fairness is assumed of
\* users, of the hardware or of an operation that is not told to stop.
Fairness == /\ SF_vars(Main) /\ WF_vars(Scan)
            /\ \A r \in Roles : WF_vars(Pool(r))
            /\ \A d \in Drivers : SF_vars(Health(d))
FairSpec == Spec /\ Fairness

-----------------------------------------------------------------------------
(* Properties *)

\* When shutdown() unloads the libraries (application_controller.cpp:473) no
\* operation is inside a driver or left to call one.  A probe or a scan is there
\* only if the wait for its thread gave up after 6 s, a use after unload that the
\* comment at 462 believes avoided.
NoCallAfterClear ==
    stage = "cleared" => /\ \A r \in Roles : op[r].st = "idle"
                         /\ \A d \in Drivers : busy[d] # "operation"
                         /\ health # {} \/ (\E d \in Drivers : ~Free(d)) => "health" \in outlasted
                         /\ ScanRunning => "scan" \in outlasted

\* Every scan somebody asked for is still to come: in the running scan, among
\* the requests it will pass on, or posted; and requests that wait for a scan
\* wait for one that runs or has just ended (application_controller.cpp:834-953).
Coming(d, hard) ==
    \/ d \in pend.ids /\ (hard => pend.hard)
    \/ \E m \in posted : m.k = "rescan" /\ d \in m.ids /\ (hard => m.hard)
    \/ IF hard THEN scan.hard /\ d \in scan.ids /\ scan.pc = "enumerate"
       ELSE scan.pc = "enumerate" /\ d \in scan.todo
NoLostRequest ==
    stage = "up" =>
        /\ \A d \in Drivers, hard \in BOOLEAN : <<d, hard>> \in owed => Coming(d, hard)
        /\ pend # NoPending => ScanRunning \/ Plain("finished") \in posted

\* A hot-plug event ends with the Canon body in the cache or with a hard scan for
\* it, unless a newer event took over (application_controller.cpp:810-832).
HardCanonScan == scan.hard /\ Canon \in scan.ids /\ scan.pc = "reload"
HintSettles ==
    \A g \in 1..MaxGen :
        Retry(g, Retries) \in posted ~> Canon \in cache \/ HardCanonScan \/ gen # g \/ stage # "up"

\* shutdown() comes to its end, also when the discovery thread waits for the
\* main thread at that moment (application_controller.cpp:459-470).
ShutdownEnds == stage = "draining" ~> stage = "cleared"

\* A device that was connected successfully is open when the call returns, as
\* docs/RPI_FIRST_HARDWARE.md:235 expects of cameras "across GUI reconnect".
ReconnectKeeps ==
    [][\A r \in Roles : handle[r] \in Drivers /\ Connect(r, handle[r])
         /\ Connectable(r, handle[r]) => handle[r] \in open']_vars

\* Every variable has its type, and when shutdown() clears the loader nobody is in
\* a driver but a probe or a scan it stopped waiting for.
DevicesInv == TypeOK /\ NoCallAfterClear
=============================================================================
