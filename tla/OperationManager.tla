-------------------------- MODULE OperationManager --------------------------
(***************************************************************************)
(* The node's OperationManager (src/core/operation_manager.cpp): long      *)
(* running observatory actions ("operations") are submitted by the Qt main *)
(* thread, wait in FIFO order until every resource they name is free, run  *)
(* on a thread pool and end succeeded, failed or cancelled.                *)
(*                                                                         *)
(* One action is one stretch of code that runs under mutex_, or one        *)
(* visible effect between two such stretches (a signal emission, a         *)
(* pool_.start).  Signals emitted by a pool thread are queued to the main  *)
(* thread's event loop; signals the main thread emits are delivered at     *)
(* once.  An operation is named by its position in order_, so order_ is    *)
(* the sequence 1 .. count.                                                *)
(***************************************************************************)
EXTENDS Integers, Sequences, FiniteSets

CONSTANTS
    Main,         \* the Qt main thread
    Workers,      \* the threads of pool_ (maxThreadCount of them)
    Resources,    \* lockable names: "camera", "mount", "focuser", ...
    ResourceSets, \* the resource lists operations are submitted with
    Cancellable,  \* values of cancelSupported operations are submitted with
    MaxOps,       \* bound: operations submitted in a behaviour
    MaxPosted     \* bound: progress and callbacks wait while this many events are posted

ASSUME ThreadAssumption == Main \notin Workers
ASSUME ResourceAssumption == ResourceSets \subseteq SUBSET Resources
ASSUME BoundAssumption == MaxOps \in Nat /\ MaxPosted \in Nat
ASSUME CancellableAssumption == Cancellable \subseteq BOOLEAN

Ops == 1 .. MaxOps
NoOp == 0
Threads == Workers \cup {Main}

Terminal == {"succeeded", "failed", "cancelled"}
States == {"none", "queued", "running"} \cup Terminal

VARIABLES
    count,           \* records_ / order_: operations 1 .. count exist
    need,            \* Record::resources
    cancelSupported, \* Record::cancelSupported
    state,           \* Record::state, "none" before submission
    cancelRequested, \* Record::cancelRequested
    cancelFlag,      \* Record::cancelFlag, the atomic the worker polls
    lockOwners,      \* lockOwners_: resource -> owning operation or NoOp
    shuttingDown,    \* shuttingDown_
    stopped,         \* shutdown() has returned
    pool,            \* runnables handed to pool_ and not yet picked up
    pc,              \* where each thread is
    cur,             \* the operation each thread is working on
    outcome,         \* what the worker's task returned
    snap,            \* the JSON snapshot captured under the lock, not yet emitted
    launches,        \* operations granted by this thread, not yet handed to pool_
    posted,          \* events queued to the main thread
    seen             \* the state last delivered to the main thread's slots

records == <<count, need, cancelSupported, state, cancelRequested, cancelFlag>>
threads == <<pc, cur, outcome, snap, launches>>
events  == <<posted, seen>>
vars == <<records, lockOwners, shuttingDown, stopped, pool, threads, events>>

\* operationChanged(toJson(record)), reduced to the state it carries; a "call"
\* event is a BlockingQueuedConnection functor a task posts to the main thread.
Snapshot(o, s) == [op |-> o, what |-> s]
Snapshots == [op : Ops, what : States]
Calls == [op : Ops, what : {"call"}]
NoSnap == [op |-> NoOp, what |-> "none"]

Init ==
    /\ count = 0
    /\ need = [o \in Ops |-> {}]
    /\ cancelSupported = [o \in Ops |-> FALSE]
    /\ state = [o \in Ops |-> "none"]
    /\ cancelRequested = [o \in Ops |-> FALSE]
    /\ cancelFlag = [o \in Ops |-> FALSE]
    /\ lockOwners = [r \in Resources |-> NoOp]
    /\ shuttingDown = FALSE
    /\ stopped = FALSE
    /\ pool = <<>>
    /\ pc = [t \in Threads |-> "idle"]
    /\ cur = [t \in Threads |-> NoOp]
    /\ outcome = [w \in Workers |-> "none"]
    /\ snap = [t \in Threads |-> NoSnap]
    /\ launches = [t \in Threads |-> {}]
    /\ posted = <<>>
    /\ seen = [o \in Ops |-> "none"]

-----------------------------------------------------------------------------
\* The main thread.  It takes commands and events while it is in its event
\* loop; shutdown() keeps pumping the loop, so "idle" covers that as well.

MainReady == pc[Main] = "idle" /\ ~stopped

\* submit(): the record is appended under the lock; the "queued" snapshot and
\* tryStartQueued() follow after the unlock.
Submit(rs, cancellable) ==
    /\ MainReady
    /\ count < MaxOps
    /\ LET o == count + 1 IN
        /\ count' = o
        /\ need' = [need EXCEPT ![o] = rs]
        /\ cancelSupported' = [cancelSupported EXCEPT ![o] = cancellable]
        /\ state' = [state EXCEPT ![o] = "queued"]
        /\ snap' = [snap EXCEPT ![Main] = Snapshot(o, "queued")]
    /\ pc' = [pc EXCEPT ![Main] = "announce"]
    /\ UNCHANGED <<cancelRequested, cancelFlag, lockOwners, shuttingDown, stopped,
                   pool, cur, outcome, launches, events>>

\* Mutant of Cancel: a running operation is declared cancelled as well.
CancelAny(o) ==
    /\ MainReady
    /\ state[o] \in {"queued", "running"}
    /\ cancelSupported[o]
    /\ cancelRequested' = [cancelRequested EXCEPT ![o] = TRUE]
    /\ cancelFlag' = [cancelFlag EXCEPT ![o] = TRUE]
    /\ state' = [state EXCEPT ![o] = "cancelled"]
    /\ snap' = [snap EXCEPT ![Main] = Snapshot(o, "cancelled")]
    /\ pc' = [pc EXCEPT ![Main] = "announce"]
    /\ UNCHANGED <<count, need, cancelSupported, lockOwners, shuttingDown, stopped,
                   pool, cur, outcome, launches, events>>

\* cancel() of a live, cancellable operation.  A queued one ends here; a
\* running one only has its flag raised.  (The other outcomes change nothing.)
Cancel(o) ==
    /\ MainReady
    /\ state[o] \in {"queued", "running"}
    /\ cancelSupported[o]
    /\ cancelRequested' = [cancelRequested EXCEPT ![o] = TRUE]
    /\ cancelFlag' = [cancelFlag EXCEPT ![o] = TRUE]
    /\ LET after == IF state[o] = "queued" THEN "cancelled" ELSE state[o] IN
        /\ state' = [state EXCEPT ![o] = after]
        /\ snap' = [snap EXCEPT ![Main] = Snapshot(o, after)]
        /\ pc' = [pc EXCEPT ![Main] = IF after = "cancelled" THEN "announce" ELSE "notify"]
    /\ UNCHANGED <<count, need, cancelSupported, lockOwners, shuttingDown, stopped,
                   pool, cur, outcome, launches, events>>

\* Mutant of Deliver: the wait in shutdown() does not pump posted calls.
DeliverBeforeShutdown ==
    /\ MainReady
    /\ posted # <<>>
    /\ posted' = Tail(posted)
    /\ LET e == Head(posted) IN
        IF e.what = "call"
        THEN /\ pc' = [t \in Threads |->
                          IF t \in Workers /\ pc[t] = "blocked" /\ cur[t] = e.op /\ ~shuttingDown
                          THEN "running" ELSE pc[t]]
             /\ UNCHANGED seen
        ELSE /\ seen' = [seen EXCEPT ![e.op] = e.what]
             /\ UNCHANGED pc
    /\ UNCHANGED <<records, lockOwners, shuttingDown, stopped, pool, cur, outcome,
                   snap, launches>>

\* The event loop hands the oldest posted event to its receiver: a snapshot
\* to the operationChanged slots, a functor to run for the worker that waits
\* in invokeMethod(..., BlockingQueuedConnection).
Deliver ==
    /\ MainReady
    /\ posted # <<>>
    /\ posted' = Tail(posted)
    /\ LET e == Head(posted) IN
        IF e.what = "call"
        THEN /\ pc' = [t \in Threads |->
                          IF t \in Workers /\ pc[t] = "blocked" /\ cur[t] = e.op
                          THEN "running" ELSE pc[t]]
             /\ UNCHANGED seen
        ELSE /\ seen' = [seen EXCEPT ![e.op] = e.what]
             /\ UNCHANGED pc
    /\ UNCHANGED <<records, lockOwners, shuttingDown, stopped, pool, cur, outcome,
                   snap, launches>>

\* shutdown(), up to the wait: raise every live operation's flag and refuse
\* further grants.  Queued records stay queued.
Shutdown ==
    /\ MainReady
    /\ ~shuttingDown
    /\ shuttingDown' = TRUE
    /\ cancelFlag' = [o \in Ops |-> cancelFlag[o] \/ state[o] \in {"queued", "running"}]
    /\ UNCHANGED <<count, need, cancelSupported, state, cancelRequested, lockOwners,
                   stopped, pool, threads, events>>

\* Mutant of PoolDrained: tasks already picked up are not waited for.
PoolEmpty == pool = <<>>

PoolDrained == pool = <<>> /\ \A w \in Workers : pc[w] = "idle"

\* pool_.waitForDone(25) at last answers true.  Until then the loop's
\* processEvents() lets Deliver happen.
ShutdownReturn ==
    /\ MainReady
    /\ shuttingDown
    /\ PoolDrained
    /\ stopped' = TRUE
    /\ UNCHANGED <<records, lockOwners, shuttingDown, pool, threads, events>>

-----------------------------------------------------------------------------
\* Steps any thread takes on its way out of submit, cancel and finish.

\* Mutants of Emit: a worker calls the slots directly; only the main thread emits.
EmitDirectly(t) == seen' = [seen EXCEPT ![snap[t].op] = snap[t].what] /\ UNCHANGED posted
EmitOnMain(t) ==
    /\ seen' = IF t = Main THEN [seen EXCEPT ![snap[t].op] = snap[t].what] ELSE seen
    /\ UNCHANGED posted

\* emit operationChanged(changed), after the unlock.
Emit(t) ==
    IF t = Main
    THEN /\ seen' = [seen EXCEPT ![snap[t].op] = snap[t].what]
         /\ UNCHANGED posted
    ELSE /\ posted' = Append(posted, snap[t])
         /\ UNCHANGED seen

\* Mutant of Announce: tryStartQueued() does not follow.
AnnounceOnly(t) ==
    /\ pc[t] = "announce"
    /\ Emit(t)
    /\ snap' = [snap EXCEPT ![t] = NoSnap]
    /\ pc' = [pc EXCEPT ![t] = "idle"]
    /\ UNCHANGED <<records, lockOwners, shuttingDown, stopped, pool, cur, outcome, launches>>

\* "announce" is the emission that tryStartQueued() follows.
Announce(t) ==
    /\ pc[t] = "announce"
    /\ Emit(t)
    /\ snap' = [snap EXCEPT ![t] = NoSnap]
    /\ pc' = [pc EXCEPT ![t] = "start"]
    /\ UNCHANGED <<records, lockOwners, shuttingDown, stopped, pool, cur, outcome, launches>>

\* "notify" is the emission of a cancel request or of progress: back to work.
Notify(t) ==
    /\ pc[t] = "notify"
    /\ Emit(t)
    /\ snap' = [snap EXCEPT ![t] = NoSnap]
    /\ pc' = [pc EXCEPT ![t] = IF t = Main THEN "idle" ELSE "running"]
    /\ UNCHANGED <<records, lockOwners, shuttingDown, stopped, pool, cur, outcome, launches>>

Free(r) == lockOwners[r] = NoOp

\* Mutants of IsGrant: resources taken earlier in the scan count as free; the
\* scan starts with the newest record.
GrantsOverlap(S) == \A o \in Ops : o \in S <=> state[o] = "queued" /\ \A r \in need[o] : Free(r)
GrantsNewestFirst(S) ==
    \A o \in Ops :
        o \in S <=> /\ state[o] = "queued"
                    /\ \A r \in need[o] : Free(r)
                    /\ \A p \in S : p > o => need[p] \cap need[o] = {}

\* What one scan of order_ grants: an operation is in S exactly if it is
\* queued, all its resources are free, and none was taken earlier in the scan.
IsGrant(S) ==
    \A o \in Ops :
        o \in S <=> /\ state[o] = "queued"
                    /\ \A r \in need[o] : Free(r)
                    /\ \A p \in S : p < o => need[p] \cap need[o] = {}

\* The locked part of tryStartQueued().
TryStartQueued(t) ==
    /\ pc[t] = "start"
    /\ IF shuttingDown
       THEN UNCHANGED <<state, lockOwners, launches>> /\ pc' = [pc EXCEPT ![t] = "idle"]
       ELSE \E S \in SUBSET Ops :
            /\ IsGrant(S)
            /\ state' = [o \in Ops |-> IF o \in S THEN "running" ELSE state[o]]
            /\ lockOwners' = [r \in Resources |->
                  IF \E o \in S : r \in need[o]
                  THEN CHOOSE o \in S : r \in need[o] ELSE lockOwners[r]]
            /\ launches' = [launches EXCEPT ![t] = S]
            /\ pc' = [pc EXCEPT ![t] = IF S = {} THEN "idle" ELSE "launch"]
    /\ cur' = [cur EXCEPT ![t] = NoOp]
    /\ UNCHANGED <<count, need, cancelSupported, cancelRequested, cancelFlag, shuttingDown,
                   stopped, pool, outcome, snap, events>>

\* The launch loop: emit the "running" snapshot of the next grant ...
LaunchNext(t) ==
    /\ pc[t] = "launch"
    /\ \E o \in launches[t] :
        /\ \A p \in launches[t] : o <= p
        /\ IF t = Main
           THEN seen' = [seen EXCEPT ![o] = "running"] /\ UNCHANGED posted
           ELSE posted' = Append(posted, Snapshot(o, "running")) /\ UNCHANGED seen
        /\ cur' = [cur EXCEPT ![t] = o]
    /\ pc' = [pc EXCEPT ![t] = "dispatch"]
    /\ UNCHANGED <<records, lockOwners, shuttingDown, stopped, pool, outcome, snap, launches>>

\* Mutant of Dispatch: the launch is dropped from the list before it is started.
DispatchCleared(t) ==
    /\ pc[t] = "dispatch"
    /\ cur' = [cur EXCEPT ![t] = NoOp]
    /\ pool' = Append(pool, cur'[t])
    /\ launches' = [launches EXCEPT ![t] = @ \ {cur[t]}]
    /\ pc' = [pc EXCEPT ![t] = IF launches[t] = {cur[t]} THEN "idle" ELSE "launch"]
    /\ UNCHANGED <<records, lockOwners, shuttingDown, stopped, outcome, snap, events>>

\* ... then pool_.start(...) it.
Dispatch(t) ==
    /\ pc[t] = "dispatch"
    /\ pool' = Append(pool, cur[t])
    /\ launches' = [launches EXCEPT ![t] = @ \ {cur[t]}]
    /\ cur' = [cur EXCEPT ![t] = NoOp]
    /\ pc' = [pc EXCEPT ![t] = IF launches[t] = {cur[t]} THEN "idle" ELSE "launch"]
    /\ UNCHANGED <<records, lockOwners, shuttingDown, stopped, outcome, snap, events>>

-----------------------------------------------------------------------------
\* A pool thread: runOperation().

\* A free pool thread takes the oldest runnable.  A flag already raised skips
\* the task.
PickUp(w) ==
    /\ pc[w] = "idle"
    /\ pool # <<>>
    /\ pool' = Tail(pool)
    /\ cur' = [cur EXCEPT ![w] = Head(pool)]
    /\ IF cancelFlag[Head(pool)]
       THEN /\ pc' = [pc EXCEPT ![w] = "returned"]
            /\ outcome' = [outcome EXCEPT ![w] = "cancelled"]
       ELSE /\ pc' = [pc EXCEPT ![w] = "running"]
            /\ UNCHANGED outcome
    /\ UNCHANGED <<records, lockOwners, shuttingDown, stopped, snap, launches, events>>

\* The task reports progress: updateProgress() under the lock.
Progress(w) ==
    /\ pc[w] = "running"
    /\ Len(posted) < MaxPosted
    /\ state[cur[w]] = "running"
    /\ snap' = [snap EXCEPT ![w] = Snapshot(cur[w], "running")]
    /\ pc' = [pc EXCEPT ![w] = "notify"]
    /\ UNCHANGED <<records, lockOwners, shuttingDown, stopped, pool, cur, outcome,
                   launches, events>>

\* The task calls into the main thread and waits for it.
CallMain(w) ==
    /\ pc[w] = "running"
    /\ Len(posted) < MaxPosted
    /\ posted' = Append(posted, Snapshot(cur[w], "call"))
    /\ pc' = [pc EXCEPT ![w] = "blocked"]
    /\ UNCHANGED <<records, lockOwners, shuttingDown, stopped, pool, cur, outcome,
                   snap, launches, seen>>

\* The task returns (or throws: "failed").  A raised flag turns everything but
\* a success into a cancellation.
Return(w) ==
    /\ pc[w] = "running"
    /\ \E result \in {"succeeded", "failed"} :
        outcome' = [outcome EXCEPT ![w] =
            IF cancelFlag[cur[w]] /\ result # "succeeded" THEN "cancelled" ELSE result]
    /\ pc' = [pc EXCEPT ![w] = "returned"]
    /\ UNCHANGED <<records, lockOwners, shuttingDown, stopped, pool, cur, snap,
                   launches, events>>

\* finish(), the locked part: terminal state, release what is still owned.
Finish(w) ==
    /\ pc[w] = "returned"
    /\ LET o == cur[w] IN
        /\ state' = [state EXCEPT ![o] = outcome[w]]
        /\ lockOwners' = [r \in Resources |->
              IF r \in need[o] /\ lockOwners[r] = o THEN NoOp ELSE lockOwners[r]]
        /\ snap' = [snap EXCEPT ![w] = Snapshot(o, outcome[w])]
    /\ cur' = [cur EXCEPT ![w] = NoOp]
    /\ outcome' = [outcome EXCEPT ![w] = "none"]
    /\ pc' = [pc EXCEPT ![w] = "announce"]
    /\ UNCHANGED <<count, need, cancelSupported, cancelRequested, cancelFlag, shuttingDown,
                   stopped, pool, launches, events>>

-----------------------------------------------------------------------------
\* After shutdown() has returned the process exits; nothing more happens.
Exited == stopped /\ UNCHANGED vars

Thread(t) == Announce(t) \/ Notify(t) \/ TryStartQueued(t) \/ LaunchNext(t) \/ Dispatch(t)
Task(w) == PickUp(w) \/ Progress(w) \/ CallMain(w) \/ Return(w) \/ Finish(w)

Next ==
    \/ \E rs \in ResourceSets, c \in Cancellable : Submit(rs, c)
    \/ \E o \in Ops : Cancel(o)
    \/ Deliver
    \/ Shutdown
    \/ ShutdownReturn
    \/ \E t \in Threads : Thread(t)
    \/ \E w \in Workers : Task(w)
    \/ Exited

Spec == Init /\ [][Next]_vars

\* A task that was asked to cancel returns.
AskedReturn(w) == Return(w) /\ cancelFlag[cur[w]]

\* Threads are scheduled and the event loop keeps turning: commands and posted
\* events share its queue, so a stream of commands cannot starve an event
\* (strong fairness, as each command takes the loop away for a while).  Nothing
\* bounds a task as such: a live view runs until somebody cancels it
\* (application_controller.cpp:1051, 1054).  One that was asked to cancel returns
\* in the end (loops look at the flag, devices answer or time out) although it
\* leaves "running" now and again to report progress or to call the main thread.
Fairness ==
    /\ SF_vars(Deliver)
    /\ SF_vars(ShutdownReturn)
    /\ \A t \in Threads : WF_vars(Thread(t))
    /\ \A w \in Workers : /\ WF_vars(PickUp(w))
                          /\ WF_vars(Finish(w))
                          /\ SF_vars(AskedReturn(w))

FairSpec == Spec /\ Fairness

-----------------------------------------------------------------------------
\* Every variable has the type its C++ counterpart has.
TypeOK ==
    /\ count \in 0 .. MaxOps
    /\ need \in [Ops -> SUBSET Resources]
    /\ cancelSupported \in [Ops -> BOOLEAN]
    /\ state \in [Ops -> States]
    /\ cancelRequested \in [Ops -> BOOLEAN]
    /\ cancelFlag \in [Ops -> BOOLEAN]
    /\ lockOwners \in [Resources -> Ops \cup {NoOp}]
    /\ shuttingDown \in BOOLEAN
    /\ stopped \in BOOLEAN
    /\ pool \in Seq(Ops)
    /\ pc \in [Threads -> {"idle", "announce", "notify", "start", "launch", "dispatch",
                           "running", "blocked", "returned"}]
    /\ cur \in [Threads -> Ops \cup {NoOp}]
    /\ outcome \in [Workers -> Terminal \cup {"none"}]
    /\ snap \in [Threads -> Snapshots \cup {NoSnap}]
    /\ launches \in [Threads -> SUBSET Ops]
    /\ posted \in Seq(Snapshots \cup Calls)
    /\ seen \in [Ops -> States]

\* The worker is between picking an operation up and finishing it.
Busy(w) == pc[w] \in {"running", "notify", "blocked", "returned"}

\* The tasks really executing on pool threads never share a device: two
\* workers in a task run different operations with disjoint resources, and
\* the lock table names them as the owners.
TasksExclusive ==
    \A w \in Workers : Busy(w) =>
        /\ \A r \in need[cur[w]] : lockOwners[r] = cur[w]
        /\ \A v \in Workers \ {w} : Busy(v) =>
              cur[v] # cur[w] /\ need[cur[v]] \cap need[cur[w]] = {}

\* The lock table holds exactly the resources of the running operations: no
\* lock survives its operation and no running operation lacks one.
LocksExact ==
    \A r \in Resources, o \in Ops :
        lockOwners[r] = o <=> state[o] = "running" /\ r \in need[o]

\* An operation submitted later never overtakes an earlier one that asks for
\* no more than it does: while the earlier one waits the later one has not run.
NoOvertaking ==
    \A p, o \in Ops :
        (p < o /\ state[p] = "queued" /\ need[p] \subseteq need[o])
            => state[o] \in {"none", "queued", "cancelled"}

\* No lost wake-up: an operation whose resources are all free is only left
\* queued while some thread is still on its way to tryStartQueued(), or the
\* manager is shutting down.
NoLostWakeup ==
    \A o \in Ops :
        (state[o] = "queued" /\ \A r \in need[o] : Free(r))
            => shuttingDown \/ \E t \in Threads : pc[t] \in {"announce", "start"}

\* Once shutdown() has returned no task executes, none waits in the pool, and
\* no record is still "running" (its task would be lost with its locks held).
QuietAfterShutdown ==
    stopped => PoolDrained /\ \A o \in Ops : state[o] # "running"

Rank(s) == CASE s = "none" -> 0 [] s = "queued" -> 1 [] s = "running" -> 2 [] OTHER -> 3

\* The main thread's slots see an operation's states in order and see its
\* terminal state last: a delivered snapshot never goes back, although
\* emissions happen after the unlock and on several threads.
SeenInOrder ==
    [][\A o \in Ops : Rank(seen'[o]) >= Rank(seen[o]) /\ (seen[o] \in Terminal => seen'[o] = seen[o])]_seen

\* A terminal state is final: finish() never rewrites an operation that cancel()
\* has already ended, and nothing revives one.
TerminalIsFinal ==
    [][\A o \in Ops : state[o] \in Terminal => state'[o] = state[o]]_state

\* An operation cancelled before it started never reaches a worker.
CancelledNeverRuns ==
    \A w \in Workers : Busy(w) => state[cur[w]] = "running"

Lifecycle == INSTANCE OperationLifecycle WITH status <- state

\* The manager implements the lifecycle it promises: every step of threads,
\* mutex sections and events is a lifecycle step or invisible to its users.
ImplementsLifecycle == Lifecycle!LSpec

\* Liveness.  Every operation ends, unless the manager is shut down or a task
\* that nobody cancels runs for ever in its way: it is the operation itself, holds
\* a device it needs, or takes one of the threads others wait for.
Endless(p) == state[p] = "running" /\ ~cancelFlag[p]
Obstructs(p, o) == p = o \/ need[p] \cap need[o] # {} \/ pool # <<>>

EveryOperationSettles ==
    \A o \in Ops : state[o] \in {"queued", "running"} ~>
        \/ state[o] \in Terminal \/ shuttingDown
        \/ \E p \in Ops : [](Endless(p) /\ Obstructs(p, o))

\* Liveness.  shutdown() returns although workers block on calls into the very
\* thread that waits for them.
ShutdownCompletes == shuttingDown ~> stopped

\* Liveness.  An operation that ended is seen to have ended by the slots,
\* unless the process stops first.
EveryEndIsSeen ==
    \A o \in Ops : state[o] \in Terminal ~> seen[o] \in Terminal \/ stopped
=============================================================================
