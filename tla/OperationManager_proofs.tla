----------------------- MODULE OperationManager_proofs ----------------------
(***************************************************************************)
(* Proofs about OperationManager, for every pool size, every set of        *)
(* resources and every number of operations.                               *)
(*                                                                         *)
(* The safety properties are not inductive by themselves: that finish()    *)
(* touches only a running operation, once, depends on where each granted   *)
(* operation is - in exactly one thread's launch list, in the pool, or at  *)
(* exactly one worker.  Placement says that; Inv adds the lock table and   *)
(* the FIFO order.  News, proved on top of it, follows the signals of an   *)
(* operation on their way to the main thread, in the order they were sent. *)
(***************************************************************************)
EXTENDS OperationManager, TLAPS

\* The shape of each thread's local state at each program point.
ThreadShape ==
    /\ pc[Main] \notin {"running", "blocked", "returned"}
    /\ \A t \in Threads :
        /\ pc[t] \in {"announce", "notify"} => snap[t] \in Snapshots
        /\ launches[t] # {} => pc[t] \in {"launch", "dispatch"}
        /\ pc[t] = "dispatch" => cur[t] \in launches[t]
    /\ \A w \in Workers :
        /\ Busy(w) => cur[w] \in Ops
        /\ pc[w] = "returned" => outcome[w] \in Terminal

\* Operations not submitted yet have no state.
Fresh == \A o \in Ops : o > count => state[o] = "none"

\* A granted operation is in at most one place, and runs while it is there.
Placement ==
    /\ \A t \in Threads : \A o \in launches[t] : state[o] = "running"
    /\ \A i \in 1 .. Len(pool) : state[pool[i]] = "running"
    /\ \A w \in Workers : Busy(w) => state[cur[w]] = "running"
    /\ \A t, u \in Threads : t # u => launches[t] \cap launches[u] = {}
    /\ \A t \in Threads : \A i \in 1 .. Len(pool) : pool[i] \notin launches[t]
    /\ \A t \in Threads : \A w \in Workers : Busy(w) => cur[w] \notin launches[t]
    /\ \A i, j \in 1 .. Len(pool) : i # j => pool[i] # pool[j]
    /\ \A i \in 1 .. Len(pool) : \A w \in Workers : Busy(w) => cur[w] # pool[i]
    /\ \A v, w \in Workers : (v # w /\ Busy(v) /\ Busy(w)) => cur[v] # cur[w]

Inv ==
    /\ TypeOK
    /\ ThreadShape
    /\ Fresh
    /\ Placement
    /\ LocksExact
    /\ NoOvertaking

\* TypeOK by groups of variables: a step disturbs few of them.
RecordTypes ==
    /\ count \in 0 .. MaxOps
    /\ need \in [Ops -> SUBSET Resources]
    /\ cancelSupported \in [Ops -> BOOLEAN]
    /\ state \in [Ops -> States]
    /\ cancelRequested \in [Ops -> BOOLEAN]
    /\ cancelFlag \in [Ops -> BOOLEAN]
LockTypes == lockOwners \in [Resources -> Ops \cup {NoOp}]
FlagTypes == shuttingDown \in BOOLEAN /\ stopped \in BOOLEAN
PoolTypes == pool \in Seq(Ops)
PlaceTypes ==
    /\ pc \in [Threads -> {"idle", "announce", "notify", "start", "launch", "dispatch",
                           "running", "blocked", "returned"}]
    /\ cur \in [Threads -> Ops \cup {NoOp}]
    /\ outcome \in [Workers -> Terminal \cup {"none"}]
    /\ launches \in [Threads -> SUBSET Ops]
SnapTypes == snap \in [Threads -> Snapshots \cup {NoSnap}]
PostTypes == posted \in Seq(Snapshots \cup Calls)
SeenTypes == seen \in [Ops -> States]

\* The type invariant, split by the variables an action tends to change together:
\* a proof step then opens only the groups its action touches.
LEMMA TypesByGroup ==
    TypeOK <=> /\ RecordTypes /\ LockTypes /\ FlagTypes /\ PoolTypes
               /\ PlaceTypes /\ SnapTypes /\ PostTypes /\ SeenTypes
BY DEF TypeOK, RecordTypes, LockTypes, FlagTypes, PoolTypes, PlaceTypes, SnapTypes,
       PostTypes, SeenTypes

\* The same split for the next state.
LEMMA TypesByGroupNext ==
    (/\ RecordTypes /\ LockTypes /\ FlagTypes /\ PoolTypes
     /\ PlaceTypes /\ SnapTypes /\ PostTypes /\ SeenTypes)' => TypeOK'
BY DEF TypeOK, RecordTypes, LockTypes, FlagTypes, PoolTypes, PlaceTypes, SnapTypes,
       PostTypes, SeenTypes

-----------------------------------------------------------------------------
\* The manager starts with an empty queue, no locks and idle threads.
LEMMA InitInv == Init => Inv
<1> SUFFICES ASSUME Init PROVE Inv
  OBVIOUS
<1> USE DEF Init
<1>1. RecordTypes
  BY BoundAssumption DEF RecordTypes, States
<1>2. LockTypes /\ PoolTypes
  BY DEF LockTypes, PoolTypes
<1>3. FlagTypes
  BY DEF FlagTypes
<1>4. PlaceTypes
  BY DEF PlaceTypes
<1>5. SnapTypes /\ PostTypes /\ SeenTypes
  BY DEF SnapTypes, PostTypes, SeenTypes, States
<1>6. TypeOK
  BY <1>1, <1>2, <1>3, <1>4, <1>5, TypesByGroup
<1>7. ThreadShape
  BY DEF ThreadShape, Busy, Threads
<1>8. Fresh
  BY DEF Fresh
<1>9. Placement
  BY DEF Placement, Busy, Threads
<1>10. LocksExact
  BY DEF LocksExact, Ops, NoOp
<1>11. NoOvertaking
  BY DEF NoOvertaking
<1> QED
  BY <1>6, <1>7, <1>8, <1>9, <1>10, <1>11 DEF Inv

-----------------------------------------------------------------------------
\* Every step keeps the types, what each thread holds at its place in the code,
\* and that positions after count are unused.
LEMMA TypeNext == ASSUME Inv, [Next]_vars PROVE TypeOK' /\ ThreadShape' /\ Fresh'
<1>0. /\ RecordTypes /\ LockTypes /\ FlagTypes /\ PoolTypes
      /\ PlaceTypes /\ SnapTypes /\ PostTypes /\ SeenTypes
  BY TypesByGroup DEF Inv
<1> USE DEF Inv, records, threads, events
<1>1. ASSUME NEW rs \in ResourceSets, NEW c \in Cancellable, Submit(rs, c)
      PROVE  TypeOK' /\ ThreadShape' /\ Fresh'
  <2>0. /\ count + 1 \in Ops /\ count + 1 \in 0 .. MaxOps /\ rs \in SUBSET Resources /\ c \in BOOLEAN
         /\ Snapshot(count + 1, "queued") \in Snapshots
    BY <1>0, <1>1, BoundAssumption, ResourceAssumption, CancellableAssumption DEF Submit, RecordTypes, Ops, Snapshot, Snapshots, States
  <2>1. LockTypes' /\ FlagTypes' /\ PoolTypes' /\ PostTypes' /\ SeenTypes'
    BY <1>0, <1>1 DEF Submit, LockTypes, FlagTypes, PoolTypes, PostTypes, SeenTypes
  <2>2. RecordTypes'
    BY <1>0, <1>1, <2>0 DEF Submit, RecordTypes, States
  <2>3. PlaceTypes'
    BY <1>0, <1>1, <2>0 DEF Submit, PlaceTypes, Threads
  <2>4. SnapTypes'
    BY <1>0, <1>1, <2>0 DEF Submit, SnapTypes, Threads, Snapshot, Snapshots, States
  <2>5. TypeOK'
    BY <2>1, <2>2, <2>3, <2>4, TypesByGroupNext
  <2>6. ThreadShape'
    BY <1>0, <1>1, <2>0, ThreadAssumption DEF Submit, MainReady, ThreadShape, Busy, Threads, PlaceTypes, SnapTypes
  <2>7. Fresh'
    BY <1>0, <1>1, <2>0 DEF Submit, Fresh, RecordTypes, Ops
  <2> QED BY <2>5, <2>6, <2>7
<1>2. ASSUME NEW o \in Ops, Cancel(o)
      PROVE  TypeOK' /\ ThreadShape' /\ Fresh'
  <2>0. /\ Snapshot(o, "cancelled") \in Snapshots
         /\ Snapshot(o, state[o]) \in Snapshots
    BY <1>0, <1>2 DEF Cancel, RecordTypes, Snapshot, Snapshots, States, Terminal
  <2>1. LockTypes' /\ FlagTypes' /\ PoolTypes' /\ PostTypes' /\ SeenTypes'
    BY <1>0, <1>2 DEF Cancel, LockTypes, FlagTypes, PoolTypes, PostTypes, SeenTypes
  <2>2. RecordTypes'
    BY <1>0, <1>2, <2>0 DEF Cancel, RecordTypes, States, Terminal
  <2>3. PlaceTypes'
    BY <1>0, <1>2, <2>0 DEF Cancel, PlaceTypes, Threads
  <2>4. SnapTypes'
    BY <1>0, <1>2, <2>0 DEF Cancel, SnapTypes, Threads, Snapshot, Snapshots, States, Terminal
  <2>5. TypeOK'
    BY <2>1, <2>2, <2>3, <2>4, TypesByGroupNext
  <2>6. ThreadShape'
    BY <1>0, <1>2, <2>0, ThreadAssumption DEF Cancel, MainReady, ThreadShape, Busy, Threads, PlaceTypes, SnapTypes
  <2>7. Fresh'
    BY <1>0, <1>2, <2>0 DEF Cancel, Fresh, RecordTypes
  <2> QED BY <2>5, <2>6, <2>7
<1>3. ASSUME Deliver
      PROVE  TypeOK' /\ ThreadShape' /\ Fresh'
  <2>0. /\ Head(posted) \in Snapshots \cup Calls
         /\ Tail(posted) \in Seq(Snapshots \cup Calls)
    BY <1>0, <1>3 DEF Deliver, PostTypes
  <2>1. RecordTypes' /\ LockTypes' /\ FlagTypes' /\ PoolTypes' /\ SnapTypes'
    BY <1>0, <1>3 DEF Deliver, RecordTypes, LockTypes, FlagTypes, PoolTypes, SnapTypes
  <2>2. PlaceTypes'
    BY <1>0, <1>3, <2>0 DEF Deliver, PlaceTypes
  <2>3. PostTypes'
    BY <1>0, <1>3, <2>0 DEF Deliver, PostTypes
  <2>4. SeenTypes'
    BY <1>0, <1>3, <2>0 DEF Deliver, SeenTypes, Snapshots, Calls
  <2>5. TypeOK'
    BY <2>1, <2>2, <2>3, <2>4, TypesByGroupNext
  <2>6. ThreadShape'
    BY <1>0, <1>3, <2>0, ThreadAssumption DEF Deliver, MainReady, ThreadShape, Busy, Threads, PlaceTypes, SnapTypes
  <2>7. Fresh'
    BY <1>0, <1>3, <2>0 DEF Deliver, Fresh
  <2> QED BY <2>5, <2>6, <2>7
<1>4. ASSUME Shutdown
      PROVE  TypeOK' /\ ThreadShape' /\ Fresh'
  <2>1. LockTypes' /\ PoolTypes' /\ PlaceTypes' /\ SnapTypes' /\ PostTypes' /\ SeenTypes'
    BY <1>0, <1>4 DEF Shutdown, LockTypes, PoolTypes, PlaceTypes, SnapTypes, PostTypes, SeenTypes
  <2>2. RecordTypes'
    BY <1>0, <1>4 DEF Shutdown, RecordTypes
  <2>3. FlagTypes'
    BY <1>0, <1>4 DEF Shutdown, FlagTypes
  <2>4. TypeOK'
    BY <2>1, <2>2, <2>3, TypesByGroupNext
  <2>5. ThreadShape'
    BY <1>0, <1>4, ThreadAssumption DEF Shutdown, MainReady, ThreadShape, Busy, Threads, PlaceTypes, SnapTypes
  <2>6. Fresh'
    BY <1>0, <1>4 DEF Shutdown, Fresh
  <2> QED BY <2>4, <2>5, <2>6
<1>5. ASSUME ShutdownReturn
      PROVE  TypeOK' /\ ThreadShape' /\ Fresh'
  <2>1. RecordTypes' /\ LockTypes' /\ PoolTypes' /\ PlaceTypes' /\ SnapTypes' /\ PostTypes' /\ SeenTypes'
    BY <1>0, <1>5 DEF ShutdownReturn, RecordTypes, LockTypes, PoolTypes, PlaceTypes, SnapTypes, PostTypes, SeenTypes
  <2>2. FlagTypes'
    BY <1>0, <1>5 DEF ShutdownReturn, FlagTypes
  <2>3. TypeOK'
    BY <2>1, <2>2, TypesByGroupNext
  <2>4. ThreadShape'
    BY <1>0, <1>5, ThreadAssumption DEF ShutdownReturn, MainReady, ThreadShape, Busy, Threads, PlaceTypes, SnapTypes
  <2>5. Fresh'
    BY <1>0, <1>5 DEF ShutdownReturn, Fresh
  <2> QED BY <2>3, <2>4, <2>5
<1>6. ASSUME NEW t \in Threads, Announce(t)
      PROVE  TypeOK' /\ ThreadShape' /\ Fresh'
  <2>0. snap[t] \in Snapshots
    BY <1>0, <1>6 DEF Announce, ThreadShape
  <2>1. RecordTypes' /\ LockTypes' /\ FlagTypes' /\ PoolTypes'
    BY <1>0, <1>6 DEF Announce, RecordTypes, LockTypes, FlagTypes, PoolTypes
  <2>2. PlaceTypes'
    BY <1>0, <1>6, <2>0 DEF Announce, PlaceTypes
  <2>3. SnapTypes'
    BY <1>0, <1>6, <2>0 DEF Announce, SnapTypes
  <2>4. PostTypes'
    BY <1>0, <1>6, <2>0 DEF Announce, PostTypes, Emit
  <2>5. SeenTypes'
    BY <1>0, <1>6, <2>0 DEF Announce, SeenTypes, Emit, Snapshots
  <2>6. TypeOK'
    BY <2>1, <2>2, <2>3, <2>4, <2>5, TypesByGroupNext
  <2>7. ThreadShape'
    BY <1>0, <1>6, <2>0, ThreadAssumption DEF Announce, ThreadShape, Busy, Threads, PlaceTypes, SnapTypes
  <2>8. Fresh'
    BY <1>0, <1>6, <2>0 DEF Announce, Fresh
  <2> QED BY <2>6, <2>7, <2>8
<1>7. ASSUME NEW t \in Threads, Notify(t)
      PROVE  TypeOK' /\ ThreadShape' /\ Fresh'
  <2>0. snap[t] \in Snapshots
    BY <1>0, <1>7 DEF Notify, ThreadShape
  <2>1. RecordTypes' /\ LockTypes' /\ FlagTypes' /\ PoolTypes'
    BY <1>0, <1>7 DEF Notify, RecordTypes, LockTypes, FlagTypes, PoolTypes
  <2>2. PlaceTypes'
    BY <1>0, <1>7, <2>0 DEF Notify, PlaceTypes
  <2>3. SnapTypes'
    BY <1>0, <1>7, <2>0 DEF Notify, SnapTypes
  <2>4. PostTypes'
    BY <1>0, <1>7, <2>0 DEF Notify, PostTypes, Emit
  <2>5. SeenTypes'
    BY <1>0, <1>7, <2>0 DEF Notify, SeenTypes, Emit, Snapshots
  <2>6. TypeOK'
    BY <2>1, <2>2, <2>3, <2>4, <2>5, TypesByGroupNext
  <2>7. ThreadShape'
    BY <1>0, <1>7, <2>0, ThreadAssumption DEF Notify, ThreadShape, Busy, Threads, PlaceTypes, SnapTypes
  <2>8. Fresh'
    BY <1>0, <1>7, <2>0 DEF Notify, Fresh
  <2> QED BY <2>6, <2>7, <2>8
<1>8. ASSUME NEW t \in Threads, TryStartQueued(t)
      PROVE  TypeOK' /\ ThreadShape' /\ Fresh'
  <2>1. FlagTypes' /\ PoolTypes' /\ SnapTypes' /\ PostTypes' /\ SeenTypes'
    BY <1>0, <1>8 DEF TryStartQueued, FlagTypes, PoolTypes, SnapTypes, PostTypes, SeenTypes
  <2>2. RecordTypes'
    BY <1>0, <1>8 DEF TryStartQueued, RecordTypes, States
  <2>3. LockTypes'
    BY <1>0, <1>8 DEF TryStartQueued, LockTypes
  <2>4. PlaceTypes'
    BY <1>0, <1>8 DEF TryStartQueued, PlaceTypes
  <2>5. TypeOK'
    BY <2>1, <2>2, <2>3, <2>4, TypesByGroupNext
  <2>6. ThreadShape'
    BY <1>0, <1>8, ThreadAssumption DEF TryStartQueued, ThreadShape, Busy, Threads, PlaceTypes, SnapTypes
  <2>7. Fresh'
    BY <1>0, <1>8 DEF TryStartQueued, Fresh, IsGrant, RecordTypes
  <2> QED BY <2>5, <2>6, <2>7
<1>9. ASSUME NEW t \in Threads, LaunchNext(t)
      PROVE  TypeOK' /\ ThreadShape' /\ Fresh'
  <2>0. launches[t] \in SUBSET Ops
    BY <1>0, <1>9 DEF LaunchNext, PlaceTypes
  <2>1. RecordTypes' /\ LockTypes' /\ FlagTypes' /\ PoolTypes' /\ SnapTypes'
    BY <1>0, <1>9 DEF LaunchNext, RecordTypes, LockTypes, FlagTypes, PoolTypes, SnapTypes
  <2>2. PlaceTypes'
    BY <1>0, <1>9, <2>0 DEF LaunchNext, PlaceTypes
  <2>3. PostTypes'
    BY <1>0, <1>9, <2>0 DEF LaunchNext, PostTypes, Snapshot, Snapshots, States
  <2>4. SeenTypes'
    BY <1>0, <1>9, <2>0 DEF LaunchNext, SeenTypes, States
  <2>5. TypeOK'
    BY <2>1, <2>2, <2>3, <2>4, TypesByGroupNext
  <2>6. ThreadShape'
    BY <1>0, <1>9, <2>0, ThreadAssumption DEF LaunchNext, ThreadShape, Busy, Threads, PlaceTypes, SnapTypes
  <2>7. Fresh'
    BY <1>0, <1>9, <2>0 DEF LaunchNext, Fresh
  <2> QED BY <2>5, <2>6, <2>7
<1>10. ASSUME NEW t \in Threads, Dispatch(t)
      PROVE  TypeOK' /\ ThreadShape' /\ Fresh'
  <2>0. cur[t] \in Ops
    BY <1>0, <1>10 DEF Dispatch, ThreadShape, PlaceTypes
  <2>1. RecordTypes' /\ LockTypes' /\ FlagTypes' /\ SnapTypes' /\ PostTypes' /\ SeenTypes'
    BY <1>0, <1>10 DEF Dispatch, RecordTypes, LockTypes, FlagTypes, SnapTypes, PostTypes, SeenTypes
  <2>2. PoolTypes'
    BY <1>0, <1>10, <2>0 DEF Dispatch, PoolTypes
  <2>3. PlaceTypes'
    BY <1>0, <1>10, <2>0 DEF Dispatch, PlaceTypes
  <2>4. TypeOK'
    BY <2>1, <2>2, <2>3, TypesByGroupNext
  <2>5. ThreadShape'
    BY <1>0, <1>10, <2>0, ThreadAssumption DEF Dispatch, ThreadShape, Busy, Threads, PlaceTypes, SnapTypes
  <2>6. Fresh'
    BY <1>0, <1>10, <2>0 DEF Dispatch, Fresh
  <2> QED BY <2>4, <2>5, <2>6
<1>11. ASSUME NEW w \in Workers, PickUp(w)
      PROVE  TypeOK' /\ ThreadShape' /\ Fresh'
  <2>0. Head(pool) \in Ops /\ Tail(pool) \in Seq(Ops)
    BY <1>0, <1>11 DEF PickUp, PoolTypes
  <2>1. RecordTypes' /\ LockTypes' /\ FlagTypes' /\ SnapTypes' /\ PostTypes' /\ SeenTypes'
    BY <1>0, <1>11 DEF PickUp, RecordTypes, LockTypes, FlagTypes, SnapTypes, PostTypes, SeenTypes
  <2>2. PoolTypes'
    BY <1>0, <1>11, <2>0 DEF PickUp, PoolTypes
  <2>3. PlaceTypes'
    BY <1>0, <1>11, <2>0 DEF PickUp, PlaceTypes, Terminal, Threads
  <2>4. TypeOK'
    BY <2>1, <2>2, <2>3, TypesByGroupNext
  <2>5. ThreadShape'
    BY <1>0, <1>11, <2>0, ThreadAssumption DEF PickUp, ThreadShape, Busy, Threads, PlaceTypes, SnapTypes, Terminal
  <2>6. Fresh'
    BY <1>0, <1>11, <2>0 DEF PickUp, Fresh
  <2> QED BY <2>4, <2>5, <2>6
<1>12. ASSUME NEW w \in Workers, Progress(w)
      PROVE  TypeOK' /\ ThreadShape' /\ Fresh'
  <2>0. cur[w] \in Ops /\ w \in Threads /\ Snapshot(cur[w], "running") \in Snapshots
    BY <1>0, <1>12 DEF Progress, ThreadShape, Busy, Threads, Snapshot, Snapshots, States
  <2>1. RecordTypes' /\ LockTypes' /\ FlagTypes' /\ PoolTypes' /\ PostTypes' /\ SeenTypes'
    BY <1>0, <1>12 DEF Progress, RecordTypes, LockTypes, FlagTypes, PoolTypes, PostTypes, SeenTypes
  <2>2. PlaceTypes'
    BY <1>0, <1>12, <2>0 DEF Progress, PlaceTypes
  <2>3. SnapTypes'
    BY <1>0, <1>12, <2>0 DEF Progress, SnapTypes, Snapshot, Snapshots, States
  <2>4. TypeOK'
    BY <2>1, <2>2, <2>3, TypesByGroupNext
  <2>5. ThreadShape'
    BY <1>0, <1>12, <2>0, ThreadAssumption DEF Progress, ThreadShape, Busy, Threads, PlaceTypes, SnapTypes
  <2>6. Fresh'
    BY <1>0, <1>12, <2>0 DEF Progress, Fresh
  <2> QED BY <2>4, <2>5, <2>6
<1>13. ASSUME NEW w \in Workers, CallMain(w)
      PROVE  TypeOK' /\ ThreadShape' /\ Fresh'
  <2>0. cur[w] \in Ops /\ w \in Threads
    BY <1>0, <1>13 DEF CallMain, ThreadShape, Busy, Threads
  <2>1. RecordTypes' /\ LockTypes' /\ FlagTypes' /\ PoolTypes' /\ SnapTypes' /\ SeenTypes'
    BY <1>0, <1>13 DEF CallMain, RecordTypes, LockTypes, FlagTypes, PoolTypes, SnapTypes, SeenTypes
  <2>2. PlaceTypes'
    BY <1>0, <1>13, <2>0 DEF CallMain, PlaceTypes
  <2>3. PostTypes'
    BY <1>0, <1>13, <2>0 DEF CallMain, PostTypes, Snapshot, Calls
  <2>4. TypeOK'
    BY <2>1, <2>2, <2>3, TypesByGroupNext
  <2>5. ThreadShape'
    BY <1>0, <1>13, <2>0, ThreadAssumption DEF CallMain, ThreadShape, Busy, Threads, PlaceTypes, SnapTypes
  <2>6. Fresh'
    BY <1>0, <1>13, <2>0 DEF CallMain, Fresh
  <2> QED BY <2>4, <2>5, <2>6
<1>14. ASSUME NEW w \in Workers, Return(w)
      PROVE  TypeOK' /\ ThreadShape' /\ Fresh'
  <2>0. cur[w] \in Ops /\ w \in Threads
    BY <1>0, <1>14 DEF Return, ThreadShape, Busy, Threads
  <2>1. RecordTypes' /\ LockTypes' /\ FlagTypes' /\ PoolTypes' /\ SnapTypes' /\ PostTypes' /\ SeenTypes'
    BY <1>0, <1>14 DEF Return, RecordTypes, LockTypes, FlagTypes, PoolTypes, SnapTypes, PostTypes, SeenTypes
  <2>2. PlaceTypes'
    BY <1>0, <1>14, <2>0 DEF Return, PlaceTypes, Terminal
  <2>3. TypeOK'
    BY <2>1, <2>2, TypesByGroupNext
  <2>4. ThreadShape'
    BY <1>0, <1>14, <2>0, ThreadAssumption DEF Return, ThreadShape, Busy, Threads, PlaceTypes, SnapTypes, Terminal
  <2>5. Fresh'
    BY <1>0, <1>14, <2>0 DEF Return, Fresh
  <2> QED BY <2>3, <2>4, <2>5
<1>15. ASSUME NEW w \in Workers, Finish(w)
      PROVE  TypeOK' /\ ThreadShape' /\ Fresh'
  <2>0. /\ Snapshot(cur[w], outcome[w]) \in Snapshots
         /\ cur[w] \in Ops /\ outcome[w] \in Terminal /\ w \in Threads /\ state[cur[w]] = "running"
    BY <1>0, <1>15 DEF Finish, ThreadShape, Busy, Threads, Placement, Snapshot, Snapshots, States
  <2>1. FlagTypes' /\ PoolTypes' /\ PostTypes' /\ SeenTypes'
    BY <1>0, <1>15 DEF Finish, FlagTypes, PoolTypes, PostTypes, SeenTypes
  <2>2. RecordTypes'
    BY <1>0, <1>15, <2>0 DEF Finish, RecordTypes, States
  <2>3. LockTypes'
    BY <1>0, <1>15, <2>0 DEF Finish, LockTypes
  <2>4. PlaceTypes'
    BY <1>0, <1>15, <2>0 DEF Finish, PlaceTypes
  <2>5. SnapTypes'
    BY <1>0, <1>15, <2>0 DEF Finish, SnapTypes, Snapshot, Snapshots, States
  <2>6. TypeOK'
    BY <2>1, <2>2, <2>3, <2>4, <2>5, TypesByGroupNext
  <2>7. ThreadShape'
    BY <1>0, <1>15, <2>0, ThreadAssumption DEF Finish, ThreadShape, Busy, Threads, PlaceTypes, SnapTypes
  <2>8. Fresh'
    BY <1>0, <1>15, <2>0 DEF Finish, Fresh, RecordTypes
  <2> QED BY <2>6, <2>7, <2>8
<1>16. CASE Exited \/ UNCHANGED vars
  <2>0. UNCHANGED <<records, lockOwners, shuttingDown, stopped, pool, threads, events>>
    BY <1>16 DEF Exited, vars
  <2>1. TypeOK'
    BY <2>0 DEF TypeOK
  <2>2. ThreadShape'
    BY <2>0 DEF ThreadShape, Busy
  <2>3. Fresh'
    BY <2>0 DEF Fresh
  <2> QED BY <2>1, <2>2, <2>3
<1> QED
  BY <1>1, <1>2, <1>3, <1>4, <1>5, <1>6, <1>7, <1>8, <1>9, <1>10, <1>11, <1>12, <1>13, <1>14, <1>15, <1>16
     DEF Next, Thread, Task

-----------------------------------------------------------------------------
\* Whatever a thread is working on is an operation.
LEMMA PlacedOps == ASSUME TypeOK, ThreadShape
                   PROVE  /\ \A t \in Threads : \A o \in launches[t] : o \in Ops
                          /\ \A i \in 1 .. Len(pool) : pool[i] \in Ops
                          /\ \A w \in Workers : Busy(w) => cur[w] \in Ops
BY DEF TypeOK, ThreadShape

\* A granted operation stays in one place: each step moves it from a launch
\* list to the pool, from the pool to a worker, and from there to its end.
LEMMA PlacementNext == ASSUME Inv, [Next]_vars PROVE Placement'
<1> USE DEF Inv, records, threads, events
<1>1. ASSUME NEW rs \in ResourceSets, NEW c \in Cancellable, Submit(rs, c)
      PROVE  Placement'
  <2>1. count + 1 \in Ops /\ state[count + 1] = "none"
    BY <1>1, BoundAssumption DEF Submit, Fresh, TypeOK, Ops
  <2>2. \A o \in Ops : state[o] = "running" => state'[o] = "running"
    BY <1>1, <2>1 DEF Submit, TypeOK
  <2>3. \A w \in Workers : Busy(w)' => Busy(w) /\ cur'[w] = cur[w]
    BY <1>1, ThreadAssumption DEF Submit, Busy, TypeOK, Threads
  <2>4. pool' = pool /\ launches' = launches
    BY <1>1 DEF Submit
  <2> QED
    BY <2>2, <2>3, <2>4, PlacedOps DEF Placement
<1>2. ASSUME NEW o \in Ops, Cancel(o)
      PROVE  Placement'
  <2>1. \A p \in Ops : state[p] = "running" => state'[p] = "running"
    BY <1>2 DEF Cancel, TypeOK
  <2>2. \A w \in Workers : Busy(w)' => Busy(w) /\ cur'[w] = cur[w]
    BY <1>2, ThreadAssumption DEF Cancel, Busy, TypeOK, Threads
  <2>3. pool' = pool /\ launches' = launches
    BY <1>2 DEF Cancel
  <2> QED
    BY <2>1, <2>2, <2>3, PlacedOps DEF Placement
<1>3. ASSUME Deliver \/ Shutdown \/ ShutdownReturn \/ Exited \/ UNCHANGED vars
      PROVE  Placement'
  <2>1. UNCHANGED <<state, pool, launches, cur>>
    BY <1>3 DEF Deliver, Shutdown, ShutdownReturn, Exited, vars
  <2>2. \A w \in Workers : Busy(w)' => Busy(w)
    BY <1>3, ThreadAssumption DEF Deliver, Shutdown, ShutdownReturn, Exited, vars, Busy, TypeOK, Threads
  <2> QED
    BY <2>1, <2>2 DEF Placement
<1>4. ASSUME NEW t \in Threads, Announce(t) \/ Notify(t)
      PROVE  Placement'
  <2>1. UNCHANGED <<state, pool, launches, cur>>
    BY <1>4 DEF Announce, Notify
  <2>2. \A w \in Workers : Busy(w)' => Busy(w)
    BY <1>4, ThreadAssumption DEF Announce, Notify, Busy, TypeOK, Threads
  <2> QED
    BY <2>1, <2>2 DEF Placement
<1>5. ASSUME NEW t \in Threads, TryStartQueued(t)
      PROVE  Placement'
  <2>1. pool' = pool
    BY <1>5 DEF TryStartQueued
  <2>2. \A w \in Workers : Busy(w)' => Busy(w) /\ cur'[w] = cur[w]
    BY <1>5, ThreadAssumption DEF TryStartQueued, Busy, TypeOK, Threads
  <2>3. CASE shuttingDown
    BY <1>5, <2>1, <2>2, <2>3 DEF TryStartQueued, Placement
  <2>4. CASE ~shuttingDown
    <3>1. PICK S \in SUBSET Ops :
            /\ \A o \in S : state[o] = "queued"
            /\ state' = [o \in Ops |-> IF o \in S THEN "running" ELSE state[o]]
            /\ launches' = [launches EXCEPT ![t] = S]
      BY <1>5, <2>4 DEF TryStartQueued, IsGrant
    <3>2. \A o \in Ops : state[o] = "running" => state'[o] = "running" /\ o \notin S
      BY <3>1
    <3>3. launches[t] = {}
      BY <1>5 DEF TryStartQueued, ThreadShape
    <3>4. \A u \in Threads : launches'[u] = IF u = t THEN S ELSE launches[u]
      BY <3>1 DEF TypeOK
    <3>5. \A o \in S : state'[o] = "running"
      BY <3>1
    <3> QED
      BY <2>1, <2>2, <3>2, <3>4, <3>5, PlacedOps DEF Placement
  <2> QED
    BY <2>3, <2>4
<1>6. ASSUME NEW t \in Threads, LaunchNext(t)
      PROVE  Placement'
  <2>1. UNCHANGED <<state, pool, launches>>
    BY <1>6 DEF LaunchNext
  <2>2. \A w \in Workers : Busy(w)' => Busy(w) /\ cur'[w] = cur[w]
    BY <1>6, ThreadAssumption DEF LaunchNext, Busy, TypeOK, Threads
  <2> QED
    BY <2>1, <2>2 DEF Placement
<1>7. ASSUME NEW t \in Threads, Dispatch(t)
      PROVE  Placement'
  <2> DEFINE o == cur[t]
  <2>1. o \in launches[t] /\ o \in Ops /\ state' = state
    BY <1>7 DEF Dispatch, ThreadShape, TypeOK
  <2>2. \A u \in Threads : launches'[u] = IF u = t THEN launches[t] \ {o} ELSE launches[u]
    BY <1>7 DEF Dispatch, TypeOK
  <2>3. /\ Len(pool') = Len(pool) + 1
        /\ pool'[Len(pool) + 1] = o
        /\ \A i \in 1 .. Len(pool) : pool'[i] = pool[i]
    BY <1>7, <2>1 DEF Dispatch, TypeOK
  <2>4. \A w \in Workers : Busy(w)' => Busy(w) /\ cur'[w] = cur[w]
    BY <1>7, ThreadAssumption DEF Dispatch, Busy, TypeOK, Threads
  <2>5. Len(pool) \in Nat
    BY DEF TypeOK
  <2>6. \A i \in 1 .. Len(pool') : i \in 1 .. Len(pool) \/ i = Len(pool) + 1
    BY <2>3, <2>5
  <2>7. /\ \A i \in 1 .. Len(pool) : pool[i] # o
        /\ \A u \in Threads : u # t => o \notin launches[u]
        /\ \A w \in Workers : Busy(w) => cur[w] # o
        /\ state[o] = "running"
    BY <2>1 DEF Placement
  <2> HIDE DEF o
  <2>8. /\ \A u \in Threads : \A p \in launches'[u] : state'[p] = "running"
        /\ \A u, v \in Threads : u # v => launches'[u] \cap launches'[v] = {}
        /\ \A u \in Threads : \A w \in Workers : Busy(w)' => cur'[w] \notin launches'[u]
    BY <2>1, <2>2, <2>4 DEF Placement
  <2>9. /\ \A i \in 1 .. Len(pool') : state'[pool'[i]] = "running"
        /\ \A u \in Threads : \A i \in 1 .. Len(pool') : pool'[i] \notin launches'[u]
        /\ \A i \in 1 .. Len(pool') : \A w \in Workers : Busy(w)' => cur'[w] # pool'[i]
    BY <2>1, <2>2, <2>3, <2>4, <2>6, <2>7 DEF Placement
  <2>10. \A i, j \in 1 .. Len(pool') : i # j => pool'[i] # pool'[j]
    BY <2>3, <2>5, <2>6, <2>7 DEF Placement
  <2>11. /\ \A w \in Workers : Busy(w)' => state'[cur'[w]] = "running"
         /\ \A v, w \in Workers : (v # w /\ Busy(v)' /\ Busy(w)') => cur'[v] # cur'[w]
    BY <2>1, <2>4 DEF Placement
  <2> QED
    BY <2>8, <2>9, <2>10, <2>11 DEF Placement
<1>8. ASSUME NEW w \in Workers, PickUp(w)
      PROVE  Placement'
  <2> DEFINE o == Head(pool)
  <2>1. /\ pool # <<>> /\ pool \in Seq(Ops)
        /\ UNCHANGED <<state, launches>>
    BY <1>8 DEF PickUp, TypeOK
  <2>2. /\ Len(pool) \in Nat /\ Len(pool) >= 1
        /\ o = pool[1]
        /\ Len(pool') = Len(pool) - 1
        /\ \A i \in 1 .. Len(pool') : pool'[i] = pool[i + 1]
    BY <1>8, <2>1 DEF PickUp
  <2>3. ~Busy(w) /\ cur'[w] = o
    BY <1>8, ThreadAssumption DEF PickUp, Busy, TypeOK, Threads
  <2>4. \A v \in Workers : v # w => (Busy(v)' <=> Busy(v)) /\ cur'[v] = cur[v]
    BY <1>8, ThreadAssumption DEF PickUp, Busy, TypeOK, Threads
  <2> HIDE DEF o
  <2>5. \A i \in 1 .. Len(pool') : i + 1 \in 1 .. Len(pool) /\ i + 1 # 1
    BY <2>2
  <2>6. 1 \in 1 .. Len(pool)
    BY <2>2
  <2>7. /\ \A t \in Threads : \A p \in launches'[t] : state'[p] = "running"
        /\ \A t, u \in Threads : t # u => launches'[t] \cap launches'[u] = {}
    BY <2>1 DEF Placement
  <2>8. /\ \A i \in 1 .. Len(pool') : state'[pool'[i]] = "running"
        /\ \A t \in Threads : \A i \in 1 .. Len(pool') : pool'[i] \notin launches'[t]
    BY <2>1, <2>2, <2>5 DEF Placement
  <2>9. \A i, j \in 1 .. Len(pool') : i # j => pool'[i] # pool'[j]
    <3> SUFFICES ASSUME NEW i \in 1 .. Len(pool'), NEW j \in 1 .. Len(pool'), i # j
                 PROVE  pool'[i] # pool'[j]
      OBVIOUS
    <3>1. i + 1 # j + 1
      BY <2>2
    <3> QED
      BY <2>2, <2>5, <3>1 DEF Placement
  <2>10. \A i \in 1 .. Len(pool') : \A v \in Workers : Busy(v)' => cur'[v] # pool'[i]
    BY <2>2, <2>3, <2>4, <2>5, <2>6 DEF Placement
  <2>11. /\ \A v \in Workers : Busy(v)' => state'[cur'[v]] = "running"
         /\ \A t \in Threads : \A v \in Workers : Busy(v)' => cur'[v] \notin launches'[t]
         /\ \A v, u \in Workers : (v # u /\ Busy(v)' /\ Busy(u)') => cur'[v] # cur'[u]
    BY <2>1, <2>2, <2>3, <2>4, <2>6 DEF Placement
  <2> QED
    BY <2>7, <2>8, <2>9, <2>10, <2>11 DEF Placement
<1>9. ASSUME NEW w \in Workers, Progress(w) \/ CallMain(w) \/ Return(w)
      PROVE  Placement'
  <2>1. UNCHANGED <<state, pool, launches, cur>>
    BY <1>9 DEF Progress, CallMain, Return
  <2>2. \A v \in Workers : Busy(v)' => Busy(v)
    BY <1>9 DEF Progress, CallMain, Return, Busy, TypeOK, Threads
  <2> QED
    BY <2>1, <2>2 DEF Placement
<1>10. ASSUME NEW w \in Workers, Finish(w)
       PROVE  Placement'
  <2>1. Busy(w) /\ cur[w] \in Ops /\ UNCHANGED <<pool, launches>>
    BY <1>10 DEF Finish, Busy, ThreadShape
  <2>2. \A p \in Ops : p # cur[w] => state'[p] = state[p]
    BY <1>10 DEF Finish, TypeOK
  <2>3. ~Busy(w)' /\ \A v \in Workers : v # w => (Busy(v)' <=> Busy(v)) /\ cur'[v] = cur[v]
    BY <1>10, ThreadAssumption DEF Finish, Busy, TypeOK, Threads
  <2> QED
    BY <2>1, <2>2, <2>3, PlacedOps DEF Placement
<1> QED
  BY <1>1, <1>2, <1>3, <1>4, <1>5, <1>6, <1>7, <1>8, <1>9, <1>10 DEF Next, Thread, Task

-----------------------------------------------------------------------------
\* A scan grants operations with disjoint resources, so each resource it takes
\* has one new owner.
LEMMA GrantDisjoint ==
    ASSUME TypeOK, NEW S \in SUBSET Ops, IsGrant(S)
    PROVE  \A o, p \in S : o # p => need[o] \cap need[p] = {}
<1> SUFFICES ASSUME NEW o \in S, NEW p \in S, o # p
             PROVE  need[o] \cap need[p] = {}
  OBVIOUS
<1>1. o < p \/ p < o
  BY DEF Ops
<1> QED
  BY <1>1 DEF IsGrant

\* Only four actions change an operation's state, its resources or a lock.
LEMMA StateChangers ==
    ASSUME [Next]_vars
    PROVE  \/ \E rs \in ResourceSets, c \in Cancellable : Submit(rs, c)
           \/ \E o \in Ops : Cancel(o)
           \/ \E t \in Threads : TryStartQueued(t)
           \/ \E w \in Workers : Finish(w)
           \/ UNCHANGED <<count, state, need, lockOwners>>
<1> USE DEF records, vars
<1>1. CASE Deliver \/ Shutdown \/ ShutdownReturn \/ Exited \/ UNCHANGED vars
  BY <1>1 DEF Deliver, Shutdown, ShutdownReturn, Exited
<1>2. ASSUME NEW t \in Threads, Announce(t) \/ Notify(t) \/ LaunchNext(t) \/ Dispatch(t)
      PROVE  UNCHANGED <<count, state, need, lockOwners>>
  BY <1>2 DEF Announce, Notify, LaunchNext, Dispatch
<1>3. ASSUME NEW w \in Workers, PickUp(w) \/ Progress(w) \/ CallMain(w) \/ Return(w)
      PROVE  UNCHANGED <<count, state, need, lockOwners>>
  BY <1>3 DEF PickUp, Progress, CallMain, Return
<1> QED
  BY <1>1, <1>2, <1>3 DEF Next, Thread, Task

\* A grant takes and a finish releases exactly the locks of the operations whose
\* state they change.
LEMMA LocksNext == ASSUME Inv, [Next]_vars PROVE LocksExact'
<1> USE DEF Inv, records
<1>1. ASSUME NEW rs \in ResourceSets, NEW c \in Cancellable, Submit(rs, c)
      PROVE  LocksExact'
  <2>1. count + 1 \in Ops /\ state[count + 1] = "none"
    BY <1>1, BoundAssumption DEF Submit, Fresh, TypeOK, Ops
  <2>2. /\ state' = [state EXCEPT ![count + 1] = "queued"]
        /\ need' = [need EXCEPT ![count + 1] = rs]
        /\ lockOwners' = lockOwners
    BY <1>1 DEF Submit
  <2>3. state \in [Ops -> States] /\ need \in [Ops -> SUBSET Resources]
    BY DEF TypeOK
  <2> QED
    BY <2>1, <2>2, <2>3 DEF LocksExact
<1>2. ASSUME NEW o \in Ops, Cancel(o)
      PROVE  LocksExact'
  <2>1. \A p \in Ops : state'[p] = "running" <=> state[p] = "running"
    BY <1>2 DEF Cancel, TypeOK
  <2>2. need' = need /\ lockOwners' = lockOwners
    BY <1>2 DEF Cancel
  <2> QED
    BY <2>1, <2>2 DEF LocksExact
<1>3. ASSUME NEW t \in Threads, TryStartQueued(t)
      PROVE  LocksExact'
  <2>1. CASE shuttingDown
    BY <1>3, <2>1 DEF TryStartQueued, LocksExact
  <2>2. CASE ~shuttingDown
    <3>1. PICK S \in SUBSET Ops :
            /\ IsGrant(S)
            /\ state' = [o \in Ops |-> IF o \in S THEN "running" ELSE state[o]]
            /\ lockOwners' = [r \in Resources |->
                  IF \E o \in S : r \in need[o]
                  THEN CHOOSE o \in S : r \in need[o] ELSE lockOwners[r]]
            /\ need' = need
      BY <1>3, <2>2 DEF TryStartQueued
    <3> SUFFICES ASSUME NEW r \in Resources, NEW o \in Ops
                 PROVE  lockOwners'[r] = o <=> state'[o] = "running" /\ r \in need'[o]
      BY DEF LocksExact
    <3>2. CASE \E p \in S : r \in need[p]
      <4>1. PICK p \in S : r \in need[p] /\ lockOwners'[r] = p
        BY <3>1, <3>2
      <4>2. \A q \in S : r \in need[q] => q = p
        BY <4>1, <3>1, GrantDisjoint
      <4>3. lockOwners[r] = NoOp
        BY <4>1, <3>1 DEF IsGrant, Free
      <4>4. ~(state[o] = "running" /\ r \in need[o])
        BY <4>3 DEF LocksExact, Ops, NoOp
      <4> QED
        BY <3>1, <4>1, <4>2, <4>4
    <3>3. CASE ~ \E p \in S : r \in need[p]
      BY <3>1, <3>3 DEF LocksExact
    <3> QED
      BY <3>2, <3>3
  <2> QED
    BY <2>1, <2>2
<1>4. ASSUME NEW w \in Workers, Finish(w)
      PROVE  LocksExact'
  <2>1. Busy(w) /\ cur[w] \in Ops /\ state[cur[w]] = "running" /\ outcome[w] # "running"
    BY <1>4 DEF Finish, Busy, ThreadShape, Placement, Terminal
  <2>2. /\ \A o \in Ops : state'[o] = IF o = cur[w] THEN outcome[w] ELSE state[o]
        /\ need' = need
        /\ \A r \in Resources : lockOwners'[r] =
              IF r \in need[cur[w]] /\ lockOwners[r] = cur[w] THEN NoOp ELSE lockOwners[r]
    BY <1>4 DEF Finish, TypeOK
  <2>3. \A o \in Ops : o # NoOp
    BY DEF Ops, NoOp
  <2> QED
    BY <2>1, <2>2, <2>3 DEF LocksExact
<1>5. ASSUME UNCHANGED <<count, state, need, lockOwners>>
      PROVE  LocksExact'
  BY <1>5 DEF LocksExact
<1> QED
  BY <1>1, <1>2, <1>3, <1>4, <1>5, StateChangers

-----------------------------------------------------------------------------
\* If the scan grants o and an earlier queued p asks for no more than o does,
\* it grants p as well: what stopped p would have stopped o.
LEMMA GrantKeepsOrder ==
    ASSUME TypeOK, NEW S \in SUBSET Ops, IsGrant(S),
           NEW p \in Ops, NEW o \in S, p < o, state[p] = "queued", need[p] \subseteq need[o]
    PROVE  p \in S
<1>1. \A r \in need[p] : Free(r)
  BY DEF IsGrant
<1>2. ASSUME NEW q \in S, q < p
      PROVE  need[q] \cap need[p] = {}
  <2>1. q < o
    BY <1>2 DEF Ops
  <2> QED
    BY <2>1 DEF IsGrant
<1> QED
  BY <1>1, <1>2 DEF IsGrant

\* Submissions go to the back of order_ and the scan grants from the front.
LEMMA NoOvertakingNext == ASSUME Inv, [Next]_vars PROVE NoOvertaking'
<1> USE DEF Inv, records
<1>1. ASSUME NEW rs \in ResourceSets, NEW c \in Cancellable, Submit(rs, c)
      PROVE  NoOvertaking'
  <2>1. count + 1 \in Ops /\ count \in Nat
    BY <1>1, BoundAssumption DEF Submit, TypeOK, Ops
  <2>2. \A o \in Ops : o > count => state[o] = "none"
    BY DEF Fresh
  <2>3. /\ \A o \in Ops : state'[o] = IF o = count + 1 THEN "queued" ELSE state[o]
        /\ \A o \in Ops : o # count + 1 => need'[o] = need[o]
    BY <1>1, <2>1 DEF Submit, TypeOK
  <2> SUFFICES ASSUME NEW p \in Ops, NEW o \in Ops,
                      p < o, state'[p] = "queued", need'[p] \subseteq need'[o]
               PROVE  state'[o] \in {"none", "queued", "cancelled"}
    BY DEF NoOvertaking
  <2>4. CASE o = count + 1
    BY <2>3, <2>4
  <2>5. CASE o > count + 1
    BY <2>2, <2>3, <2>5, <2>1 DEF Ops
  <2>6. CASE o < count + 1
    <3>1. p # count + 1 /\ o # count + 1
      BY <2>6, <2>1 DEF Ops
    <3> QED
      BY <3>1, <2>3 DEF NoOvertaking
  <2> QED
    BY <2>1, <2>4, <2>5, <2>6 DEF Ops
<1>2. ASSUME NEW o \in Ops, Cancel(o)
      PROVE  NoOvertaking'
  <2>1. /\ \A p \in Ops : state'[p] = "queued" => state[p] = "queued"
        /\ \A p \in Ops : state'[p] = state[p] \/ state'[p] = "cancelled"
        /\ need' = need
    BY <1>2 DEF Cancel, TypeOK
  <2> QED
    BY <2>1 DEF NoOvertaking
<1>3. ASSUME NEW t \in Threads, TryStartQueued(t)
      PROVE  NoOvertaking'
  <2>1. CASE shuttingDown
    BY <1>3, <2>1 DEF TryStartQueued, NoOvertaking
  <2>2. CASE ~shuttingDown
    <3>1. PICK S \in SUBSET Ops :
            /\ IsGrant(S)
            /\ \A o \in Ops : state'[o] = IF o \in S THEN "running" ELSE state[o]
            /\ need' = need
      BY <1>3, <2>2 DEF TryStartQueued
    <3> SUFFICES ASSUME NEW p \in Ops, NEW o \in Ops,
                        p < o, state'[p] = "queued", need'[p] \subseteq need'[o]
                 PROVE  state'[o] \in {"none", "queued", "cancelled"}
      BY DEF NoOvertaking
    <3>2. p \notin S /\ state[p] = "queued" /\ need[p] \subseteq need[o]
      BY <3>1
    <3>3. o \notin S
      BY <3>1, <3>2, GrantKeepsOrder
    <3> QED
      BY <3>1, <3>2, <3>3 DEF NoOvertaking
  <2> QED
    BY <2>1, <2>2
<1>4. ASSUME NEW w \in Workers, Finish(w)
      PROVE  NoOvertaking'
  <2>1. cur[w] \in Ops /\ state[cur[w]] = "running" /\ outcome[w] \in Terminal
    BY <1>4 DEF Finish, Busy, ThreadShape, Placement
  <2>2. /\ \A o \in Ops : state'[o] = IF o = cur[w] THEN outcome[w] ELSE state[o]
        /\ need' = need
    BY <1>4 DEF Finish, TypeOK
  <2> QED
    BY <2>1, <2>2 DEF NoOvertaking, Terminal
<1>5. ASSUME UNCHANGED <<count, state, need, lockOwners>>
      PROVE  NoOvertaking'
  BY <1>5 DEF NoOvertaking
<1> QED
  BY <1>1, <1>2, <1>3, <1>4, <1>5, StateChangers

-----------------------------------------------------------------------------
\* The inductive invariant is kept by every step.
LEMMA InvNext == Inv /\ [Next]_vars => Inv'
BY TypeNext, PlacementNext, LocksNext, NoOvertakingNext DEF Inv

\* The inductive invariant holds in every reachable state.
LEMMA Invariance == Spec => []Inv
BY InitInv, InvNext, PTL DEF Spec

\* Every reachable state is well typed.
THEOREM TypeCorrect == Spec => []TypeOK
BY Invariance, PTL DEF Inv

\* A resource is owned by an operation exactly while that operation runs and
\* named it: finish() releases what the grant took, cancel() leaks nothing.
THEOREM LocksAreExact == Spec => []LocksExact
BY Invariance, PTL DEF Inv

\* An operation cancelled while it waited is never picked up by a worker.
THEOREM CancelledStaysOut == Spec => []CancelledNeverRuns
<1>1. Inv => CancelledNeverRuns
  BY DEF Inv, Placement, CancelledNeverRuns
<1> QED
  BY <1>1, Invariance, PTL

\* Tasks that execute at the same time use disjoint devices, whatever the size
\* of the pool and of the device set.
THEOREM MutualExclusion == Spec => []TasksExclusive
<1>1. Inv => TasksExclusive
  <2> SUFFICES ASSUME Inv, NEW w \in Workers, Busy(w)
               PROVE  /\ \A r \in need[cur[w]] : lockOwners[r] = cur[w]
                      /\ \A v \in Workers \ {w} : Busy(v) =>
                            cur[v] # cur[w] /\ need[cur[v]] \cap need[cur[w]] = {}
    BY DEF TasksExclusive
  <2>1. \A v \in Workers : Busy(v) =>
            cur[v] \in Ops /\ state[cur[v]] = "running" /\ need[cur[v]] \subseteq Resources
    BY DEF Inv, Placement, ThreadShape, TypeOK
  <2>2. \A v \in Workers : Busy(v) => \A r \in need[cur[v]] : lockOwners[r] = cur[v]
    BY <2>1 DEF Inv, LocksExact
  <2>3. \A v \in Workers \ {w} : Busy(v) => cur[v] # cur[w]
    BY DEF Inv, Placement
  <2> QED
    BY <2>2, <2>3
<1> QED
  BY <1>1, Invariance, PTL

\* The queue is fair between requests of which one contains the other: the
\* later one has not started while the earlier one waits.
THEOREM FifoWithinRequests == Spec => []NoOvertaking
BY Invariance, PTL DEF Inv

\* No step leaves a terminal state: a cancel that raced the grant and a finish
\* that raced the cancel never both end the operation.
THEOREM TerminalStatesAreFinal == Spec => TerminalIsFinal
<1>1. Inv /\ [Next]_vars => [\A o \in Ops : state[o] \in Terminal => state'[o] = state[o]]_state
  <2> SUFFICES ASSUME Inv, [Next]_vars, NEW o \in Ops, state[o] \in Terminal
               PROVE  state'[o] = state[o]
    OBVIOUS
  <2> USE DEF Inv, Terminal
  <2>1. ASSUME NEW rs \in ResourceSets, NEW c \in Cancellable, Submit(rs, c)
        PROVE  state'[o] = state[o]
    <3>1. count + 1 > count
      BY DEF TypeOK
    <3>2. o # count + 1
      BY <3>1 DEF Fresh
    <3> QED
      BY <2>1, <3>2 DEF Submit, TypeOK
  <2>2. ASSUME NEW p \in Ops, Cancel(p)
        PROVE  state'[o] = state[o]
    BY <2>2 DEF Cancel, TypeOK
  <2>3. ASSUME NEW t \in Threads, TryStartQueued(t)
        PROVE  state'[o] = state[o]
    BY <2>3 DEF TryStartQueued, IsGrant
  <2>4. ASSUME NEW w \in Workers, Finish(w)
        PROVE  state'[o] = state[o]
    BY <2>4 DEF Finish, Busy, Placement, TypeOK
  <2> QED
    BY <2>1, <2>2, <2>3, <2>4, StateChangers
<1> QED
  BY <1>1, Invariance, PTL DEF Spec, TerminalIsFinal

-----------------------------------------------------------------------------
\* The manager implements its abstract lifecycle: a submission, a cancellation
\* while queued, one locked scan and one finish are the lifecycle's steps, and
\* everything threads, pool and events do in between is invisible.
THEOREM Refinement == Spec => ImplementsLifecycle
<1>1. Init => Lifecycle!LInit
  BY DEF Init, Lifecycle!LInit
<1>2. Inv /\ [Next]_vars => [Lifecycle!LNext]_<<state, need>>
  <2> SUFFICES ASSUME Inv, [Next]_vars
               PROVE  Lifecycle!LNext \/ UNCHANGED <<state, need>>
    OBVIOUS
  <2> USE DEF Inv, records
  <2>1. ASSUME NEW rs \in ResourceSets, NEW c \in Cancellable, Submit(rs, c)
        PROVE  Lifecycle!LNext
    <3>1. count + 1 \in Ops /\ state[count + 1] = "none"
      BY <2>1, BoundAssumption DEF Submit, Fresh, TypeOK, Ops
    <3>2. Lifecycle!LSubmit(count + 1, rs)
      BY <2>1, <3>1 DEF Submit, Lifecycle!LSubmit
    <3> QED
      BY <3>1, <3>2 DEF Lifecycle!LNext
  <2>2. ASSUME NEW o \in Ops, Cancel(o)
        PROVE  Lifecycle!LNext \/ UNCHANGED <<state, need>>
    <3>1. CASE state[o] = "queued"
      <4>1. Lifecycle!LWithdraw(o)
        BY <2>2, <3>1 DEF Cancel, Lifecycle!LWithdraw
      <4> QED
        BY <4>1 DEF Lifecycle!LNext
    <3>2. CASE state[o] # "queued"
      BY <2>2, <3>2 DEF Cancel, TypeOK
    <3> QED
      BY <3>1, <3>2
  <2>3. ASSUME NEW t \in Threads, TryStartQueued(t)
        PROVE  Lifecycle!LNext \/ UNCHANGED <<state, need>>
    <3>1. CASE shuttingDown
      BY <2>3, <3>1 DEF TryStartQueued
    <3>2. CASE ~shuttingDown
      <4>1. PICK S \in SUBSET Ops :
              /\ IsGrant(S)
              /\ state' = [o \in Ops |-> IF o \in S THEN "running" ELSE state[o]]
              /\ need' = need
        BY <2>3, <3>2 DEF TryStartQueued
      <4>2. \A o \in S : state[o] = "queued" /\ \A r \in need[o] : lockOwners[r] = NoOp
        BY <4>1 DEF IsGrant, Free
      <4>3. ASSUME NEW o \in S, NEW r \in need[o], r \in Lifecycle!InUse
            PROVE  FALSE
        <5>1. PICK p \in Ops : state[p] = "running" /\ r \in need[p]
          BY <4>3 DEF Lifecycle!InUse
        <5>2. r \in Resources /\ lockOwners[r] = p
          BY <5>1 DEF LocksExact, TypeOK
        <5> QED
          BY <4>2, <5>2 DEF Ops, NoOp
      <4>4. \A o \in S : need[o] \cap Lifecycle!InUse = {}
        BY <4>3
      <4>5. \A o, p \in S : o # p => need[o] \cap need[p] = {}
        BY <4>1, GrantDisjoint
      <4>6. Lifecycle!LGrant(S)
        BY <4>1, <4>2, <4>4, <4>5 DEF Lifecycle!LGrant
      <4> QED
        BY <4>6 DEF Lifecycle!LNext
    <3> QED
      BY <3>1, <3>2
  <2>4. ASSUME NEW w \in Workers, Finish(w)
        PROVE  Lifecycle!LNext
    <3>1. cur[w] \in Ops /\ state[cur[w]] = "running" /\ outcome[w] \in Lifecycle!Ended
      BY <2>4 DEF Finish, Busy, ThreadShape, Placement, Terminal, Lifecycle!Ended
    <3>2. Lifecycle!LEnd(cur[w], outcome[w])
      BY <2>4, <3>1 DEF Finish, Lifecycle!LEnd
    <3> QED
      BY <3>1, <3>2 DEF Lifecycle!LNext
  <2> QED
    BY <2>1, <2>2, <2>3, <2>4, StateChangers
<1> QED
  BY <1>1, <1>2, Invariance, PTL
     DEF Spec, ImplementsLifecycle, Lifecycle!LSpec, Lifecycle!lifecycleVars

-----------------------------------------------------------------------------
\* A thread that is on its way to tryStartQueued() stays on it until it has scanned.
LEMMA WakersStay ==
    ASSUME Inv, [Next]_vars,
           NEW t \in Threads, pc[t] \in {"announce", "start"}, ~TryStartQueued(t)
    PROVE  pc'[t] \in {"announce", "start"}
<1> USE DEF Inv, TypeOK
<1>1. CASE \/ \E rs \in ResourceSets, c \in Cancellable : Submit(rs, c)
           \/ \E o \in Ops : Cancel(o)
           \/ Deliver \/ Shutdown \/ ShutdownReturn \/ Exited \/ UNCHANGED vars
  BY <1>1 DEF Submit, Cancel, Deliver, Shutdown, ShutdownReturn, Exited, MainReady, vars, threads, Threads
<1>2. ASSUME NEW u \in Threads, Thread(u) PROVE pc'[t] \in {"announce", "start"}
  BY <1>2 DEF Thread, Announce, Notify, TryStartQueued, LaunchNext, Dispatch
<1>3. ASSUME NEW w \in Workers, Task(w) PROVE pc'[t] \in {"announce", "start"}
  BY <1>3 DEF Task, PickUp, Progress, CallMain, Return, Finish, Threads
<1> QED
  BY <1>1, <1>2, <1>3 DEF Next

LEMMA NoLostWakeupNext == ASSUME Inv, NoLostWakeup, [Next]_vars PROVE NoLostWakeup'
<1> SUFFICES ASSUME NEW o \in Ops, state'[o] = "queued", \A r \in need'[o] : Free(r)', ~shuttingDown'
             PROVE  \E t \in Threads : pc'[t] \in {"announce", "start"}
  BY DEF NoLostWakeup
<1> USE DEF Inv
<1>0. ~shuttingDown
  BY DEF Next, vars, records, threads, events, Submit, Cancel, Deliver, Shutdown, ShutdownReturn, Exited,
         Thread, Task, Announce, Notify, TryStartQueued, LaunchNext, Dispatch,
         PickUp, Progress, CallMain, Return, Finish
<1>1. CASE \E rs \in ResourceSets, c \in Cancellable : Submit(rs, c)
  BY <1>1 DEF Submit, TypeOK, Threads
<1>2. ASSUME NEW p \in Ops, Cancel(p) PROVE \E t \in Threads : pc'[t] \in {"announce", "start"}
  <2>1. CASE state[p] = "queued"
    BY <1>2, <2>1 DEF Cancel, TypeOK, Threads
  <2>2. CASE state[p] = "running"
    <3>1. UNCHANGED <<state, need, lockOwners>>
      BY <1>2, <2>2 DEF Cancel, TypeOK
    <3>2. PICK t \in Threads : pc[t] \in {"announce", "start"}
      BY <1>0, <3>1 DEF NoLostWakeup, Free
    <3>3. ~TryStartQueued(t)
      BY <1>2, <2>2, <3>2, ZenonT(60) DEF Cancel, TryStartQueued, MainReady, TypeOK
    <3> QED
      BY <3>2, <3>3, WakersStay
  <2> QED
    BY <1>2, <2>1, <2>2 DEF Cancel
<1>3. ASSUME NEW u \in Threads, TryStartQueued(u) PROVE FALSE
  <2>1. PICK S \in SUBSET Ops :
          /\ IsGrant(S)
          /\ state' = [q \in Ops |-> IF q \in S THEN "running" ELSE state[q]]
          /\ lockOwners' = [r \in Resources |->
                IF \E q \in S : r \in need[q] THEN CHOOSE q \in S : r \in need[q] ELSE lockOwners[r]]
    BY <1>0, <1>3 DEF TryStartQueued
  <2>2. need' = need /\ need[o] \subseteq Resources
    BY <1>3 DEF TryStartQueued, TypeOK
  <2>3. o \notin S /\ state[o] = "queued"
    BY <2>1
  <2>4. \A r \in need[o] : ~\E q \in S : r \in need[q]
    <3> SUFFICES ASSUME NEW r \in need[o], NEW q \in S, r \in need[q] PROVE FALSE
      OBVIOUS
    <3>1. lockOwners'[r] \in S
      BY <2>1, <2>2
    <3> QED
      BY <2>2, <3>1 DEF Free, NoOp, Ops
  <2>5. \A r \in need[o] : Free(r)
    BY <2>1, <2>2, <2>4 DEF Free
  <2>6. \A p \in S : need[p] \cap need[o] = {}
    BY <2>4
  <2> QED
    BY <2>1, <2>3, <2>5, <2>6 DEF IsGrant
<1>4. ASSUME NEW w \in Workers, Finish(w) PROVE \E t \in Threads : pc'[t] \in {"announce", "start"}
  BY <1>4 DEF Finish, TypeOK, Threads
<1>5. CASE /\ UNCHANGED <<count, state, need, lockOwners>>
           /\ ~\E t \in Threads : TryStartQueued(t)
  <2>1. PICK t \in Threads : pc[t] \in {"announce", "start"}
    BY <1>0, <1>5 DEF NoLostWakeup, Free
  <2> QED
    BY <1>5, <2>1, WakersStay
<1> QED
  BY <1>1, <1>2, <1>3, <1>4, <1>5, StateChangers

\* tryStartQueued() is called after the unlock, so between a finish() and the scan any
\* thread may run; still no operation whose devices are all free is left queued with
\* nobody on the way to start it (operation_manager.cpp submit, cancel, finish).
THEOREM WakeupsAreNotLost == Spec => []NoLostWakeup
<1>1. Init => NoLostWakeup
  BY DEF Init, NoLostWakeup
<1>2. Inv /\ NoLostWakeup /\ [Next]_vars => NoLostWakeup'
  BY NoLostWakeupNext
<1> QED
  BY <1>1, <1>2, Invariance, PTL DEF Spec

-----------------------------------------------------------------------------
\* A granted operation is somewhere: about to be launched, in the pool or at a worker.
Located ==
    \A o \in Ops : state[o] = "running" =>
        \/ \E t \in Threads : o \in launches[t]
        \/ \E i \in 1 .. Len(pool) : pool[i] = o
        \/ \E w \in Workers : Busy(w) /\ cur[w] = o

\* Every thread has come to rest when shutdown() returns.
AllAtRest == stopped => PoolDrained /\ pc[Main] = "idle"

LEMMA AllAtRestNext == ASSUME AllAtRest, [Next]_vars PROVE AllAtRest'
<1>1. CASE stopped
  <2>1. ~\E t \in Threads : Thread(t)
    BY <1>1 DEF AllAtRest, PoolDrained, Threads, Thread, Announce, Notify, TryStartQueued, LaunchNext, Dispatch
  <2>2. ~\E w \in Workers : Task(w)
    BY <1>1 DEF AllAtRest, PoolDrained, Task, PickUp, Progress, CallMain, Return, Finish
  <2>3. UNCHANGED vars
    BY <1>1, <2>1, <2>2 DEF Next, MainReady, Submit, Cancel, Deliver, Shutdown, ShutdownReturn, Exited
  <2> QED
    BY <2>3 DEF vars, threads, AllAtRest, PoolDrained
<1>2. CASE ShutdownReturn
  BY <1>2 DEF ShutdownReturn, MainReady, threads, AllAtRest, PoolDrained
<1>3. CASE stopped' = stopped /\ ~stopped
  BY <1>3 DEF AllAtRest
<1>4. stopped' = stopped \/ ShutdownReturn
  BY DEF Next, vars, Submit, Cancel, Deliver, Shutdown, Exited, Thread, Task, Announce, Notify,
         TryStartQueued, LaunchNext, Dispatch, PickUp, Progress, CallMain, Return, Finish
<1> QED
  BY <1>1, <1>2, <1>3, <1>4

LEMMA LocatedNext == ASSUME Inv, Located, [Next]_vars PROVE Located'
<1> USE DEF Inv, TypeOK, Located, Busy
<1>1. ASSUME NEW rs \in ResourceSets, NEW c \in Cancellable, Submit(rs, c) PROVE Located'
  BY <1>1, ThreadAssumption DEF Submit, Threads
<1>2. ASSUME NEW o \in Ops, Cancel(o) PROVE Located'
  BY <1>2, ThreadAssumption DEF Cancel, Threads
<1>3. CASE Deliver
  <2>1. \A w \in Workers : Busy(w) => Busy(w)'
    BY <1>3 DEF Deliver, Threads
  <2> QED
    BY <1>3, <2>1 DEF Deliver, records
<1>4. CASE Shutdown \/ ShutdownReturn \/ Exited \/ UNCHANGED vars
  BY <1>4 DEF Shutdown, ShutdownReturn, Exited, vars, records, threads
<1>5. ASSUME NEW t \in Threads, Announce(t) \/ Notify(t) \/ LaunchNext(t) PROVE Located'
  <2>1. \A w \in Workers : Busy(w) => Busy(w)' /\ cur'[w] = cur[w]
    BY <1>5, ThreadAssumption DEF Announce, Notify, LaunchNext, Threads
  <2>2. UNCHANGED <<state, launches, pool>>
    BY <1>5 DEF Announce, Notify, LaunchNext, records
  <2> QED
    BY ONLY Located, <2>1, <2>2 DEF Located, Busy
<1>6. ASSUME NEW t \in Threads, TryStartQueued(t) PROVE Located'
  <2>1. \A w \in Workers : Busy(w) => Busy(w)' /\ cur'[w] = cur[w]
    BY <1>6 DEF TryStartQueued, Threads
  <2>2. launches[t] = {} /\ pool' = pool
    BY <1>6 DEF TryStartQueued, ThreadShape
  <2>3. CASE UNCHANGED <<state, launches>>
    BY ONLY Located, <2>1, <2>2, <2>3 DEF Located, Busy
  <2>4. ASSUME NEW S \in SUBSET Ops, launches' = [launches EXCEPT ![t] = S],
               state' = [o \in Ops |-> IF o \in S THEN "running" ELSE state[o]]
        PROVE  Located'
    <3> SUFFICES ASSUME NEW o \in Ops, state'[o] = "running"
                 PROVE  \/ \E u \in Threads : o \in launches'[u]
                        \/ \E i \in 1 .. Len(pool) : pool[i] = o
                        \/ \E w \in Workers : Busy(w)' /\ cur'[w] = o
      BY <2>2
    <3>1. CASE o \in S
      BY <2>4, <3>1
    <3>2. CASE o \notin S
      <4>1. state[o] = "running"
        BY <2>4, <3>2
      <4>2. \A u \in Threads : o \in launches[u] => o \in launches'[u]
        BY <2>2, <2>4
      <4> QED
        BY ONLY Located, <2>1, <4>1, <4>2 DEF Located, Busy
    <3> QED
      BY <3>1, <3>2
  <2> QED
    BY <1>6, <2>3, <2>4 DEF TryStartQueued
<1>7. ASSUME NEW t \in Threads, Dispatch(t) PROVE Located'
  <2>1. \A w \in Workers : Busy(w) => Busy(w)' /\ cur'[w] = cur[w]
    BY <1>7 DEF Dispatch, Threads
  <2>2. cur[t] \in Ops /\ state' = state
    BY <1>7 DEF Dispatch, ThreadShape, records
  <2>3. /\ Len(pool') = Len(pool) + 1 /\ pool'[Len(pool) + 1] = cur[t]
        /\ \A i \in 1 .. Len(pool) : pool'[i] = pool[i]
    BY <1>7, <2>2 DEF Dispatch
  <2>4. \A u \in Threads, o \in Ops : o \in launches[u] => o \in launches'[u] \/ o = cur[t]
    BY <1>7 DEF Dispatch
  <2> QED
    BY ONLY Located, <2>1, <2>2, <2>3, <2>4 DEF Located, Busy
<1>8. ASSUME NEW w \in Workers, PickUp(w) PROVE Located'
  <2>1. Busy(w)' /\ cur'[w] = pool[1] /\ pc[w] = "idle" /\ UNCHANGED <<state, launches>>
    BY <1>8 DEF PickUp, Threads, records
  <2>2. \A v \in Workers : Busy(v) => Busy(v)' /\ cur'[v] = cur[v]
    BY <1>8 DEF PickUp, Threads
  <2>3. \A i \in 1 .. Len(pool) : i = 1 \/ (i - 1 \in 1 .. Len(pool') /\ pool'[i - 1] = pool[i])
    BY <1>8 DEF PickUp
  <2> QED
    BY ONLY Located, <2>1, <2>2, <2>3 DEF Located, Busy
<1>9. ASSUME NEW w \in Workers, Progress(w) \/ CallMain(w) \/ Return(w) PROVE Located'
  <2>1. \A v \in Workers : Busy(v) => Busy(v)' /\ cur'[v] = cur[v]
    BY <1>9 DEF Progress, CallMain, Return, Threads
  <2>2. UNCHANGED <<state, launches, pool>>
    BY <1>9 DEF Progress, CallMain, Return, records
  <2> QED
    BY <2>1, <2>2
<1>10. ASSUME NEW w \in Workers, Finish(w) PROVE Located'
  <2>1. state' = [state EXCEPT ![cur[w]] = outcome[w]] /\ outcome[w] \in Terminal /\ cur[w] \in Ops
    BY <1>10 DEF Finish, ThreadShape
  <2>2. \A v \in Workers : v # w /\ Busy(v) => Busy(v)' /\ cur'[v] = cur[v]
    BY <1>10 DEF Finish, Threads
  <2>3. \A o \in Ops : state'[o] = "running" => state[o] = "running" /\ o # cur[w]
    BY <2>1 DEF Terminal
  <2>4. UNCHANGED <<launches, pool>>
    BY <1>10 DEF Finish
  <2> QED
    BY ONLY Located, <2>2, <2>3, <2>4 DEF Located, Busy
<1> QED
  BY <1>1, <1>2, <1>3, <1>4, <1>5, <1>6, <1>7, <1>8, <1>9, <1>10 DEF Next, Thread, Task

\* When shutdown() returns no operation is left in the state "running": none was on its
\* way to the pool, and nothing starts one afterwards, so no device stays locked by a
\* task that will never run (OperationManager::shutdown).
THEOREM ShutdownIsQuiet == Spec => []QuietAfterShutdown
<1>1. Init => Located /\ AllAtRest
  BY DEF Init, Located, AllAtRest
<1>2. Inv /\ Located /\ AllAtRest /\ [Next]_vars => Located' /\ AllAtRest'
  BY LocatedNext, AllAtRestNext
<1>3. Inv /\ Located /\ AllAtRest => QuietAfterShutdown
  BY DEF Inv, ThreadShape, Located, AllAtRest, PoolDrained, QuietAfterShutdown, Busy, Threads
<1> QED
  BY <1>1, <1>2, <1>3, Invariance, PTL DEF Spec

-----------------------------------------------------------------------------
(* SeenInOrder.  Snapshots are emitted after the unlock, from any thread: what
   is on its way to the slots is an invariant of its own. *)

\* What may be told of an operation in state q: no more than happened to it, and of
\* an end only the end it came to.
Told(q, s) == Rank(s) <= Rank(q) /\ (s \in Terminal => s = q)

\* What the slots have seen and what is on its way to them: later news of an
\* operation is never behind earlier news.
IsNews(e) == e.what # "call"
PostedInOrder ==
    \A i \in 1 .. Len(posted) : IsNews(posted[i]) =>
        /\ Told(state[posted[i].op], posted[i].what)
        /\ Rank(posted[i].what) >= 2
        /\ Rank(seen[posted[i].op]) <= Rank(posted[i].what)
        /\ \A j \in i .. Len(posted) :
              IsNews(posted[j]) /\ posted[j].op = posted[i].op
                  => Rank(posted[i].what) <= Rank(posted[j].what)

\* What the main thread is about to emit goes past the posted events, so it may
\* not be ahead of any of them.
MainInOrder ==
    pc[Main] \in {"announce", "notify"} =>
        /\ Told(state[snap[Main].op], snap[Main].what)
        /\ Rank(seen[snap[Main].op]) <= Rank(snap[Main].what)
        /\ \A i \in 1 .. Len(posted) :
              IsNews(posted[i]) /\ posted[i].op = snap[Main].op
                  => Rank(snap[Main].what) <= Rank(posted[i].what)

\* A worker emits the state its operation is in.
WorkersTell ==
    \A w \in Workers :
        /\ pc[w] = "announce" => snap[w].what \in Terminal /\ snap[w].what = state[snap[w].op]
        /\ pc[w] = "notify" => snap[w] = Snapshot(cur[w], "running")

SeenIsTold == \A o \in Ops : Told(state[o], seen[o])

News == SeenIsTold /\ PostedInOrder /\ MainInOrder /\ WorkersTell

\* The order of an operation's states.
LEMMA RankIs ==
    /\ Rank("none") = 0 /\ Rank("queued") = 1 /\ Rank("running") = 2
    /\ \A s \in Terminal : Rank(s) = 3
    /\ \A s \in States : Rank(s) \in 0 .. 3 /\ (Rank(s) = 3 => s \in Terminal)
    /\ \A s \in States : Rank(s) <= 0 => s = "none"
BY DEF Rank, Terminal, States

\* No step takes an operation's state back or changes an end.
LEMMA StatesGrow ==
    ASSUME Inv, [Next]_vars, NEW o \in Ops
    PROVE  /\ state[o] \in States /\ state'[o] \in States
           /\ Rank(state[o]) <= Rank(state'[o])
           /\ state[o] \in Terminal => state'[o] = state[o]
<1>0. Inv' /\ state \in [Ops -> States] /\ state' \in [Ops -> States]
  BY InvNext DEF Inv, TypeOK
<1> SUFFICES \/ state'[o] = state[o]
             \/ state[o] = "none" /\ state'[o] = "queued"
             \/ state[o] = "queued" /\ state'[o] \in {"running", "cancelled"}
             \/ state[o] = "running" /\ state'[o] \in Terminal
  BY <1>0, RankIs DEF Terminal
<1>1. ASSUME NEW rs \in ResourceSets, NEW c \in Cancellable, Submit(rs, c)
      PROVE  state'[o] = state[o] \/ (state[o] = "none" /\ state'[o] = "queued")
  <2>1. state[count + 1] = "none" \/ count + 1 # o
    BY DEF Inv, Fresh, TypeOK
  <2> QED  BY <1>0, <1>1, <2>1 DEF Submit
<1>2. ASSUME NEW p \in Ops, Cancel(p)
      PROVE  state'[o] = state[o] \/ (state[o] = "queued" /\ state'[o] = "cancelled")
  BY <1>0, <1>2 DEF Cancel
<1>3. ASSUME NEW t \in Threads, TryStartQueued(t)
      PROVE  state'[o] = state[o] \/ (state[o] = "queued" /\ state'[o] = "running")
  BY <1>0, <1>3 DEF TryStartQueued, IsGrant
<1>4. ASSUME NEW w \in Workers, Finish(w)
      PROVE  state'[o] = state[o] \/ (state[o] = "running" /\ state'[o] \in Terminal)
  BY <1>0, <1>4 DEF Finish, Inv, Busy, Placement, ThreadShape
<1> QED  BY <1>1, <1>2, <1>3, <1>4, StateChangers

\* So what was told stays true.
LEMMA ToldStays ==
    ASSUME Inv, [Next]_vars, NEW o \in Ops, NEW s \in States, Told(state[o], s)
    PROVE  Told(state'[o], s)
BY StatesGrow, RankIs DEF Told

\* News of the state an operation is in may follow all other news of it.
LEMMA TellsLast ==
    ASSUME Inv, NEW o \in Ops, NEW s \in States, Told(state[o], s)
    PROVE  Rank(s) <= Rank(state[o]) /\ Rank(s) \in 0 .. 3 /\ Rank(state[o]) \in 0 .. 3
BY RankIs DEF Told, Inv, TypeOK

\* Every posted event is news of an operation, or a call.
LEMMA PostedAre ==
    ASSUME Inv
    PROVE  /\ Len(posted) \in Nat
           /\ \A i \in 1 .. Len(posted) : /\ posted[i].op \in Ops
                                          /\ IsNews(posted[i]) => posted[i].what \in States
BY DEF Inv, TypeOK, IsNews, Snapshots, Calls

\* A step that emits nothing and does not change what the main thread will emit.
LEMMA Silent ==
    ASSUME Inv, News, [Next]_vars, UNCHANGED <<posted, seen>>
    PROVE  /\ SeenIsTold' /\ PostedInOrder'
           /\ (pc'[Main] \in {"announce", "notify"} => pc[Main] \in {"announce", "notify"} /\ snap'[Main] = snap[Main])
                 => MainInOrder'
<1>1. \A o \in Ops : seen[o] \in States
  BY DEF Inv, TypeOK
<1>2. SeenIsTold'
  BY <1>1, ToldStays DEF News, SeenIsTold
<1>3. PostedInOrder'
  <2> SUFFICES ASSUME NEW i \in 1 .. Len(posted), IsNews(posted[i]) PROVE Told(state'[posted[i].op], posted[i].what)
    BY DEF News, PostedInOrder, IsNews
  <2> QED  BY PostedAre, ToldStays DEF News, PostedInOrder
<1>4. ASSUME pc'[Main] \in {"announce", "notify"}, pc[Main] \in {"announce", "notify"}, snap'[Main] = snap[Main]
      PROVE  MainInOrder'
  <2>1. snap[Main].op \in Ops /\ snap[Main].what \in States
    BY <1>4 DEF Inv, ThreadShape, Threads, Snapshots
  <2>2. Told(state'[snap[Main].op], snap[Main].what)
    BY <1>4, <2>1, ToldStays DEF News, MainInOrder
  <2> QED  BY <1>4, <2>2 DEF News, MainInOrder, IsNews, Told
<1>5. CASE pc'[Main] \notin {"announce", "notify"}
  BY <1>2, <1>3, <1>5 DEF MainInOrder
<1> QED  BY <1>2, <1>3, <1>4, <1>5

\* A worker posts the state an operation is in.
LEMMA Posts ==
    ASSUME Inv, News, NEW o \in Ops, NEW s \in States, s = state[o], Rank(s) >= 2,
           posted' = Append(posted, Snapshot(o, s)),
           UNCHANGED <<state, seen>>, pc'[Main] = pc[Main], snap'[Main] = snap[Main]
    PROVE  SeenIsTold' /\ PostedInOrder' /\ MainInOrder'
<1> DEFINE e == Snapshot(o, s)
           n == Len(posted)
<1>0. e.op = o /\ e.what = s /\ s # "call"
  BY DEF Snapshot, States, Terminal
<1>1. n \in Nat /\ Len(posted') = n + 1 /\ posted'[n + 1] = e /\ \A i \in 1 .. n : posted'[i] = posted[i]
  BY PostedAre DEF Inv, TypeOK, Snapshot, Snapshots
<1>2. SeenIsTold'
  BY DEF News, SeenIsTold, Told
<1>3. ASSUME NEW p \in Ops, NEW r \in States, Told(state[p], r), p = o PROVE Rank(r) <= Rank(s)
  BY <1>3, TellsLast
<1>4. PostedInOrder'
  <2> SUFFICES ASSUME NEW i \in 1 .. n + 1, IsNews(posted'[i])
               PROVE  /\ Told(state'[posted'[i].op], posted'[i].what)
                      /\ Rank(posted'[i].what) >= 2
                      /\ Rank(seen[posted'[i].op]) <= Rank(posted'[i].what)
                      /\ \A j \in i .. n + 1 :
                            IsNews(posted'[j]) /\ posted'[j].op = posted'[i].op
                                => Rank(posted'[i].what) <= Rank(posted'[j].what)
    BY <1>1 DEF PostedInOrder, IsNews
  <2>1. CASE i = n + 1
    <3>1. posted'[i] = e /\ \A j \in i .. n + 1 : j = i
      BY <1>1, <2>1
    <3>2. seen[o] \in States /\ Told(state[o], seen[o]) /\ Rank(s) \in 0 .. 3
      BY RankIs DEF Inv, TypeOK, News, SeenIsTold
    <3>3. Told(state'[o], s)
      BY <3>2 DEF Told
    <3> QED  BY <1>0, <1>3, <3>1, <3>2, <3>3
  <2>2. CASE i \in 1 .. n
    <3>1. posted'[i] = posted[i] /\ posted[i].op \in Ops /\ posted[i].what \in States /\ Told(state[posted[i].op], posted[i].what)
      BY <1>1, <2>2, PostedAre DEF News, PostedInOrder
    <3>2. Told(state'[posted[i].op], posted[i].what)
      BY <3>1 DEF Told
    <3>3. ASSUME NEW j \in i .. n + 1, IsNews(posted'[j]), posted'[j].op = posted[i].op
          PROVE  Rank(posted[i].what) <= Rank(posted'[j].what)
      <4>1. CASE j = n + 1
        BY <1>0, <1>1, <1>3, <3>1, <3>3, <4>1
      <4>2. CASE j \in i .. n
        <5>1. posted'[j] = posted[j]
          BY <1>1, <2>2, <4>2
        <5> QED  BY <2>2, <3>1, <3>3, <4>2, <5>1 DEF News, PostedInOrder
      <4> QED  BY <1>1, <4>1, <4>2
    <3> QED  BY <2>2, <3>1, <3>2, <3>3 DEF News, PostedInOrder
  <2> QED  BY <1>1, <2>1, <2>2
<1>5. MainInOrder'
  <2> SUFFICES ASSUME pc[Main] \in {"announce", "notify"}
               PROVE  /\ Told(state'[snap[Main].op], snap[Main].what)
                      /\ \A i \in 1 .. n + 1 : IsNews(posted'[i]) /\ posted'[i].op = snap[Main].op
                            => Rank(snap[Main].what) <= Rank(posted'[i].what)
    BY <1>1 DEF News, MainInOrder, IsNews, Told
  <2>1. snap[Main].op \in Ops /\ snap[Main].what \in States /\ Told(state[snap[Main].op], snap[Main].what)
    BY DEF Inv, ThreadShape, Threads, Snapshots, News, MainInOrder
  <2>2. Told(state'[snap[Main].op], snap[Main].what)
    BY <2>1 DEF Told
  <2>3. ASSUME NEW i \in 1 .. n + 1, IsNews(posted'[i]), posted'[i].op = snap[Main].op
        PROVE  Rank(snap[Main].what) <= Rank(posted'[i].what)
    <3>1. CASE i = n + 1
      BY <1>0, <1>1, <1>3, <2>1, <2>3, <3>1
    <3>2. CASE i \in 1 .. n
      BY <1>1, <2>3, <3>2 DEF News, MainInOrder
    <3> QED  BY <1>1, <3>1, <3>2
  <2> QED  BY <2>2, <2>3
<1> QED  BY <1>2, <1>4, <1>5

\* A call is no news.
LEMMA Calling ==
    ASSUME Inv, News, NEW o \in Ops, posted' = Append(posted, Snapshot(o, "call")),
           UNCHANGED <<state, seen>>, pc'[Main] = pc[Main], snap'[Main] = snap[Main]
    PROVE  SeenIsTold' /\ PostedInOrder' /\ MainInOrder'
<1> DEFINE n == Len(posted)
<1>1. /\ n \in Nat /\ Len(posted') = n + 1 /\ \A i \in 1 .. n : posted'[i] = posted[i]
      /\ \A i \in 1 .. n + 1 : i = n + 1 \/ i \in 1 .. n
  BY PostedAre DEF Inv, TypeOK, Snapshot, Calls
<1>2. posted'[n + 1].what = "call"
  BY <1>1 DEF Inv, TypeOK, Snapshot, Calls
<1>3. \A i \in 1 .. n + 1 : IsNews(posted'[i]) => i \in 1 .. n /\ posted'[i] = posted[i]
  BY <1>1, <1>2 DEF IsNews
<1>4. SeenIsTold'
  BY DEF News, SeenIsTold
<1>5. PostedInOrder'
  <2> SUFFICES ASSUME NEW i \in 1 .. n + 1, IsNews(posted'[i])
               PROVE  /\ Told(state[posted'[i].op], posted'[i].what)
                      /\ Rank(posted'[i].what) >= 2
                      /\ Rank(seen[posted'[i].op]) <= Rank(posted'[i].what)
                      /\ \A j \in i .. n + 1 :
                            IsNews(posted'[j]) /\ posted'[j].op = posted'[i].op
                                => Rank(posted'[i].what) <= Rank(posted'[j].what)
    BY <1>1 DEF PostedInOrder, IsNews
  <2>1. i \in 1 .. n /\ posted'[i] = posted[i]
    BY <1>3
  <2>2. \A j \in i .. n + 1 : IsNews(posted'[j]) => j \in i .. n /\ posted'[j] = posted[j]
    BY <1>1, <1>3, <2>1
  <2> QED  BY <2>1, <2>2 DEF News, PostedInOrder
<1>6. MainInOrder'
  BY <1>1, <1>3 DEF News, MainInOrder, IsNews
<1> QED  BY <1>4, <1>5, <1>6

\* The main thread emits news that is behind nothing seen and ahead of nothing posted.
LEMMA MainSees ==
    ASSUME Inv, News, NEW o \in Ops, NEW s \in States, Told(state[o], s),
           \A i \in 1 .. Len(posted) : IsNews(posted[i]) /\ posted[i].op = o => Rank(s) <= Rank(posted[i].what),
           seen' = [seen EXCEPT ![o] = s], UNCHANGED <<state, posted>>,
           pc'[Main] \notin {"announce", "notify"}
    PROVE  SeenIsTold' /\ PostedInOrder' /\ MainInOrder'
<1>1. seen \in [Ops -> States]
  BY DEF Inv, TypeOK
<1>2. SeenIsTold'
  BY <1>1 DEF News, SeenIsTold, Told
<1>3. PostedInOrder'
  <2> SUFFICES ASSUME NEW i \in 1 .. Len(posted), IsNews(posted[i])
               PROVE  /\ Told(state'[posted[i].op], posted[i].what)
                      /\ Rank(seen'[posted[i].op]) <= Rank(posted[i].what)
    BY DEF News, PostedInOrder, IsNews
  <2>1. Told(state'[posted[i].op], posted[i].what)
    BY DEF News, PostedInOrder, Told
  <2>2. Rank(seen'[posted[i].op]) <= Rank(posted[i].what)
    BY <1>1, PostedAre DEF News, PostedInOrder
  <2> QED  BY <2>1, <2>2
<1> QED  BY <1>2, <1>3 DEF MainInOrder

\* The event loop delivers the oldest news.
LEMMA DeliverNews == ASSUME Inv, News, Deliver PROVE SeenIsTold' /\ PostedInOrder' /\ MainInOrder'
<1> DEFINE n == Len(posted)
           e == posted[1]
<1>1. /\ n \in Nat /\ n >= 1 /\ Len(posted') = n - 1 /\ \A i \in 1 .. n - 1 : posted'[i] = posted[i + 1]
      /\ Head(posted) = e
  BY PostedAre DEF Deliver, Inv, TypeOK
<1>2. UNCHANGED state /\ pc[Main] = "idle" /\ pc'[Main] = "idle"
  BY ThreadAssumption DEF Deliver, records, MainReady, Threads, Inv, TypeOK
<1>3. e.op \in Ops /\ (IsNews(e) => e.what \in States)
  BY <1>1, PostedAre
<1>4. seen' = IF IsNews(e) THEN [seen EXCEPT ![e.op] = e.what] ELSE seen
  BY <1>1 DEF Deliver, IsNews
<1>5. seen \in [Ops -> States] /\ 1 \in 1 .. n
  BY <1>1 DEF Inv, TypeOK
<1>6. SeenIsTold'
  <2>1. IsNews(e) => Told(state[e.op], e.what)
    BY <1>5 DEF News, PostedInOrder
  <2> QED  BY <1>2, <1>3, <1>4, <1>5, <2>1 DEF News, SeenIsTold, Told
<1>7. PostedInOrder'
  <2> SUFFICES ASSUME NEW i \in 1 .. n - 1, IsNews(posted[i + 1])
               PROVE  /\ Told(state'[posted[i + 1].op], posted[i + 1].what)
                      /\ Rank(posted[i + 1].what) >= 2
                      /\ Rank(seen'[posted[i + 1].op]) <= Rank(posted[i + 1].what)
                      /\ \A j \in i .. n - 1 :
                            IsNews(posted[j + 1]) /\ posted[j + 1].op = posted[i + 1].op
                                => Rank(posted[i + 1].what) <= Rank(posted[j + 1].what)
    <3> SUFFICES ASSUME NEW i \in 1 .. Len(posted'), IsNews(posted'[i])
                 PROVE  /\ Told(state'[posted'[i].op], posted'[i].what)
                        /\ Rank(posted'[i].what) >= 2
                        /\ Rank(seen'[posted'[i].op]) <= Rank(posted'[i].what)
                        /\ \A j \in i .. Len(posted') :
                              IsNews(posted'[j]) /\ posted'[j].op = posted'[i].op
                                  => Rank(posted'[i].what) <= Rank(posted'[j].what)
      BY DEF PostedInOrder, IsNews
    <3>1. i \in 1 .. n - 1 /\ posted'[i] = posted[i + 1]
          /\ \A j \in i .. Len(posted') : j \in i .. n - 1 /\ posted'[j] = posted[j + 1]
      BY <1>1
    <3> QED  BY <3>1
  <2>1. i + 1 \in 1 .. n /\ \A j \in i .. n - 1 : j + 1 \in i + 1 .. n
    BY <1>1
  <2>2. Told(state'[posted[i + 1].op], posted[i + 1].what)
    BY <1>2, <2>1 DEF News, PostedInOrder, Told
  <2>3. Rank(seen'[posted[i + 1].op]) <= Rank(posted[i + 1].what)
    BY <1>3, <1>4, <1>5, <2>1, PostedAre DEF News, PostedInOrder
  <2> QED  BY <2>1, <2>2, <2>3 DEF News, PostedInOrder
<1>8. MainInOrder'
  BY <1>2 DEF MainInOrder
<1> QED  BY <1>6, <1>7, <1>8

\* Workers hold the state of their operation until they emit it.
LEMMA WorkersTellNext == ASSUME Inv, News, [Next]_vars PROVE WorkersTell'
<1>0. /\ \A w \in Workers : w \in Threads /\ w # Main
      /\ pc \in [Threads -> {"idle", "announce", "notify", "start", "launch", "dispatch",
                              "running", "blocked", "returned"}]
      /\ cur \in [Threads -> Ops \cup {NoOp}] /\ state \in [Ops -> States]
      /\ snap \in [Threads -> Snapshots \cup {NoSnap}]
  BY ThreadAssumption DEF Inv, TypeOK, Threads
<1>1. ASSUME NEW w \in Workers, pc'[w] = pc[w], pc'[w] \in {"announce", "notify"},
             snap'[w] = snap[w], cur'[w] = cur[w]
      PROVE  /\ pc'[w] = "announce" => snap'[w].what \in Terminal /\ snap'[w].what = state'[snap'[w].op]
             /\ pc'[w] = "notify" => snap'[w] = Snapshot(cur'[w], "running")
  <2>1. snap[w] \in Snapshots
    BY <1>0, <1>1 DEF Inv, ThreadShape
  <2>2. snap[w].op \in Ops
    BY <2>1 DEF Snapshots
  <2> QED  BY <1>1, <2>2, StatesGrow DEF News, WorkersTell
<1> SUFFICES ASSUME NEW w \in Workers, pc'[w] \in {"announce", "notify"}
             PROVE  \/ pc'[w] = pc[w] /\ snap'[w] = snap[w] /\ cur'[w] = cur[w]
                    \/ /\ pc'[w] = "announce" => snap'[w].what \in Terminal /\ snap'[w].what = state'[snap'[w].op]
                       /\ pc'[w] = "notify" => snap'[w] = Snapshot(cur'[w], "running")
  BY <1>1 DEF WorkersTell
<1> USE DEF records, threads, events
<1>2. CASE \/ \E rs \in ResourceSets, c \in Cancellable : Submit(rs, c)
           \/ \E o \in Ops : Cancel(o)
           \/ Shutdown \/ ShutdownReturn \/ Exited \/ UNCHANGED vars
  BY <1>0, <1>2 DEF Submit, Cancel, Shutdown, ShutdownReturn, Exited, vars
<1>3. CASE Deliver
  BY <1>0, <1>3 DEF Deliver
<1>4. ASSUME NEW t \in Threads, Thread(t)
      PROVE  pc'[w] = pc[w] /\ snap'[w] = snap[w] /\ cur'[w] = cur[w]
  <2>1. w # t
    BY <1>0, <1>4 DEF Thread, Announce, Notify, TryStartQueued, LaunchNext, Dispatch
  <2> QED  BY <1>0, <1>4, <2>1 DEF Thread, Announce, Notify, TryStartQueued, LaunchNext, Dispatch
<1>5. ASSUME NEW v \in Workers, Task(v), v # w
      PROVE  pc'[w] = pc[w] /\ snap'[w] = snap[w] /\ cur'[w] = cur[w]
  BY <1>0, <1>5 DEF Task, PickUp, Progress, CallMain, Return, Finish
<1>6. CASE Progress(w)
  BY <1>0, <1>6 DEF Progress
<1>7. CASE Finish(w)
  <2>1. cur[w] \in Ops /\ outcome[w] \in Terminal
    BY <1>7 DEF Finish, Inv, ThreadShape, Busy
  <2> QED  BY <1>0, <1>7, <2>1 DEF Finish, Snapshot
<1>8. CASE PickUp(w) \/ CallMain(w) \/ Return(w)
  BY <1>0, <1>8 DEF PickUp, CallMain, Return
<1> QED  BY <1>2, <1>3, <1>4, <1>5, <1>6, <1>7, <1>8 DEF Next, Task

\* What a thread does with what it has to tell.
LEMMA EmitNews ==
    ASSUME Inv, News, NEW t \in Threads, pc[t] \in {"announce", "notify"}, Emit(t),
           UNCHANGED state, pc'[t] \notin {"announce", "notify"},
           \A u \in Threads \ {t} : pc'[u] = pc[u] /\ snap'[u] = snap[u]
    PROVE  SeenIsTold' /\ PostedInOrder' /\ MainInOrder'
<1>1. snap[t] \in Snapshots /\ snap[t].op \in Ops /\ snap[t].what \in States
  BY DEF Inv, ThreadShape, Snapshots
<1>2. snap[t] = Snapshot(snap[t].op, snap[t].what)
  BY <1>1 DEF Snapshot, Snapshots
<1>3. CASE t = Main
  BY <1>1, <1>3, MainSees DEF Emit, News, MainInOrder
<1>4. CASE t # Main
  <2>1. t \in Workers /\ Main \in Threads
    BY <1>4 DEF Threads
  <2>2. snap[t].what = state[snap[t].op] /\ Rank(snap[t].what) >= 2
    <3>1. CASE pc[t] = "announce"
      BY <2>1, <3>1, RankIs DEF News, WorkersTell
    <3>2. CASE pc[t] = "notify"
      <4>1. snap[t] = Snapshot(cur[t], "running")
        BY <2>1, <3>2 DEF News, WorkersTell
      <4>2. state[cur[t]] = "running"
        BY <2>1, <3>2 DEF Inv, Placement, Busy
      <4> QED  BY <4>1, <4>2, RankIs DEF Snapshot
    <3> QED  BY <3>1, <3>2
  <2> QED  BY <1>1, <1>2, <1>4, <2>1, <2>2, Posts DEF Emit
<1> QED  BY <1>3, <1>4

\* Every step keeps what is seen and what is to be seen in order.
LEMMA NewsNext == ASSUME Inv, News, [Next]_vars PROVE News'
<1>0. /\ Main \in Threads /\ \A w \in Workers : w \in Threads /\ w # Main
      /\ pc \in [Threads -> {"idle", "announce", "notify", "start", "launch", "dispatch",
                              "running", "blocked", "returned"}]
      /\ cur \in [Threads -> Ops \cup {NoOp}] /\ state \in [Ops -> States]
      /\ snap \in [Threads -> Snapshots \cup {NoSnap}] /\ seen \in [Ops -> States]
      /\ \A o \in Ops : Told(state[o], seen[o]) /\ Rank(seen[o]) \in 0 .. 3
  BY ThreadAssumption, RankIs DEF Inv, TypeOK, Threads, News, SeenIsTold
<1> SUFFICES SeenIsTold' /\ PostedInOrder' /\ MainInOrder'
  BY WorkersTellNext DEF News
<1> USE DEF records, threads, events
<1>1. ASSUME NEW rs \in ResourceSets, NEW c \in Cancellable, Submit(rs, c)
      PROVE  SeenIsTold' /\ PostedInOrder' /\ MainInOrder'
  <2> DEFINE o == count + 1
  <2>1. o \in Ops /\ state[o] = "none" /\ state'[o] = "queued" /\ snap'[Main] = Snapshot(o, "queued")
    BY <1>0, <1>1, BoundAssumption DEF Submit, Inv, Fresh, TypeOK, Ops
  <2>2. UNCHANGED <<posted, seen>>
    BY <1>1 DEF Submit
  <2>3. SeenIsTold' /\ PostedInOrder'
    BY <2>2, Silent
  <2>4. Rank(seen[o]) <= 1
    BY <1>0, <2>1, RankIs DEF Told
  <2>5. ASSUME NEW i \in 1 .. Len(posted), IsNews(posted[i]) PROVE Rank(posted[i].what) >= 2
    BY <2>5 DEF News, PostedInOrder
  <2>6. Told("queued", "queued")
    BY RankIs DEF Told, Terminal
  <2>7. snap'[Main].op = o /\ snap'[Main].what = "queued"
    BY <2>1 DEF Snapshot
  <2> HIDE DEF o
  <2>8. MainInOrder'
    <3>1. ASSUME NEW i \in 1 .. Len(posted), IsNews(posted[i]) PROVE Rank("queued") <= Rank(posted[i].what)
      BY <2>5, <3>1, PostedAre, RankIs
    <3> QED  BY <2>1, <2>2, <2>4, <2>6, <2>7, <3>1, RankIs DEF MainInOrder, IsNews
  <2> QED  BY <2>3, <2>8
<1>2. ASSUME NEW o \in Ops, Cancel(o)
      PROVE  SeenIsTold' /\ PostedInOrder' /\ MainInOrder'
  <2>1. UNCHANGED <<posted, seen>> /\ snap'[Main] = Snapshot(o, state'[o]) /\ state[o] \in {"queued", "running"}
        /\ state'[o] = (IF state[o] = "queued" THEN "cancelled" ELSE state[o]) /\ state'[o] \in States
    BY <1>0, <1>2 DEF Cancel, States, Terminal
  <2>2. SeenIsTold' /\ PostedInOrder'
    BY <2>1, Silent
  <2>3. snap'[Main].op = o /\ snap'[Main].what = state'[o]
    BY <2>1 DEF Snapshot
  <2>4. Told(state'[o], state'[o]) /\ Rank(seen[o]) <= Rank(state'[o])
    <3>1. Told(state'[o], seen[o])
      BY <1>0, ToldStays
    <3> QED  BY <2>1, <3>1, RankIs DEF Told
  <2>5. ASSUME NEW i \in 1 .. Len(posted), IsNews(posted[i]), posted[i].op = o
        PROVE  Rank(state'[o]) <= Rank(posted[i].what)
    <3>1. Rank(posted[i].what) >= 2 /\ Rank(posted[i].what) <= Rank(state[o]) /\ posted[i].what \in States
      BY <2>5, PostedAre DEF News, PostedInOrder, Told
    <3> QED  BY <2>1, <3>1, RankIs
  <2>6. MainInOrder'
    BY <2>1, <2>3, <2>4, <2>5 DEF MainInOrder, IsNews
  <2> QED  BY <2>2, <2>6
<1>3. CASE Deliver
  BY <1>3, DeliverNews
<1>4. CASE Shutdown \/ ShutdownReturn \/ Exited \/ UNCHANGED vars
  BY <1>4, Silent DEF Shutdown, ShutdownReturn, Exited, vars
<1>5. ASSUME NEW t \in Threads, Announce(t) \/ Notify(t)
      PROVE  SeenIsTold' /\ PostedInOrder' /\ MainInOrder'
  <2>1. /\ pc[t] \in {"announce", "notify"} /\ Emit(t) /\ UNCHANGED state /\ pc'[t] \notin {"announce", "notify"}
        /\ \A u \in Threads \ {t} : pc'[u] = pc[u] /\ snap'[u] = snap[u]
    BY <1>0, <1>5 DEF Announce, Notify
  <2> QED  BY <2>1, EmitNews
<1>6. ASSUME NEW t \in Threads, TryStartQueued(t) \/ Dispatch(t)
      PROVE  SeenIsTold' /\ PostedInOrder' /\ MainInOrder'
  <2>1. UNCHANGED <<posted, seen, snap>> /\ pc'[t] \notin {"announce", "notify"} /\ \A u \in Threads \ {t} : pc'[u] = pc[u]
    BY <1>0, <1>6 DEF TryStartQueued, Dispatch
  <2> QED  BY <1>0, <2>1, Silent
<1>7. ASSUME NEW t \in Threads, LaunchNext(t)
      PROVE  SeenIsTold' /\ PostedInOrder' /\ MainInOrder'
  <2>1. PICK o \in launches[t] :
            /\ IF t = Main
               THEN seen' = [seen EXCEPT ![o] = "running"] /\ UNCHANGED posted
               ELSE posted' = Append(posted, Snapshot(o, "running")) /\ UNCHANGED seen
            /\ UNCHANGED <<state, snap>> /\ pc' = [pc EXCEPT ![t] = "dispatch"]
    BY <1>7 DEF LaunchNext
  <2>2. o \in Ops /\ state[o] = "running" /\ "running" \in States
    BY DEF Inv, TypeOK, Placement, States
  <2>3. Told(state[o], "running") /\ Rank("running") >= 2
    BY <2>2, RankIs DEF Told, Terminal
  <2>4. CASE t = Main
    <3>1. \A i \in 1 .. Len(posted) : IsNews(posted[i]) /\ posted[i].op = o => Rank("running") <= Rank(posted[i].what)
      BY RankIs DEF News, PostedInOrder
    <3> QED  BY <1>0, <2>1, <2>2, <2>3, <2>4, <3>1, MainSees
  <2>5. CASE t # Main
    BY <1>0, <2>1, <2>2, <2>3, <2>5, Posts
  <2> QED  BY <2>4, <2>5
<1>8. ASSUME NEW w \in Workers, PickUp(w) \/ Progress(w) \/ Return(w) \/ Finish(w)
      PROVE  SeenIsTold' /\ PostedInOrder' /\ MainInOrder'
  <2>1. UNCHANGED <<posted, seen>> /\ pc'[Main] = pc[Main] /\ snap'[Main] = snap[Main]
    BY <1>0, <1>8 DEF PickUp, Progress, Return, Finish
  <2> QED  BY <2>1, Silent
<1>9. ASSUME NEW w \in Workers, CallMain(w)
      PROVE  SeenIsTold' /\ PostedInOrder' /\ MainInOrder'
  <2>1. /\ UNCHANGED <<state, seen>> /\ pc'[Main] = pc[Main] /\ snap'[Main] = snap[Main]
        /\ posted' = Append(posted, Snapshot(cur[w], "call")) /\ cur[w] \in Ops
    BY <1>0, <1>9 DEF CallMain, Inv, ThreadShape, Busy
  <2> QED  BY <2>1, Calling
<1> QED
  BY <1>1, <1>2, <1>3, <1>4, <1>5, <1>6, <1>7, <1>8, <1>9 DEF Next, Thread, Task

\* A step that changes what the slots have seen delivers or emits on the main thread.
LEMMA SeenAdvances ==
    ASSUME Inv, News, [Next]_vars, NEW o \in Ops
    PROVE  Rank(seen[o]) <= Rank(seen'[o])
<1>0. /\ seen \in [Ops -> States] /\ Rank(seen[o]) \in 0 .. 3 /\ Len(posted) \in Nat
      /\ Told(state[o], seen[o])
  BY PostedAre, RankIs DEF Inv, TypeOK, News, SeenIsTold
<1> USE DEF records, threads, events
<1>1. CASE UNCHANGED seen
  BY <1>0, <1>1
<1>2. CASE Deliver
  <2>1. Head(posted) = posted[1] /\ 1 \in 1 .. Len(posted)
    BY <1>0, <1>2 DEF Deliver, Inv, TypeOK
  <2>2. IsNews(posted[1]) => Rank(seen[posted[1].op]) <= Rank(posted[1].what) /\ posted[1].op \in Ops
    BY <2>1, PostedAre DEF News, PostedInOrder
  <2>3. seen' = IF IsNews(posted[1]) THEN [seen EXCEPT ![posted[1].op] = posted[1].what] ELSE seen
    BY <1>2, <2>1 DEF Deliver, IsNews
  <2> QED  BY <1>0, <2>2, <2>3
<1>3. CASE (Announce(Main) \/ Notify(Main)) /\ ~UNCHANGED seen
  <2>1. snap[Main].op \in Ops /\ Rank(seen[snap[Main].op]) <= Rank(snap[Main].what)
    BY <1>3 DEF Announce, Notify, Inv, ThreadShape, Threads, Snapshots, News, MainInOrder
  <2> QED  BY <1>0, <1>3, <2>1 DEF Announce, Notify, Emit
<1>4. CASE LaunchNext(Main)
  <2>1. PICK p \in launches[Main] : seen' = [seen EXCEPT ![p] = "running"]
    BY <1>4 DEF LaunchNext
  <2>2. state[p] = "running"
    BY DEF Inv, Placement, Threads
  <2> QED  BY <1>0, <2>1, <2>2, RankIs DEF Told
<1>5. CASE ~UNCHANGED seen
  <2>1. ASSUME NEW t \in Threads, Thread(t) PROVE t = Main /\ (Announce(Main) \/ Notify(Main) \/ LaunchNext(Main))
    BY <1>5, <2>1 DEF Thread, Announce, Notify, Emit, TryStartQueued, LaunchNext, Dispatch
  <2>2. ASSUME NEW w \in Workers, Task(w) PROVE FALSE
    BY <1>5, <2>2 DEF Task, PickUp, Progress, CallMain, Return, Finish
  <2>3. CASE (\E rs \in ResourceSets, c \in Cancellable : Submit(rs, c)) \/ (\E p \in Ops : Cancel(p))
             \/ Shutdown \/ ShutdownReturn \/ Exited \/ UNCHANGED vars
    BY <1>5, <2>3 DEF Submit, Cancel, Shutdown, ShutdownReturn, Exited, vars
  <2> QED  BY <1>2, <1>3, <1>4, <1>5, <2>1, <2>2, <2>3 DEF Next
<1> QED  BY <1>1, <1>5

\* Nothing has been told at the start.
LEMMA InitNews == Init => News
<1> SUFFICES ASSUME Init PROVE News
  OBVIOUS
<1>1. /\ posted = <<>> /\ \A o \in Ops : seen[o] = "none" /\ state[o] = "none"
      /\ pc[Main] = "idle" /\ \A w \in Workers : pc[w] = "idle"
  BY DEF Init, Threads
<1>2. Told("none", "none")
  BY RankIs DEF Told, Terminal
<1> QED  BY <1>1, <1>2 DEF News, SeenIsTold, PostedInOrder, MainInOrder, WorkersTell

\* What was told is in order in every reachable state.
LEMMA NewsInvariance == Spec => []News
<1>1. Inv /\ News /\ [Next]_vars => News'
  BY NewsNext
<1> QED  BY <1>1, InitNews, Invariance, PTL DEF Spec

\* Slots never see an operation go back, nor its end change: emissions happen after
\* the unlock and on any thread, but each is made before the operation is handed on,
\* and the main thread, which does not wait in the queue, delivers nothing meanwhile.
THEOREM NewsComesInOrder == Spec => SeenInOrder
<1> DEFINE A == \A o \in Ops : Rank(seen'[o]) >= Rank(seen[o]) /\ (seen[o] \in Terminal => seen'[o] = seen[o])
<1>1. Inv /\ News /\ [Next]_vars /\ News' => [A]_seen
  <2> SUFFICES ASSUME Inv, News, [Next]_vars, News', NEW o \in Ops
               PROVE  Rank(seen'[o]) >= Rank(seen[o]) /\ (seen[o] \in Terminal => seen'[o] = seen[o])
    OBVIOUS
  <2>1. seen[o] \in States /\ seen'[o] \in States /\ seen \in [Ops -> States]
    BY InvNext DEF Inv, TypeOK
  <2>2. Rank(seen'[o]) >= Rank(seen[o])
    BY <2>1, SeenAdvances
  <2>3. seen[o] \in Terminal => seen'[o] = seen[o]
    <3>1. Told(state[o], seen[o]) /\ Told(state'[o], seen'[o])
      BY DEF News, SeenIsTold
    <3>2. CASE seen[o] \in Terminal
      <4>1. state'[o] = seen[o] /\ seen'[o] \in Terminal
        BY <2>1, <2>2, <3>1, <3>2, StatesGrow, RankIs DEF Told
      <4> QED  BY <3>1, <4>1 DEF Told
    <3> QED  BY <3>2
  <2> QED  BY <2>2, <2>3
<1> QED  BY <1>1, NewsInvariance, Invariance, PTL DEF Spec, SeenInOrder
=============================================================================
