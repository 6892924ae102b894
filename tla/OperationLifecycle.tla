------------------------- MODULE OperationLifecycle -------------------------
(***************************************************************************)
(* What the OperationManager promises its users, without threads, locks,   *)
(* queues or events: an operation goes queued -> running -> terminal, or   *)
(* queued -> cancelled, once; it starts only when every resource it named  *)
(* is unused, and takes them all at once for as long as it runs.           *)
(* OperationManager implements this with status <- state.                  *)
(***************************************************************************)
EXTENDS Integers

CONSTANTS Ops, Resources, ResourceSets

VARIABLES status, need

lifecycleVars == <<status, need>>

Ended == {"succeeded", "failed", "cancelled"}

LInit ==
    /\ status = [o \in Ops |-> "none"]
    /\ need = [o \in Ops |-> {}]

LSubmit(o, rs) ==
    /\ status[o] = "none"
    /\ status' = [status EXCEPT ![o] = "queued"]
    /\ need' = [need EXCEPT ![o] = rs]

\* Resources in use are those of the running operations: there is no lock
\* table here for the implementation to get out of step with.
InUse == UNION {need[o] : o \in {p \in Ops : status[p] = "running"}}

\* Any set of queued operations that need disjoint, unused resources may
\* start together.
LGrant(S) ==
    /\ \A o \in S : status[o] = "queued" /\ need[o] \cap InUse = {}
    /\ \A o, p \in S : o # p => need[o] \cap need[p] = {}
    /\ status' = [o \in Ops |-> IF o \in S THEN "running" ELSE status[o]]
    /\ UNCHANGED need

LWithdraw(o) ==
    /\ status[o] = "queued"
    /\ status' = [status EXCEPT ![o] = "cancelled"]
    /\ UNCHANGED need

LEnd(o, end) ==
    /\ status[o] = "running"
    /\ status' = [status EXCEPT ![o] = end]
    /\ UNCHANGED need

LNext ==
    \/ \E o \in Ops : \/ \E rs \in ResourceSets : LSubmit(o, rs)
                      \/ LWithdraw(o)
                      \/ \E end \in Ended : LEnd(o, end)
    \/ \E S \in SUBSET Ops : LGrant(S)

LSpec == LInit /\ [][LNext]_lifecycleVars
=============================================================================
