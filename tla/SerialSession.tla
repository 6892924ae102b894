---------------------------- MODULE SerialSession ----------------------------
(***************************************************************************)
(* OalBlockingSerialSession: a serial port that one worker thread keeps    *)
(* open, and calls of other threads that it runs one after the other.      *)
(* A device answers each command once, in order, when it likes, or never;  *)
(* whatever is in the input when a terminator has arrived is the reply.    *)
(* An exchange is known by its number.                                     *)
(***************************************************************************)
EXTENDS Naturals, Sequences

CONSTANTS Callers,      \* threads that call the session
          MaxExchanges  \* bound: exchanges

VARIABLES
    portOpen,  \* port_ is open
    jobs,      \* the event queue of the worker: callers that wait
    asked,     \* what each caller asked for, "none" if it asked nothing
    worker,    \* the job the worker runs and its step
    owing,     \* commands not answered yet: at the device, or bytes still in the port
    input,     \* answers that have arrived and were not read
    numbered,  \* exchanges begun
    reply      \* the last exchange that returned: its number, data, and what was owed

ssVars == <<portOpen, jobs, asked, worker, owing, input, numbered, reply>>

Jobs == {"open", "close", "exchange", "send"}
NoJob == [job |-> "none", by |-> "none", pc |-> "idle", n |-> 0, owed |-> FALSE]
NoReply == [n |-> 0, data |-> <<>>, owed |-> FALSE]

SsInit ==
    /\ portOpen = FALSE /\ jobs = <<>> /\ asked = [c \in Callers |-> "none"]
    /\ worker = NoJob /\ owing = <<>> /\ input = <<>> /\ numbered = 0 /\ reply = NoReply

\* run(): a caller blocks until the worker has run its function.
Run(c, job) ==
    /\ asked[c] = "none" /\ numbered < MaxExchanges
    /\ asked' = [asked EXCEPT ![c] = job] /\ jobs' = Append(jobs, c)
    /\ UNCHANGED <<portOpen, worker, owing, input, numbered, reply>>

NextJob ==
    /\ jobs # <<>> /\ worker.pc = "idle"
    /\ worker' = [NoJob EXCEPT !.job = asked[Head(jobs)], !.by = Head(jobs), !.pc = "start"]
    /\ jobs' = Tail(jobs)
    /\ UNCHANGED <<portOpen, asked, owing, input, numbered, reply>>

Returned == worker' = NoJob /\ asked' = [asked EXCEPT ![worker.by] = "none"]

\* A port that is open as asked stays open; opening may fail.
Open ==
    /\ worker.pc = "start" /\ worker.job = "open" /\ Returned
    /\ \/ portOpen /\ UNCHANGED <<portOpen, input>>
       \/ portOpen' \in BOOLEAN /\ input' = <<>>
    /\ UNCHANGED <<jobs, owing, numbered, reply>>

Close ==
    /\ worker.pc = "start" /\ worker.job = "close" /\ Returned
    /\ portOpen' = FALSE /\ input' = <<>>
    /\ UNCHANGED <<jobs, owing, numbered, reply>>

\* mutant: old input is not discarded
ClearNothing ==
    /\ worker.pc = "start" /\ worker.job \in {"exchange", "send"} /\ portOpen
    /\ numbered' = numbered + 1
    /\ worker' = [worker EXCEPT !.pc = "write", !.n = numbered + 1, !.owed = owing # <<>>]
    /\ UNCHANGED <<portOpen, jobs, asked, owing, input, reply>>

Clear ==
    /\ worker.pc = "start" /\ worker.job \in {"exchange", "send"} /\ portOpen
    /\ numbered' = numbered + 1 /\ input' = <<>>
    /\ worker' = [worker EXCEPT !.pc = "write", !.n = numbered + 1, !.owed = owing # <<>>]
    /\ UNCHANGED <<portOpen, jobs, asked, owing, reply>>

NotOpen ==
    /\ worker.pc = "start" /\ worker.job \in {"exchange", "send"} /\ ~portOpen /\ Returned
    /\ UNCHANGED <<portOpen, jobs, owing, input, numbered, reply>>

\* The command leaves and its answer is waited for.  Or the write fails and with it
\* the exchange: bytes the port has taken go out later and are answered all the same,
\* since clear() discards input only.  A command that expects no reply has none.
Write ==
    /\ worker.pc = "write"
    /\ \/ /\ worker.job = "exchange" /\ owing' = Append(owing, worker.n)
          /\ \/ worker' = [worker EXCEPT !.pc = "read"] /\ UNCHANGED asked
             \/ Returned
       \/ Returned /\ UNCHANGED owing
    /\ UNCHANGED <<portOpen, jobs, input, numbered, reply>>

\* A command whose bytes were dropped, or that the device ignores, is not answered.
Answer ==
    /\ owing # <<>> /\ owing' = Tail(owing)
    /\ input' \in {input} \cup (IF portOpen THEN {Append(input, Head(owing))} ELSE {})
    /\ UNCHANGED <<portOpen, jobs, asked, worker, numbered, reply>>

Read ==
    /\ worker.pc = "read" /\ input # <<>> /\ Returned
    /\ reply' = [n |-> worker.n, data |-> input, owed |-> worker.owed] /\ input' = <<>>
    /\ UNCHANGED <<portOpen, jobs, owing, numbered>>

TimeOut ==
    /\ worker.pc = "read" /\ input = <<>> /\ Returned
    /\ UNCHANGED <<portOpen, jobs, owing, input, numbered, reply>>

SsNext == \/ \E c \in Callers, j \in Jobs : Run(c, j)
          \/ NextJob \/ Open \/ Close \/ Clear \/ NotOpen \/ Write \/ Answer \/ Read \/ TimeOut

-----------------------------------------------------------------------------
(* Property *)

\* A reply that is not the answer to the command, or not only that, is taken only if
\* an earlier command, one that timed out while it was written or while its answer was
\* awaited, was still unanswered when this one began: nothing stale that had arrived is
\* taken, and calls of two threads do not mix (common_blocking_serial_session.h:112-176).
RepliesMatch == reply.data # <<reply.n>> /\ reply.n # 0 => reply.owed
=============================================================================
