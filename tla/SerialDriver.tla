---------------------------- MODULE SerialDriver ----------------------------
(***************************************************************************)
(* The device table of a serial vendor driver (EQDrive, Sky-Watcher,       *)
(* Gemini): the discovery scan of the loader probes the port and swaps the *)
(* table, while the node connects, uses, checks and disconnects the        *)
(* device.  The loader takes the driver's mutex for a scan and the         *)
(* device's for a call, so one scan and one call run at a time.            *)
(*                                                                         *)
(* One device on one port.  A port is open in at most one session; a       *)
(* session that nothing refers to any more is closed by its destructor.    *)
(***************************************************************************)
EXTENDS Naturals

CONSTANTS MaxSessions,  \* bound: sessions opened on the port
          MaxCalls      \* bound: calls and scans

VARIABLES
    kind,     \* the driver: "none" before one is loaded
    plugged,  \* the device is on its port and answers
    port,     \* the session that has the port open, 0 if none
    opened,   \* sessions opened so far
    table,    \* gDevices: the entry of the device
    sweep,    \* the scan: where it is, its copy of the table, what it found
    dcall,    \* the call on the device: its method, step and copy of the entry
    told,     \* what the node was last told: the device is connected or not
    calls

sdVars == <<kind, plugged, port, opened, table, sweep, dcall, told, calls>>

Kinds == {"eqdrive", "skywatcher", "gemini"}
Unknown == [known |-> FALSE, connected |-> FALSE, session |-> 0, synced |-> FALSE]
Idle == [pc |-> "idle", old |-> Unknown, found |-> Unknown, session |-> 0, tries |-> 0]
NoCall == [m |-> "none", pc |-> "idle", d |-> Unknown, session |-> 0, tries |-> 0]

SdInit ==
    /\ kind = "none" /\ plugged = TRUE /\ port = 0 /\ opened = 0
    /\ table = Unknown /\ sweep = Idle /\ dcall = NoCall
    /\ told = FALSE /\ calls = 0

Load(k) == /\ kind = "none" /\ kind' = k
           /\ UNCHANGED <<plugged, port, opened, table, sweep, dcall, told, calls>>

-----------------------------------------------------------------------------
(* Sessions *)

IsOpen(d) == d.session # 0 /\ port = d.session
Usable(d) == d.known /\ d.connected /\ IsOpen(d)

\* The port after the last reference to its session is gone.
Swept(p, t, s, c) ==
    IF p \in {t.session, s.old.session, s.found.session, s.session, c.d.session, c.session}
    THEN p ELSE 0

\* Tries to open and identify: EQDrive tries Motor Controller and ASTEP at
\* several rates, closing the port in between; the others try once.
Tries == IF kind = "eqdrive" THEN 2 ELSE 1

\* Attempt of the scan or of a connect; "busy" when another session has the port.
OpenPort(who) ==
    /\ opened < MaxSessions
    /\ IF port = 0 /\ plugged
       THEN /\ opened' = opened + 1 /\ port' = opened + 1
            /\ who' = [who EXCEPT !.pc = "identify", !.session = opened + 1, !.tries = @ + 1]
       ELSE /\ UNCHANGED <<opened, port>>
            /\ who' = [who EXCEPT !.pc = IF port # 0 THEN "busy"
                                         ELSE IF who.tries + 1 < Tries THEN "open" ELSE "absent",
                                  !.tries = @ + 1]

\* Nothing answered: the port is closed, the next attempt or none follows.
NotIdentified(who) ==
    /\ port' = IF port = who.session THEN 0 ELSE port
    /\ who' = [who EXCEPT !.pc = IF who.tries < Tries THEN "open" ELSE "absent", !.session = 0]

-----------------------------------------------------------------------------
(* The scan *)

StartSweep ==
    /\ kind # "none" /\ sweep.pc = "idle" /\ calls < MaxCalls /\ calls' = calls + 1
    /\ sweep' = IF Usable(table)
                THEN [Idle EXCEPT !.pc = "swap", !.old = table, !.found = table]
                ELSE [Idle EXCEPT !.pc = "open", !.old = table]
    /\ UNCHANGED <<kind, plugged, port, opened, table, dcall, told>>

ProbeOpen ==
    /\ sweep.pc = "open" /\ OpenPort(sweep)
    /\ UNCHANGED <<kind, plugged, table, dcall, told, calls>>

\* What a probe that answered keeps of what was known: EQDrive takes the state of
\* its copy, the others whether the device is connected now.
Merged == IF kind = "eqdrive" THEN [sweep.old EXCEPT !.known = TRUE, !.session = 0]
          ELSE [Unknown EXCEPT !.known = TRUE, !.connected = table.connected]

ProbeIdentify ==
    /\ sweep.pc = "identify"
    /\ \/ /\ plugged /\ port' = IF port = sweep.session THEN 0 ELSE port
          /\ sweep' = [sweep EXCEPT !.pc = "swap", !.found = Merged, !.session = 0]
       \/ NotIdentified(sweep)
    /\ UNCHANGED <<kind, plugged, opened, table, dcall, told, calls>>

\* The table is replaced.  EQDrive keeps its copy of a device whose port is busy or
\* still there; the others keep what is connected now and was not found.
Swap ==
    /\ sweep.pc \in {"swap", "busy", "absent"}
    /\ table' = IF sweep.found.known THEN sweep.found
                ELSE IF kind = "eqdrive"
                     THEN IF sweep.pc = "busy" \/ plugged THEN sweep.old ELSE Unknown
                     ELSE IF table.connected THEN table ELSE Unknown
    /\ sweep' = Idle /\ port' = Swept(port, table', Idle, dcall)
    /\ UNCHANGED <<kind, plugged, opened, dcall, told, calls>>

-----------------------------------------------------------------------------
(* Calls *)

StartCall(m) ==
    /\ table.known /\ dcall.m = "none" /\ calls < MaxCalls /\ calls' = calls + 1
    /\ m = "sync" => kind = "eqdrive"
    /\ m \in {"health", "sync"} => Usable(table)
    /\ dcall' = [NoCall EXCEPT !.m = m, !.pc = IF m = "connect" THEN "open" ELSE "exchange", !.d = table]
    /\ UNCHANGED <<kind, plugged, port, opened, table, sweep, told>>

Return == dcall' = NoCall
Store(d) == table' = d /\ Return /\ UNCHANGED <<kind, plugged, opened, sweep, calls>>

ConnectOpen ==
    /\ dcall.m = "connect" /\ dcall.pc = "open" /\ OpenPort(dcall)
    /\ UNCHANGED <<kind, plugged, table, sweep, told, calls>>

\* The entry is replaced by a new one with the session that was left open.
ConnectIdentify ==
    /\ dcall.m = "connect" /\ dcall.pc = "identify"
    /\ \/ /\ plugged /\ told' = TRUE
          /\ Store([Unknown EXCEPT !.known = TRUE, !.connected = TRUE, !.session = dcall.session])
          /\ port' = Swept(port, table', sweep, NoCall)
       \/ NotIdentified(dcall) /\ UNCHANGED <<kind, plugged, opened, table, sweep, told, calls>>

ConnectFails ==
    /\ dcall.m = "connect" /\ dcall.pc \in {"busy", "absent"} /\ Return
    /\ port' = Swept(port, table, sweep, NoCall)
    /\ UNCHANGED <<kind, plugged, opened, table, sweep, told, calls>>

\* mutant: the session is only dropped
DisconnectDrops ==
    /\ dcall.m = "disconnect" /\ told' = FALSE
    /\ Store([dcall.d EXCEPT !.connected = FALSE, !.session = 0])
    /\ port' = Swept(port, table', sweep, NoCall)

\* The session of the copy is closed, whoever else refers to it.
Disconnect ==
    /\ dcall.m = "disconnect" /\ told' = FALSE
    /\ Store([dcall.d EXCEPT !.connected = FALSE, !.session = 0])
    /\ port' = IF IsOpen(dcall.d) THEN 0 ELSE Swept(port, table', sweep, NoCall)

\* A probe that is not answered closes the session and reports the loss.
Health ==
    /\ dcall.m = "health"
    /\ IF plugged /\ IsOpen(dcall.d) THEN Return /\ UNCHANGED <<kind, plugged, opened, table, sweep, told, calls>>
                        /\ port' = Swept(port, table, sweep, NoCall)
       ELSE /\ told' = FALSE
            /\ Store([dcall.d EXCEPT !.connected = FALSE, !.session = 0])
            /\ port' = IF IsOpen(dcall.d) THEN 0 ELSE Swept(port, table', sweep, NoCall)

\* mount.sync stores the anchor in the copy it took when it began.
Sync ==
    /\ dcall.m = "sync" /\ UNCHANGED told
    /\ IF plugged /\ IsOpen(dcall.d) THEN Store([dcall.d EXCEPT !.synced = TRUE])
       ELSE Return /\ UNCHANGED <<kind, plugged, opened, table, sweep, calls>>
    /\ port' = Swept(port, table', sweep, NoCall)

\* Loss and return of the cable; the session stays open until somebody closes it.
Plug ==
    /\ kind # "none" /\ calls < MaxCalls /\ calls' = calls + 1 /\ plugged' = ~plugged
    /\ UNCHANGED <<kind, port, opened, table, sweep, dcall, told>>

SdNext == \/ \E k \in Kinds : Load(k)
          \/ StartSweep \/ ProbeOpen \/ ProbeIdentify \/ Swap
          \/ \E m \in {"connect", "disconnect", "health", "sync"} : StartCall(m)
          \/ ConnectOpen \/ ConnectIdentify \/ ConnectFails
          \/ Disconnect \/ Health \/ Sync \/ Plug

-----------------------------------------------------------------------------
(* Properties *)

\* A device that was disconnected stays disconnected until it is connected again,
\* although a scan may put an older copy of its entry back in the table
\* (oal_driver_eqdrive.cpp:444, oal_driver_gemini.cpp:258-279).
DisconnectSticks == ~told /\ dcall.m = "none" => ~Usable(table)

\* driver_plugin_loader.cpp:390-391: a scan "cannot race a connect/capture/move": a
\* device the node was told is connected is usable, unless its cable is out.
ConnectSurvivesScan ==
    told /\ dcall.m = "none" /\ sweep.pc = "idle" /\ plugged => Usable(table)
=============================================================================
