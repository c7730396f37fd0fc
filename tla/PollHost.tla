------------------------------ MODULE PollHost ------------------------------
(***************************************************************************)
(* poll_host(): one partition's work on its device, around the collection  *)
(* of its items (SnmpBatch). The device is loaded and its session opened,  *)
(* its availability found out, its reindex checks made, its items selected *)
(* and collected. What the module follows is the SNMP session, which is    *)
(* opened, closed and opened again along the way, and ignore_host, which   *)
(* decides what is left out.                                               *)
(***************************************************************************)
EXTENDS SnmpBatch

CONSTANT HostProfile    \* the device's own SNMP profile

ASSUME ProfileAssumption == HostProfile \in Nat \ {0}

VARIABLES
    ping_only,
    rows            \* num_rows > 0

hostVars == <<device_zero, ping_only, rows>>
pollVars == <<hostVars, batchVars>>

PollInit ==
    /\ device_zero \in BOOLEAN /\ ping_only \in BOOLEAN
    /\ rows = FALSE
    /\ pc = "load" /\ BatchInit

Batching == <<i, ret, key, count, oids, wire, results, history>>

\* load_poll_host(): a device that is gone or cannot be loaded ends the call. A
\* device with a usable profile gets a session (initialize_host_snmp).
LoadPollHost ==
    /\ pc = "load"
    /\ \/ ~device_zero /\ pc' = "returned" /\ UNCHANGED <<link, ignore_host>>
       \/ device_zero /\ pc' = "loaded" /\ UNCHANGED <<link, ignore_host>>
       \/ ~device_zero /\ pc' = "loaded" /\ ignore_host' = TRUE /\ UNCHANGED link
       \/ ~device_zero /\ pc' = "refresh" /\ Open(HostProfile) /\ UNCHANGED ignore_host
    /\ UNCHANGED <<hostVars, spike_kill, Batching>>

\* refresh_host_availability(): HostStatus has it in detail.
Refresh ==
    /\ pc = "refresh"
    /\ ignore_host' \in BOOLEAN
    /\ pc' = "loaded"
    /\ UNCHANGED <<hostVars, link, spike_kill, Batching>>

\* With --pingonly that is all.
PingOnly ==
    /\ pc = "loaded" /\ ping_only
    /\ Close
    /\ pc' = "returned"
    /\ UNCHANGED <<hostVars, ignore_host, spike_kill, Batching>>

\* poll_host_reindex(): nothing for an ignored device; else checks, which may turn
\* out that the device does not answer after all (Reindex has them in detail),
\* and "item polling opens a new session".
PollHostReindex_keepsSession ==
    /\ pc = "loaded" /\ ~ping_only
    /\ IF ignore_host \/ device_zero THEN UNCHANGED <<ignore_host, spike_kill>>
       ELSE ignore_host' \in BOOLEAN /\ spike_kill' \in BOOLEAN
    /\ pc' = "select"
    /\ UNCHANGED <<hostVars, link, Batching>>

PollHostReindex ==
    /\ pc = "loaded" /\ ~ping_only
    /\ IF ignore_host \/ device_zero THEN UNCHANGED <<link, ignore_host, spike_kill>>
       ELSE Close /\ ignore_host' \in BOOLEAN /\ spike_kill' \in BOOLEAN
    /\ pc' = "select"
    /\ UNCHANGED <<hostVars, Batching>>

\* select_poll_items(): the query may fail or find nothing due.
SelectPollItems ==
    /\ pc = "select"
    /\ rows' \in BOOLEAN
    /\ pc' = IF rows' THEN "item" ELSE "returned"
    /\ UNCHANGED <<device_zero, ping_only, link, ignore_host, spike_kill, Batching>>

\* After the items have been collected and written.
Cleanup ==
    /\ pc = "done"
    /\ Close
    /\ pc' = "returned"
    /\ UNCHANGED <<hostVars, ignore_host, spike_kill, Batching>>

PollNext ==
    \/ LoadPollHost \/ Refresh \/ PingOnly \/ PollHostReindex \/ SelectPollItems \/ Cleanup
    \/ BatchNext /\ UNCHANGED hostVars

-----------------------------------------------------------------------------
(* Properties *)

\* The device has at most one session, which host->snmp.session names: none is
\* lost by opening the next, through any order of changes of profile, failed
\* reopenings and early returns. When poll_host() returns it is closed, but for a
\* device that was ignored and had no items.
NoSessionLost ==
    /\ handles = IF session = NoSession THEN 0 ELSE 1
    /\ pc = "returned" /\ handles # 0 => ignore_host /\ ~rows

\* "performs cleanup of the snmp sessions once polling is completed for a host"
\* (snmp_host_cleanup): no session is open when poll_host() returns.
SessionsCleanedUp == pc = "returned" => handles = 0
=============================================================================
