----------------------------- MODULE HostStatus -----------------------------
(***************************************************************************)
(* The availability of one device over several polling cycles. In every    *)
(* cycle each partition loads the device row and checks the device for     *)
(* itself (load_poll_host, refresh_host_availability); the first partition *)
(* applies the thresholds and writes the row back (update_host_status,     *)
(* persist_host_status).                                                   *)
(***************************************************************************)
EXTENDS Naturals

CONSTANTS
    FailureCount,   \* set.availability.ping_failure_count
    RecoveryCount,  \* set.availability.ping_recovery_count
    Partitions,     \* worker threads of the device
    MaxCycles       \* polling cycles

ASSUME CountsAssumption == /\ FailureCount \in Nat
                           /\ RecoveryCount \in Nat
ASSUME CyclesAssumption == Partitions \in Nat \ {0} /\ MaxCycles \in Nat

Workers == 1..Partitions
Methods == {"none", "snmp_and_ping", "snmp", "ping", "snmp_or_ping",
            "snmp_get", "stream"}           \* snmp_get: GET_NEXT, GET_SYSDESC

VARIABLES
    avail, requires_snmp,   \* the device's settings
    row,            \* database: the device row
    cycle,          \* polling cycles begun; also the date
    at, host,       \* each partition, and its copy of the row
    alive,          \* what its check found
    ignore_host,
    (* history *)
    streak          \* the run of equal results among the polls written back

statusVars ==
    <<avail, requires_snmp, row, cycle, at, host, alive, ignore_host, streak>>

StatusInit ==
    /\ avail \in Methods /\ requires_snmp \in BOOLEAN
    /\ row \in [status : {"unknown", "up"}, status_event_count : {0},
                fail_date : {0}, rec_date : {0}, total_polls : {0}, failed_polls : {0}]
    /\ cycle = 0
    /\ at = [t \in Workers |-> "done"]
    /\ host = [t \in Workers |-> row]
    /\ alive = [t \in Workers |-> FALSE]
    /\ ignore_host = [t \in Workers |-> FALSE]
    /\ streak = [alive |-> TRUE, length |-> 0, since |-> 0]

MoveTo(t, s) == at' = [at EXCEPT ![t] = s]

-----------------------------------------------------------------------------
(* update_host_status() *)

\* host_failure_transition(), with the last event's date and with an off-by-one
FailureTransition_staleDate(h) ==
    CASE h.status = "up" /\ h.status_event_count + 1 >= FailureCount ->
            [h EXCEPT !.status = "down", !.status_event_count = @ + 1]
      [] h.status = "up" /\ h.status_event_count + 1 < FailureCount ->
            [h EXCEPT !.status_event_count = @ + 1, !.fail_date = cycle]
      [] h.status = "recovering" ->
            [h EXCEPT !.status = "down", !.status_event_count = 1]
      [] h.status = "unknown" ->
            [h EXCEPT !.status = "down", !.status_event_count = 0]
      [] h.status = "down" -> [h EXCEPT !.status_event_count = @ + 1]

FailureTransition_oneMore(h) ==
    CASE h.status = "up" /\ h.status_event_count >= FailureCount ->
            [h EXCEPT !.status = "down", !.status_event_count = @ + 1]
      [] h.status = "up" /\ h.status_event_count < FailureCount ->
            [h EXCEPT !.status_event_count = @ + 1,
                      !.fail_date = IF h.status_event_count = 0 THEN cycle ELSE @]
      [] h.status = "recovering" ->
            [h EXCEPT !.status = "down", !.status_event_count = 1]
      [] h.status = "unknown" ->
            [h EXCEPT !.status = "down", !.status_event_count = 0]
      [] h.status = "down" -> [h EXCEPT !.status_event_count = @ + 1]

\* host_failure_transition()
FailureTransition(h) ==
    CASE h.status = "up" /\ h.status_event_count + 1 >= FailureCount ->
            [h EXCEPT !.status = "down", !.status_event_count = @ + 1,
                      !.fail_date = IF FailureCount = 1 THEN cycle ELSE @]
      [] h.status = "up" /\ h.status_event_count + 1 < FailureCount ->
            [h EXCEPT !.status_event_count = @ + 1,
                      !.fail_date = IF h.status_event_count = 0 THEN cycle ELSE @]
      [] h.status = "recovering" ->
            [h EXCEPT !.status = "down", !.status_event_count = 1]
      [] h.status = "unknown" ->
            [h EXCEPT !.status = "down", !.status_event_count = 0]
      [] h.status = "down" -> [h EXCEPT !.status_event_count = @ + 1]

\* host_recovery_transition()
RecoveryTransition(h) ==
    IF h.status \notin {"down", "recovering"}
    THEN [h EXCEPT !.status = "up", !.status_event_count = 0]
    ELSE LET count == IF h.status = "down" THEN 1 ELSE h.status_event_count + 1
         IN IF count >= RecoveryCount
            THEN [h EXCEPT !.status = "up", !.status_event_count = 0,
                           !.rec_date = IF RecoveryCount = 1 THEN cycle ELSE @]
            ELSE [h EXCEPT !.status = "recovering", !.status_event_count = count,
                           !.rec_date = IF count = 1 THEN cycle ELSE @]

UpdateHostStatus(up, h) ==
    LET counted == [h EXCEPT !.total_polls = @ + 1,
                             !.failed_polls = IF up THEN @ ELSE @ + 1]
    IN IF up THEN RecoveryTransition(counted) ELSE FailureTransition(counted)

-----------------------------------------------------------------------------
(* ping_host() *)

\* get_address_type(): the families getaddrinfo() lists; IPv4 is preferred.
AddressType(families) == CASE "v4" \in families -> "v4"
                           [] families = {"v6"} -> "v6"
                           [] OTHER -> "none"

\* ping_network(): what the probe can find. A name with "localhost" in it needs
\* none; ICMP without sockets falls back to UDP; only ICMP reaches an IPv6
\* address, and a name without an address is down.
PingNetwork(local, families, ping_method, icmp_avail) ==
    LET address == AddressType(families)
        used == IF ping_method = "icmp" /\ ~icmp_avail THEN "udp" ELSE ping_method
    IN CASE local -> {TRUE}
         [] ~local /\ address = "v6" /\ used = "icmp" -> BOOLEAN
         [] ~local /\ address = "v4" /\ used # "other" -> BOOLEAN
         [] OTHER -> {FALSE}

\* ping_snmp(): without a session the device is down; without a community, which
\* version 3 does not need, it is up; any answer counts, a wrong one included.
PingSnmp(session, answered) == session /\ (~requires_snmp \/ answered)

\* network is what the probe found.
PingSnmpAvailability(network, snmp) ==
    /\ avail = "snmp_and_ping" => network
    /\ \/ avail = "snmp_or_ping" /\ network
       \/ ~requires_snmp
       \/ snmp

PingHost(network, snmp) ==
    CASE avail \in {"snmp_and_ping", "snmp_or_ping", "snmp", "snmp_get"} ->
            PingSnmpAvailability(network, snmp)
      [] avail = "ping" -> network
      [] avail = "none" -> TRUE
      [] avail = "stream" -> FALSE

-----------------------------------------------------------------------------

\* load_poll_host(): the query fails, the device is gone or its row cannot be
\* fetched (which ignores the device), or the row is read.
LoadPollHost(t) ==
    /\ at[t] = "load"
    /\ \/ /\ MoveTo(t, "done")
          /\ \E ignored \in BOOLEAN : ignore_host' = [ignore_host EXCEPT ![t] = ignored]
          /\ UNCHANGED host
       \/ /\ MoveTo(t, "refresh")
          /\ host' = [host EXCEPT ![t] = row]
          /\ ignore_host' = [ignore_host EXCEPT ![t] = FALSE]
    /\ UNCHANGED <<avail, requires_snmp, row, cycle, alive, streak>>

\* refresh_host_availability(): without a check the device counts as up.
Unchecked == avail = "stream" \/ (avail = "snmp" /\ ~requires_snmp)

\* Names, addresses, settings and sockets are what each check finds them to be.
Verdicts ==
    LET Network == UNION {PingNetwork(local, families, ping_method, icmp_avail) :
                            local \in BOOLEAN, families \in SUBSET {"v4", "v6"},
                            ping_method \in {"icmp", "udp", "other"}, icmp_avail \in BOOLEAN}
        Snmp == {PingSnmp(session, answered) : session, answered \in BOOLEAN}
    IN {Unchecked \/ PingHost(network, snmp) : network \in Network, snmp \in Snmp}

RefreshHostAvailability(t) ==
    /\ at[t] = "refresh"
    /\ \E up \in Verdicts :
            /\ alive' = [alive EXCEPT ![t] = up]
            /\ ignore_host' = [ignore_host EXCEPT ![t] = ~up]
            /\ host' = IF t = 1 \/ Unchecked
                       THEN [host EXCEPT ![t] = UpdateHostStatus(up, @)]
                       ELSE host
    /\ MoveTo(t, "persist")
    /\ UNCHANGED <<avail, requires_snmp, row, cycle, streak>>

\* persist_host_status(): its outcome is not looked at.
PersistHostStatus(t) ==
    /\ at[t] = "persist"
    /\ \/ /\ t = 1
          /\ row' = host[t]
          /\ streak' = IF streak.alive = alive[t] /\ streak.length > 0
                       THEN [streak EXCEPT !.length = @ + 1]
                       ELSE [alive |-> alive[t], length |-> 1, since |-> cycle]
       \/ UNCHANGED <<row, streak>>
    /\ MoveTo(t, "done")
    /\ UNCHANGED <<avail, requires_snmp, cycle, host, alive, ignore_host>>

\* The next run of spine polls the device again.
NextCycle ==
    /\ cycle < MaxCycles
    /\ \A t \in Workers : at[t] = "done"
    /\ cycle' = cycle + 1
    /\ at' = [t \in Workers |-> "load"]
    /\ UNCHANGED <<avail, requires_snmp, row, host, alive, ignore_host, streak>>

StatusDone ==
    cycle = MaxCycles /\ (\A t \in Workers : at[t] = "done") /\ UNCHANGED statusVars

StatusNext ==
    \/ \E t \in Workers : \/ LoadPollHost(t) \/ RefreshHostAvailability(t)
                          \/ PersistHostStatus(t)
    \/ NextCycle \/ StatusDone

StatusSpec == StatusInit /\ [][StatusNext]_statusVars

-----------------------------------------------------------------------------
(* Properties *)

\* The stored row implements Hysteresis: UP becomes DOWN, and DOWN becomes UP,
\* only on the configured number of consecutive results (host_failure_transition,
\* host_recovery_transition), whichever partition runs when and whichever
\* statements fail.
H == INSTANCE Hysteresis WITH
        verdict <- IF row.status = "recovering" THEN "down" ELSE row.status,
        against <- IF row.status \in {"up", "recovering"}
                   THEN row.status_event_count ELSE 0
ImplementsHysteresis == H!Spec

\* status_fail_date of a device that goes down is the date of the first failure
\* of the outage, and status_rec_date of one that returns is the date of its
\* first answer, although later polls decide (the dates are set apart from the
\* transition, with a case of their own for a count of one).
DatesAreFirstEvents ==
    [][/\ row.status = "up" /\ row'.status = "down"
             => ~streak'.alive /\ row'.fail_date = streak'.since
       /\ row.status \in {"down", "recovering"} /\ row'.status = "up"
             => streak'.alive /\ row'.rec_date = streak'.since]_statusVars
=============================================================================
