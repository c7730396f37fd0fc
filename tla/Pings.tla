------------------------------- MODULE Pings --------------------------------
(***************************************************************************)
(* The probes a poller thread sends from sockets of its own: ICMP pings of *)
(* several threads, which hear each other's traffic (IcmpPing), and the    *)
(* UDP or TCP ping of one thread, whose connected socket no other thread's *)
(* traffic reaches (PortPing).                                             *)
(***************************************************************************)
EXTENDS IcmpPing, PortPing

VARIABLE probe      \* what ping_network() calls: "icmp" or "port"

vars == <<probe, icmpVars, portVars>>

\* ping_network(): the device's ping method decides; the probe that is not
\* called stays where it is.
Init ==
    /\ probe \in {"icmp", "port"}
    /\ IcmpInit /\ PortInit
    /\ probe = "icmp" => method = "udp" /\ retries = 0 /\ timeout = 0
    /\ probe = "port" => family = "v4" /\ \A t, u \in Threads : target[t] = target[u]

Over == IF probe = "icmp" THEN \A t \in Threads : pc[t] = "done" ELSE step = "done"
Done == Over /\ UNCHANGED vars

Next == \/ probe = "icmp" /\ IcmpNext /\ UNCHANGED <<probe, portVars>>
        \/ probe = "port" /\ PortNext /\ UNCHANGED <<probe, icmpVars>>
        \/ Done

Spec == Init /\ [][Next]_vars

-----------------------------------------------------------------------------

\* A device is called up only on its own sign of life for this probe: an ICMP echo
\* of this process with this ping's number, though a raw socket also hears other
\* devices, threads and processes and numbers wrap; for UDP and TCP the answer or
\* refusal that the method counts. UDP and TCP also say down only without one, as
\* far as the probe watches: a refusal that arrives between two attempts makes the
\* next send() fail, and the device is called down. (RepliesKept has the ICMP
\* pings that end with down.)
VerdictsTruthful == UpMeansEchoed /\ AnswerDecides

\* Whichever probe runs and whichever way it ends, its socket and its packet
\* have been given back ("One owner for both resources").
SocketsReturned == ResourcesReturned /\ PortClosed

\* No probe listens longer than the device's timeout for each of its attempts:
\* "a stray datagram must not restart the wait".
TimeBounded == WaitBounded /\ CallBounded
=============================================================================
