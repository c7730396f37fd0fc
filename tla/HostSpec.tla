------------------------------ MODULE HostSpec ------------------------------
(***************************************************************************)
(* The name of a device, "[transport:]host[:port]": split_host_spec() and  *)
(* the two operators that use it, get_namebyhost() when the device is      *)
(* loaded and ping_address() for every probe of what was loaded.           *)
(*                                                                         *)
(* A name is a sequence of characters, where a transport's name is one     *)
(* character and "h" any letter.                                           *)
(***************************************************************************)
EXTENDS Naturals, Sequences, FiniteSetsExt, Functions

CONSTANT MaxPort    \* 65535

ASSUME PortsAssumption == MaxPort \in Nat \ {0}

Transports == {"udp", "tcp6"}               \* TCP, UDP, TCP6, UDP6
PortNumerals == <<"0", "1", "2", "3", "4", "5", "6", "7", "8", "9">>

\* strchr(): the first c, or 0.
Position(s, c) == LET found == {i \in DOMAIN s : s[i] = c}
                  IN IF found = {} THEN 0 ELSE Min(found)

\* char_count()
CharCount(s, c) == Cardinality({i \in DOMAIN s : s[i] = c})

From(s, i) == SubSeq(s, i, Len(s))

\* strtol() of a text that has to be a number from 1 to 65535; otherwise 0.
Port(s) ==
    LET digit(c) == (CHOOSE i \in DOMAIN PortNumerals : PortNumerals[i] = c) - 1
        number[k \in 0..Len(s)] == IF k = 0 THEN 0 ELSE 10 * number[k - 1] + digit(s[k])
    IN IF s # <<>> /\ Range(s) \subseteq Range(PortNumerals) /\ number[Len(s)] \in 1..MaxPort
       THEN number[Len(s)] ELSE 0

Parts(method, ipv6, address, port) ==
    [method |-> method, ipv6 |-> ipv6, address |-> address, port |-> port]

\* split_host_spec(), where every colon ends the host
SplitHostSpec_firstColon(spec) ==
    LET named == Len(spec) >= 2 /\ spec[1] \in Transports /\ spec[2] = ":"
        method == IF named THEN spec[1] ELSE "none"
        host == IF named THEN From(spec, 3) ELSE spec
        colon == Position(host, ":")
    IN IF colon > 0
       THEN Parts(method, FALSE, SubSeq(host, 1, colon - 1), Port(From(host, colon + 1)))
       ELSE Parts(method, FALSE, host, 0)

\* split_host_spec(): a bracketed host, after which a port may follow; a bare
\* literal with several colons, or an open bracket; a host with a port; a host.
SplitHostSpec(spec) ==
    LET named == Len(spec) >= 2 /\ spec[1] \in Transports /\ spec[2] = ":"
        method == IF named THEN spec[1] ELSE "none"
        host == IF named THEN From(spec, 3) ELSE spec
        opened == host # <<>> /\ host[1] = "["
        end == Position(host, "]")
        colon == Position(host, ":")
    IN IF opened /\ end > 0
       THEN Parts(method, TRUE, SubSeq(host, 2, end - 1),
                  IF Len(host) > end /\ host[end + 1] = ":"
                  THEN Port(From(host, end + 2)) ELSE 0)
       ELSE IF CharCount(host, ":") > 1 \/ opened THEN Parts(method, TRUE, host, 0)
       ELSE IF colon > 0
       THEN Parts(method, FALSE, SubSeq(host, 1, colon - 1), Port(From(host, colon + 1)))
       ELSE Parts(method, FALSE, host, 0)

\* ping_address()
PingAddress(hostname) == SplitHostSpec(hostname).address

\* get_namebyhost(): an IPv6 name is kept whole.
GetNameByHost(hostname) ==
    IF SplitHostSpec(hostname).ipv6 THEN hostname ELSE PingAddress(hostname)
=============================================================================
