------------------------------ MODULE IcmpPing ------------------------------
(***************************************************************************)
(* Poller threads pinging over ICMP sockets of their own: ping_icmp() and  *)
(* ping_icmp_ipv6() when no shared raw socket is open (IcmpShared models   *)
(* the other case). A thread asks for a datagram socket, then for a raw    *)
(* one; resolves the device; and makes its attempts, each of which sends   *)
(* one echo request and listens until a deadline.                          *)
(*                                                                         *)
(* A raw socket receives a copy of every ICMP message that reaches the     *)
(* machine: replies to other threads, to other processes, and messages     *)
(* that answer nobody. IPv4 and IPv6 pings share no socket and no sequence *)
(* counter, so one family at a time is looked at.                          *)
(***************************************************************************)
EXTENDS Naturals, Sequences

CONSTANTS
    Threads, Devices,
    Pid,            \* getpid() & 0xFFFF
    OtherPid,       \* the echo id of another process on this machine
    Seqs,           \* 16-bit sequence numbers
    Retries,        \* host.availability.retries
    SocketTries,    \* raw sockets asked for before giving up: 5
    LookupTries,    \* temporary resolver failures that are retried: 3
    Timeout,        \* host.availability.timeout, in ticks
    QueueMax        \* messages a socket's receive buffer holds

ASSUME BoundsAssumption ==
    /\ Retries \in Nat /\ LookupTries \in Nat /\ QueueMax \in Nat
    /\ SocketTries \in Nat \ {0} /\ Timeout \in Nat \ {0} /\ Seqs # {}
ASSUME IdAssumption == Pid # OtherPid /\ {Pid, OtherPid} \cap Threads = {}

VARIABLES
    family,         \* "v4" or "v6"
    target,         \* the device each thread pings
    pc, rc,
    dgram,          \* icmp_dgram
    large,          \* the descriptor is FD_SETSIZE or more
    held,           \* what the call has to give back: "socket", "packet"
    retry_count,
    seq,            \* icmp_seq / our_seq
    elapsed,        \* ticks since begin_time
    inbox,          \* kernel: receive queue of the thread's socket
    asked,          \* network: echo requests sent so far
    echoed,         \* network: echo requests a device has answered
    (* history *)
    waited,         \* ticks the thread has listened in this attempt
    replied         \* a reply to this ping has reached the thread's socket

attempt == <<retry_count, seq, elapsed>>
socket == <<dgram, large, held>>
network == <<inbox, asked, echoed>>
observed == <<waited, replied>>
icmpVars == <<family, target, pc, rc, socket, attempt, network, observed>>

Goto(t, s) == pc' = [pc EXCEPT ![t] = s]
Count(t) == retry_count' = [retry_count EXCEPT ![t] = @ + 1]
Restart(t) == retry_count' = [retry_count EXCEPT ![t] = 0]

\* The id of a raw socket's requests is the process's; the kernel gives every
\* datagram socket one of its own.
Id(t) == IF dgram[t] THEN t ELSE Pid
Request(t) == [dev |-> target[t], id |-> Id(t), seq |-> seq[t]]

\* The echo of that request, and whether it is in the receive queue.
ReplyTo(t) == [from |-> target[t], id |-> Id(t), seq |-> seq[t], echo |-> TRUE]
Queued(t) == \E i \in DOMAIN inbox[t] : inbox[t][i] = ReplyTo(t)

IcmpInit ==
    /\ family \in {"v4", "v6"}
    /\ target \in [Threads -> Devices]
    /\ pc = [t \in Threads |-> "open"]
    /\ rc = [t \in Threads |-> "none"]
    /\ dgram = [t \in Threads |-> FALSE]
    /\ large = [t \in Threads |-> FALSE]
    /\ held = [t \in Threads |-> {}]
    /\ retry_count = [t \in Threads |-> 0]
    /\ seq \in [Threads -> {CHOOSE s \in Seqs : TRUE}]
    /\ elapsed = [t \in Threads |-> 0]
    /\ inbox = [t \in Threads |-> <<>>]
    /\ asked = {}
    /\ echoed = {}
    /\ waited = [t \in Threads |-> 0]
    /\ replied = [t \in Threads |-> FALSE]

-----------------------------------------------------------------------------
(* The end of the call: every resource goes back *)

Cleanup_socketOnly(t, result) ==
    /\ rc' = [rc EXCEPT ![t] = result]
    /\ held' = [held EXCEPT ![t] = @ \ {"socket"}]
    /\ inbox' = [inbox EXCEPT ![t] = <<>>]
    /\ Goto(t, "done")

\* "cleanup:" frees the packet and closes a socket opened here.
Cleanup(t, result) ==
    /\ rc' = [rc EXCEPT ![t] = result]
    /\ held' = [held EXCEPT ![t] = {}]
    /\ inbox' = [inbox EXCEPT ![t] = <<>>]
    /\ Goto(t, "done")

-----------------------------------------------------------------------------
(* Sockets *)

\* icmp_open_socket(): the kernel may refuse.
Opened(t, is_dgram) ==
    /\ dgram' = [dgram EXCEPT ![t] = is_dgram]
    /\ \E l \in BOOLEAN : large' = [large EXCEPT ![t] = l]
    /\ held' = [held EXCEPT ![t] = {"socket"}]

OpenDgram(t) ==
    /\ pc[t] = "open"
    /\ \/ Opened(t, TRUE) /\ Goto(t, "packet")
       \/ Goto(t, "raw") /\ UNCHANGED socket
    /\ UNCHANGED <<family, target, observed, rc, attempt, network>>

RawSocket(t) ==
    /\ pc[t] = "raw"
    /\ \/ /\ Opened(t, FALSE)
          /\ Goto(t, "packet")
          /\ UNCHANGED <<rc, retry_count, inbox>>
       \/ /\ Count(t)
          /\ IF retry_count[t] + 1 >= SocketTries
             THEN Cleanup(t, "down") /\ UNCHANGED <<dgram, large>>
             ELSE UNCHANGED <<pc, rc, socket, inbox>>
    /\ UNCHANGED <<family, target, observed, seq, elapsed, asked, echoed>>

OpenRaw(t) == family = "v4" /\ RawSocket(t)
OpenRaw6(t) == family = "v6" /\ RawSocket(t)

-----------------------------------------------------------------------------
(* The packet and the address *)

\* The packet is allocated and numbered under LOCK_GHBN. The pings of all other
\* threads count as well, so any number may come up, one in use included.
Number(t) ==
    /\ pc[t] = "packet"
    /\ held' = [held EXCEPT ![t] = @ \cup {"packet"}]
    /\ \E s \in Seqs : seq' = [seq EXCEPT ![t] = s]
    /\ Restart(t)
    /\ Goto(t, "resolve")
    /\ UNCHANGED <<family, target, observed, rc, dgram, large, elapsed, network>>

Packet(t) == family = "v4" /\ Number(t)
Packet6(t) == family = "v6" /\ Number(t)

\* init_sockaddr() and init_sockaddr6() retry a temporary failure; a blank or
\* unknown name ends the ping.
Lookup(t) ==
    /\ pc[t] = "resolve"
    /\ \/ /\ Goto(t, "send") /\ Restart(t)
          /\ UNCHANGED <<rc, held, inbox>>
       \/ /\ retry_count[t] < LookupTries /\ Count(t)
          /\ UNCHANGED <<pc, rc, held, inbox>>
       \/ Cleanup(t, "down") /\ UNCHANGED retry_count
    /\ UNCHANGED <<family, target, observed, dgram, large, seq, elapsed, asked, echoed>>

Resolve(t) == family = "v4" /\ Lookup(t)
Resolve6(t) == family = "v6" /\ Lookup(t)

-----------------------------------------------------------------------------
(* Attempts *)

OutOfAttempts(t) ==
    /\ pc[t] = "send"
    /\ retry_count[t] > Retries
    /\ Cleanup(t, "down")
    /\ UNCHANGED <<family, target, observed, dgram, large, attempt, asked, echoed>>

Transmit(t) ==
    /\ asked' = asked \cup {Request(t)}
    /\ Goto(t, "listen")
    /\ UNCHANGED retry_count

\* The deadline is set, the request sent. The IPv4 code listens even when
\* sendto() failed.
Send(t) ==
    /\ family = "v4"
    /\ pc[t] = "send" /\ retry_count[t] <= Retries
    /\ elapsed' = [elapsed EXCEPT ![t] = 0]
    /\ waited' = [waited EXCEPT ![t] = 0]
    /\ \/ Transmit(t)
       \/ Goto(t, "listen") /\ UNCHANGED <<asked, retry_count>>
    /\ UNCHANGED <<family, target, replied, rc, socket, seq, inbox, echoed>>

\* The IPv6 code uses the attempt up at once.
Send6(t) ==
    /\ family = "v6"
    /\ pc[t] = "send" /\ retry_count[t] <= Retries
    /\ elapsed' = [elapsed EXCEPT ![t] = 0]
    /\ waited' = [waited EXCEPT ![t] = 0]
    /\ \/ Transmit(t)
       \/ Count(t) /\ UNCHANGED <<pc, asked>>
    /\ UNCHANGED <<family, target, replied, rc, socket, seq, inbox, echoed>>

\* spine_icmp_classify_reply(): on a raw socket an echo reply with our id and
\* sequence number.
Classify(t, m) == m.echo /\ m.id = Pid /\ m.seq = seq[t]

\* The id is looked at, which the kernel has chosen.
ClassifyDgram_ownId(t, m) == m.echo /\ m.id = Pid /\ m.seq = seq[t]

\* spine_icmp_classify_dgram_reply(): the kernel has matched its id already.
ClassifyDgram(t, m) == m.echo /\ m.seq = seq[t]

\* icmp6_reply_matches()
Matches6(t, m) == m.echo /\ m.seq = seq[t] /\ (dgram[t] \/ m.id = Pid)

\* A reply counts when it came from the device that was asked.
Accepts(t, m) ==
    /\ IF dgram[t] THEN ClassifyDgram(t, m) ELSE Classify(t, m)
    /\ m.from = target[t]
Accepts6(t, m) == m.from = target[t] /\ Matches6(t, m)

Accepted(t, m) == IF family = "v4" THEN Accepts(t, m) ELSE Accepts6(t, m)

\* The attempt is used up.
NextAttempt(t) ==
    /\ Count(t)
    /\ Goto(t, "send")
    /\ UNCHANGED <<rc, held, elapsed, inbox>>

\* A stray message restarts the wait.
Hear_restarts(t) ==
    /\ pc[t] = "listen"
    /\ \/ /\ large[t]
          /\ Cleanup(t, "down")
          /\ UNCHANGED <<retry_count, elapsed>>
       \/ /\ ~large[t] /\ elapsed[t] >= Timeout
          /\ NextAttempt(t)
       \/ /\ ~large[t] /\ elapsed[t] < Timeout /\ inbox[t] # <<>>
          /\ Accepted(t, Head(inbox[t]))
          /\ Cleanup(t, "up")
          /\ UNCHANGED <<retry_count, elapsed>>
       \/ /\ ~large[t] /\ elapsed[t] < Timeout /\ inbox[t] # <<>>
          /\ ~Accepted(t, Head(inbox[t]))
          /\ inbox' = [inbox EXCEPT ![t] = Tail(@)]
          /\ elapsed' = [elapsed EXCEPT ![t] = 0]
          /\ UNCHANGED <<pc, rc, held, retry_count>>
    /\ UNCHANGED <<family, target, observed, dgram, large, seq, asked, echoed>>

\* keep_listening: select() and recvfrom(). A descriptor select() cannot watch
\* ends the ping; past the deadline the attempt is used up, even with something
\* to read; a message that is not the reply is dropped and the wait goes on.
Hear(t) ==
    /\ pc[t] = "listen"
    /\ \/ /\ large[t]
          /\ Cleanup(t, "down")
          /\ UNCHANGED <<retry_count, elapsed>>
       \/ /\ ~large[t] /\ elapsed[t] >= Timeout
          /\ NextAttempt(t)
       \/ /\ ~large[t] /\ elapsed[t] < Timeout /\ inbox[t] # <<>>
          /\ Accepted(t, Head(inbox[t]))
          /\ Cleanup(t, "up")
          /\ UNCHANGED <<retry_count, elapsed>>
       \/ /\ ~large[t] /\ elapsed[t] < Timeout /\ inbox[t] # <<>>
          /\ ~Accepted(t, Head(inbox[t]))
          /\ inbox' = [inbox EXCEPT ![t] = Tail(@)]
          /\ UNCHANGED <<pc, rc, held, retry_count, elapsed>>
    /\ UNCHANGED <<family, target, observed, dgram, large, seq, asked, echoed>>

Listen(t) == family = "v4" /\ Hear(t)
Listen6(t) == family = "v6" /\ Hear(t)

\* select() or recvfrom() fails, not by a signal: the attempt is used up.
ReceiveFails(t) ==
    /\ pc[t] = "listen" /\ ~large[t]
    /\ NextAttempt(t)
    /\ UNCHANGED <<family, target, observed, dgram, large, seq, asked, echoed>>

Thread(t) == \/ OpenDgram(t) \/ OpenRaw(t) \/ OpenRaw6(t)
             \/ Packet(t) \/ Packet6(t) \/ Resolve(t) \/ Resolve6(t)
             \/ OutOfAttempts(t) \/ Send(t) \/ Send6(t)
             \/ Listen(t) \/ Listen6(t)

-----------------------------------------------------------------------------
(* The clock and the network *)

Tick(t) ==
    /\ pc[t] = "listen"
    /\ elapsed[t] < Timeout
    /\ elapsed' = [elapsed EXCEPT ![t] = @ + 1]
    /\ waited' = [waited EXCEPT ![t] = @ + 1]
    /\ UNCHANGED <<family, target, replied, pc, rc, socket, retry_count, seq, network>>

\* The kernel queues m on every raw socket, on a datagram socket only if it
\* carries that socket's id, and drops what does not fit.
Deliver(m) ==
    inbox' = [t \in Threads |->
        IF /\ "socket" \in held[t]
           /\ ~dgram[t] \/ m.id = t
           /\ Len(inbox[t]) < QueueMax
        THEN Append(inbox[t], m) ELSE inbox[t]]

\* A device answers a request, of this process or of another one: once, again,
\* or long after the attempt.
Reply ==
    /\ \E r \in asked \cup [dev : Devices, id : {OtherPid}, seq : Seqs] :
        /\ echoed' = echoed \cup ({r} \cap asked)
        /\ Deliver([from |-> r.dev, id |-> r.id, seq |-> r.seq, echo |-> TRUE])
    /\ inbox' # inbox
    /\ UNCHANGED <<family, target, waited, pc, rc, socket, attempt, asked>>
    /\ replied' = [t \in Threads |->
          replied[t] \/ (pc[t] \in {"send", "listen"} /\ Queued(t)')]

\* Any other ICMP message.
OtherMessage ==
    /\ \E d \in Devices, s \in Seqs :
        Deliver([from |-> d, id |-> Pid, seq |-> s, echo |-> FALSE])
    /\ inbox' # inbox
    /\ UNCHANGED <<family, target, observed, pc, rc, socket, attempt, asked, echoed>>

IcmpNext == \/ \E t \in Threads : Thread(t) \/ ReceiveFails(t) \/ Tick(t)
            \/ Reply \/ OtherMessage

-----------------------------------------------------------------------------
(* Properties *)

\* A device is called up only if it answered an echo request of this process
\* with this ping's sequence number, although a raw socket also hears other
\* devices, other threads and other processes, and sequence numbers wrap.
UpMeansEchoed ==
    \A t \in Threads : rc[t] = "up" => Request(t) \in echoed

\* A reply to this ping that reaches the socket is not lost among the messages
\* that are dropped: it waits in the receive queue, from one attempt to the next,
\* until the device is called up. The ping still ends with down when each attempt
\* reached its deadline, or failed, before the thread came to read the reply, or
\* when select() cannot watch the descriptor.
RepliesKept ==
    \A t \in Threads : replied[t] =>
        IF pc[t] # "done" THEN Queued(t)
        ELSE rc[t] = "up" \/ retry_count[t] > Retries \/ large[t]

\* "One owner for both resources": whichever way the call ends, the packet has
\* been freed and the socket closed, and until then neither has.
ResourcesReturned ==
    \A t \in Threads :
        held[t] = CASE pc[t] \in {"open", "raw", "done"} -> {}
                    [] pc[t] = "packet" -> {"socket"}
                    [] OTHER -> {"socket", "packet"}

\* "a stray datagram must not restart the wait": an attempt listens for its
\* timeout and no longer, however many messages that are not its reply arrive.
WaitBounded == \A t \in Threads : waited[t] <= Timeout
=============================================================================
