------------------------------ MODULE PortPing ------------------------------
(***************************************************************************)
(* One UDP or TCP ping: ping_udp() and ping_tcp(). A UDP ping keeps one    *)
(* connected socket for all of its attempts, so what answers an earlier    *)
(* request, or the error it drew, is still there for a later call on that  *)
(* socket; a TCP ping opens and closes a socket in every attempt.          *)
(***************************************************************************)
EXTENDS Naturals

CONSTANTS
    PortRetries,    \* largest host.availability.retries
    PortTimeout     \* largest host.availability.timeout, in ticks

ASSUME PortAssumption == PortRetries \in Nat /\ PortTimeout \in Nat

Alive == {"data", "refused", "unreachable"}     \* ECONNRESET is "refused"

VARIABLES
    method,         \* "udp", "tcp" or "tcp_closed"
    retries, timeout,
    step,           \* where the call is
    verdict,
    fd,             \* "none", "open" or "large": at or past FD_SETSIZE
    try,            \* attempt
    clock,          \* ticks since this attempt began
    error, data,    \* kernel: the socket's pending error, and a datagram
    sent,           \* kernel: the socket has sent something
    (* history *)
    signs,          \* what the device or the network answered
    heard,          \* a sign of life came while select() was watching
    spent           \* ticks since the call began

socketVars == <<fd, error, data, sent>>
history == <<signs, heard, spent>>
portVars == <<method, retries, timeout, step, verdict, try, clock, socketVars, history>>

PortInit ==
    /\ method \in {"udp", "tcp", "tcp_closed"}
    /\ retries \in 0..PortRetries /\ timeout \in 0..PortTimeout
    /\ step = "start" /\ verdict = "none"
    /\ fd = "none" /\ try = 0 /\ clock = 0
    /\ error = "none" /\ data = FALSE /\ sent = FALSE
    /\ signs = {} /\ heard = FALSE /\ spent = 0

Settings == <<method, retries, timeout>>
Close == fd' = "none" /\ error' = "none" /\ data' = FALSE /\ sent' = FALSE

\* The call returns HOST_UP or HOST_DOWN with its socket closed.
PortReturn(result) == verdict' = result /\ step' = "done" /\ Close /\ UNCHANGED <<try, clock>>

\* The attempt brought no answer.
TryAgain == step' = "attempt" /\ try' = try + 1 /\ clock' = 0 /\ UNCHANGED verdict

-----------------------------------------------------------------------------

\* A name that is blank or cannot be resolved, a port out of range, or a timeout
\* that is not positive ends the call before there is a socket.
Prepare ==
    /\ step = "start"
    /\ \/ PortReturn("down")
       \/ /\ timeout > 0
          /\ step' = IF method = "udp" THEN "socket" ELSE "attempt"
          /\ UNCHANGED <<verdict, try, clock, socketVars>>
    /\ UNCHANGED <<Settings, history>>

\* ping_udp(): socket(), O_NONBLOCK and connect().
OpenUdp ==
    /\ step = "socket"
    /\ \/ PortReturn("down")
       \/ /\ fd' \in {"open", "large"}
          /\ step' = "attempt"
          /\ UNCHANGED <<verdict, try, clock, error, data, sent>>
    /\ UNCHANGED <<Settings, history>>

\* ping_udp(): an error that an earlier request drew makes send() fail, and any
\* failure ends the call.
UdpSend ==
    /\ method = "udp" /\ step = "attempt"
    /\ \/ PortReturn("down")
       \/ /\ error = "none"
          /\ sent' = TRUE /\ step' = "sent"
          /\ UNCHANGED <<verdict, fd, try, clock, error, data>>
    /\ UNCHANGED <<Settings, history>>

\* spine_wait_fd(): a descriptor select() cannot watch is an error, a deadline
\* that has passed a timeout, and otherwise select() blocks.
WaitFd ==
    /\ step = "sent" /\ fd = "open" /\ clock < timeout
    /\ step' = "select"
    /\ UNCHANGED <<Settings, verdict, try, clock, socketVars, history>>

TimedOut == \/ step = "sent" /\ fd = "open" /\ clock >= timeout
            \/ step = "select" /\ clock >= timeout /\ error = "none" /\ ~data

\* ping_udp_response(), taking a refusal for a failure
UdpResponse_refusedIsDown ==
    /\ method = "udp"
    /\ \/ step = "sent" /\ fd = "large" /\ PortReturn("down")
       \/ TimedOut /\ try < retries /\ TryAgain /\ UNCHANGED socketVars
       \/ TimedOut /\ try >= retries /\ PortReturn("down")
       \/ step = "select" /\ error # "none" /\ PortReturn("down")
       \/ step = "select" /\ error = "none" /\ data /\ PortReturn("up")
    /\ UNCHANGED <<Settings, history>>

\* ping_udp_response() and what ping_udp() makes of it. recv() reports a pending
\* error before it hands out data; a refusal proves the device alive.
UdpResponse ==
    /\ method = "udp"
    /\ \/ step = "sent" /\ fd = "large" /\ PortReturn("down")
       \/ TimedOut /\ try < retries /\ TryAgain /\ UNCHANGED socketVars
       \/ TimedOut /\ try >= retries /\ PortReturn("down")
       \/ step = "select" /\ error \notin Alive \cup {"none"} /\ PortReturn("down")
       \/ step = "select" /\ error \in Alive /\ PortReturn("up")
       \/ step = "select" /\ error = "none" /\ data /\ PortReturn("up")
    /\ UNCHANGED <<Settings, history>>

\* ping_tcp(): what becomes of an attempt's result.
TcpResult(result) ==
    \/ /\ result = "ok" \/ (result = "refused" /\ method = "tcp_closed")
       /\ PortReturn("up")
    \/ /\ result # "ok" /\ ~(result = "refused" /\ method = "tcp_closed")
       /\ IF try >= retries THEN PortReturn("down") ELSE TryAgain /\ Close

\* ping_tcp_attempt(): the socket cannot be had, connect() is decided at once,
\* or it is in progress.
TcpConnect ==
    /\ method # "udp" /\ step = "attempt"
    /\ \/ TcpResult("failed") /\ UNCHANGED signs
       \/ \E result \in {"ok", "refused"} :
              TcpResult(result) /\ signs' = signs \cup {result}
       \/ /\ fd' \in {"open", "large"} /\ sent' = TRUE /\ step' = "sent"
          /\ UNCHANGED <<verdict, try, clock, error, data, signs>>
    /\ UNCHANGED <<Settings, heard, spent>>

\* ping_tcp_complete(): the socket becomes writable when the handshake ends.
TcpComplete ==
    /\ method # "udp"
    /\ \/ step = "sent" /\ fd = "large" /\ TcpResult("failed")
       \/ TimedOut /\ TcpResult("timedout")
       \/ step = "select" /\ error # "none" /\ TcpResult(error)
       \/ step = "select" /\ error = "none" /\ data /\ TcpResult("ok")
    /\ UNCHANGED <<Settings, history>>

PortCall == \/ Prepare \/ OpenUdp \/ UdpSend \/ WaitFd \/ UdpResponse
            \/ TcpConnect \/ TcpComplete

-----------------------------------------------------------------------------
(* The clock and the network *)

PortTick ==
    /\ step \in {"sent", "select"} /\ clock < timeout
    /\ clock' = clock + 1 /\ spent' = spent + 1
    /\ UNCHANGED <<Settings, step, verdict, try, socketVars, signs, heard>>

Decisive(kind) == CASE method = "udp" -> kind \in Alive
                    [] method = "tcp" -> kind = "ok"
                    [] method = "tcp_closed" -> kind \in {"ok", "refused"}

\* An answer to a request of this socket arrives: data (an accepted connection)
\* or an error, at any time while the socket is open. A TCP handshake ends once.
Answer ==
    /\ sent /\ fd # "none"
    /\ \E kind \in (IF method = "udp" THEN {"data"} ELSE {"ok"})
                      \cup {"refused", "unreachable", "network"} :
         /\ method # "udp" => error = "none" /\ ~data
         /\ signs' = signs \cup {kind}
         /\ IF kind \in {"data", "ok"}
            THEN data' = TRUE /\ UNCHANGED error
            ELSE error' = kind /\ UNCHANGED data
         /\ heard' = /\ kind # "network"
                     /\ heard \/ (step = "select" /\ error # "network" /\ Decisive(kind))
    /\ UNCHANGED <<Settings, step, verdict, try, clock, fd, sent, spent>>

PortNext == PortCall \/ PortTick \/ Answer

-----------------------------------------------------------------------------
(* Properties *)

\* The verdict follows the device's answers: up is said only of a device that
\* gave the sign of life its method asks for (a refusal is one for UDP and for
\* PING_TCP_CLOSED, not for PING_TCP), and a sign that comes while select()
\* watches, with no network error beside it, is never answered with down, on
\* whichever attempt and on however late a thread. Not so a refusal that comes
\* between two attempts: the next send() on the socket fails with it, and
\* ping_udp() returns HOST_DOWN.
AnswerDecides ==
    /\ verdict = "up" => \E kind \in signs : Decisive(kind)
    /\ heard => verdict # "down"

\* However many attempts and late answers, the call is over within one timeout
\* for each attempt the device's settings allow (host.availability.retries).
CallBounded == spent <= (retries + 1) * timeout

\* The one socket of a call is closed when it returns, and a TCP attempt never
\* starts with the last one's socket still open.
PortClosed == (step = "done" \/ (method # "udp" /\ step = "attempt")) => fd = "none"
=============================================================================
