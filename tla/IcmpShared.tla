----------------------------- MODULE IcmpShared -----------------------------
(***************************************************************************)
(* Poller threads pinging over one shared raw ICMP socket: whichever       *)
(* waiting thread finds the socket idle reads it for everyone, wakes the   *)
(* threads whose replies it found, and hands the socket over when it       *)
(* leaves (ping/icmp_shared.c and the shared path of ping_icmp()).         *)
(*                                                                         *)
(* Everything between two operations on LOCK_ICMP is one step. Every       *)
(* waiter has a sequence number of its own, so a message is named after    *)
(* the waiter whose request it answers.                                    *)
(***************************************************************************)
EXTENDS Naturals, Sequences, FiniteSets

CONSTANTS
    Waiters,    \* pinging threads
    Stray,      \* a message that answers nobody
    Retries,    \* host.availability.retries
    Batch,      \* ICMP_SHARED_BATCH
    DrainMax,   \* ICMP_SHARED_DRAIN_MAX
    QueueMax    \* receive buffer of the socket, in messages

ASSUME BoundsAssumption == /\ Retries \in Nat /\ Batch \in Nat \ {0}
                           /\ DrainMax \in Nat \ {0} /\ QueueMax \in Nat
ASSUME StrayAssumption == Stray \notin Waiters

VARIABLES
    pc,             \* where ping_icmp() / icmp_shared_await() stands
    retry_count,
    expired,        \* the deadline of this attempt has passed
    icmp_waiters,   \* the registration list, newest first
    answered, sleeping,
    signalled,      \* pthread_cond_signal() reached this sleeping waiter
    reading,        \* icmp_shared.reading
    batch,          \* messages read and not dispatched yet
    readable, drained,
    queue,          \* kernel: messages queued on the socket
    in_flight       \* network: requests that may still be answered

attempt == <<retry_count, expired>>
waiterVars == <<icmp_waiters, answered, sleeping, signalled>>
drain == <<batch, readable, drained>>
vars == <<pc, attempt, waiterVars, reading, drain, queue, in_flight>>

ReaderStates == {"select", "recv", "dispatch", "relock"}

Init ==
    /\ pc = [w \in Waiters |-> "start"]
    /\ retry_count = [w \in Waiters |-> 0]
    /\ expired = [w \in Waiters |-> FALSE]
    /\ icmp_waiters = <<>>
    /\ answered = [w \in Waiters |-> FALSE]
    /\ sleeping = [w \in Waiters |-> FALSE]
    /\ signalled = [w \in Waiters |-> FALSE]
    /\ reading = FALSE
    /\ batch = <<>>
    /\ readable = FALSE
    /\ drained = 0
    /\ queue = <<>>
    /\ in_flight = {}

Goto(w, s) == pc' = [pc EXCEPT ![w] = s]

-----------------------------------------------------------------------------
(* ping_icmp() *)

\* icmp_shared_register()
Register(w) ==
    /\ pc[w] = "start"
    /\ icmp_waiters' = <<w>> \o icmp_waiters
    /\ Goto(w, "send")
    /\ UNCHANGED <<attempt, answered, sleeping, signalled, reading, drain,
                   queue, in_flight>>

\* One attempt: give up after the last retry, send, and wait for the reply.
\* A failed send uses the attempt up.
Send(w) ==
    /\ pc[w] = "send"
    /\ \/ /\ retry_count[w] > Retries
          /\ Goto(w, "unregister")
          /\ UNCHANGED <<attempt, in_flight>>
       \/ /\ retry_count[w] <= Retries
          /\ in_flight' = in_flight \cup {w}
          /\ expired' = [expired EXCEPT ![w] = FALSE]
          /\ Goto(w, "await")
          /\ UNCHANGED retry_count
       \/ /\ retry_count[w] <= Retries
          /\ retry_count' = [retry_count EXCEPT ![w] = @ + 1]
          /\ UNCHANGED <<pc, expired, in_flight>>
    /\ UNCHANGED <<waiterVars, reading, drain, queue>>

\* icmp_shared_handoff(): when nobody reads, wake the first waiter in the list
\* that sleeps unanswered. The calling thread w is awake.
FirstSleeper(list, w) ==
    LET candidates == {i \in 1..Len(list) : /\ list[i] # w
                                            /\ sleeping[list[i]]
                                            /\ ~answered[list[i]]}
    IN {list[i] : i \in {c \in candidates : \A d \in candidates : c <= d}}

Handoff_silent(list, w, busy) == signalled' = [signalled EXCEPT ![w] = FALSE]
Handoff(list, w, busy) ==
    signalled' = [v \in Waiters |->
                    /\ v # w
                    /\ signalled[v] \/ (~busy /\ v \in FirstSleeper(list, w))]

\* icmp_shared_unregister(): the waiter's node, found by a walk, is unlinked.
Unlink(list, w) ==
    LET link == CHOOSE i \in 1..Len(list) : list[i] = w
    IN [i \in 1..(Len(list) - 1) |-> IF i < link THEN list[i] ELSE list[i + 1]]

Unregister(w) ==
    LET list == Unlink(icmp_waiters, w) IN
    /\ pc[w] = "unregister"
    /\ icmp_waiters' = list
    /\ Handoff(list, w, reading)
    /\ Goto(w, "done")
    /\ UNCHANGED <<attempt, answered, sleeping, reading, drain, queue,
                   in_flight>>

-----------------------------------------------------------------------------
(* icmp_shared_await() *)

\* A timeout that does not use its attempt up.
Leave_freeTimeout(w, busy) ==
    /\ Handoff(icmp_waiters, w, busy)
    /\ reading' = busy
    /\ sleeping' = [sleeping EXCEPT ![w] = FALSE]
    /\ IF answered[w]
       THEN Goto(w, "unregister") /\ UNCHANGED retry_count
       ELSE Goto(w, "send") /\ UNCHANGED retry_count

\* Leaving with the socket idle hands it over. A reply ends the ping; without
\* one the next attempt begins.
Leave(w, busy) ==
    /\ Handoff(icmp_waiters, w, busy)
    /\ reading' = busy
    /\ sleeping' = [sleeping EXCEPT ![w] = FALSE]
    /\ IF answered[w]
       THEN Goto(w, "unregister") /\ UNCHANGED retry_count
       ELSE Goto(w, "send") /\ retry_count' = [retry_count EXCEPT ![w] = @ + 1]

\* The head of the loop, with LOCK_ICMP held: leave, sleep, or read.
Loop(w, busy) ==
    \/ /\ answered[w] \/ expired[w]
       /\ Leave(w, busy)
    \/ /\ ~answered[w] /\ ~expired[w] /\ busy
       /\ reading' = busy
       /\ sleeping' = [sleeping EXCEPT ![w] = TRUE]
       /\ signalled' = [signalled EXCEPT ![w] = FALSE]
       /\ Goto(w, "asleep")
       /\ UNCHANGED retry_count
    \/ /\ ~answered[w] /\ ~expired[w] /\ ~busy
       /\ reading' = TRUE
       /\ sleeping' = [sleeping EXCEPT ![w] = FALSE]
       /\ signalled' = [signalled EXCEPT ![w] = FALSE]
       /\ Goto(w, "select")
       /\ UNCHANGED retry_count

Await(w) ==
    /\ pc[w] = "await"
    /\ Loop(w, reading)
    /\ UNCHANGED <<expired, icmp_waiters, answered, drain, queue, in_flight>>

\* pthread_cond_timedwait() returns: signalled or timed out.
Wake(w) ==
    /\ pc[w] = "asleep"
    /\ signalled[w] \/ expired[w]
    /\ Loop(w, reading)
    /\ UNCHANGED <<expired, icmp_waiters, answered, drain, queue, in_flight>>

\* It may also return for no reason.
SpuriousWake(w) ==
    /\ pc[w] = "asleep"
    /\ ~signalled[w] /\ ~expired[w]
    /\ Loop(w, reading)
    /\ UNCHANGED <<expired, icmp_waiters, answered, drain, queue, in_flight>>

\* select(): something to read, or the reader's own deadline.
Select(w) ==
    /\ pc[w] = "select"
    /\ \/ queue # <<>> /\ readable' = TRUE /\ Goto(w, "recv")
       \/ expired[w] /\ readable' = FALSE /\ Goto(w, "relock")
    /\ drained' = 0
    /\ UNCHANGED <<attempt, waiterVars, reading, batch, queue, in_flight>>

\* select() is interrupted.
SelectFails(w) ==
    /\ pc[w] = "select"
    /\ readable' = FALSE
    /\ drained' = 0
    /\ Goto(w, "relock")
    /\ UNCHANGED <<attempt, waiterVars, reading, batch, queue, in_flight>>

\* A batch is read without LOCK_ICMP; an empty queue ends the drain.
Recv(w) ==
    LET n == IF Len(queue) < Batch THEN Len(queue) ELSE Batch IN
    /\ pc[w] = "recv"
    /\ batch' = SubSeq(queue, 1, n)
    /\ queue' = SubSeq(queue, n + 1, Len(queue))
    /\ readable' = (n = Batch)
    /\ drained' = drained + n
    /\ Goto(w, "dispatch")
    /\ UNCHANGED <<attempt, waiterVars, reading, in_flight>>

\* icmp_shared_dispatch() for each message of the batch: the waiter it answers
\* is marked and signalled; a message nobody waits for is dropped.
Found == {v \in Waiters : /\ \E i \in 1..Len(batch) : batch[i] = v
                          /\ \E i \in 1..Len(icmp_waiters) : icmp_waiters[i] = v
                          /\ ~answered[v]}
Dispatch_noSignal(w) ==
    /\ pc[w] = "dispatch"
    /\ answered' = [v \in Waiters |-> answered[v] \/ v \in Found]
    /\ batch' = <<>>
    /\ Goto(w, IF readable /\ drained < DrainMax THEN "recv" ELSE "relock")
    /\ UNCHANGED <<attempt, icmp_waiters, sleeping, signalled, reading,
                   readable, drained, queue, in_flight>>

Dispatch(w) ==
    /\ pc[w] = "dispatch"
    /\ answered' = [v \in Waiters |-> answered[v] \/ v \in Found]
    /\ signalled' = [v \in Waiters |-> signalled[v] \/ (v \in Found /\ sleeping[v])]
    /\ batch' = <<>>
    /\ Goto(w, IF readable /\ drained < DrainMax THEN "recv" ELSE "relock")
    /\ UNCHANGED <<attempt, icmp_waiters, sleeping, reading, readable, drained,
                   queue, in_flight>>

\* Back under the lock, the socket is idle and the loop starts over.
Relock(w) ==
    /\ pc[w] = "relock"
    /\ Loop(w, FALSE)
    /\ UNCHANGED <<expired, icmp_waiters, answered, drain, queue, in_flight>>

Thread(w) == \/ Register(w) \/ Send(w) \/ Unregister(w) \/ Await(w) \/ Wake(w)
             \/ Select(w) \/ Recv(w) \/ Dispatch(w) \/ Relock(w)

-----------------------------------------------------------------------------
(* The clock and the network *)

Expire(w) ==
    /\ pc[w] \in ReaderStates \cup {"await", "asleep"}
    /\ ~expired[w]
    /\ expired' = [expired EXCEPT ![w] = TRUE]
    /\ UNCHANGED <<pc, retry_count, waiterVars, reading, drain, queue, in_flight>>

\* A message arrives: a reply, once or again, or a stray one. A full queue
\* drops it.
Arrive(m) ==
    /\ m \in in_flight \cup {Stray}
    /\ Len(queue) < QueueMax
    /\ queue' = Append(queue, m)
    /\ \/ in_flight' = in_flight \ {m}
       \/ UNCHANGED in_flight
    /\ UNCHANGED <<pc, attempt, waiterVars, reading, drain>>

Done == /\ \A w \in Waiters : pc[w] = "done"
        /\ UNCHANGED vars

Next == \/ \E w \in Waiters : \/ Thread(w) \/ SpuriousWake(w)
                             \/ SelectFails(w) \/ Expire(w)
        \/ \E m \in Waiters \cup {Stray} : Arrive(m)
        \/ Done

Spec == Init /\ [][Next]_vars

\* Threads are scheduled, and select() is not interrupted every time. Deadlines
\* may be as far away as they like.
FairSpec == Spec /\ \A w \in Waiters : WF_vars(Thread(w)) /\ SF_vars(Select(w))

-----------------------------------------------------------------------------
(* Properties *)

\* "one thread at a time reads": the socket has one reader while
\* icmp_shared.reading is set and none otherwise, so no reply is taken by a
\* thread that does not dispatch it; and no wake-up is lost: while nobody reads, a
\* sleeper that still waits for its reply is never left alone, for a sleeper has
\* been signalled and takes over.
SocketNeverAbandoned ==
    /\ Cardinality({w \in Waiters : pc[w] \in ReaderStates}) =
          IF reading THEN 1 ELSE 0
    /\ (~reading /\ \E w \in Waiters : sleeping[w] /\ ~answered[w]) =>
          \E w \in Waiters : sleeping[w] /\ signalled[w]

\* "a reply is never stuck behind a thread whose own deadline is further
\* away": a queued reply ends the wait of its waiter, asleep or reading, even
\* if no deadline ever passes.
ReplyDelivered ==
    \A w \in Waiters :
        ((\E i \in 1..Len(queue) : queue[i] = w)
            /\ pc[w] \in ReaderStates \cup {"await", "asleep"})
        ~> (pc[w] \in {"unregister", "done"} \/ expired[w])

\* If deadlines pass, every ping comes to an end after its retries, whoever
\* holds the socket and whatever the network does.
PingEnds ==
    (\A w \in Waiters : WF_vars(Expire(w))) => \A w \in Waiters : <>(pc[w] = "done")
=============================================================================
