----------------------------- MODULE PhpServer ------------------------------
(***************************************************************************)
(* The pool of PHP script servers: a request picks a slot round robin      *)
(* (php_get_process), perhaps repairing a failed one, then sends its       *)
(* command to the slot's server and reads one line back (php_cmd,          *)
(* php_readpipe), restarting a server that stops answering (php_close,     *)
(* php_init). The mutex of a slot is held across a whole php_cmd and       *)
(* across a repair, LOCK_PHP only around the cursor.                       *)
(*                                                                         *)
(* A command is named after the thread that sends it. The pid and the two  *)
(* descriptors of a slot are set and cleared together under its mutex, so  *)
(* they are one state of the server. A server answers a command with one   *)
(* line, when it answers at all. A look at a slot under its mutex is one   *)
(* step, so a trylock fails only because of a command or a repair; failing *)
(* because of another thread's look would make a request queue on a slot   *)
(* that is about to be free, or leave a repair to a later request.         *)
(***************************************************************************)
EXTENDS Integers, Sequences

CONSTANTS
    Threads,    \* requesting threads
    MaxServers  \* MAX_PHP_SERVERS, the size of php_processes[]

ASSUME MaxServersAssumption == MaxServers \in Nat \ {0}

Slots == 0..(MaxServers - 1)
NoSlot == -1
MaxWrites == 3      \* php_cmd() gives up after this many failed writes

VARIABLES
    php_servers,    \* set.php.php_servers
    php_state,      \* READY or BUSY
    server,         \* "none", "alive" or "dead" (exited, not reaped yet)
    requests,       \* the pipe to the server
    answers,        \* the pipe from the server
    lock,           \* LOCK_PHP_PROC_0 + slot: its holders
    cursor,         \* set.php.php_current_server
    pc, start_candidate, checked, contended, recovery,
    slot,           \* the slot the thread uses
    retries,        \* failed writes
    result,         \* what php_cmd() returned
    (* history *)
    spawns,         \* php_init() calls of this request
    trouble         \* some server, pipe or start has failed, or none was started

pool == <<php_servers, php_state, server, requests, answers>>
scan == <<cursor, start_candidate, checked, contended, recovery>>
history == <<spawns, trouble>>
vars == <<pool, lock, scan, pc, slot, retries, result, history>>

-----------------------------------------------------------------------------
(* Start-up: php_init(PHP_INIT) has spawned every server, or Spine has stopped.
   A server whose greeting was late or wrong leaves its slot BUSY; polling goes
   on while any slot is READY. Where read_php_requirement() found no item, none
   was spawned; device 0 and reindex rows may ask for one all the same. *)

Started == "Started"
Boot == "boot"
Bad == "bad"
U == "U"

ASSUME ThreadsAssumption == {Boot, U} \cap Threads = {}

Boots == {"ready", "late", "refused", "unused"}

Init == \E boot \in [Slots -> Boots] :
    /\ php_servers \in 1..MaxServers
    /\ \/ /\ \A s \in Slots : boot[s] = "unused" <=> s >= php_servers
          /\ \E s \in Slots : boot[s] = "ready"
       \/ \A s \in Slots : boot[s] = "unused"
    /\ php_state = [s \in Slots |-> IF boot[s] = "ready" THEN "READY" ELSE "BUSY"]
    /\ server = [s \in Slots |-> IF boot[s] = "unused" THEN "none" ELSE "alive"]
    /\ requests = [s \in Slots |-> IF boot[s] = "late" THEN <<Boot>> ELSE <<>>]
    /\ answers = [s \in Slots |-> <<>>]
    /\ trouble = (\E s \in Slots : s < php_servers /\ boot[s] # "ready")
    /\ lock = [s \in Slots |-> {}]
    /\ cursor \in 0..php_servers      \* moved by earlier requests
    /\ pc = [t \in Threads |-> "idle"]
    /\ start_candidate = [t \in Threads |-> 0]
    /\ checked = [t \in Threads |-> 0]
    /\ contended = [t \in Threads |-> NoSlot]
    /\ recovery = [t \in Threads |-> NoSlot]
    /\ slot = [t \in Threads |-> NoSlot]
    /\ retries = [t \in Threads |-> 0]
    /\ result = [t \in Threads |-> ""]
    /\ spawns = [t \in Threads |-> 0]

Goto(t, s) == pc' = [pc EXCEPT ![t] = s]
Free(s) == lock[s] = {}
Unlock(s) == lock' = [lock EXCEPT ![s] = {}]

\* READY, with a process and both descriptors
Usable(s) == php_state[s] = "READY" /\ server[s] # "none"

-----------------------------------------------------------------------------
(* php_get_process() *)

NextServer(t) ==
    LET c == IF cursor >= php_servers THEN 0 ELSE cursor IN
    /\ pc[t] = "idle"
    /\ start_candidate' = [start_candidate EXCEPT ![t] = c]
    /\ cursor' = c + 1
    /\ Goto(t, "scan")
    /\ UNCHANGED <<pool, lock, checked, contended, recovery, slot, retries,
                   result, history>>

OrElse(first, s) == IF first = NoSlot THEN s ELSE first

\* One slot of the scan, under its mutex if that is free.
Scan(t) ==
    LET candidate == (start_candidate[t] + checked[t]) % php_servers IN
    /\ pc[t] = "scan" /\ checked[t] < php_servers
    /\ \/ /\ ~Free(candidate)
          /\ contended' = [contended EXCEPT ![t] = OrElse(@, candidate)]
          /\ checked' = [checked EXCEPT ![t] = @ + 1]
          /\ UNCHANGED <<recovery, pc, slot>>
       \/ /\ Free(candidate) /\ Usable(candidate)
          /\ slot' = [slot EXCEPT ![t] = candidate]
          /\ Goto(t, "cmd")
          /\ UNCHANGED <<contended, checked, recovery>>
       \/ /\ Free(candidate) /\ ~Usable(candidate)
          /\ recovery' = [recovery EXCEPT ![t] = OrElse(@, candidate)]
          /\ checked' = [checked EXCEPT ![t] = @ + 1]
          /\ UNCHANGED <<contended, pc, slot>>
    /\ UNCHANGED <<pool, lock, cursor, start_candidate, retries, result, history>>

\* After the scan: queue on a busy slot, or repair the first failed one if
\* its mutex is free and it is still failed.
AfterScan_noQueue(t) ==
    LET r == recovery[t] IN
    /\ pc[t] = "scan" /\ checked[t] = php_servers
    /\ \/ /\ r = NoSlot
          /\ slot' = [slot EXCEPT ![t] = NoSlot]
          /\ Goto(t, "cmd")
          /\ UNCHANGED lock
       \/ /\ r # NoSlot
          /\ slot' = [slot EXCEPT ![t] = IF Free(r) THEN r ELSE NoSlot]
          /\ IF Free(r) THEN lock' = [lock EXCEPT ![r] = {t}] ELSE UNCHANGED lock
          /\ Goto(t, IF Free(r) THEN "recover" ELSE "cmd")
    /\ UNCHANGED <<pool, scan, retries, result, history>>

AfterScan(t) ==
    LET r == recovery[t] IN
    /\ pc[t] = "scan" /\ checked[t] = php_servers
    /\ \/ /\ r # NoSlot => ~Free(r)
          /\ slot' = [slot EXCEPT ![t] = contended[t]]
          /\ Goto(t, "cmd")
          /\ UNCHANGED lock
       \/ /\ r # NoSlot /\ Free(r) /\ Usable(r)
          /\ slot' = [slot EXCEPT ![t] = r]
          /\ Goto(t, "cmd")
          /\ UNCHANGED lock
       \/ /\ r # NoSlot /\ Free(r) /\ ~Usable(r)
          /\ slot' = [slot EXCEPT ![t] = r]
          /\ lock' = [lock EXCEPT ![r] = {t}]
          /\ Goto(t, "recover")
    /\ UNCHANGED <<pool, scan, retries, result, history>>

-----------------------------------------------------------------------------
(* php_close() followed by php_init(slot), under the mutex of the slot. The
   thread stands at "recover" (selection), "rewrite" (a failed write) or
   "restart" (a failed read). *)

Initializing == {"recover", "rewrite", "restart"}
Shaking == [recover |-> "recover_hs", rewrite |-> "rewrite_hs",
            restart |-> "restart_hs"]

\* What the caller of php_init() does with its outcome.
Finish(t, s, value) ==
    /\ result' = [result EXCEPT ![t] = value]
    /\ Unlock(s)
    /\ Goto(t, "done")
    /\ UNCHANGED slot
AfterInit(t, s, why, ready) ==
    \/ /\ why = "recover"
       /\ slot' = [slot EXCEPT ![t] = IF ready THEN s ELSE contended[t]]
       /\ Unlock(s)
       /\ Goto(t, "cmd")
       /\ UNCHANGED result
    \/ /\ why = "rewrite" /\ ready
       /\ Goto(t, "write")
       /\ UNCHANGED <<slot, lock, result>>
    \/ /\ why = "restart" \/ (why = "rewrite" /\ ~ready)
       /\ Finish(t, s, U)

\* php_close(): the old server is told to quit, killed if it stays, and its
\* pipes are closed with what is in them.
Close(s) == answers' = [answers EXCEPT ![s] = <<>>]

\* Then a new server is spawned on new pipes, or cannot be.
Spawn(t) ==
    LET s == slot[t] IN
    /\ pc[t] \in Initializing
    /\ spawns' = [spawns EXCEPT ![t] = @ + 1]
    /\ Close(s)
    /\ \/ /\ server' = [server EXCEPT ![s] = "alive"]
          /\ requests' = [requests EXCEPT ![s] = <<Boot>>]
          /\ Goto(t, Shaking[pc[t]])
          /\ UNCHANGED <<php_state, slot, lock, result, trouble>>
       \/ /\ server' = [server EXCEPT ![s] = "none"]
          /\ php_state' = [php_state EXCEPT ![s] = "BUSY"]
          /\ requests' = [requests EXCEPT ![s] = <<>>]
          /\ trouble' = TRUE
          /\ AfterInit(t, s, pc[t], FALSE)
    /\ UNCHANGED <<php_servers, scan, retries>>

Why(t) == CHOOSE w \in Initializing : Shaking[w] = pc[t]

\* php_read_result() of the handshake: a line, or nothing in time (or the end
\* of the pipe). Neither starts another server.
Handshake(t) ==
    LET s == slot[t] IN
    /\ pc[t] \in {Shaking[w] : w \in Initializing}
    /\ \/ /\ answers[s] # <<>>
          /\ answers' = [answers EXCEPT ![s] = Tail(@)]
          /\ LET ready == Head(answers[s]) = Started IN
             /\ php_state' = [php_state EXCEPT ![s] = IF ready THEN "READY" ELSE "BUSY"]
             /\ trouble' = (trouble \/ ~ready)
             /\ AfterInit(t, s, Why(t), ready)
       \/ /\ php_state' = [php_state EXCEPT ![s] = "BUSY"]
          /\ trouble' = TRUE
          /\ AfterInit(t, s, Why(t), FALSE)
          /\ UNCHANGED answers
    /\ UNCHANGED <<php_servers, server, requests, scan, retries, spawns>>

-----------------------------------------------------------------------------
(* php_cmd() *)

Command_unlocked(t) ==
    LET s == slot[t] IN
    /\ pc[t] = "cmd"
    /\ \/ /\ s = NoSlot
          /\ result' = [result EXCEPT ![t] = U]
          /\ Goto(t, "done")
          /\ UNCHANGED lock
       \/ /\ s # NoSlot
          /\ lock' = [lock EXCEPT ![s] = {t}]
          /\ Goto(t, "write")
          /\ UNCHANGED result
    /\ UNCHANGED <<pool, scan, slot, retries, history>>

\* No slot at all, or wait for the mutex of the slot.
Command(t) ==
    LET s == slot[t] IN
    /\ pc[t] = "cmd"
    /\ \/ /\ s = NoSlot
          /\ result' = [result EXCEPT ![t] = U]
          /\ Goto(t, "done")
          /\ UNCHANGED lock
       \/ /\ s # NoSlot /\ Free(s)
          /\ lock' = [lock EXCEPT ![s] = {t}]
          /\ Goto(t, "write")
          /\ UNCHANGED result
    /\ UNCHANGED <<pool, scan, slot, retries, history>>

\* Validate the slot and write the command. A failed write closes the server
\* and, within the budget, starts another.
Write(t) ==
    LET s == slot[t] IN
    /\ pc[t] = "write"
    /\ \/ /\ ~Usable(s)
          /\ Finish(t, s, U)
          /\ UNCHANGED <<requests, server, retries, trouble>>
       \/ /\ Usable(s) /\ server[s] = "alive"
          /\ requests' = [requests EXCEPT ![s] = Append(@, t)]
          /\ Goto(t, "read")
          /\ UNCHANGED <<server, retries, slot, lock, result, trouble>>
       \/ /\ Usable(s)
          /\ retries' = [retries EXCEPT ![t] = @ + 1]
          /\ server' = [server EXCEPT ![s] = "none"]
          /\ trouble' = TRUE
          /\ IF retries[t] + 1 < MaxWrites
             THEN Goto(t, "rewrite") /\ UNCHANGED <<slot, lock, result>>
             ELSE Finish(t, s, U)
          /\ UNCHANGED requests
    /\ UNCHANGED <<php_servers, php_state, answers, scan, spawns>>

\* A line is the result. Otherwise (timeout, partial or overlong line, end of
\* the pipe) php_fail_read() replaces the server.
Read_noRestart(t) ==
    LET s == slot[t] IN
    /\ pc[t] = "read"
    /\ \/ /\ answers[s] # <<>>
          /\ answers' = [answers EXCEPT ![s] = Tail(@)]
          /\ php_state' = [php_state EXCEPT ![s] = "READY"]
          /\ Finish(t, s, Head(answers[s]))
          /\ UNCHANGED trouble
       \/ /\ trouble' = TRUE
          /\ Finish(t, s, U)
          /\ UNCHANGED <<php_state, answers>>
    /\ UNCHANGED <<php_servers, server, requests, scan, retries, spawns>>

Read_noTimeout(t) ==
    LET s == slot[t] IN
    /\ pc[t] = "read"
    /\ \/ /\ answers[s] # <<>>
          /\ answers' = [answers EXCEPT ![s] = Tail(@)]
          /\ php_state' = [php_state EXCEPT ![s] = "READY"]
          /\ Finish(t, s, Head(answers[s]))
          /\ UNCHANGED trouble
       \/ /\ server[s] = "dead"
          /\ php_state' = [php_state EXCEPT ![s] = "BUSY"]
          /\ trouble' = TRUE
          /\ Goto(t, "restart")
          /\ UNCHANGED <<answers, slot, lock, result>>
    /\ UNCHANGED <<php_servers, server, requests, scan, retries, spawns>>

Read(t) ==
    LET s == slot[t] IN
    /\ pc[t] = "read"
    /\ \/ /\ answers[s] # <<>>
          /\ answers' = [answers EXCEPT ![s] = Tail(@)]
          /\ php_state' = [php_state EXCEPT ![s] = "READY"]
          /\ Finish(t, s, Head(answers[s]))
          /\ UNCHANGED trouble
       \/ /\ php_state' = [php_state EXCEPT ![s] = "BUSY"]
          /\ trouble' = TRUE
          /\ Goto(t, "restart")
          /\ UNCHANGED <<answers, slot, lock, result>>
    /\ UNCHANGED <<php_servers, server, requests, scan, retries, spawns>>

Thread(t) == \/ NextServer(t) \/ Scan(t) \/ AfterScan(t) \/ Spawn(t)
             \/ Handshake(t) \/ Command(t) \/ Write(t) \/ Read(t)

-----------------------------------------------------------------------------
(* The script server processes (external) *)

Answer(s) ==
    /\ server[s] = "alive" /\ requests[s] # <<>>
    /\ requests' = [requests EXCEPT ![s] = Tail(@)]
    /\ \E line \in IF Head(requests[s]) = Boot THEN {Started, Bad}
                                               ELSE {Head(requests[s])} :
          answers' = [answers EXCEPT ![s] = Append(@, line)]
    /\ UNCHANGED <<php_servers, php_state, server, lock, scan, pc, slot, retries, result, history>>

Die(s) ==
    /\ server[s] = "alive"
    /\ server' = [server EXCEPT ![s] = "dead"]
    /\ trouble' = TRUE
    /\ UNCHANGED <<php_servers, php_state, requests, answers, lock, scan, pc, slot, retries,
                   result, spawns>>

Done == (\A t \in Threads : pc[t] = "done") /\ UNCHANGED vars

Next == \/ \E t \in Threads : Thread(t)
        \/ \E s \in Slots : Answer(s) \/ Die(s)
        \/ Done

Spec == Init /\ [][Next]_vars

\* Threads are scheduled; servers owe nothing, since every read is bounded by
\* script_timeout.
FairSpec == Spec /\ \A t \in Threads : WF_vars(Thread(t))

-----------------------------------------------------------------------------
(* Properties *)

\* A request gets the answer to its own command or "U": an answer that arrives
\* after the timeout, or the greeting of a server that started late, is never
\* taken for the answer to a later command.
AnswerMatches == \A t \in Threads : result[t] \in {"", U, t}

\* The descriptors of a slot have one user: the threads that read, write,
\* close or start its server hold its mutex, alone.
SlotExclusive ==
    \A t \in Threads :
        pc[t] \notin {"idle", "scan", "cmd", "done"} => lock[slot[t]] = {t}

\* "instead of turning routine contention into an undefined data point": while
\* every server is healthy and answers in time, no request ends undefined or
\* starts a server. And whatever fails, "bounds the depth at one by construction":
\* a request starts at most four servers (one repair, two after failed writes, one
\* after a failed read).
HealthyNeverUndefined ==
    \A t \in Threads : /\ ~trouble => result[t] # U /\ spawns[t] = 0
                       /\ spawns[t] <= MaxWrites + 1

\* Every request ends, whatever the servers do.
RequestEnds == \A t \in Threads : <>(pc[t] = "done")
=============================================================================
