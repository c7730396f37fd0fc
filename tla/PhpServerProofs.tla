--------------------------- MODULE PhpServerProofs --------------------------
(***************************************************************************)
(* Proofs about PhpServer, for any number of threads and of script         *)
(* servers.                                                                *)
(***************************************************************************)
EXTENDS PhpServer, SequenceTheorems, TLAPS

HandshakeStates == {"recover_hs", "rewrite_hs", "restart_hs"}
Locked == Initializing \cup HandshakeStates \cup {"write", "read"}
InUse == 0..(php_servers - 1)

ThreadTypes ==
    /\ php_servers \in 1..MaxServers
    /\ pc \in [Threads -> Locked \cup {"idle", "scan", "cmd", "done"}]
    /\ start_candidate \in [Threads -> Nat] /\ cursor \in Nat
    /\ checked \in [Threads -> Nat]
    /\ contended \in [Threads -> InUse \cup {NoSlot}]
    /\ recovery \in [Threads -> InUse \cup {NoSlot}]
    /\ slot \in [Threads -> InUse \cup {NoSlot}]

CountTypes ==
    /\ retries \in [Threads -> Nat]
    /\ spawns \in [Threads -> Nat]

PoolTypes ==
    /\ php_state \in [Slots -> {"READY", "BUSY"}]
    /\ server \in [Slots -> {"none", "alive", "dead"}]
    /\ lock \in [Slots -> SUBSET Threads]
    /\ trouble \in BOOLEAN

PipeTypes ==
    /\ requests \in [Slots -> Seq(Threads \cup {Boot})]
    /\ answers \in [Slots -> Seq(Threads \cup {Started, Bad})]

\* A thread that uses the server of a slot holds the mutex of the slot.
LockInv ==
    \A t \in Threads : pc[t] \in Locked => slot[t] \in InUse /\ lock[slot[t]] = {t}

\* The scan remembers a slot unless it has looked at none.
ScanInv ==
    \A t \in Threads : /\ pc[t] = "idle" => checked[t] = 0
                       /\ pc[t] = "scan" /\ checked[t] > 0 =>
                             contended[t] # NoSlot \/ recovery[t] # NoSlot

\* What is in the pipes of a server: the one command that is being answered, the
\* greeting of a server that is starting, and nothing while a slot is READY and
\* nobody waits for a line.
Waits(t) == pc[t] \in HandshakeStates \cup {"read"}
Carries(s, request, lines) ==
    \/ requests[s] = <<request>> /\ answers[s] = <<>>
    \/ requests[s] = <<>> /\ \E line \in lines : answers[s] = <<line>>
ReadOK(t) == pc[t] = "read" => Carries(slot[t], t, {t})
ShakeOK(t) == pc[t] \in HandshakeStates => Carries(slot[t], Boot, {Started, Bad})
QuietOK(s) ==
    php_state[s] = "READY" /\ (\A t \in Threads : Waits(t) => slot[t] # s) =>
        requests[s] = <<>> /\ answers[s] = <<>>
PipeInv == /\ \A t \in Threads : ReadOK(t) /\ ShakeOK(t)
           /\ \A s \in Slots : QuietOK(s)

\* A request that ended has the answer to its own command, or none.
ResultType == result \in [Threads -> {"", U} \cup Threads]
ResultInv == ResultType /\ AnswerMatches

\* Servers started so far, by the place the request has come to.
SpawnInv ==
    \A t \in Threads :
        /\ pc[t] \in {"idle", "scan", "recover"} => spawns[t] = 0 /\ retries[t] = 0
        /\ pc[t] \in {"recover_hs", "cmd"} => spawns[t] <= 1 /\ retries[t] = 0
        /\ pc[t] \in {"write", "rewrite_hs", "read", "restart"} =>
              spawns[t] <= 1 + retries[t] /\ retries[t] < MaxWrites
        /\ pc[t] = "rewrite" => spawns[t] <= retries[t] /\ retries[t] < MaxWrites
        /\ pc[t] \in {"restart_hs", "done"} => spawns[t] <= MaxWrites + 1

\* Without trouble every server in use is READY and alive, and nobody has seen
\* or repaired a failed one.
SlotHealthy(s) == php_state[s] = "READY" /\ server[s] = "alive"
ThreadHealthy(t) == /\ recovery[t] = NoSlot /\ spawns[t] = 0
                    /\ pc[t] \notin Initializing \cup HandshakeStates
                    /\ pc[t] = "cmd" => slot[t] # NoSlot
                    /\ result[t] # U
HealthInv ==
    ~trouble => /\ \A s \in InUse : SlotHealthy(s)
                /\ \A t \in Threads : ThreadHealthy(t)

IInv == /\ ThreadTypes /\ CountTypes /\ PoolTypes /\ PipeTypes
        /\ LockInv /\ ScanInv /\ PipeInv /\ SpawnInv /\ HealthInv /\ ResultInv

-----------------------------------------------------------------------------
(* The operators *)

\* The step of php_init() that follows each start.
LEMMA Shakes == /\ Shaking["recover"] = "recover_hs"
                /\ Shaking["rewrite"] = "rewrite_hs"
                /\ Shaking["restart"] = "restart_hs"
BY Zenon DEF Shaking

\* php_init() returns to the caller that started the server.
LEMMA WhyIs ==
    ASSUME NEW t \in Threads
    PROVE  /\ pc[t] = "recover_hs" => Why(t) = "recover"
           /\ pc[t] = "rewrite_hs" => Why(t) = "rewrite"
           /\ pc[t] = "restart_hs" => Why(t) = "restart"
           /\ {Shaking[w] : w \in Initializing} = HandshakeStates
BY Zenon, Shakes DEF Why, Initializing, HandshakeStates

\* The candidate of php_get_process() is the index of a slot in use.
LEMMA ModRange == ASSUME NEW n \in Nat \ {0}, NEW k \in Nat PROVE k % n \in 0..(n - 1)
OBVIOUS

\* The servers in use are slots of the table.
LEMMA SlotsInUse == ASSUME ThreadTypes PROVE InUse \subseteq Slots /\ NoSlot \notin InUse
BY MaxServersAssumption DEF ThreadTypes, InUse, Slots, NoSlot

-----------------------------------------------------------------------------
(* Types *)

\* php_init(PHP_INIT) leaves every server READY, late or refused.
LEMMA InitInv == Init => IInv
<1> SUFFICES ASSUME Init PROVE IInv
  BY Zenon
<1>0. PICK boot \in [Slots -> Boots] :
        /\ php_servers \in 1..MaxServers
        /\ \/ /\ \A s \in Slots : boot[s] = "unused" <=> s >= php_servers
              /\ \E s \in Slots : boot[s] = "ready"
           \/ \A s \in Slots : boot[s] = "unused"
        /\ php_state = [s \in Slots |-> IF boot[s] = "ready" THEN "READY" ELSE "BUSY"]
        /\ server = [s \in Slots |-> IF boot[s] = "unused" THEN "none" ELSE "alive"]
        /\ requests = [s \in Slots |-> IF boot[s] = "late" THEN <<Boot>> ELSE <<>>]
        /\ answers = [s \in Slots |-> <<>>]
        /\ trouble = (\E s \in Slots : s < php_servers /\ boot[s] # "ready")
        /\ lock = [s \in Slots |-> {}]
        /\ cursor \in 0..php_servers
        /\ pc = [t \in Threads |-> "idle"]
        /\ start_candidate = [t \in Threads |-> 0]
        /\ checked = [t \in Threads |-> 0]
        /\ contended = [t \in Threads |-> NoSlot]
        /\ recovery = [t \in Threads |-> NoSlot]
        /\ slot = [t \in Threads |-> NoSlot]
        /\ retries = [t \in Threads |-> 0]
        /\ result = [t \in Threads |-> ""]
        /\ spawns = [t \in Threads |-> 0]
  BY Zenon DEF Init
<1>1. ThreadTypes
  <2>0. php_servers \in 1..MaxServers /\ cursor \in 0..php_servers
    BY <1>0, Zenon
  <2>1. php_servers \in 1..MaxServers /\ cursor \in Nat
    BY <2>0, MaxServersAssumption
  <2>2. /\ pc \in [Threads -> {"idle"}]
        /\ start_candidate \in [Threads -> {0}] /\ checked \in [Threads -> {0}]
        /\ contended \in [Threads -> {NoSlot}] /\ recovery \in [Threads -> {NoSlot}]
        /\ slot \in [Threads -> {NoSlot}]
    BY <1>0, Zenon
  <2> QED
    BY <2>1, <2>2 DEF ThreadTypes
<1>2. CountTypes
  BY <1>0, Zenon DEF CountTypes
<1>3. PoolTypes
  BY <1>0, Zenon DEF PoolTypes
<1>4. PipeTypes
  <2>1. answers \in [Slots -> {<<>>}] /\ requests \in [Slots -> {<<Boot>>, <<>>}]
    BY <1>0, Zenon
  <2>2. /\ <<>> \in Seq(Threads \cup {Started, Bad})
        /\ <<>> \in Seq(Threads \cup {Boot}) /\ <<Boot>> \in Seq(Threads \cup {Boot})
    OBVIOUS
  <2> QED
    BY <2>1, <2>2, Zenon DEF PipeTypes
<1>5. \A t \in Threads : pc[t] = "idle"
  BY <1>0, Zenon
<1>6. LockInv
  BY Zenon, <1>5 DEF LockInv, Locked, Initializing, HandshakeStates
<1>7. ScanInv /\ SpawnInv
  BY <1>0, Zenon DEF ScanInv, SpawnInv, HandshakeStates, MaxWrites
<1>8. PipeInv
  <2>1. ASSUME NEW s \in Slots PROVE QuietOK(s)
    BY <1>0, Zenon DEF QuietOK
  <2> QED
    BY Zenon, <1>5, <2>1 DEF PipeInv, ReadOK, ShakeOK, HandshakeStates
<1>9. HealthInv
  <2> SUFFICES ASSUME ~trouble PROVE HealthInv!2
    BY Zenon DEF HealthInv
  <2>1. \A t \in Threads : /\ recovery[t] = NoSlot /\ spawns[t] = 0 /\ pc[t] = "idle"
                           /\ result[t] = ""
    BY <1>0, Zenon
  <2>2. ASSUME NEW s \in InUse PROVE php_state[s] = "READY" /\ server[s] = "alive"
    <3>1. s \in Slots /\ s < php_servers
      BY <1>1, SlotsInUse DEF InUse, ThreadTypes
    <3>2. boot[s] = "ready"
      BY <1>0, <3>1, Zenon
    <3> QED
      BY <1>0, <3>1, <3>2, Zenon
  <2> QED
    BY <2>1, <2>2, Zenon DEF SlotHealthy, ThreadHealthy, Initializing, HandshakeStates, U
<1>10. ResultInv
  BY <1>0, Zenon DEF ResultInv, ResultType, AnswerMatches
<1> QED
  BY Zenon, <1>1, <1>2, <1>3, <1>4, <1>6, <1>7, <1>8, <1>9, <1>10 DEF IInv

\* The scan and the slots of the threads stay within the servers in use.
LEMMA ThreadTypesStep == IInv /\ [Next]_vars => ThreadTypes'
<1> SUFFICES ASSUME ThreadTypes, [Next]_vars PROVE ThreadTypes'
  BY Zenon DEF IInv
<1> USE DEF ThreadTypes, InUse, Locked, Initializing, HandshakeStates, Goto
<1>1. ASSUME NEW t \in Threads, NextServer(t) PROVE ThreadTypes'
  BY <1>1 DEF NextServer, pool, history
<1>2. ASSUME NEW t \in Threads, Scan(t) PROVE ThreadTypes'
  <2> DEFINE candidate == (start_candidate[t] + checked[t]) % php_servers
  <2>1. candidate \in InUse
    BY ModRange, MaxServersAssumption
  <2> HIDE DEF candidate
  <2> QED
    BY <1>2, <2>1 DEF Scan, OrElse, pool, history, candidate
<1>3. ASSUME NEW t \in Threads, AfterScan(t) PROVE ThreadTypes'
  BY Zenon, <1>3 DEF AfterScan, pool, scan, history
<1>4. ASSUME NEW t \in Threads, Spawn(t) PROVE ThreadTypes'
  <2>1. CASE pc' = [pc EXCEPT ![t] = Shaking[pc[t]]] /\ UNCHANGED slot
    BY Zenon, <1>4, <2>1, Shakes DEF Spawn, scan
  <2>2. CASE AfterInit(t, slot[t], pc[t], FALSE)
    BY <1>4, <2>2, Zenon DEF Spawn, AfterInit, Finish, scan
  <2> QED
    BY <1>4, <2>1, <2>2, Zenon DEF Spawn
<1>5. ASSUME NEW t \in Threads, Handshake(t) PROVE ThreadTypes'
  BY <1>5, Zenon DEF Handshake, AfterInit, Finish, scan
<1>6. ASSUME NEW t \in Threads, Command(t) PROVE ThreadTypes'
  BY Zenon, <1>6 DEF Command, pool, scan, history
<1>7. ASSUME NEW t \in Threads, Write(t) PROVE ThreadTypes'
  BY <1>7, Zenon DEF Write, Finish, scan
<1>8. ASSUME NEW t \in Threads, Read(t) PROVE ThreadTypes'
  BY <1>8, Zenon DEF Read, Finish, scan
<1>9. ASSUME NEW s, Answer(s) \/ Die(s) PROVE ThreadTypes'
  BY Zenon, <1>9 DEF Answer, Die, scan
<1>10. CASE UNCHANGED vars
  BY Zenon, <1>10 DEF vars, pool, scan
<1> QED
  BY Zenon, <1>1, <1>2, <1>3, <1>4, <1>5, <1>6, <1>7, <1>8, <1>9, <1>10 DEF Next, Thread, Done

\* The counters of a request stay numbers, whatever php_cmd() retries.
LEMMA CountTypesStep == IInv /\ [Next]_vars => CountTypes'
<1> SUFFICES ASSUME CountTypes, [Next]_vars PROVE CountTypes'
  BY Zenon DEF IInv
<1> USE DEF CountTypes, Goto
<1>1. ASSUME NEW t \in Threads, NextServer(t) PROVE CountTypes'
  BY Zenon, <1>1 DEF NextServer, pool, history
<1>2. ASSUME NEW t \in Threads, Scan(t) PROVE CountTypes'
  BY Zenon, <1>2 DEF Scan, OrElse, pool, history
<1>3. ASSUME NEW t \in Threads, AfterScan(t) PROVE CountTypes'
  BY Zenon, <1>3 DEF AfterScan, pool, scan, history
<1>4. ASSUME NEW t \in Threads, Spawn(t) PROVE CountTypes'
  BY <1>4, Shakes DEF Spawn, AfterInit, Finish, Close, Unlock, scan
<1>5. ASSUME NEW t \in Threads, Handshake(t) PROVE CountTypes'
  BY Zenon, <1>5, WhyIs DEF Handshake, AfterInit, Finish, Unlock, scan
<1>6. ASSUME NEW t \in Threads, Command(t) PROVE CountTypes'
  BY Zenon, <1>6 DEF Command, pool, scan, history
<1>7. ASSUME NEW t \in Threads, Write(t) PROVE CountTypes'
  BY <1>7 DEF Write, Finish, Unlock, scan
<1>8. ASSUME NEW t \in Threads, Read(t) PROVE CountTypes'
  BY Zenon, <1>8 DEF Read, Finish, Unlock, scan
<1>9. ASSUME NEW s \in Slots, Answer(s) PROVE CountTypes'
  BY Zenon, <1>9 DEF Answer, scan, history
<1>10. ASSUME NEW s \in Slots, Die(s) PROVE CountTypes'
  BY Zenon, <1>10 DEF Die, scan
<1>11. CASE UNCHANGED vars
  BY Zenon, <1>11 DEF vars, pool, scan, history
<1> QED
  BY Zenon, <1>1, <1>2, <1>3, <1>4, <1>5, <1>6, <1>7, <1>8, <1>9, <1>10, <1>11
     DEF Next, Thread, Done

\* The table of servers keeps its type.
LEMMA PoolTypesStep == IInv /\ [Next]_vars => PoolTypes'
<1> SUFFICES ASSUME PoolTypes, [Next]_vars PROVE PoolTypes'
  BY Zenon DEF IInv
<1> USE DEF PoolTypes, Goto
<1>1. ASSUME NEW t \in Threads, NextServer(t) PROVE PoolTypes'
  BY Zenon, <1>1 DEF NextServer, pool, history
<1>2. ASSUME NEW t \in Threads, Scan(t) PROVE PoolTypes'
  BY Zenon, <1>2 DEF Scan, OrElse, pool, history
<1>3. ASSUME NEW t \in Threads, AfterScan(t) PROVE PoolTypes'
  BY <1>3 DEF AfterScan, pool, scan, history
<1>4. ASSUME NEW t \in Threads, Spawn(t) PROVE PoolTypes'
  BY <1>4, Shakes, Zenon DEF Spawn, AfterInit, Finish, Close, Unlock, scan
<1>5. ASSUME NEW t \in Threads, Handshake(t) PROVE PoolTypes'
  BY <1>5, WhyIs, Zenon DEF Handshake, AfterInit, Finish, Unlock, scan
<1>6. ASSUME NEW t \in Threads, Command(t) PROVE PoolTypes'
  BY <1>6 DEF Command, pool, scan, history
<1>7. ASSUME NEW t \in Threads, Write(t) PROVE PoolTypes'
  BY <1>7, Zenon DEF Write, Finish, Unlock, scan
<1>8. ASSUME NEW t \in Threads, Read(t) PROVE PoolTypes'
  BY <1>8, Zenon DEF Read, Finish, Unlock, scan
<1>9. ASSUME NEW s \in Slots, Answer(s) PROVE PoolTypes'
  BY Zenon, <1>9 DEF Answer, scan, history
<1>10. ASSUME NEW s \in Slots, Die(s) PROVE PoolTypes'
  BY Zenon, <1>10 DEF Die, scan
<1>11. CASE UNCHANGED vars
  BY Zenon, <1>11 DEF vars, pool, scan, history
<1> QED
  BY Zenon, <1>1, <1>2, <1>3, <1>4, <1>5, <1>6, <1>7, <1>8, <1>9, <1>10, <1>11
     DEF Next, Thread, Done

\* The pipes carry commands and lines only.
LEMMA PipeTypesStep == IInv /\ [Next]_vars => PipeTypes'
<1> SUFFICES ASSUME PipeTypes, [Next]_vars PROVE PipeTypes'
  BY Zenon DEF IInv
<1> USE DEF PipeTypes, Goto
<1>1. ASSUME NEW t \in Threads, NextServer(t) PROVE PipeTypes'
  BY Zenon, <1>1 DEF NextServer, pool, history
<1>2. ASSUME NEW t \in Threads, Scan(t) PROVE PipeTypes'
  BY Zenon, <1>2 DEF Scan, OrElse, pool, history
<1>3. ASSUME NEW t \in Threads, AfterScan(t) PROVE PipeTypes'
  BY Zenon, <1>3 DEF AfterScan, pool, scan, history
<1>4. ASSUME NEW t \in Threads, Spawn(t) PROVE PipeTypes'
  <2>1. /\ <<>> \in Seq(Threads \cup {Started, Bad})
        /\ <<>> \in Seq(Threads \cup {Boot}) /\ <<Boot>> \in Seq(Threads \cup {Boot})
    OBVIOUS
  <2>2. /\ answers' = [answers EXCEPT ![slot[t]] = <<>>]
        /\ \/ requests' = [requests EXCEPT ![slot[t]] = <<Boot>>]
           \/ requests' = [requests EXCEPT ![slot[t]] = <<>>]
    BY <1>4, Zenon DEF Spawn, Close
  <2> QED
    BY <2>1, <2>2, Zenon
<1>5. ASSUME NEW t \in Threads, Handshake(t) PROVE PipeTypes'
  <2>1. requests' = requests
    BY Zenon, <1>5 DEF Handshake
  <2>2. \/ answers' = answers
        \/ /\ answers[slot[t]] # <<>>
           /\ answers' = [answers EXCEPT ![slot[t]] = Tail(answers[slot[t]])]
    BY <1>5, Zenon DEF Handshake
  <2>3. slot[t] \in Slots /\ answers[slot[t]] # <<>> =>
          Tail(answers[slot[t]]) \in Seq(Threads \cup {Started, Bad})
    OBVIOUS
  <2> QED
    BY <2>1, <2>2, <2>3, Zenon
<1>6. ASSUME NEW t \in Threads, Command(t) PROVE PipeTypes'
  BY Zenon, <1>6 DEF Command, pool, scan, history
<1>7. ASSUME NEW t \in Threads, Write(t) PROVE PipeTypes'
  <2>1. answers' = answers
    BY Zenon, <1>7 DEF Write
  <2>2. \/ requests' = requests
        \/ requests' = [requests EXCEPT ![slot[t]] = Append(requests[slot[t]], t)]
    BY Zenon, <1>7 DEF Write
  <2>3. slot[t] \in Slots => Append(requests[slot[t]], t) \in Seq(Threads \cup {Boot})
    OBVIOUS
  <2> QED
    BY <2>1, <2>2, <2>3, Zenon
<1>8. ASSUME NEW t \in Threads, Read(t) PROVE PipeTypes'
  <2>1. requests' = requests
    BY Zenon, <1>8 DEF Read
  <2>2. \/ answers' = answers
        \/ /\ answers[slot[t]] # <<>>
           /\ answers' = [answers EXCEPT ![slot[t]] = Tail(answers[slot[t]])]
    BY Zenon, <1>8 DEF Read
  <2>3. slot[t] \in Slots /\ answers[slot[t]] # <<>> =>
          Tail(answers[slot[t]]) \in Seq(Threads \cup {Started, Bad})
    OBVIOUS
  <2> QED
    BY <2>1, <2>2, <2>3, Zenon
<1>9. ASSUME NEW s \in Slots, Answer(s) PROVE PipeTypes'
  BY <1>9 DEF Answer, scan, history
<1>10. ASSUME NEW s \in Slots, Die(s) PROVE PipeTypes'
  BY Zenon, <1>10 DEF Die, scan
<1>11. CASE UNCHANGED vars
  BY Zenon, <1>11 DEF vars, pool, scan, history
<1> QED
  BY Zenon, <1>1, <1>2, <1>3, <1>4, <1>5, <1>6, <1>7, <1>8, <1>9, <1>10, <1>11
     DEF Next, Thread, Done

\* php_get_process() remembers a slot for every slot it has looked at in vain.
LEMMA ScanStep == IInv /\ [Next]_vars => ScanInv'
<1> SUFFICES ASSUME ThreadTypes, ScanInv, [Next]_vars PROVE ScanInv'
  BY Zenon DEF IInv
<1> USE DEF ThreadTypes, ScanInv, Locked, Initializing, HandshakeStates, Goto, NoSlot
<1>1. ASSUME NEW t \in Threads, NextServer(t) PROVE ScanInv'
  BY <1>1 DEF NextServer, pool, history
<1>2. ASSUME NEW t \in Threads, Scan(t) PROVE ScanInv'
  BY <1>2 DEF Scan, OrElse, pool, history
<1>3. ASSUME NEW t \in Threads, AfterScan(t) PROVE ScanInv'
  BY Zenon, <1>3 DEF AfterScan, pool, scan, history
<1>4. ASSUME NEW t \in Threads, Spawn(t) PROVE ScanInv'
  BY <1>4, Shakes DEF Spawn, AfterInit, Finish, Close, Unlock, scan
<1>5. ASSUME NEW t \in Threads, Handshake(t) PROVE ScanInv'
  BY ZenonT(60), <1>5, WhyIs DEF Handshake, AfterInit, Finish, Unlock, scan
<1>6. ASSUME NEW t \in Threads, Command(t) PROVE ScanInv'
  BY Zenon, <1>6 DEF Command, pool, scan, history
<1>7. ASSUME NEW t \in Threads, Write(t) PROVE ScanInv'
  BY Zenon, <1>7 DEF Write, Finish, Unlock, scan
<1>8. ASSUME NEW t \in Threads, Read(t) PROVE ScanInv'
  BY Zenon, <1>8 DEF Read, Finish, Unlock, scan
<1>9. ASSUME NEW s \in Slots, Answer(s) PROVE ScanInv'
  BY Zenon, <1>9 DEF Answer, scan, history
<1>10. ASSUME NEW s \in Slots, Die(s) PROVE ScanInv'
  BY Zenon, <1>10 DEF Die, scan
<1>11. CASE UNCHANGED vars
  BY Zenon, <1>11 DEF vars, pool, scan, history
<1> QED
  BY Zenon, <1>1, <1>2, <1>3, <1>4, <1>5, <1>6, <1>7, <1>8, <1>9, <1>10, <1>11
     DEF Next, Thread, Done

\* php_cmd() and php_fail_read() start the servers they may, and no more.
LEMMA SpawnStep == IInv /\ [Next]_vars => SpawnInv'
<1> SUFFICES ASSUME ThreadTypes, CountTypes, SpawnInv, [Next]_vars
             PROVE  SpawnInv'
  BY Zenon DEF IInv
<1> USE DEF ThreadTypes, CountTypes, SpawnInv, Locked, Initializing, HandshakeStates,
             Goto, MaxWrites
<1>1. ASSUME NEW t \in Threads, NextServer(t) PROVE SpawnInv'
  BY Zenon, <1>1 DEF NextServer, pool, history
<1>2. ASSUME NEW t \in Threads, Scan(t) PROVE SpawnInv'
  BY <1>2 DEF Scan, OrElse, pool, history
<1>3. ASSUME NEW t \in Threads, AfterScan(t) PROVE SpawnInv'
  BY <1>3 DEF AfterScan, pool, scan, history
<1>4. ASSUME NEW t \in Threads, Spawn(t) PROVE SpawnInv'
  BY SMTT(60), <1>4, Shakes DEF Spawn, AfterInit, Finish, Close, Unlock, scan
<1>5. ASSUME NEW t \in Threads, Handshake(t) PROVE SpawnInv'
  <2>1. spawns' = spawns /\ retries' = retries
    BY Zenon, <1>5 DEF Handshake
  <2>2. /\ pc[t] \in HandshakeStates
        /\ \E ready \in BOOLEAN : AfterInit(t, slot[t], Why(t), ready)
    BY <1>5, WhyIs, Zenon DEF Handshake
  <2>3. \/ pc[t] = "recover_hs" /\ pc' = [pc EXCEPT ![t] = "cmd"]
        \/ pc[t] = "rewrite_hs" /\ pc' = [pc EXCEPT ![t] = "write"]
        \/ pc[t] \in {"rewrite_hs", "restart_hs"} /\ pc' = [pc EXCEPT ![t] = "done"]
    BY Zenon, <2>2, WhyIs DEF AfterInit, Finish
  <2> QED
    BY <2>1, <2>3
<1>6. ASSUME NEW t \in Threads, Command(t) PROVE SpawnInv'
  BY <1>6 DEF Command, pool, scan, history
<1>7. ASSUME NEW t \in Threads, Write(t) PROVE SpawnInv'
  BY <1>7 DEF Write, Finish, Unlock, scan
<1>8. ASSUME NEW t \in Threads, Read(t) PROVE SpawnInv'
  BY <1>8 DEF Read, Finish, Unlock, scan
<1>9. ASSUME NEW s \in Slots, Answer(s) PROVE SpawnInv'
  BY Zenon, <1>9 DEF Answer, scan, history
<1>10. ASSUME NEW s \in Slots, Die(s) PROVE SpawnInv'
  BY Zenon, <1>10 DEF Die, scan
<1>11. CASE UNCHANGED vars
  BY Zenon, <1>11 DEF vars, pool, scan, history
<1> QED
  BY Zenon, <1>1, <1>2, <1>3, <1>4, <1>5, <1>6, <1>7, <1>8, <1>9, <1>10, <1>11
     DEF Next, Thread, Done

-----------------------------------------------------------------------------
(* The mutexes of the slots *)

\* A thread that keeps its mutex and its slot.
LEMMA HoldKeeps ==
    ASSUME ThreadTypes, LockInv, NEW t \in Threads, NEW n, pc[t] \in Locked,
           pc' = [pc EXCEPT ![t] = n], UNCHANGED <<php_servers, slot, lock>>
    PROVE  LockInv'
BY Zenon DEF ThreadTypes, LockInv, InUse

\* A thread that gives its mutex back.
LEMMA ReleaseKeeps ==
    ASSUME ThreadTypes, LockInv, lock \in [Slots -> SUBSET Threads],
           NEW t \in Threads, NEW n, pc[t] \in Locked, n \notin Locked,
           pc' = [pc EXCEPT ![t] = n], lock' = [lock EXCEPT ![slot[t]] = {}],
           \A u \in Threads : u # t => slot'[u] = slot[u], UNCHANGED php_servers
    PROVE  LockInv'
<1>1. \A u \in Threads : u # t => pc'[u] = pc[u]
  BY Zenon DEF ThreadTypes
<1>2. \A u \in Threads : u # t /\ pc[u] \in Locked => slot[u] # slot[t]
  BY Zenon DEF LockInv
<1>3. \A u \in Threads : u # t /\ pc[u] \in Locked =>
          slot[u] \in InUse /\ lock'[slot[u]] = {u}
  BY Zenon, <1>2, SlotsInUse DEF LockInv
<1>4. pc'[t] \notin Locked
  BY Zenon DEF ThreadTypes
<1> QED
  BY Zenon, <1>1, <1>3, <1>4 DEF LockInv, InUse

\* A thread that takes a free mutex.
LEMMA TakeKeeps ==
    ASSUME ThreadTypes, LockInv, lock \in [Slots -> SUBSET Threads],
           NEW t \in Threads, NEW n, NEW s \in InUse, Free(s),
           pc' = [pc EXCEPT ![t] = n], lock' = [lock EXCEPT ![s] = {t}],
           slot' = [slot EXCEPT ![t] = s], UNCHANGED php_servers
    PROVE  LockInv'
<1>1. \A u \in Threads : u # t => pc'[u] = pc[u] /\ slot'[u] = slot[u]
  BY Zenon DEF ThreadTypes
<1>2. \A u \in Threads : u # t /\ pc[u] \in Locked =>
          slot[u] \in InUse /\ slot[u] # s /\ lock'[slot[u]] = {u}
  BY Zenon, SlotsInUse DEF LockInv, Free
<1>3. slot'[t] = s /\ lock'[s] = {t}
  BY Zenon, SlotsInUse DEF ThreadTypes
<1> QED
  BY Zenon, <1>1, <1>2, <1>3 DEF LockInv, InUse

\* php_init() returns with the mutex, or its caller gives the mutex back.
LEMMA AfterInitKeeps ==
    ASSUME ThreadTypes, LockInv, lock \in [Slots -> SUBSET Threads],
           NEW t \in Threads, pc[t] \in Locked, UNCHANGED php_servers,
           NEW why, NEW ready, AfterInit(t, slot[t], why, ready)
    PROVE  LockInv'
<1>1. CASE Goto(t, "write") /\ UNCHANGED <<slot, lock>>
  BY <1>1, HoldKeeps, Zenon DEF Goto
<1>2. CASE /\ \/ Goto(t, "cmd") \/ Goto(t, "done")
           /\ Unlock(slot[t]) /\ \A u \in Threads : u # t => slot'[u] = slot[u]
  <2>1. {"cmd", "done"} \cap Locked = {}
    BY Zenon DEF Locked, Initializing, HandshakeStates
  <2> QED
    BY <1>2, <2>1, ReleaseKeeps, Zenon DEF Goto, Unlock
<1>3. \A u \in Threads : u # t => \A v : [slot EXCEPT ![t] = v][u] = slot[u]
  BY Zenon DEF ThreadTypes
<1> QED
  BY <1>1, <1>2, <1>3, Zenon DEF AfterInit, Finish

\* Every step takes and gives back the mutex of one slot, its own.
LEMMA LockStep == IInv /\ [Next]_vars => LockInv'
<1> SUFFICES ASSUME ThreadTypes, LockInv, lock \in [Slots -> SUBSET Threads], [Next]_vars
             PROVE  LockInv'
  BY Zenon DEF IInv, PoolTypes
<1>1. ASSUME NEW t \in Threads, NextServer(t) PROVE LockInv'
  BY Zenon, <1>1 DEF NextServer, pool, ThreadTypes, LockInv, Locked, Initializing,
                HandshakeStates, InUse, Goto
<1>2. ASSUME NEW t \in Threads, Scan(t) PROVE LockInv'
  <2>1. /\ pc[t] = "scan" /\ UNCHANGED <<php_servers, lock>>
        /\ pc' = pc \/ pc' = [pc EXCEPT ![t] = "cmd"]
        /\ \A u \in Threads : u # t => slot'[u] = slot[u]
    BY Zenon, <1>2 DEF Scan, pool, Goto, ThreadTypes
  <2> QED
    BY <2>1 DEF ThreadTypes, LockInv, Locked, Initializing, HandshakeStates, InUse
<1>3. ASSUME NEW t \in Threads, AfterScan(t) PROVE LockInv'
  <2>1. CASE /\ pc' = [pc EXCEPT ![t] = "cmd"] /\ UNCHANGED lock
             /\ \A u \in Threads : u # t => slot'[u] = slot[u]
    BY Zenon, <1>3, <2>1 DEF AfterScan, pool, ThreadTypes, LockInv, Locked, Initializing,
                     HandshakeStates, InUse
  <2>2. CASE /\ recovery[t] # NoSlot /\ Free(recovery[t])
             /\ slot' = [slot EXCEPT ![t] = recovery[t]]
             /\ lock' = [lock EXCEPT ![recovery[t]] = {t}]
             /\ pc' = [pc EXCEPT ![t] = "recover"]
    <3>1. recovery[t] \in InUse /\ UNCHANGED php_servers
      BY Zenon, <1>3, <2>2 DEF AfterScan, pool, ThreadTypes
    <3> QED
      BY <2>2, <3>1, TakeKeeps, Zenon
  <2> QED
    BY Zenon, <1>3, <2>1, <2>2 DEF AfterScan, Goto, ThreadTypes
<1>4. ASSUME NEW t \in Threads, Spawn(t) PROVE LockInv'
  <2>1. pc[t] \in Locked /\ UNCHANGED php_servers
    BY Zenon, <1>4 DEF Spawn, Locked
  <2>2. CASE (\E n : Goto(t, n)) /\ UNCHANGED <<slot, lock>>
    BY <2>1, <2>2, HoldKeeps, Zenon DEF Goto
  <2>3. CASE AfterInit(t, slot[t], pc[t], FALSE)
    BY <2>1, <2>3, AfterInitKeeps, Zenon
  <2> QED
    BY <1>4, <2>2, <2>3, Zenon DEF Spawn
<1>5. ASSUME NEW t \in Threads, Handshake(t) PROVE LockInv'
  <2>1. pc[t] \in Locked /\ UNCHANGED php_servers
    BY Zenon, <1>5, WhyIs DEF Handshake, Locked
  <2>2. \E ready : AfterInit(t, slot[t], Why(t), ready)
    BY <1>5, Zenon DEF Handshake
  <2> QED
    BY Zenon, <2>1, <2>2, AfterInitKeeps
<1>6. ASSUME NEW t \in Threads, Command(t) PROVE LockInv'
  <2>1. CASE pc' = [pc EXCEPT ![t] = "done"] /\ UNCHANGED lock
    BY Zenon, <1>6, <2>1 DEF Command, pool, ThreadTypes, LockInv, Locked, Initializing,
                     HandshakeStates, InUse
  <2>2. CASE /\ slot[t] # NoSlot /\ Free(slot[t])
             /\ lock' = [lock EXCEPT ![slot[t]] = {t}]
             /\ pc' = [pc EXCEPT ![t] = "write"]
    <3>1. slot[t] \in InUse /\ UNCHANGED php_servers /\ slot' = [slot EXCEPT ![t] = slot[t]]
      BY Zenon, <1>6, <2>2 DEF Command, pool, ThreadTypes
    <3> QED
      BY <2>2, <3>1, TakeKeeps, Zenon
  <2> QED
    BY Zenon, <1>6, <2>1, <2>2 DEF Command, Goto
<1>7. ASSUME NEW t \in Threads, Write(t) PROVE LockInv'
  <2>1. pc[t] \in Locked /\ UNCHANGED php_servers
    BY Zenon, <1>7 DEF Write, Locked
  <2>2. CASE \E value : Finish(t, slot[t], value)
    BY <2>1, <2>2, ReleaseKeeps, Zenon DEF Finish, Unlock, Goto, Locked, Initializing,
       HandshakeStates
  <2>3. CASE (\E n : Goto(t, n)) /\ UNCHANGED <<slot, lock>>
    BY <2>1, <2>3, HoldKeeps, Zenon DEF Goto
  <2> QED
    BY Zenon, <1>7, <2>2, <2>3 DEF Write
<1>8. ASSUME NEW t \in Threads, Read(t) PROVE LockInv'
  <2>1. pc[t] \in Locked /\ UNCHANGED php_servers
    BY Zenon, <1>8 DEF Read, Locked
  <2>2. CASE \E value : Finish(t, slot[t], value)
    BY <2>1, <2>2, ReleaseKeeps, Zenon DEF Finish, Unlock, Goto, Locked, Initializing,
       HandshakeStates
  <2>3. CASE (\E n : Goto(t, n)) /\ UNCHANGED <<slot, lock>>
    BY <2>1, <2>3, HoldKeeps, Zenon DEF Goto
  <2> QED
    BY Zenon, <1>8, <2>2, <2>3 DEF Read
<1>9. ASSUME NEW s \in Slots, Answer(s) PROVE LockInv'
  BY Zenon, <1>9 DEF Answer, LockInv, InUse
<1>10. ASSUME NEW s \in Slots, Die(s) PROVE LockInv'
  BY Zenon, <1>10 DEF Die, LockInv, InUse
<1>11. CASE UNCHANGED vars
  BY Zenon, <1>11 DEF vars, pool, LockInv, InUse
<1> QED
  BY Zenon, <1>1, <1>2, <1>3, <1>4, <1>5, <1>6, <1>7, <1>8, <1>9, <1>10, <1>11
     DEF Next, Thread, Done

-----------------------------------------------------------------------------
(* The pipes *)

\* A step of a thread that neither waited for a line nor waits for one leaves the
\* pipes as they are.
LEMMA NoWaitKeeps ==
    ASSUME PipeInv, NEW t \in Threads, ~Waits(t), ~Waits(t)',
           UNCHANGED <<requests, answers, php_state>>,
           \A u \in Threads : u # t => pc'[u] = pc[u] /\ slot'[u] = slot[u]
    PROVE  PipeInv'
<1>1. ASSUME NEW u \in Threads PROVE (ReadOK(u) /\ ShakeOK(u))'
  BY Zenon DEF PipeInv, ReadOK, ShakeOK, Carries, Waits, HandshakeStates
<1>2. ASSUME NEW s \in Slots PROVE QuietOK(s)'
  BY Zenon DEF PipeInv, QuietOK, Waits, HandshakeStates
<1> QED
  BY Zenon, <1>1, <1>2 DEF PipeInv

\* A step of the thread that holds the mutex of a slot disturbs the pipes of that
\* slot only.
LEMMA HolderKeeps ==
    ASSUME ThreadTypes, LockInv, PipeInv, NEW t \in Threads, pc[t] \in Locked,
           \A q \in Slots : q # slot[t] => /\ requests'[q] = requests[q]
                                           /\ answers'[q] = answers[q]
                                           /\ php_state'[q] = php_state[q],
           \A u \in Threads : u # t => pc'[u] = pc[u] /\ slot'[u] = slot[u],
           Waits(t)' => slot'[t] = slot[t]
    PROVE  /\ \A u \in Threads : u # t => (ReadOK(u) /\ ShakeOK(u))'
           /\ \A q \in Slots : q # slot[t] => QuietOK(q)'
<1>1. ASSUME NEW u \in Threads, u # t, Waits(u) PROVE slot[u] \in Slots /\ slot[u] # slot[t]
  BY <1>1, SlotsInUse DEF LockInv, Waits, Locked
<1>2. ASSUME NEW u \in Threads, u # t PROVE (ReadOK(u) /\ ShakeOK(u))'
  <2>1. CASE Waits(u)
    <3>1. /\ pc'[u] = pc[u] /\ slot'[u] = slot[u]
          /\ requests'[slot[u]] = requests[slot[u]] /\ answers'[slot[u]] = answers[slot[u]]
      BY Zenon, <1>1, <1>2, <2>1
    <3> QED
      BY <3>1, ZenonT(60) DEF PipeInv, ReadOK, ShakeOK, Carries
  <2>2. CASE ~Waits(u)
    BY Zenon, <1>2, <2>2 DEF ReadOK, ShakeOK, Waits
  <2> QED
    BY Zenon, <2>1, <2>2
<1>3. ASSUME NEW q \in Slots, q # slot[t] PROVE QuietOK(q)'
  BY Zenon, <1>3 DEF PipeInv, QuietOK, Waits
<1> QED
  BY Zenon, <1>2, <1>3

\* The only line of a pipe is its head; nothing is left behind it.
LEMMA TailOfOne == ASSUME NEW x PROVE Tail(<<x>>) = <<>> /\ Head(<<x>>) = x
<1>1. <<x>> \in Seq({x}) /\ Len(<<x>>) = 1
  OBVIOUS
<1> QED
  BY <1>1, HeadTailProperties, EmptySeq

\* Who reads a line finds its own command answered: nothing is left in the pipes
\* of a slot that php_cmd() finds READY.
LEMMA PipeStep == IInv /\ [Next]_vars => PipeInv'
<1> SUFFICES ASSUME ThreadTypes, PoolTypes, PipeTypes, LockInv, PipeInv, [Next]_vars
             PROVE  PipeInv'
  BY Zenon DEF IInv
<1>1. ASSUME NEW t \in Threads, NextServer(t) PROVE PipeInv'
  <2>1. /\ ~Waits(t) /\ ~Waits(t)' /\ UNCHANGED <<requests, answers, php_state>>
        /\ \A u \in Threads : u # t => pc'[u] = pc[u] /\ slot'[u] = slot[u]
    BY Zenon, <1>1 DEF NextServer, pool, Goto, ThreadTypes, Waits, HandshakeStates
  <2> QED
    BY Zenon, <2>1, NoWaitKeeps
<1>2. ASSUME NEW t \in Threads, Scan(t) PROVE PipeInv'
  <2>1. /\ ~Waits(t) /\ ~Waits(t)' /\ UNCHANGED <<requests, answers, php_state>>
        /\ \A u \in Threads : u # t => pc'[u] = pc[u] /\ slot'[u] = slot[u]
    BY Zenon, <1>2 DEF Scan, pool, Goto, ThreadTypes, Waits, HandshakeStates
  <2> QED
    BY Zenon, <2>1, NoWaitKeeps
<1>3. ASSUME NEW t \in Threads, AfterScan(t) PROVE PipeInv'
  <2>1. /\ ~Waits(t) /\ ~Waits(t)' /\ UNCHANGED <<requests, answers, php_state>>
        /\ \A u \in Threads : u # t => pc'[u] = pc[u] /\ slot'[u] = slot[u]
    BY Zenon, <1>3 DEF AfterScan, pool, Goto, ThreadTypes, Waits, HandshakeStates
  <2> QED
    BY Zenon, <2>1, NoWaitKeeps
<1>4. ASSUME NEW t \in Threads, Spawn(t) PROVE PipeInv'
  <2>1. PICK s \in Slots : s = slot[t] /\ pc[t] \in Initializing /\ pc[t] \in Locked
    BY Zenon, <1>4, SlotsInUse DEF Spawn, LockInv, Locked
  <2>2. /\ answers' = [answers EXCEPT ![s] = <<>>]
        /\ \/ /\ requests' = [requests EXCEPT ![s] = <<Boot>>] /\ php_state' = php_state
              /\ slot' = slot /\ pc' = [pc EXCEPT ![t] = Shaking[pc[t]]]
           \/ /\ php_state' = [php_state EXCEPT ![s] = "BUSY"]
              /\ requests' = [requests EXCEPT ![s] = <<>>]
              /\ AfterInit(t, s, pc[t], FALSE)
    BY <1>4, <2>1, Zenon DEF Spawn, Close, Goto
  <2>3. /\ \A q \in Slots : q # s => /\ requests'[q] = requests[q]
                                     /\ answers'[q] = answers[q]
                                     /\ php_state'[q] = php_state[q]
        /\ answers'[s] = <<>>
    BY <2>2, Zenon DEF PipeTypes, PoolTypes
  <2>4. CASE /\ requests' = [requests EXCEPT ![s] = <<Boot>>] /\ slot' = slot
             /\ pc' = [pc EXCEPT ![t] = Shaking[pc[t]]]
    <3>1. /\ pc'[t] \in HandshakeStates /\ requests'[s] = <<Boot>>
          /\ \A u \in Threads : u # t => pc'[u] = pc[u]
      BY Zenon, <2>1, <2>4, Shakes DEF ThreadTypes, PipeTypes, Initializing, HandshakeStates
    <3>2. /\ \A u \in Threads : u # t => (ReadOK(u) /\ ShakeOK(u))'
          /\ \A q \in Slots : q # s => QuietOK(q)'
      BY Zenon, <2>1, <2>3, <2>4, <3>1, HolderKeeps
    <3>3. (ReadOK(t) /\ ShakeOK(t) /\ QuietOK(s))'
      BY Zenon, <2>1, <2>3, <2>4, <3>1 DEF ReadOK, ShakeOK, QuietOK, Carries, Waits,
                                   HandshakeStates
    <3> QED
      BY Zenon, <3>2, <3>3 DEF PipeInv
  <2>5. CASE php_state' = [php_state EXCEPT ![s] = "BUSY"] /\ AfterInit(t, s, pc[t], FALSE)
    <3>1. /\ php_state'[s] = "BUSY" /\ ~Waits(t)'
          /\ \A u \in Threads : u # t => pc'[u] = pc[u] /\ slot'[u] = slot[u]
      BY ZenonT(60), <2>5 DEF AfterInit, Finish, Goto, ThreadTypes, PoolTypes, Waits, HandshakeStates
    <3>2. /\ \A u \in Threads : u # t => (ReadOK(u) /\ ShakeOK(u))'
          /\ \A q \in Slots : q # s => QuietOK(q)'
      BY Zenon, <2>1, <2>3, <3>1, HolderKeeps
    <3>3. (ReadOK(t) /\ ShakeOK(t) /\ QuietOK(s))'
      BY Zenon, <3>1 DEF ReadOK, ShakeOK, QuietOK, Waits
    <3> QED
      BY Zenon, <3>2, <3>3 DEF PipeInv
  <2> QED
    BY <2>2, <2>4, <2>5, TailOfOne, Zenon
<1>5. ASSUME NEW t \in Threads, Handshake(t) PROVE PipeInv'
  <2>1. PICK s \in Slots : /\ s = slot[t] /\ pc[t] \in HandshakeStates
                             /\ pc[t] \in Locked
    BY Zenon, <1>5, WhyIs, SlotsInUse DEF Handshake, LockInv, Locked
  <2>2. /\ requests' = requests
        /\ \E ready \in BOOLEAN : AfterInit(t, s, Why(t), ready)
        /\ \/ /\ answers[s] # <<>> /\ answers' = [answers EXCEPT ![s] = Tail(answers[s])]
              /\ \E v \in {"READY", "BUSY"} : php_state' = [php_state EXCEPT ![s] = v]
           \/ answers' = answers /\ php_state' = [php_state EXCEPT ![s] = "BUSY"]
    BY <1>5, <2>1, Zenon DEF Handshake
  <2>3. /\ \A q \in Slots : q # s => answers'[q] = answers[q] /\ php_state'[q] = php_state[q]
        /\ \/ php_state'[s] = "BUSY"
           \/ answers[s] # <<>> /\ answers'[s] = Tail(answers[s])
    BY Zenon, <2>2 DEF PipeTypes, PoolTypes
  <2>4. /\ ~Waits(t)'
        /\ \A u \in Threads : u # t => pc'[u] = pc[u] /\ slot'[u] = slot[u]
    BY Zenon, <2>2 DEF AfterInit, Finish, Goto, ThreadTypes, Waits, HandshakeStates
  <2>5. /\ \A u \in Threads : u # t => (ReadOK(u) /\ ShakeOK(u))'
        /\ \A q \in Slots : q # s => QuietOK(q)'
    BY Zenon, <2>1, <2>2, <2>3, <2>4, HolderKeeps
  <2>6. answers[s] # <<>> => requests[s] = <<>> /\ \E line : answers[s] = <<line>>
    BY <2>1, Zenon DEF PipeInv, ShakeOK, Carries
  <2>7. php_state'[s] = "BUSY" \/ (requests'[s] = <<>> /\ answers'[s] = <<>>)
    BY <2>2, <2>3, <2>6, TailOfOne, Zenon
  <2>8. (ReadOK(t) /\ ShakeOK(t) /\ QuietOK(s))'
    BY Zenon, <2>4, <2>7 DEF ReadOK, ShakeOK, QuietOK, Waits
  <2> QED
    BY Zenon, <2>5, <2>8 DEF PipeInv
<1>6. ASSUME NEW t \in Threads, Command(t) PROVE PipeInv'
  <2>1. /\ ~Waits(t) /\ ~Waits(t)' /\ UNCHANGED <<requests, answers, php_state>>
        /\ \A u \in Threads : u # t => pc'[u] = pc[u] /\ slot'[u] = slot[u]
    BY Zenon, <1>6 DEF Command, pool, Goto, ThreadTypes, Waits, HandshakeStates
  <2> QED
    BY Zenon, <2>1, NoWaitKeeps
<1>7. ASSUME NEW t \in Threads, Write(t) PROVE PipeInv'
  <2>1. PICK s \in Slots : s = slot[t] /\ pc[t] = "write" /\ pc[t] \in Locked
    BY Zenon, <1>7, SlotsInUse DEF Write, LockInv, Locked
  <2>2. CASE requests' = requests /\ pc'[t] \in {"done", "rewrite"}
    <3>1. /\ ~Waits(t) /\ ~Waits(t)' /\ UNCHANGED <<requests, answers, php_state>>
          /\ \A u \in Threads : u # t => pc'[u] = pc[u] /\ slot'[u] = slot[u]
      BY Zenon, <1>7, <2>2 DEF Write, Finish, Goto, ThreadTypes, Waits, HandshakeStates
    <3> QED
      BY Zenon, <3>1, NoWaitKeeps
  <2>3. CASE /\ Usable(s) /\ requests' = [requests EXCEPT ![s] = Append(requests[s], t)]
             /\ pc' = [pc EXCEPT ![t] = "read"] /\ slot' = slot
    <3>1. /\ \A q \in Slots : q # s => requests'[q] = requests[q]
          /\ answers' = answers /\ php_state' = php_state
          /\ \A u \in Threads : u # t => pc'[u] = pc[u]
          /\ pc'[t] = "read" /\ slot'[t] = s
      BY Zenon, <1>7, <2>1, <2>3 DEF Write, ThreadTypes, PipeTypes
    <3>2. /\ \A u \in Threads : u # t => (ReadOK(u) /\ ShakeOK(u))'
          /\ \A q \in Slots : q # s => QuietOK(q)'
      BY Zenon, <2>1, <2>3, <3>1, HolderKeeps
    <3>3. requests[s] = <<>> /\ answers[s] = <<>>
      <4>1. \A u \in Threads : Waits(u) => slot[u] # s
        BY Zenon, <2>1 DEF LockInv, Waits, Locked, HandshakeStates
      <4> QED
        BY Zenon, <2>3, <4>1 DEF PipeInv, QuietOK, Usable
    <3>4. requests'[s] = <<t>>
      BY <2>3, <3>3 DEF PipeTypes
    <3>5. (ReadOK(t) /\ ShakeOK(t) /\ QuietOK(s))'
      BY Zenon, <3>1, <3>3, <3>4 DEF ReadOK, ShakeOK, QuietOK, Carries, Waits, HandshakeStates
    <3> QED
      BY Zenon, <3>2, <3>5 DEF PipeInv
  <2> QED
    BY Zenon, <1>7, <2>1, <2>2, <2>3 DEF Write, Finish, Goto, ThreadTypes
<1>8. ASSUME NEW t \in Threads, Read(t) PROVE PipeInv'
  <2>1. PICK s \in Slots : s = slot[t] /\ pc[t] = "read" /\ pc[t] \in Locked
    BY Zenon, <1>8, SlotsInUse DEF Read, LockInv, Locked
  <2>2. /\ \A q \in Slots : q # s => answers'[q] = answers[q] /\ php_state'[q] = php_state[q]
        /\ requests' = requests /\ slot' = slot
        /\ \A u \in Threads : u # t => pc'[u] = pc[u]
        /\ ~Waits(t)'
    BY <1>8, <2>1 DEF Read, Finish, Goto, ThreadTypes, PipeTypes, PoolTypes, Waits,
                     HandshakeStates
  <2>3. /\ \A u \in Threads : u # t => (ReadOK(u) /\ ShakeOK(u))'
        /\ \A q \in Slots : q # s => QuietOK(q)'
    BY Zenon, <2>1, <2>2, HolderKeeps
  <2>4. \/ php_state'[s] = "BUSY"
        \/ answers[s] # <<>> /\ answers'[s] = Tail(answers[s])
    BY Zenon, <1>8, <2>1 DEF Read, PipeTypes, PoolTypes
  <2>5. answers[s] # <<>> => requests[s] = <<>> /\ answers[s] = <<t>>
    BY <2>1, Zenon DEF PipeInv, ReadOK, Carries
  <2>6. php_state'[s] = "BUSY" \/ (requests'[s] = <<>> /\ answers'[s] = <<>>)
    BY <2>2, <2>4, <2>5, TailOfOne, Zenon
  <2>7. (ReadOK(t) /\ ShakeOK(t) /\ QuietOK(s))'
    BY Zenon, <2>2, <2>6 DEF ReadOK, ShakeOK, QuietOK, Waits
  <2> QED
    BY Zenon, <2>3, <2>7 DEF PipeInv
<1>9. ASSUME NEW s \in Slots, Answer(s) PROVE PipeInv'
  <2>1. /\ requests[s] # <<>> /\ requests' = [requests EXCEPT ![s] = Tail(requests[s])]
        /\ \E line \in IF Head(requests[s]) = Boot THEN {Started, Bad}
                                                  ELSE {Head(requests[s])} :
              answers' = [answers EXCEPT ![s] = Append(answers[s], line)]
        /\ UNCHANGED <<pc, slot, php_state>>
    BY <1>9, Zenon DEF Answer
  <2>2. \A q \in Slots : q # s => requests'[q] = requests[q] /\ answers'[q] = answers[q]
    BY Zenon, <2>1 DEF PipeTypes
  <2>3. /\ requests'[s] = Tail(requests[s])
        /\ \E line \in IF Head(requests[s]) = Boot THEN {Started, Bad}
                                                  ELSE {Head(requests[s])} :
              answers'[s] = Append(answers[s], line)
    BY Zenon, <2>1 DEF PipeTypes
  <2>4. ASSUME NEW u \in Threads PROVE (ReadOK(u) /\ ShakeOK(u))'
    <3>1. CASE ~Waits(u)
      BY Zenon, <2>1, <3>1 DEF ReadOK, ShakeOK, Waits
    <3>2. CASE Waits(u) /\ slot[u] # s
      <4>1. slot[u] \in Slots
        BY Zenon, <3>2, SlotsInUse DEF LockInv, Waits, Locked
      <4> QED
        BY <2>1, <2>2, <3>2, <4>1, Zenon DEF PipeInv, ReadOK, ShakeOK, Carries
    <3>3. CASE pc[u] = "read" /\ slot[u] = s
      <4>1. requests[s] = <<u>> /\ answers[s] = <<>> /\ u # Boot
        BY Zenon, <2>1, <3>3, ThreadsAssumption DEF PipeInv, ReadOK, Carries
      <4>2. requests'[s] = <<>> /\ answers'[s] = <<u>>
        BY <2>3, <4>1
      <4> QED
        BY Zenon, <2>1, <3>3, <4>2 DEF ReadOK, ShakeOK, Carries, HandshakeStates
    <3>4. CASE pc[u] \in HandshakeStates /\ slot[u] = s
      <4>1. requests[s] = <<Boot>> /\ answers[s] = <<>>
        BY <2>1, <3>4, Zenon DEF PipeInv, ShakeOK, Carries
      <4>2. requests'[s] = <<>> /\ \E line \in {Started, Bad} : answers'[s] = <<line>>
        BY <2>3, <4>1
      <4> QED
        BY Zenon, <2>1, <3>4, <4>2 DEF ReadOK, ShakeOK, Carries, HandshakeStates
    <3> QED
      BY Zenon, <3>1, <3>2, <3>3, <3>4 DEF Waits
  <2>5. ASSUME NEW q \in Slots PROVE QuietOK(q)'
    BY Zenon, <2>1, <2>2 DEF PipeInv, QuietOK, Waits
  <2> QED
    BY Zenon, <2>4, <2>5 DEF PipeInv
<1>10. ASSUME NEW s \in Slots, Die(s) PROVE PipeInv'
  BY Zenon, <1>10 DEF Die, PipeInv, ReadOK, ShakeOK, QuietOK, Carries, Waits
<1>11. CASE UNCHANGED vars
  BY <1>11, Zenon DEF vars, pool, PipeInv, ReadOK, ShakeOK, QuietOK, Carries, Waits
<1> QED
  BY Zenon, <1>1, <1>2, <1>3, <1>4, <1>5, <1>6, <1>7, <1>8, <1>9, <1>10, <1>11
     DEF Next, Thread, Done

\* A step of t that leaves the others alone leaves them healthy.
LEMMA HealthKeeps ==
    ASSUME HealthInv, NEW t \in Threads, php_servers' = php_servers,
           trouble => trouble',
           ~trouble' => /\ \A s \in InUse : SlotHealthy(s)'
                        /\ ThreadHealthy(t)',
           \A u \in Threads : u # t => /\ recovery'[u] = recovery[u]
                                       /\ spawns'[u] = spawns[u]
                                       /\ pc'[u] = pc[u] /\ slot'[u] = slot[u]
                                       /\ result'[u] = result[u]
    PROVE  HealthInv'
<1>1. ASSUME ~trouble', NEW u \in Threads, u # t PROVE ThreadHealthy(u)'
  BY Zenon, <1>1 DEF HealthInv, ThreadHealthy
<1>2. InUse' = InUse
  BY Zenon DEF InUse
<1> QED
  BY Zenon, <1>1, <1>2 DEF HealthInv

\* Without trouble nobody repairs a server, and php_get_process() finds a slot.
LEMMA HealthStep == IInv /\ [Next]_vars => HealthInv'
<1> SUFFICES ASSUME ThreadTypes, PoolTypes, LockInv, ScanInv, PipeInv, HealthInv, ResultType, [Next]_vars
             PROVE  HealthInv'
  BY Zenon DEF IInv, ResultInv
<1>1. ASSUME NEW t \in Threads, NextServer(t) PROVE HealthInv'
  <2>1. /\ php_servers' = php_servers /\ (trouble => trouble')
        /\ \A u \in Threads : u # t => /\ recovery'[u] = recovery[u]
                                       /\ spawns'[u] = spawns[u]
                                       /\ pc'[u] = pc[u] /\ slot'[u] = slot[u]
                                       /\ result'[u] = result[u]
    <3>1. php_servers' = php_servers /\ (trouble => trouble')
      BY Zenon, <1>1 DEF NextServer, pool, history
    <3>2. ASSUME NEW u \in Threads, u # t
          PROVE  /\ recovery'[u] = recovery[u] /\ spawns'[u] = spawns[u]
                 /\ pc'[u] = pc[u] /\ slot'[u] = slot[u]
      BY Zenon, <1>1, <3>2 DEF NextServer, pool, history, Goto, ThreadTypes
    <3>3. ASSUME NEW u \in Threads, u # t PROVE result'[u] = result[u]
      BY <1>1, <3>3, Zenon DEF NextServer, pool, history, Goto, ResultType
    <3> QED
      BY Zenon, <3>1, <3>2, <3>3
  <2>2. ASSUME ~trouble', NEW s \in InUse PROVE SlotHealthy(s)'
    BY Zenon, <1>1, <2>1, <2>2 DEF NextServer, pool, history, HealthInv, SlotHealthy
  <2>3. ASSUME ~trouble' PROVE ThreadHealthy(t)'
    BY Zenon, <1>1, <2>1, <2>3
       DEF NextServer, history, HealthInv, ThreadHealthy, ThreadTypes, Goto,
           Initializing, HandshakeStates
  <2> QED
    BY Zenon, <2>1, <2>2, <2>3, HealthKeeps
<1>2. ASSUME NEW t \in Threads, Scan(t) PROVE HealthInv'
  <2>1. /\ php_servers' = php_servers /\ (trouble => trouble')
        /\ \A u \in Threads : u # t => /\ recovery'[u] = recovery[u]
                                       /\ spawns'[u] = spawns[u]
                                       /\ pc'[u] = pc[u] /\ slot'[u] = slot[u]
                                       /\ result'[u] = result[u]
    <3>1. php_servers' = php_servers /\ (trouble => trouble')
      BY Zenon, <1>2 DEF Scan, pool, history
    <3>2. ASSUME NEW u \in Threads, u # t
          PROVE  /\ recovery'[u] = recovery[u] /\ spawns'[u] = spawns[u]
                 /\ pc'[u] = pc[u] /\ slot'[u] = slot[u]
      BY Zenon, <1>2, <3>2 DEF Scan, pool, history, Goto, ThreadTypes
    <3>3. ASSUME NEW u \in Threads, u # t PROVE result'[u] = result[u]
      BY <1>2, <3>3, Zenon DEF Scan, pool, history, Goto, ResultType
    <3> QED
      BY Zenon, <3>1, <3>2, <3>3
  <2>2. ASSUME ~trouble', NEW s \in InUse PROVE SlotHealthy(s)'
    BY Zenon, <1>2, <2>1, <2>2 DEF Scan, pool, history, HealthInv, SlotHealthy
  <2>3. ASSUME ~trouble' PROVE ThreadHealthy(t)'
    <3>1. PICK c \in InUse : c = (start_candidate[t] + checked[t]) % php_servers
      BY ModRange DEF ThreadTypes, InUse
    <3>2. ~trouble /\ Usable(c) /\ c # NoSlot
      BY Zenon, <2>1, <2>3, <3>1, SlotsInUse DEF HealthInv, SlotHealthy, Usable
    <3>3. /\ recovery' = recovery /\ spawns' = spawns /\ result' = result
          /\ \/ pc' = pc /\ slot' = slot
             \/ /\ pc' = [pc EXCEPT ![t] = "cmd"]
                /\ slot' = [slot EXCEPT ![t] = c]
      BY Zenon, <1>2, <3>1, <3>2 DEF Scan, history, Goto
    <3> QED
      BY Zenon, <3>2, <3>3 DEF HealthInv, ThreadHealthy, ThreadTypes, Initializing,
             HandshakeStates
  <2> QED
    BY Zenon, <2>1, <2>2, <2>3, HealthKeeps
<1>3. ASSUME NEW t \in Threads, AfterScan(t) PROVE HealthInv'
  <2>1. /\ php_servers' = php_servers /\ (trouble => trouble')
        /\ \A u \in Threads : u # t => /\ recovery'[u] = recovery[u]
                                       /\ spawns'[u] = spawns[u]
                                       /\ pc'[u] = pc[u] /\ slot'[u] = slot[u]
                                       /\ result'[u] = result[u]
    <3>1. php_servers' = php_servers /\ (trouble => trouble')
      BY Zenon, <1>3 DEF AfterScan, pool, history
    <3>2. ASSUME NEW u \in Threads, u # t
          PROVE  /\ recovery'[u] = recovery[u] /\ spawns'[u] = spawns[u]
                 /\ pc'[u] = pc[u] /\ slot'[u] = slot[u]
      BY Zenon, <1>3, <3>2 DEF AfterScan, pool, scan, history, Goto, ThreadTypes
    <3>3. ASSUME NEW u \in Threads, u # t PROVE result'[u] = result[u]
      BY <1>3, <3>3, Zenon DEF AfterScan, pool, scan, history, Goto, ResultType
    <3> QED
      BY Zenon, <3>1, <3>2, <3>3
  <2>2. ASSUME ~trouble', NEW s \in InUse PROVE SlotHealthy(s)'
    BY Zenon, <1>3, <2>1, <2>2 DEF AfterScan, pool, history, HealthInv, SlotHealthy
  <2>3. ASSUME ~trouble' PROVE ThreadHealthy(t)'
    <3>1. /\ pc[t] = "scan" /\ checked[t] > 0 /\ ~trouble /\ recovery[t] = NoSlot
      BY <1>3, <2>1, <2>3 DEF AfterScan, ThreadTypes, HealthInv, ThreadHealthy
    <3>2. /\ recovery' = recovery /\ spawns' = spawns /\ result' = result
          /\ pc' = [pc EXCEPT ![t] = "cmd"]
          /\ slot' = [slot EXCEPT ![t] = contended[t]]
      BY Zenon, <1>3, <3>1 DEF AfterScan, scan, history, Goto
    <3>3. contended[t] # NoSlot
      BY Zenon, <3>1 DEF ScanInv
    <3> QED
      BY Zenon, <3>1, <3>2, <3>3 DEF HealthInv, ThreadHealthy, ThreadTypes, Initializing,
                              HandshakeStates
  <2> QED
    BY Zenon, <2>1, <2>2, <2>3, HealthKeeps
<1>4. ASSUME NEW t \in Threads, Spawn(t) PROVE HealthInv'
  <2>1. pc[t] \in Initializing \cup HandshakeStates
    BY Zenon, <1>4, WhyIs DEF Spawn
  <2>2. trouble
    BY Zenon, <2>1 DEF HealthInv, ThreadHealthy
  <2>3. trouble'
    BY <1>4, <2>2, Zenon DEF Spawn
  <2> QED
    BY Zenon, <2>3 DEF HealthInv
<1>5. ASSUME NEW t \in Threads, Handshake(t) PROVE HealthInv'
  <2>1. pc[t] \in Initializing \cup HandshakeStates
    BY Zenon, <1>5, WhyIs DEF Handshake
  <2>2. trouble
    BY Zenon, <2>1 DEF HealthInv, ThreadHealthy
  <2>3. trouble'
    BY <1>5, <2>2, Zenon DEF Handshake
  <2> QED
    BY Zenon, <2>3 DEF HealthInv
<1>6. ASSUME NEW t \in Threads, Command(t) PROVE HealthInv'
  <2>1. /\ php_servers' = php_servers /\ (trouble => trouble')
        /\ \A u \in Threads : u # t => /\ recovery'[u] = recovery[u]
                                       /\ spawns'[u] = spawns[u]
                                       /\ pc'[u] = pc[u] /\ slot'[u] = slot[u]
                                       /\ result'[u] = result[u]
    <3>1. php_servers' = php_servers /\ (trouble => trouble')
      BY Zenon, <1>6 DEF Command, pool, history
    <3>2. ASSUME NEW u \in Threads, u # t
          PROVE  /\ recovery'[u] = recovery[u] /\ spawns'[u] = spawns[u]
                 /\ pc'[u] = pc[u] /\ slot'[u] = slot[u]
      BY Zenon, <1>6, <3>2 DEF Command, pool, scan, history, Goto, ThreadTypes
    <3>3. ASSUME NEW u \in Threads, u # t PROVE result'[u] = result[u]
      BY <1>6, <3>3, Zenon DEF Command, pool, scan, history, Goto, ResultType
    <3> QED
      BY Zenon, <3>1, <3>2, <3>3
  <2>2. ASSUME ~trouble', NEW s \in InUse PROVE SlotHealthy(s)'
    BY Zenon, <1>6, <2>1, <2>2 DEF Command, pool, history, HealthInv, SlotHealthy
  <2>3. ASSUME ~trouble' PROVE ThreadHealthy(t)'
    BY Zenon, <1>6, <2>1, <2>3
       DEF Command, scan, history, HealthInv, ThreadHealthy, ThreadTypes, Goto,
           Initializing, HandshakeStates
  <2> QED
    BY Zenon, <2>1, <2>2, <2>3, HealthKeeps
<1>7. ASSUME NEW t \in Threads, Write(t) PROVE HealthInv'
  <2>1. /\ php_servers' = php_servers /\ (trouble => trouble')
        /\ \A u \in Threads : u # t => /\ recovery'[u] = recovery[u]
                                       /\ spawns'[u] = spawns[u]
                                       /\ pc'[u] = pc[u] /\ slot'[u] = slot[u]
                                       /\ result'[u] = result[u]
    <3>1. php_servers' = php_servers /\ (trouble => trouble')
      BY <1>7 DEF Write, pool, history
    <3>2. ASSUME NEW u \in Threads, u # t
          PROVE  /\ recovery'[u] = recovery[u] /\ spawns'[u] = spawns[u]
                 /\ pc'[u] = pc[u] /\ slot'[u] = slot[u]
      BY Zenon, <1>7, <3>2 DEF Write, scan, Finish, Goto, ThreadTypes
    <3>3. ASSUME NEW u \in Threads, u # t PROVE result'[u] = result[u]
      BY <1>7, <3>3, Zenon DEF Write, scan, Finish, Goto, ResultType
    <3> QED
      BY Zenon, <3>1, <3>2, <3>3
  <2>2. ASSUME ~trouble', NEW s \in InUse PROVE SlotHealthy(s)'
    BY Zenon, <1>7, <2>1, <2>2 DEF Write, HealthInv, SlotHealthy
  <2>3. ASSUME ~trouble' PROVE ThreadHealthy(t)'
    <3>1. ~trouble /\ slot[t] \in InUse /\ Usable(slot[t])
      <4>1. pc[t] \in Locked /\ ~trouble
        BY Zenon, <1>7, <2>1, <2>3 DEF Write, Locked
      <4> QED
        BY Zenon, <4>1 DEF LockInv, HealthInv, SlotHealthy, Usable
    <3>2. /\ recovery' = recovery /\ spawns' = spawns /\ result' = result
          /\ pc' = [pc EXCEPT ![t] = "read"]
      BY ZenonT(60), <1>7, <2>3, <3>1 DEF Write, scan, Goto
    <3> QED
      BY Zenon, <3>1, <3>2 DEF HealthInv, ThreadHealthy, ThreadTypes, Initializing,
             HandshakeStates
  <2> QED
    BY Zenon, <2>1, <2>2, <2>3, HealthKeeps
<1>8. ASSUME NEW t \in Threads, Read(t) PROVE HealthInv'
  <2>1. /\ php_servers' = php_servers /\ (trouble => trouble')
        /\ \A u \in Threads : u # t => /\ recovery'[u] = recovery[u]
                                       /\ spawns'[u] = spawns[u]
                                       /\ pc'[u] = pc[u] /\ slot'[u] = slot[u]
                                       /\ result'[u] = result[u]
    <3>1. php_servers' = php_servers /\ (trouble => trouble')
      BY <1>8 DEF Read, pool, history
    <3>2. ASSUME NEW u \in Threads, u # t
          PROVE  /\ recovery'[u] = recovery[u] /\ spawns'[u] = spawns[u]
                 /\ pc'[u] = pc[u] /\ slot'[u] = slot[u]
      BY Zenon, <1>8, <3>2 DEF Read, scan, Finish, Goto, ThreadTypes
    <3>3. ASSUME NEW u \in Threads, u # t PROVE result'[u] = result[u]
      BY <1>8, <3>3, Zenon DEF Read, scan, Finish, Goto, ResultType
    <3> QED
      BY Zenon, <3>1, <3>2, <3>3
  <2>2. ASSUME ~trouble', NEW s \in InUse PROVE SlotHealthy(s)'
    BY Zenon, <1>8, <2>1, <2>2, SlotsInUse
       DEF Read, HealthInv, SlotHealthy, PoolTypes
  <2>3. ASSUME ~trouble' PROVE ThreadHealthy(t)'
    <3>1. PICK s \in Slots : s = slot[t] /\ pc[t] = "read" /\ ~trouble
      BY Zenon, <1>8, <2>1, <2>3, SlotsInUse DEF Read, LockInv, Locked
    <3>2. /\ recovery' = recovery /\ spawns' = spawns
          /\ pc' = [pc EXCEPT ![t] = "done"]
          /\ result' = [result EXCEPT ![t] = Head(answers[s])] /\ answers[s] # <<>>
      BY Zenon, <1>8, <2>3, <3>1 DEF Read, Finish, scan, Goto
    <3>3. Head(answers[s]) = t
      BY Zenon, <3>1, <3>2, TailOfOne DEF PipeInv, ReadOK, Carries
    <3>4. result'[t] # U
      BY <3>2, <3>3, ThreadsAssumption, Zenon DEF ResultType
    <3> QED
      BY Zenon, <3>1, <3>2, <3>4 DEF HealthInv, ThreadHealthy, ThreadTypes, Initializing,
             HandshakeStates
  <2> QED
    BY Zenon, <2>1, <2>2, <2>3, HealthKeeps
<1>9. ASSUME NEW s \in Slots, Answer(s) PROVE HealthInv'
  BY Zenon, <1>9 DEF Answer, scan, history, HealthInv, SlotHealthy, ThreadHealthy, InUse
<1>10. ASSUME NEW s \in Slots, Die(s) PROVE HealthInv'
  BY Zenon, <1>10 DEF Die, HealthInv
<1>11. CASE UNCHANGED vars
  BY Zenon, <1>11 DEF vars, pool, scan, history, HealthInv, SlotHealthy, ThreadHealthy, InUse
<1> QED
  BY Zenon, <1>1, <1>2, <1>3, <1>4, <1>5, <1>6, <1>7, <1>8, <1>9, <1>10, <1>11
     DEF Next, Thread, Done

\* php_cmd() returns U or the answer to the command it wrote.
LEMMA ResultStep == IInv /\ [Next]_vars => ResultInv'
<1> SUFFICES ASSUME ThreadTypes, PipeTypes, LockInv, PipeInv, ResultInv, [Next]_vars
             PROVE  ResultInv'
  BY Zenon DEF IInv
<1> USE DEF ResultInv, ResultType, AnswerMatches, Goto
<1>1. ASSUME NEW t \in Threads, NextServer(t) PROVE ResultInv'
  BY <1>1, Zenon DEF NextServer, pool, history
<1>2. ASSUME NEW t \in Threads, Scan(t) PROVE ResultInv'
  BY <1>2, Zenon DEF Scan, OrElse, pool, history
<1>3. ASSUME NEW t \in Threads, AfterScan(t) PROVE ResultInv'
  BY <1>3, Zenon DEF AfterScan, pool, scan, history
<1>4. ASSUME NEW t \in Threads, Spawn(t) PROVE ResultInv'
  BY <1>4, Shakes, Zenon DEF Spawn, AfterInit, Finish, Close, Unlock, scan
<1>5. ASSUME NEW t \in Threads, Handshake(t) PROVE ResultInv'
  BY <1>5, WhyIs, Zenon DEF Handshake, AfterInit, Finish, Unlock, scan
<1>6. ASSUME NEW t \in Threads, Command(t) PROVE ResultInv'
  BY <1>6, Zenon DEF Command, pool, scan, history
<1>7. ASSUME NEW t \in Threads, Write(t) PROVE ResultInv'
  BY <1>7, Zenon DEF Write, Finish, Unlock, scan
<1>8. ASSUME NEW t \in Threads, Read(t) PROVE ResultInv'
  <2>1. PICK s \in Slots : s = slot[t] /\ pc[t] = "read"
    BY <1>8, SlotsInUse, Zenon DEF Read, LockInv, Locked
  <2>2. CASE result' = result
    BY <2>2, Zenon
  <2>3. CASE answers[s] # <<>> /\ result' = [result EXCEPT ![t] = Head(answers[s])]
    <3>1. Head(answers[s]) = t
      BY <2>1, <2>3, TailOfOne, Zenon DEF PipeInv, ReadOK, Carries
    <3> QED
      BY <2>3, <3>1, Zenon
  <2> QED
    BY <1>8, <2>1, <2>2, <2>3, Zenon DEF Read, Finish
<1>9. ASSUME NEW s \in Slots, Answer(s) PROVE ResultInv'
  BY <1>9, Zenon DEF Answer, scan, history
<1>10. ASSUME NEW s \in Slots, Die(s) PROVE ResultInv'
  BY <1>10, Zenon DEF Die, scan
<1>11. CASE UNCHANGED vars
  BY <1>11, Zenon DEF vars, pool, scan, history
<1> QED
  BY <1>1, <1>2, <1>3, <1>4, <1>5, <1>6, <1>7, <1>8, <1>9, <1>10, <1>11, Zenon
     DEF Next, Thread, Done

-----------------------------------------------------------------------------
(* The theorems *)

\* Every state the script servers can reach satisfies the inductive invariant.
LEMMA Invariance == Spec => []IInv
<1>1. IInv /\ [Next]_vars => IInv'
  BY Zenon, ThreadTypesStep, CountTypesStep, PoolTypesStep, PipeTypesStep, LockStep, ScanStep,
     PipeStep, SpawnStep, HealthStep, ResultStep DEF IInv
<1> QED
  BY InitInv, <1>1, PTL DEF Spec

\* The mutex of a slot (php_lock in php_get_process() and php_cmd()) gives its
\* descriptors one user, however many threads and servers there are.
THEOREM SlotExclusiveThm == Spec => []SlotExclusive
<1>1. IInv => SlotExclusive
  BY Zenon DEF IInv, ThreadTypes, LockInv, Locked, SlotExclusive
<1> QED
  BY <1>1, Invariance, PTL

\* php_cmd() never returns the answer to another thread's command: a slot whose
\* answer did not come is BUSY, and is restarted with empty pipes before it is
\* used again.
THEOREM AnswerMatchesThm == Spec => []AnswerMatches
<1>1. IInv => AnswerMatches
  BY Zenon DEF IInv, ResultInv
<1> QED
  BY <1>1, Invariance, PTL

\* While the servers are healthy php_get_process() finds every request a slot to
\* wait for, and whatever fails a request starts at most MaxWrites + 1 servers.
THEOREM HealthyNeverUndefinedThm == Spec => []HealthyNeverUndefined
<1>1. IInv => HealthyNeverUndefined
  <2> SUFFICES ASSUME IInv, NEW t \in Threads
               PROVE  /\ ~trouble => result[t] # U /\ spawns[t] = 0
                      /\ spawns[t] <= MaxWrites + 1
    BY Zenon DEF HealthyNeverUndefined
  <2>1. ~trouble => result[t] # U /\ spawns[t] = 0
    BY Zenon DEF IInv, HealthInv, ThreadHealthy
  <2>2. spawns[t] <= MaxWrites + 1
    BY DEF IInv, ThreadTypes, CountTypes, SpawnInv, MaxWrites, Locked, Initializing,
           HandshakeStates
  <2> QED
    BY Zenon, <2>1, <2>2
<1> QED
  BY <1>1, Invariance, PTL
=============================================================================
