-------------------------- MODULE SharedListProofs --------------------------
(***************************************************************************)
(* Proofs about the two lists that the polling threads share: the registry *)
(* of children (NftPopen), for any number of threads, descriptors, process *)
(* numbers, permits, parking places and items, and the list of waiters for *)
(* a ping (IcmpShared), for any number of pinging threads, retries, batch  *)
(* sizes and queue lengths.                                                *)
(***************************************************************************)
EXTENDS NftPopen, IcmpShared, FiniteSetTheorems, SequenceTheorems,
        WellFoundedInduction, TLAPS

\* A set with at most one element.
LEMMA AtMostOne ==
    ASSUME NEW S, \A x, y \in S : x = y
    PROVE  Cardinality(S) = IF S = {} THEN 0 ELSE 1
<1>1. CASE S = {}
  BY Zenon, <1>1, FS_EmptySet
<1>2. CASE S # {}
  <2>1. PICK x : S = {x}
    BY <1>2
  <2> QED
    BY Zenon, <1>2, <2>1, FS_Singleton
<1> QED
  BY Zenon, <1>1, <1>2

-----------------------------------------------------------------------------
(* nft_popen() and nft_pclose() *)

Piped == {"lock", "spawn", "read", "kill_timeout", "pclose"}
Started == {"read", "kill_timeout", "pclose"}
Closing == {"reap", "kill_close", "abandon"}

Child == [state : {"none", "running", "killed", "zombie"},
          of : Threads \cup {Null}]

PopenTypes ==
    /\ at \in [Threads -> Piped \cup Closing \cup {"idle", "acquire", "access", "release"}]
    /\ fd \in [Threads -> Fds \cup {Null}]
    /\ pid \in [Threads -> Pids \cup {Null}]
    /\ PidList \subseteq [fd : Fds, pid : Pids]
    /\ AbandonedPids \subseteq Pids
    /\ dropped \subseteq Pids
    /\ child \in [Pids -> Child]

Alive(p) == child[p].state # "none"
Registered(p) == \E e \in PidList : e.pid = p
Held(p) == \E t \in Threads : at[t] \in Closing /\ pid[t] = p

\* A thread's descriptor is its own from pipe() to close().
FdInv ==
    /\ \A t \in Threads : at[t] \in Piped => fd[t] \in open_fds /\ fd[t] \in Fds
    /\ \A t, u \in Threads :
          at[t] \in Piped /\ at[u] \in Piped /\ fd[t] = fd[u] => t = u

\* The registry names live children only, each one under the descriptor of the
\* thread that started it, and at most one under each descriptor.
RegistryInv ==
    /\ \A e \in PidList :
          /\ Alive(e.pid)
          /\ \E t \in Threads : /\ at[t] \in Started /\ fd[t] = e.fd
                                /\ child[e.pid].of = t
    /\ \A d, e \in PidList : d.fd = e.fd => d.pid = e.pid
    /\ \A t \in Threads : at[t] = "kill_timeout" =>
          \E e \in PidList : e.fd = fd[t] /\ e.pid = pid[t]

\* What a thread took out of the registry is its own child and not reaped.
HandInv ==
    \A t \in Threads : at[t] \in Closing =>
        pid[t] \in Pids /\ Alive(pid[t]) /\ child[pid[t]].of = t

\* A parked or dropped child is alive and nowhere else.
ParkedInv ==
    /\ AbandonedPids \cap dropped = {}
    /\ \A p \in AbandonedPids \cup dropped : Alive(p) /\ ~Registered(p) /\ ~Held(p)

\* Every child is somewhere.
CoverInv ==
    \A p \in Pids : Alive(p) =>
        Registered(p) \/ Held(p) \/ p \in AbandonedPids \/ p \in dropped

PopenInv == PopenTypes /\ FdInv /\ RegistryInv /\ HandInv /\ ParkedInv /\ CoverInv

-----------------------------------------------------------------------------
(* The kernel's part of a step *)

\* SIGKILL reaps nobody.
LEMMA KillKeeps ==
    ASSUME PopenTypes, NEW p \in Pids, Kill(p)
    PROVE  /\ child' \in [Pids -> Child]
           /\ \A q \in Pids : /\ child'[q].of = child[q].of
                              /\ child'[q].state = "none" <=> child[q].state = "none"
<1>1. PICK s : /\ s = IF child[p].state = "running" THEN "killed" ELSE child[p].state
               /\ child' = [child EXCEPT ![p].state = s]
  BY Zenon DEF Kill
<1>2. /\ s \in {"none", "running", "killed", "zombie"}
      /\ s = "none" <=> child[p].state = "none"
  BY Zenon, <1>1 DEF PopenTypes, Child
<1> QED
  BY Zenon, <1>1, <1>2 DEF PopenTypes, Child

\* A child that exits stays in the table as a zombie of the same thread.
LEMMA ExitKeeps ==
    ASSUME PopenTypes, NEW p \in Pids, ChildExits(p)
    PROVE  /\ child' \in [Pids -> Child]
           /\ \A q \in Pids : /\ child'[q].of = child[q].of
                              /\ child'[q].state = "none" <=> child[q].state = "none"
BY Zenon DEF PopenTypes, Child, ChildExits

\* waitpid() frees the numbers of the zombies it is asked for.
LEMMA ReapedKeeps ==
    ASSUME PopenTypes, NEW S, child' = Reaped(S)
    PROVE  /\ child' \in [Pids -> Child]
           /\ \A q \in Pids :
                 /\ child'[q].state # "none" <=>
                       /\ child[q].state # "none"
                       /\ ~(q \in S /\ child[q].state = "zombie")
                 /\ child'[q].state # "none" => child'[q].of = child[q].of
BY Zenon DEF PopenTypes, Child, Reaped, NoChild

-----------------------------------------------------------------------------
(* The inductive invariant *)

\* The poller starts with no child.
LEMMA PopenInitially == PopenInit => PopenInv
BY DEF PopenInit, PopenInv, PopenTypes, FdInv, RegistryInv, HandInv, ParkedInv, CoverInv, Alive,
       Registered, Held, NoChild, Child, Piped, Started, Closing

\* What a thread is about to signal is a process number.
LEMMA OwnPid ==
    ASSUME PopenInv, NEW t \in Threads, at[t] \in {"kill_timeout", "kill_close"}
    PROVE  pid[t] \in Pids
BY Zenon DEF PopenInv, PopenTypes, RegistryInv, HandInv, Closing

\* Every step of nft_popen() and nft_pclose() keeps the types.
LEMMA TypingStep == PopenInv /\ [PopenNext]_popenVars => PopenTypes'
<1> SUFFICES ASSUME PopenInv, PopenTypes, FdInv, HandInv, [PopenNext]_popenVars PROVE PopenTypes'
  BY Zenon DEF PopenInv
<1> USE DEF PopenTypes, MoveTo, Piped, Closing
<1>1. ASSUME NEW t \in Threads, ExecPoll(t) PROVE PopenTypes'
  BY Zenon, <1>1 DEF ExecPoll, registry, kernel
<1>2. ASSUME NEW t \in Threads, AcquireScriptPermit(t) PROVE PopenTypes'
  BY Zenon, <1>2 DEF AcquireScriptPermit, AfterPermit, registry, kernel
<1>3. ASSUME NEW t \in Threads, OpenPipe(t) PROVE PopenTypes'
  BY Zenon, <1>3 DEF OpenPipe, registry
<1>4. ASSUME NEW t \in Threads, PopenLock(t) PROVE PopenTypes'
  BY Zenon, <1>4, ReapedKeeps DEF PopenLock, locals
<1>5. ASSUME NEW t \in Threads, Spawn(t) PROVE PopenTypes'
  <2>1. fd[t] \in Fds
    BY Zenon, <1>5 DEF Spawn, FdInv
  <2>2. ASSUME NEW p \in Pids,
               child' = [child EXCEPT ![p] = [state |-> "running", of |-> t]],
               PidList' = PidList \cup {[fd |-> fd[t], pid |-> p]}
        PROVE  child' \in [Pids -> Child] /\ PidList' \subseteq [fd : Fds, pid : Pids]
    BY <2>1, <2>2 DEF Child
  <2>3. child' \in [Pids -> Child] /\ PidList' \subseteq [fd : Fds, pid : Pids]
    BY Zenon, <1>5, <2>2 DEF Spawn, SpawnFailed
  <2> QED
    BY Zenon, <1>5, <2>3 DEF Spawn, SpawnFailed, locals
<1>6. ASSUME NEW t \in Threads, ReadScriptResult(t) PROVE PopenTypes'
  BY Zenon, <1>6 DEF ReadScriptResult, Entries, registry, kernel
<1>7. ASSUME NEW t \in Threads, KillTimeout(t) PROVE PopenTypes'
  <2>1. child' \in [Pids -> Child]
    BY Zenon, <1>7, OwnPid, KillKeeps DEF KillTimeout
  <2> QED
    BY Zenon, <1>7, <2>1 DEF KillTimeout, locals, registry
<1>8. ASSUME NEW t \in Threads, PcloseTake(t) PROVE PopenTypes'
  BY Zenon, <1>8 DEF PcloseTake, TakeEntries, Entries
<1>9. ASSUME NEW t \in Threads, ReapChildBounded(t) PROVE PopenTypes'
  BY Zenon, <1>9, ReapedKeeps DEF ReapChildBounded, locals, registry
<1>10. ASSUME NEW t \in Threads, KillClose(t) PROVE PopenTypes'
  <2>1. child' \in [Pids -> Child]
    BY Zenon, <1>10, OwnPid, KillKeeps DEF KillClose
  <2> QED
    BY Zenon, <1>10, <2>1 DEF KillClose, locals, registry
<1>11. ASSUME NEW t \in Threads, Abandon(t) PROVE PopenTypes'
  BY <1>11, ReapedKeeps DEF Abandon, locals, HandInv
<1>12. ASSUME NEW t \in Threads, ReleaseScript(t) PROVE PopenTypes'
  BY Zenon, <1>12 DEF ReleaseScript, registry, kernel
<1>13. ASSUME NEW p \in Pids, ChildExits(p) PROVE PopenTypes'
  BY <1>13, ExitKeeps, Zenon DEF ChildExits, locals, registry
<1>14. CASE UNCHANGED popenVars
  BY Zenon, <1>14 DEF popenVars, locals, registry, kernel
<1> QED
  BY Zenon, <1>1, <1>2, <1>3, <1>4, <1>5, <1>6, <1>7, <1>8, <1>9, <1>10, <1>11, <1>12,
     <1>13, <1>14
     DEF PopenNext, Caller, PopenDone

\* pipe() and close() give a descriptor one owner.
LEMMA FdStep == PopenInv /\ [PopenNext]_popenVars => FdInv'
<1> SUFFICES ASSUME PopenTypes, FdInv, [PopenNext]_popenVars PROVE FdInv'
  BY Zenon DEF PopenInv
<1> USE DEF PopenTypes, FdInv, MoveTo, Piped, Closing
<1>1. ASSUME NEW t \in Threads, ExecPoll(t) PROVE FdInv'
  BY Zenon, <1>1 DEF ExecPoll, registry, kernel
<1>2. ASSUME NEW t \in Threads, AcquireScriptPermit(t) PROVE FdInv'
  BY <1>2 DEF AcquireScriptPermit, AfterPermit, registry, kernel
<1>3. ASSUME NEW t \in Threads, OpenPipe(t) PROVE FdInv'
  BY <1>3 DEF OpenPipe, registry
<1>4. ASSUME NEW t \in Threads, PopenLock(t) PROVE FdInv'
  BY Zenon, <1>4 DEF PopenLock, locals
<1>5. ASSUME NEW t \in Threads, Spawn(t) PROVE FdInv'
  BY ZenonT(60), <1>5 DEF Spawn, SpawnFailed, locals
<1>6. ASSUME NEW t \in Threads, ReadScriptResult(t) PROVE FdInv'
  BY Zenon, <1>6 DEF ReadScriptResult, Entries, registry, kernel
<1>7. ASSUME NEW t \in Threads, KillTimeout(t) PROVE FdInv'
  BY Zenon, <1>7 DEF KillTimeout, locals, registry
<1>8. ASSUME NEW t \in Threads, PcloseTake(t) PROVE FdInv'
  BY <1>8 DEF PcloseTake, TakeEntries, Entries
<1>9. ASSUME NEW t \in Threads, ReapChildBounded(t) PROVE FdInv'
  BY <1>9 DEF ReapChildBounded, locals, registry
<1>10. ASSUME NEW t \in Threads, KillClose(t) PROVE FdInv'
  BY Zenon, <1>10 DEF KillClose, locals, registry
<1>11. ASSUME NEW t \in Threads, Abandon(t) PROVE FdInv'
  BY Zenon, <1>11 DEF Abandon, locals
<1>12. ASSUME NEW t \in Threads, ReleaseScript(t) PROVE FdInv'
  BY Zenon, <1>12 DEF ReleaseScript, registry, kernel
<1>13. ASSUME NEW p \in Pids, ChildExits(p) PROVE FdInv'
  BY Zenon, <1>13 DEF ChildExits, locals, registry
<1>14. CASE UNCHANGED popenVars
  BY Zenon, <1>14 DEF popenVars, locals, registry, kernel
<1> QED
  BY Zenon, <1>1, <1>2, <1>3, <1>4, <1>5, <1>6, <1>7, <1>8, <1>9, <1>10, <1>11, <1>12, <1>13, <1>14
     DEF PopenNext, Caller, PopenDone

\* nft_popen() registers a live child, nft_pclose() and abandon take it out.
LEMMA RegistryStep == PopenInv /\ [PopenNext]_popenVars => RegistryInv'
<1> SUFFICES ASSUME PopenInv, [PopenNext]_popenVars PROVE RegistryInv'
  BY Zenon
<1> USE DEF PopenInv, PopenTypes, FdInv, RegistryInv, Alive, MoveTo, Piped, Started, Closing
<1>1. ASSUME NEW t \in Threads, ExecPoll(t) PROVE RegistryInv'
  BY <1>1 DEF ExecPoll, registry, kernel
<1>2. ASSUME NEW t \in Threads, AcquireScriptPermit(t) PROVE RegistryInv'
  BY <1>2 DEF AcquireScriptPermit, AfterPermit, registry, kernel
<1>3. ASSUME NEW t \in Threads, OpenPipe(t) PROVE RegistryInv'
  BY <1>3 DEF OpenPipe, registry
<1>4. ASSUME NEW t \in Threads, PopenLock(t) PROVE RegistryInv'
  BY <1>4, ReapedKeeps DEF PopenLock, locals, Sweepable, ParkedInv, Registered, Held
<1>5. ASSUME NEW t \in Threads, Spawn(t) PROVE RegistryInv'
  BY <1>5 DEF Spawn, SpawnFailed, locals, NoChild
<1>6. ASSUME NEW t \in Threads, ReadScriptResult(t) PROVE RegistryInv'
  BY <1>6 DEF ReadScriptResult, Entries, registry, kernel
<1>7. ASSUME NEW t \in Threads, KillTimeout(t) PROVE RegistryInv'
  BY <1>7, OwnPid, KillKeeps DEF KillTimeout, locals, registry
<1>8. ASSUME NEW t \in Threads, PcloseTake(t) PROVE RegistryInv'
  BY <1>8 DEF PcloseTake, TakeEntries, Entries
<1>9. ASSUME NEW t \in Threads, ReapChildBounded(t) PROVE RegistryInv'
  BY <1>9, ReapedKeeps DEF ReapChildBounded, locals, registry, HandInv
<1>10. ASSUME NEW t \in Threads, KillClose(t) PROVE RegistryInv'
  BY <1>10, OwnPid, KillKeeps DEF KillClose, locals, registry
<1>11. ASSUME NEW t \in Threads, Abandon(t) PROVE RegistryInv'
  <2>1. child' = Reaped(Sweepable) /\ PidList' = PidList /\ fd' = fd /\ pid' = pid
    BY Zenon, <1>11 DEF Abandon, locals
  <2>2. \A e \in PidList : child'[e.pid].state # "none" /\ child'[e.pid].of = child[e.pid].of
    BY <2>1, ReapedKeeps DEF Sweepable, ParkedInv, Registered
  <2>3. \A u \in Threads : at'[u] = at[u] \/ (at[u] = "abandon" /\ at'[u] = "release")
    BY Zenon, <1>11 DEF Abandon
  <2> QED
    BY <2>1, <2>2, <2>3
<1>12. ASSUME NEW t \in Threads, ReleaseScript(t) PROVE RegistryInv'
  BY <1>12 DEF ReleaseScript, registry, kernel
<1>13. ASSUME NEW p \in Pids, ChildExits(p) PROVE RegistryInv'
  BY <1>13, ExitKeeps DEF ChildExits, locals, registry
<1>14. CASE UNCHANGED popenVars
  BY <1>14 DEF popenVars, locals, registry, kernel
<1> QED
  BY ZenonT(60), <1>1, <1>2, <1>3, <1>4, <1>5, <1>6, <1>7, <1>8, <1>9, <1>10, <1>11, <1>12, <1>13, <1>14
     DEF PopenNext, Caller, PopenDone

\* Only the thread that holds a child reaps it.
LEMMA HandStep == PopenInv /\ [PopenNext]_popenVars => HandInv'
<1> SUFFICES ASSUME PopenInv, [PopenNext]_popenVars PROVE HandInv'
  BY Zenon
<1> USE DEF PopenInv, PopenTypes, FdInv, HandInv, Alive, RegistryInv, MoveTo, Piped, Started, Closing
<1>1. ASSUME NEW t \in Threads, ExecPoll(t) PROVE HandInv'
  BY Zenon, <1>1 DEF ExecPoll, registry, kernel
<1>2. ASSUME NEW t \in Threads, AcquireScriptPermit(t) PROVE HandInv'
  BY <1>2 DEF AcquireScriptPermit, AfterPermit, registry, kernel
<1>3. ASSUME NEW t \in Threads, OpenPipe(t) PROVE HandInv'
  BY <1>3 DEF OpenPipe, registry
<1>4. ASSUME NEW t \in Threads, PopenLock(t) PROVE HandInv'
  BY <1>4, ReapedKeeps DEF PopenLock, locals, Sweepable, ParkedInv, Registered, Held
<1>5. ASSUME NEW t \in Threads, Spawn(t) PROVE HandInv'
  BY <1>5 DEF Spawn, SpawnFailed, locals, NoChild
<1>6. ASSUME NEW t \in Threads, ReadScriptResult(t) PROVE HandInv'
  BY <1>6 DEF ReadScriptResult, Entries, registry, kernel
<1>7. ASSUME NEW t \in Threads, KillTimeout(t) PROVE HandInv'
  BY <1>7, OwnPid, KillKeeps DEF KillTimeout, locals, registry
<1>8. ASSUME NEW t \in Threads, PcloseTake(t) PROVE HandInv'
  BY <1>8 DEF PcloseTake, TakeEntries, Entries
<1>9. ASSUME NEW t \in Threads, ReapChildBounded(t) PROVE HandInv'
  BY <1>9, ReapedKeeps DEF ReapChildBounded, locals, registry
<1>10. ASSUME NEW t \in Threads, KillClose(t) PROVE HandInv'
  BY <1>10, OwnPid, KillKeeps DEF KillClose, locals, registry
<1>11. ASSUME NEW t \in Threads, Abandon(t) PROVE HandInv'
  BY <1>11, ReapedKeeps DEF Abandon, locals, Sweepable, ParkedInv, Registered, Held
<1>12. ASSUME NEW t \in Threads, ReleaseScript(t) PROVE HandInv'
  BY Zenon, <1>12 DEF ReleaseScript, registry, kernel
<1>13. ASSUME NEW p \in Pids, ChildExits(p) PROVE HandInv'
  BY <1>13, ExitKeeps DEF ChildExits, locals, registry
<1>14. CASE UNCHANGED popenVars
  BY Zenon, <1>14 DEF popenVars, locals, registry, kernel
<1> QED
  BY ZenonT(60), <1>1, <1>2, <1>3, <1>4, <1>5, <1>6, <1>7, <1>8, <1>9, <1>10, <1>11, <1>12, <1>13, <1>14
     DEF PopenNext, Caller, PopenDone

\* A child is parked once, by the thread that held it.
LEMMA ParkedStep == PopenInv /\ [PopenNext]_popenVars => ParkedInv'
<1> SUFFICES ASSUME PopenInv, [PopenNext]_popenVars PROVE ParkedInv'
  BY Zenon
<1> USE DEF PopenInv, PopenTypes, FdInv, ParkedInv, Alive, Registered, Held,
             RegistryInv, HandInv, MoveTo, Piped, Started, Closing
<1>1. ASSUME NEW t \in Threads, ExecPoll(t) PROVE ParkedInv'
  BY <1>1 DEF ExecPoll, registry, kernel
<1>2. ASSUME NEW t \in Threads, AcquireScriptPermit(t) PROVE ParkedInv'
  BY <1>2 DEF AcquireScriptPermit, AfterPermit, registry, kernel
<1>3. ASSUME NEW t \in Threads, OpenPipe(t) PROVE ParkedInv'
  BY <1>3 DEF OpenPipe, registry
<1>4. ASSUME NEW t \in Threads, PopenLock(t) PROVE ParkedInv'
  BY <1>4, ReapedKeeps DEF PopenLock, locals, Sweepable
<1>5. ASSUME NEW t \in Threads, Spawn(t) PROVE ParkedInv'
  BY <1>5 DEF Spawn, SpawnFailed, locals, NoChild
<1>6. ASSUME NEW t \in Threads, ReadScriptResult(t) PROVE ParkedInv'
  BY <1>6 DEF ReadScriptResult, Entries, registry, kernel
<1>7. ASSUME NEW t \in Threads, KillTimeout(t) PROVE ParkedInv'
  BY SMTT(60), <1>7, OwnPid, KillKeeps DEF KillTimeout, locals, registry
<1>8. ASSUME NEW t \in Threads, PcloseTake(t) PROVE ParkedInv'
  BY <1>8 DEF PcloseTake, TakeEntries, Entries
<1>9. ASSUME NEW t \in Threads, ReapChildBounded(t) PROVE ParkedInv'
  BY <1>9, ReapedKeeps DEF ReapChildBounded, locals, registry
<1>10. ASSUME NEW t \in Threads, KillClose(t) PROVE ParkedInv'
  BY <1>10, OwnPid, KillKeeps DEF KillClose, locals, registry
<1>11. ASSUME NEW t \in Threads, Abandon(t) PROVE ParkedInv'
  BY <1>11, ReapedKeeps DEF Abandon, locals, Sweepable
<1>12. ASSUME NEW t \in Threads, ReleaseScript(t) PROVE ParkedInv'
  BY <1>12 DEF ReleaseScript, registry, kernel
<1>13. ASSUME NEW p \in Pids, ChildExits(p) PROVE ParkedInv'
  BY <1>13, ExitKeeps DEF ChildExits, locals, registry
<1>14. CASE UNCHANGED popenVars
  BY ZenonT(60), <1>14 DEF popenVars, locals, registry, kernel
<1> QED
  BY ZenonT(60), <1>1, <1>2, <1>3, <1>4, <1>5, <1>6, <1>7, <1>8, <1>9, <1>10, <1>11, <1>12, <1>13, <1>14
     DEF PopenNext, Caller, PopenDone

\* No step loses a child: it moves from list to hand, to the parked ones, or is reaped.
LEMMA CoverStep == PopenInv /\ [PopenNext]_popenVars => CoverInv'
<1> SUFFICES ASSUME PopenInv, [PopenNext]_popenVars PROVE CoverInv'
  BY Zenon
<1> USE DEF PopenInv, PopenTypes, FdInv, CoverInv, Alive, Registered, Held,
             MoveTo, Piped, Started, Closing
<1>1. ASSUME NEW t \in Threads, ExecPoll(t) PROVE CoverInv'
  BY Zenon, <1>1 DEF ExecPoll, registry, kernel
<1>2. ASSUME NEW t \in Threads, AcquireScriptPermit(t) PROVE CoverInv'
  BY Zenon, <1>2 DEF AcquireScriptPermit, AfterPermit, registry, kernel
<1>3. ASSUME NEW t \in Threads, OpenPipe(t) PROVE CoverInv'
  BY Zenon, <1>3 DEF OpenPipe, registry
<1>4. ASSUME NEW t \in Threads, PopenLock(t) PROVE CoverInv'
  BY Zenon, <1>4, ReapedKeeps DEF PopenLock, locals, Sweepable
<1>5. ASSUME NEW t \in Threads, Spawn(t) PROVE CoverInv'
  <2>1. CASE SpawnFailed(t)
    BY Zenon, <1>5, <2>1 DEF Spawn, SpawnFailed, locals
  <2>2. ASSUME NEW p \in Pids, NEW e, e = [fd |-> fd[t], pid |-> p],
               child' = [child EXCEPT ![p] = [state |-> "running", of |-> t]],
               PidList' = PidList \cup {e}, MoveTo(t, "read")
        PROVE  CoverInv'
    <3>1. e \in PidList' /\ e.pid = p /\ PidList \subseteq PidList'
      BY Zenon, <2>2
    <3>2. \A q \in Pids : q # p => child'[q] = child[q]
      BY Zenon, <2>2
    <3> QED
      BY Zenon, <1>5, <2>2, <3>1, <3>2 DEF Spawn, locals
  <2> QED
    BY <1>5, <2>1, <2>2, Zenon DEF Spawn
<1>6. ASSUME NEW t \in Threads, ReadScriptResult(t) PROVE CoverInv'
  BY Zenon, <1>6 DEF ReadScriptResult, Entries, registry, kernel
<1>7. ASSUME NEW t \in Threads, KillTimeout(t) PROVE CoverInv'
  BY Zenon, <1>7, OwnPid, KillKeeps DEF KillTimeout, locals, registry
<1>8. ASSUME NEW t \in Threads, PcloseTake(t) PROVE CoverInv'
  BY <1>8 DEF PcloseTake, TakeEntries, Entries, RegistryInv
<1>9. ASSUME NEW t \in Threads, ReapChildBounded(t) PROVE CoverInv'
  BY <1>9, ReapedKeeps DEF ReapChildBounded, locals, registry
<1>10. ASSUME NEW t \in Threads, KillClose(t) PROVE CoverInv'
  BY Zenon, <1>10, OwnPid, KillKeeps DEF KillClose, locals, registry
<1>11. ASSUME NEW t \in Threads, Abandon(t) PROVE CoverInv'
  BY <1>11, ReapedKeeps DEF Abandon, locals, Sweepable
<1>12. ASSUME NEW t \in Threads, ReleaseScript(t) PROVE CoverInv'
  BY Zenon, <1>12 DEF ReleaseScript, registry, kernel
<1>13. ASSUME NEW p \in Pids, ChildExits(p) PROVE CoverInv'
  BY Zenon, <1>13, ExitKeeps DEF ChildExits, locals, registry
<1>14. CASE UNCHANGED popenVars
  BY Zenon, <1>14 DEF popenVars, locals, registry, kernel
<1> QED
  BY Zenon, <1>1, <1>2, <1>3, <1>4, <1>5, <1>6, <1>7, <1>8, <1>9, <1>10, <1>11, <1>12, <1>13, <1>14
     DEF PopenNext, Caller, PopenDone

\* Every state nft_popen.c can reach satisfies the inductive invariant.
LEMMA Inductive == PopenSpec => []PopenInv
<1>1. PopenInv /\ [PopenNext]_popenVars => PopenInv'
  BY Zenon, TypingStep, FdStep, RegistryStep, HandStep, ParkedStep, CoverStep DEF PopenInv
<1> QED
  BY <1>1, PopenInitially, PTL DEF PopenSpec

-----------------------------------------------------------------------------

\* SIGKILL, of read_script_result() and of nft_pclose(), only ever reaches the
\* script its thread started: a process number is not reaped, and so not given to
\* another child, between its look-up and the signal.
THEOREM KillsOwnChildThm == PopenSpec => []KillsOwnChild
<1>1. PopenInv => KillsOwnChild
  <2> SUFFICES ASSUME PopenInv, NEW t \in Threads, at[t] \in {"kill_timeout", "kill_close"}
               PROVE  child[pid[t]].state # "none" /\ child[pid[t]].of = t
    BY Zenon DEF KillsOwnChild
  <2>1. CASE at[t] = "kill_close"
    BY Zenon, <2>1 DEF PopenInv, HandInv, Closing, Alive
  <2>2. CASE at[t] = "kill_timeout"
    BY <2>2 DEF PopenInv, FdInv, RegistryInv, Started, Piped, Alive
  <2> QED
    BY Zenon, <2>1, <2>2
<1> QED
  BY <1>1, Inductive, PTL

\* Every child that was not reaped is in the registry (pid_list_insert), in the
\* hands of the thread that closes it, on the parking list or logged as dropped
\* (nft_abandon_child), and in one of these places only.
THEOREM EveryChildOwnedThm == PopenSpec => []EveryChildOwned
<1>1. ASSUME PopenInv, NEW p \in Pids
      PROVE  Cardinality({e \in PidList : e.pid = p}) + Cardinality(InHand(p))
             + Cardinality({p} \cap AbandonedPids) + Cardinality({p} \cap dropped)
             = IF child[p].state = "none" THEN 0 ELSE 1
  <2> USE <1>1
  <2> DEFINE Reg == {e \in PidList : e.pid = p}
  <2>1. Cardinality(Reg) = IF Registered(p) THEN 1 ELSE 0
    <3>1. \A d, e \in Reg : d.pid = e.pid /\ d.fd = e.fd
      BY DEF PopenInv, RegistryInv
    <3>2. \A d, e \in Reg : d = e
      BY <3>1 DEF PopenInv, PopenTypes
    <3>3. Reg = {} <=> ~Registered(p)
      BY Zenon DEF Registered
    <3> QED
      BY Zenon, <3>2, <3>3, AtMostOne
  <2>2. Cardinality(InHand(p)) = IF Held(p) THEN 1 ELSE 0
    <3>1. \A t, u \in InHand(p) : t = u
      BY Zenon DEF PopenInv, HandInv, InHand, Closing
    <3>2. InHand(p) = {} <=> ~Held(p)
      BY Zenon DEF Held, InHand, Closing
    <3> QED
      BY Zenon, <3>1, <3>2, AtMostOne
  <2>3. Cardinality({p} \cap AbandonedPids) = IF p \in AbandonedPids THEN 1 ELSE 0
    <3>1. /\ \A x, y \in {p} \cap AbandonedPids : x = y
          /\ {p} \cap AbandonedPids = {} <=> p \notin AbandonedPids
      BY Zenon
    <3> QED
      BY Zenon, <3>1, AtMostOne
  <2>4. Cardinality({p} \cap dropped) = IF p \in dropped THEN 1 ELSE 0
    <3>1. /\ \A x, y \in {p} \cap dropped : x = y
          /\ {p} \cap dropped = {} <=> p \notin dropped
      BY Zenon
    <3> QED
      BY Zenon, <3>1, AtMostOne
  <2>5. ~(Registered(p) /\ Held(p))
    BY DEF PopenInv, RegistryInv, HandInv, Registered, Held, Started, Closing
  <2>6. ~(p \in AbandonedPids /\ p \in dropped)
    BY Zenon DEF PopenInv, ParkedInv
  <2>7. p \in AbandonedPids \/ p \in dropped => ~Registered(p) /\ ~Held(p)
    BY Zenon DEF PopenInv, ParkedInv
  <2>8. Alive(p) <=> Registered(p) \/ Held(p) \/ p \in AbandonedPids \/ p \in dropped
    BY DEF PopenInv, RegistryInv, HandInv, ParkedInv, CoverInv, Registered, Held
  <2> HIDE DEF Reg
  <2> QED
    BY <2>1, <2>2, <2>3, <2>4, <2>5, <2>6, <2>7, <2>8 DEF Alive, Reg
<1>2. PopenInv => EveryChildOwned
  BY <1>1, Zenon DEF EveryChildOwned
<1> QED
  BY <1>2, Inductive, PTL

-----------------------------------------------------------------------------
(* icmp_shared_await() *)

Listed == {"send", "await", "asleep", "unregister"} \cup ReaderStates

Typing ==
    /\ pc \in [Waiters -> Listed \cup {"start", "done"}]
    /\ icmp_waiters \in Seq(Waiters)
    /\ answered \in [Waiters -> BOOLEAN]
    /\ sleeping \in [Waiters -> BOOLEAN]
    /\ signalled \in [Waiters -> BOOLEAN]
    /\ reading \in BOOLEAN

InList(list, w) == \E i \in 1..Len(list) : list[i] = w

\* The registration list holds every thread between register and unregister, and
\* the sleeping flag tells who is inside pthread_cond_timedwait().
WaiterInv ==
    \A w \in Waiters : /\ pc[w] \in Listed => InList(icmp_waiters, w)
                       /\ sleeping[w] <=> pc[w] = "asleep"

\* icmp_shared.reading is a lock on the socket.
ReaderInv ==
    /\ \A w \in Waiters : pc[w] \in ReaderStates => reading
    /\ reading => \E w \in Waiters : pc[w] \in ReaderStates
    /\ \A v, w \in Waiters :
          pc[v] \in ReaderStates /\ pc[w] \in ReaderStates => v = w

\* A free socket has been offered to somebody who sleeps.
WakeInv ==
    (~reading /\ \E w \in Waiters : sleeping[w] /\ ~answered[w]) =>
        \E w \in Waiters : sleeping[w] /\ signalled[w]

IInv == Typing /\ WaiterInv /\ ReaderInv /\ WakeInv

-----------------------------------------------------------------------------
(* The operators *)

\* A nonempty set of numbers has a least one (the first waiter of the list).
LEMMA HasMin ==
    ASSUME NEW S, S \subseteq Nat, S # {}
    PROVE  \E m \in S : \A k \in S : m <= k
<1>1. PICK m \in S : \A k \in S : ~(<<k, m>> \in OpToRel(<, Nat))
  BY NatLessThanWellFounded, WFMin, Zenon
<1>2. \A k \in S : ~(k < m)
  BY <1>1, Zenon DEF OpToRel
<1> QED
  BY <1>2

\* A hand-over by w finds a sleeper if an unanswered one is registered.
LEMMA HandoffWakes ==
    ASSUME Typing, NEW w, NEW list \in Seq(Waiters), Handoff(list, w, FALSE),
           NEW v \in Waiters, v # w, sleeping[v], ~answered[v], InList(list, v)
    PROVE  \E u \in Waiters : u # w /\ sleeping[u] /\ signalled'[u]
<1> DEFINE candidates == {i \in 1..Len(list) : /\ list[i] # w
                                               /\ sleeping[list[i]]
                                               /\ ~answered[list[i]]}
<1>1. candidates \subseteq Nat /\ candidates # {}
  BY DEF InList
<1>2. PICK c \in candidates : \A d \in candidates : c <= d
  BY <1>1, HasMin, Zenon
<1>3. list[c] \in FirstSleeper(list, w)
  BY Zenon, <1>2 DEF FirstSleeper
<1>4. list[c] \in Waiters /\ list[c] # w /\ sleeping[list[c]]
  BY <1>2
<1> QED
  BY Zenon, <1>3, <1>4 DEF Handoff

\* Unlinking a node keeps the others.
LEMMA UnlinkKeeps ==
    ASSUME NEW list \in Seq(Waiters), NEW w \in Waiters, InList(list, w)
    PROVE  /\ Unlink(list, w) \in Seq(Waiters)
           /\ \A v \in Waiters : v # w /\ InList(list, v) => InList(Unlink(list, w), v)
<1> DEFINE link == CHOOSE i \in 1..Len(list) : list[i] = w
           short == Unlink(list, w)
<1>1. link \in 1..Len(list) /\ list[link] = w
  BY Zenon DEF InList
<1> HIDE DEF link
<1>2. Len(list) \in Nat /\ Len(list) - 1 \in Nat
  BY <1>1
<1>3. short = [i \in 1..(Len(list) - 1) |-> IF i < link THEN list[i] ELSE list[i + 1]]
  BY Zenon DEF Unlink, link
<1>4. \A i \in 1..(Len(list) - 1) : (IF i < link THEN list[i] ELSE list[i + 1]) \in Waiters
  BY <1>1, <1>2
<1>5. short \in Seq(Waiters) /\ Len(short) = Len(list) - 1
  <2>1. short \in [1..(Len(list) - 1) -> Waiters]
    BY Zenon, <1>3, <1>4
  <2> HIDE DEF short
  <2> QED
    BY <1>2, <2>1, IsASeq, LenProperties
<1>6. ASSUME NEW v \in Waiters, v # w, NEW i \in 1..Len(list), list[i] = v
      PROVE  \E k \in 1..Len(short) : short[k] = v
  <2>1. CASE i < link
    BY <1>1, <1>2, <1>3, <1>5, <1>6, <2>1
  <2>2. CASE i > link
    <3>1. i - 1 \in 1..(Len(list) - 1) /\ ~(i - 1 < link) /\ (i - 1) + 1 = i
      BY <1>1, <1>2, <2>2
    <3>2. short[i - 1] = list[i]
      BY Zenon, <1>3, <3>1
    <3> QED
      BY Zenon, <1>5, <1>6, <3>1, <3>2
  <2> QED
    BY <1>1, <1>6, <2>1, <2>2
<1> QED
  BY Zenon, <1>5, <1>6 DEF InList

-----------------------------------------------------------------------------
(* The inductive invariant *)

\* The socket starts with no waiter and no reader.
LEMMA InitInv == Init => IInv
<1> SUFFICES ASSUME Init PROVE IInv
  BY Zenon
<1>1. Typing
  BY EmptySeq, Zenon DEF Init, Typing
<1>2. WaiterInv /\ ReaderInv /\ WakeInv
  BY Zenon DEF Init, WaiterInv, ReaderInv, WakeInv, Listed, ReaderStates
<1> QED
  BY Zenon, <1>1, <1>2 DEF IInv

\* The loop of icmp_shared_await(), entered by a waiter that does not read or by
\* the reader when it is back under the lock.
LEMMA LoopStep ==
    ASSUME IInv, NEW w \in Waiters, NEW busy \in BOOLEAN, Loop(w, busy),
           UNCHANGED <<icmp_waiters, answered>>,
           \/ pc[w] \in {"await", "asleep"} /\ busy = reading
           \/ pc[w] = "relock" /\ ~busy
    PROVE  IInv'
<1> USE DEF Listed, ReaderStates
<1>1. /\ busy => \E v \in Waiters : v # w /\ pc[v] \in ReaderStates
      /\ ~busy => \A v \in Waiters : v # w => pc[v] \notin ReaderStates
  BY Zenon DEF IInv, Typing, ReaderInv
<1>2. CASE Leave(w, busy)
  <2>1. PICK s \in {"unregister", "send"} :
            /\ pc' = [pc EXCEPT ![w] = s] /\ reading' = busy
            /\ sleeping' = [sleeping EXCEPT ![w] = FALSE]
            /\ Handoff(icmp_waiters, w, busy)
    BY Zenon, <1>2 DEF Leave, Goto
  <2>2. signalled' \in [Waiters -> BOOLEAN]
    BY Zenon, <2>1 DEF Handoff
  <2>3. Typing'
    BY <2>1, <2>2, Zenon DEF IInv, Typing
  <2>4. WaiterInv'
    BY Zenon, <2>1 DEF IInv, Typing, WaiterInv
  <2>5. ReaderInv'
    BY <1>1, <2>1 DEF IInv, Typing, ReaderInv
  <2>6. WakeInv'
    <3> SUFFICES ASSUME ~busy, NEW v \in Waiters, sleeping'[v], ~answered[v]
                 PROVE  \E u \in Waiters : sleeping'[u] /\ signalled'[u]
      BY Zenon, <2>1 DEF WakeInv
    <3>1. v # w /\ sleeping[v] /\ InList(icmp_waiters, v)
      BY Zenon, <2>1 DEF IInv, Typing, WaiterInv
    <3>2. Handoff(icmp_waiters, w, FALSE)
      BY <2>1, Zenon
    <3>3. PICK u \in Waiters : u # w /\ sleeping[u] /\ signalled'[u]
      BY <3>1, <3>2, HandoffWakes, Zenon DEF IInv, Typing
    <3> QED
      BY Zenon, <2>1, <3>3 DEF IInv, Typing
  <2> QED
    BY Zenon, <2>3, <2>4, <2>5, <2>6 DEF IInv
<1>3. CASE ~Leave(w, busy)
  <2>1. /\ reading' = TRUE
        /\ signalled' = [signalled EXCEPT ![w] = FALSE]
        /\ \/ /\ busy /\ pc' = [pc EXCEPT ![w] = "asleep"]
              /\ sleeping' = [sleeping EXCEPT ![w] = TRUE]
           \/ /\ ~busy /\ pc' = [pc EXCEPT ![w] = "select"]
              /\ sleeping' = [sleeping EXCEPT ![w] = FALSE]
    BY Zenon, <1>3 DEF Loop, Goto
  <2>2. Typing'
    BY <2>1, Zenon DEF IInv, Typing
  <2>3. WaiterInv'
    BY ZenonT(60), <2>1 DEF IInv, Typing, WaiterInv
  <2>4. ReaderInv'
    BY <1>1, <2>1 DEF IInv, Typing, ReaderInv
  <2>5. WakeInv'
    BY Zenon, <2>1 DEF WakeInv
  <2> QED
    BY Zenon, <2>2, <2>3, <2>4, <2>5 DEF IInv
<1> QED
  BY Zenon, <1>2, <1>3

\* A waiter put at the head is on the list, and so is everybody who was.
LEMMA PrependKeeps ==
    ASSUME NEW list \in Seq(Waiters), NEW w \in Waiters
    PROVE  /\ <<w>> \o list \in Seq(Waiters)
           /\ InList(<<w>> \o list, w)
           /\ \A v \in Waiters : InList(list, v) => InList(<<w>> \o list, v)
<1>0. /\ Len(<<w>> \o list) = 1 + Len(list) /\ Len(list) \in Nat
      /\ <<w>> \o list \in Seq(Waiters)
      /\ (<<w>> \o list)[1] = w
      /\ \A i \in 1..Len(list) : (<<w>> \o list)[i + 1] = list[i]
  BY SMTT(30)
<1>1. InList(<<w>> \o list, w)
  <2>1. 1 \in 1..Len(<<w>> \o list)
    BY <1>0
  <2> QED
    BY Zenon, <1>0, <2>1 DEF InList
<1>2. ASSUME NEW v \in Waiters, InList(list, v) PROVE InList(<<w>> \o list, v)
  <2>1. PICK i \in 1..Len(list) : list[i] = v
    BY Zenon, <1>2 DEF InList
  <2>2. i + 1 \in 1..Len(<<w>> \o list)
    BY <1>0
  <2> QED
    BY Zenon, <1>0, <2>1, <2>2 DEF InList
<1> QED
  BY Zenon, <1>0, <1>1, <1>2

\* Every step of a waiter keeps a reader on the socket, or one on the way to it.
LEMMA Step == IInv /\ [Next]_vars => IInv'
<1> SUFFICES ASSUME IInv, [Next]_vars PROVE IInv'
  BY Zenon
<1> USE DEF Listed, ReaderStates
<1>1. ASSUME NEW w \in Waiters, Register(w) PROVE IInv'
  <2> USE <1>1 DEF Register, Goto, attempt, drain
  <2>1. /\ icmp_waiters' \in Seq(Waiters)
        /\ \A v \in Waiters : v = w \/ InList(icmp_waiters, v) => InList(icmp_waiters', v)
    BY Zenon, PrependKeeps DEF IInv, Typing
  <2>2. Typing' /\ WaiterInv'
    BY Zenon, <2>1 DEF IInv, Typing, WaiterInv
  <2>3. ReaderInv' /\ WakeInv'
    BY Zenon DEF IInv, Typing, ReaderInv, WakeInv
  <2> QED
    BY Zenon, <2>2, <2>3 DEF IInv
<1>2. ASSUME NEW w \in Waiters, Send(w) PROVE IInv'
  <2>1. /\ pc[w] = "send"
        /\ \E s \in {"unregister", "await", "send"} : pc' = [pc EXCEPT ![w] = s]
        /\ UNCHANGED <<waiterVars, reading>>
    BY Zenon, <1>2 DEF Send, Goto, IInv, Typing
  <2>2. Typing' /\ WaiterInv'
    BY Zenon, <2>1 DEF waiterVars, IInv, Typing, WaiterInv
  <2>3. ReaderInv' /\ WakeInv'
    BY Zenon, <2>1 DEF waiterVars, IInv, Typing, ReaderInv, WakeInv
  <2> QED
    BY Zenon, <2>2, <2>3 DEF IInv
<1>3. ASSUME NEW w \in Waiters, Unregister(w) PROVE IInv'
  <2> USE <1>3 DEF Unregister, Goto, attempt, drain
  <2>1. pc[w] = "unregister" /\ InList(icmp_waiters, w) /\ icmp_waiters \in Seq(Waiters)
    BY Zenon DEF IInv, Typing, WaiterInv
  <2>2. /\ icmp_waiters' \in Seq(Waiters)
        /\ \A v \in Waiters : v # w /\ InList(icmp_waiters, v) => InList(icmp_waiters', v)
    BY Zenon, <2>1, UnlinkKeeps
  <2>3. signalled' \in [Waiters -> BOOLEAN]
    BY Zenon DEF Handoff
  <2>4. Typing' /\ WaiterInv'
    BY <2>1, <2>2, <2>3, Zenon DEF IInv, Typing, WaiterInv
  <2>5. ReaderInv'
    BY Zenon, <2>1 DEF IInv, Typing, ReaderInv
  <2>6. WakeInv'
    <3> SUFFICES ASSUME ~reading, NEW v \in Waiters, sleeping[v], ~answered[v]
                 PROVE  \E u \in Waiters : sleeping[u] /\ signalled'[u]
      BY Zenon DEF WakeInv
    <3>1. v # w /\ InList(icmp_waiters', v)
      BY Zenon, <2>1, <2>2 DEF IInv, Typing, WaiterInv
    <3>2. Handoff(icmp_waiters', w, FALSE)
      BY Zenon DEF IInv, Typing
    <3> QED
      BY <2>2, <3>1, <3>2, HandoffWakes, Zenon DEF IInv
  <2> QED
    BY Zenon, <2>4, <2>5, <2>6 DEF IInv
<1>4. ASSUME NEW w \in Waiters, Await(w) \/ Wake(w) \/ SpuriousWake(w) PROVE IInv'
  BY Zenon, <1>4, LoopStep DEF Await, Wake, SpuriousWake, IInv, Typing
<1>5. ASSUME NEW w \in Waiters, Select(w) \/ SelectFails(w) \/ Recv(w) PROVE IInv'
  <2>1. /\ pc[w] \in ReaderStates
        /\ \E s \in ReaderStates : pc' = [pc EXCEPT ![w] = s]
        /\ UNCHANGED <<waiterVars, reading>>
    BY <1>5, Zenon DEF Select, SelectFails, Recv, Goto
  <2> QED
    BY Zenon, <2>1 DEF waiterVars, IInv, Typing, WaiterInv, ReaderInv, WakeInv
<1>6. ASSUME NEW w \in Waiters, Dispatch(w) PROVE IInv'
  <2>1. /\ pc[w] = "dispatch"
        /\ \E s \in {"recv", "relock"} : pc' = [pc EXCEPT ![w] = s]
        /\ UNCHANGED <<icmp_waiters, sleeping, reading>>
    BY <1>6, Zenon DEF Dispatch, Goto
  <2>2. answered' \in [Waiters -> BOOLEAN] /\ signalled' \in [Waiters -> BOOLEAN]
    BY Zenon, <1>6 DEF Dispatch
  <2>3. reading
    BY Zenon, <2>1 DEF IInv, ReaderInv
  <2> QED
    BY <2>1, <2>2, <2>3, ZenonT(60) DEF IInv, Typing, WaiterInv, ReaderInv, WakeInv
<1>7. ASSUME NEW w \in Waiters, Relock(w) PROVE IInv'
  BY <1>7, LoopStep, Zenon DEF Relock
<1>8. ASSUME UNCHANGED <<pc, waiterVars, reading>> PROVE IInv'
  BY Zenon, <1>8 DEF waiterVars, IInv, Typing, WaiterInv, ReaderInv, WakeInv
<1>9. ASSUME NEW w \in Waiters, Expire(w) PROVE IInv'
  BY Zenon, <1>8, <1>9 DEF Expire
<1>10. ASSUME NEW m, Arrive(m) PROVE IInv'
  BY Zenon, <1>8, <1>10 DEF Arrive
<1>11. CASE UNCHANGED vars
  BY Zenon, <1>8, <1>11 DEF vars
<1> QED
  BY Zenon, <1>1, <1>2, <1>3, <1>4, <1>5, <1>6, <1>7, <1>9, <1>10, <1>11 DEF Next, Thread, Done

-----------------------------------------------------------------------------

\* The shared socket has one reader exactly while icmp_shared.reading is set, and
\* a free socket was offered by icmp_shared_handoff() to somebody who sleeps as
\* long as an unanswered thread sleeps: no wake-up is lost, whichever thread
\* times out, is woken for no reason or leaves, and in whatever order.
THEOREM SocketNeverAbandonedThm == Spec => []SocketNeverAbandoned
<1>1. IInv => SocketNeverAbandoned
  <2> SUFFICES ASSUME IInv PROVE SocketNeverAbandoned
    BY Zenon
  <2> DEFINE Readers == {w \in Waiters : pc[w] \in ReaderStates}
  <2>1. /\ \A v, w \in Readers : v = w
        /\ reading \in BOOLEAN
        /\ Readers = {} <=> ~reading
    BY Zenon DEF IInv, Typing, ReaderInv
  <2>2. Cardinality(Readers) = IF Readers = {} THEN 0 ELSE 1
    BY Zenon, <2>1, AtMostOne
  <2> QED
    BY Zenon, <2>1, <2>2 DEF SocketNeverAbandoned, IInv, WakeInv
<1> QED
  BY <1>1, InitInv, Step, PTL DEF Spec
=============================================================================
