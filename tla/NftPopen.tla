------------------------------ MODULE NftPopen ------------------------------
(***************************************************************************)
(* Script execution: poller threads run exec_poll(), which takes a script  *)
(* permit, starts a child with nft_popen(), reads one answer or times out, *)
(* and closes with nft_pclose(); children that do not exit in time are     *)
(* killed and parked for a later sweep (script/external.c,                 *)
(* process/nft_popen.c, process/fd.c).                                     *)
(*                                                                         *)
(* The kernel is part of the model: descriptor and process numbers are     *)
(* reused as soon as they are closed or reaped, and a killed child may     *)
(* stay for as long as it likes before it becomes a zombie.                *)
(***************************************************************************)
EXTENDS Naturals, FiniteSets

CONSTANTS
    Threads,       \* poller threads that run scripts
    Fds,           \* descriptor numbers nft_popen() may be given
    Pids,          \* process numbers
    Null,          \* no thread, no descriptor, no process number
    MaxScripts,    \* MAX_SIMULTANEOUS_SCRIPTS, permits of available_scripts
    MaxAbandoned,  \* NFT_ABANDONED_MAX
    MaxTries,      \* script_timeout * 15 - 1 tries for a permit
    Items          \* script items a thread polls

ASSUME CountsAssumption == /\ MaxScripts \in Nat /\ MaxAbandoned \in Nat
                           /\ MaxTries \in Nat \ {0} /\ Items \in Nat
ASSUME SetsAssumption == /\ IsFiniteSet(Threads) /\ IsFiniteSet(Pids)
                         /\ Null \notin Threads \cup Fds \cup Pids

VARIABLES
    at,                 \* where exec_poll() stands in each thread
    items,              \* items the thread still has to poll
    tries,              \* tries for the script permit left
    fd,                 \* cmd_fd
    pid,                \* the pid a thread is about to wait for or to signal
    available_scripts,
    list_mutex,         \* ListMutex
    PidList,            \* registry entries [fd, pid]
    AbandonedPids,
    dropped,            \* children logged as "it will remain a zombie"
    open_fds,           \* kernel: descriptors open at the parent
    child               \* kernel: what each process number stands for

locals == <<items, tries, fd, pid>>
registry == <<list_mutex, PidList, AbandonedPids, dropped>>
kernel == <<open_fds, child>>
popenVars == <<at, locals, available_scripts, registry, kernel>>

\* child[p].of is the thread that started it; a free number has no owner.
NoChild == [state |-> "none", of |-> Null]

PopenInit ==
    /\ at = [t \in Threads |-> "idle"]
    /\ items = [t \in Threads |-> Items]
    /\ tries = [t \in Threads |-> 0]
    /\ fd = [t \in Threads |-> Null]
    /\ pid = [t \in Threads |-> Null]
    /\ available_scripts = MaxScripts
    /\ list_mutex = Null
    /\ PidList = {}
    /\ AbandonedPids = {}
    /\ dropped = {}
    /\ open_fds = {}
    /\ child = [p \in Pids |-> NoChild]

MoveTo(t, s) == at' = [at EXCEPT ![t] = s]

-----------------------------------------------------------------------------
(* exec_poll() *)

ExecPoll(t) ==
    /\ at[t] = "idle"
    /\ items[t] > 0
    /\ items' = [items EXCEPT ![t] = @ - 1]
    /\ tries' = [tries EXCEPT ![t] = MaxTries]
    /\ MoveTo(t, "acquire")
    /\ UNCHANGED <<fd, pid, available_scripts, registry, kernel>>

\* One try of acquire_script_permit(); the last failed one gives up, and a
\* thread without a permit has none to give back (needs_cleanup = 0).
AfterPermit(t) == IF tries[t] = 1 THEN "idle" ELSE "acquire"

AcquireScriptPermit(t) ==
    /\ at[t] = "acquire"
    /\ IF available_scripts > 0
       THEN /\ available_scripts' = available_scripts - 1
            /\ MoveTo(t, "access")
            /\ UNCHANGED tries
       ELSE /\ tries' = [tries EXCEPT ![t] = @ - 1]
            /\ MoveTo(t, AfterPermit(t))
            /\ UNCHANGED available_scripts
    /\ UNCHANGED <<items, fd, pid, registry, kernel>>

\* access() finds no executable, or nft_popen() fails before it takes the lock
\* (no descriptors, no memory), or it has its pipe.
OpenPipe(t) ==
    /\ at[t] = "access"
    /\ \/ /\ MoveTo(t, "release")
          /\ UNCHANGED <<fd, open_fds>>
       \/ \E f \in Fds \ open_fds :
             /\ open_fds' = open_fds \cup {f}
             /\ fd' = [fd EXCEPT ![t] = f]
             /\ MoveTo(t, "lock")
    /\ UNCHANGED <<items, tries, pid, available_scripts, registry, child>>

\* nft_sweep_abandoned(): every parked zombie is reaped.
Sweepable_all == AbandonedPids
Sweepable == {p \in AbandonedPids : child[p].state \in {"zombie", "none"}}
Reaped(S) == [p \in Pids |-> IF p \in S /\ child[p].state = "zombie"
                              THEN NoChild ELSE child[p]]

PopenLock(t) ==
    /\ at[t] = "lock"
    /\ list_mutex = Null
    /\ list_mutex' = t
    /\ AbandonedPids' = AbandonedPids \ Sweepable
    /\ child' = Reaped(Sweepable)
    /\ MoveTo(t, "spawn")
    /\ UNCHANGED <<locals, available_scripts, PidList, dropped, open_fds>>

\* The spawn_failed teardown: close the pipe, leave the lock.
SpawnFailed(t) ==
    /\ open_fds' = open_fds \ {fd[t]}
    /\ list_mutex' = Null
    /\ MoveTo(t, "release")
    /\ UNCHANGED <<PidList, child>>

\* posix_spawn(), retried three times with the lock held; a failure of the
\* file actions or attributes ends the same way as a failed spawn.
Spawn(t) ==
    /\ at[t] = "spawn"
    /\ \/ \E p \in Pids :
             /\ child[p] = NoChild
             /\ child' = [child EXCEPT ![p] = [state |-> "running", of |-> t]]
             /\ PidList' = PidList \cup {[fd |-> fd[t], pid |-> p]}
             /\ list_mutex' = Null
             /\ MoveTo(t, "read")
             /\ UNCHANGED open_fds
       \/ SpawnFailed(t)
    /\ UNCHANGED <<locals, available_scripts, AbandonedPids, dropped>>

Entries(f) == {e \in PidList : e.fd = f}

\* read_script_result(): an answer, end of file or an error; or the deadline,
\* after which nft_pchild() looks the child up.
ReadScriptResult(t) ==
    /\ at[t] = "read"
    /\ \/ /\ MoveTo(t, "pclose")
          /\ UNCHANGED pid
       \/ /\ list_mutex = Null
          /\ IF Entries(fd[t]) = {}
             THEN /\ MoveTo(t, "pclose")
                  /\ UNCHANGED pid
             ELSE /\ \E e \in Entries(fd[t]) : pid' = [pid EXCEPT ![t] = e.pid]
                  /\ MoveTo(t, "kill_timeout")
    /\ UNCHANGED <<items, tries, fd, available_scripts, registry, kernel>>

\* SIGKILL to the group of p, whoever p is by now.
Kill(p) == child' = [child EXCEPT ![p].state = IF @ = "running" THEN "killed"
                                                               ELSE @]

KillTimeout(t) ==
    /\ at[t] = "kill_timeout"
    /\ Kill(pid[t])
    /\ MoveTo(t, "pclose")
    /\ UNCHANGED <<locals, available_scripts, registry, open_fds>>

\* pid_list_close_and_take(): close and unlink under the lock. Closing first
\* and unlinking later would leave an entry whose descriptor is someone else's.
TakeEntries(t) ==
    /\ open_fds' = open_fds \ {fd[t]}
    /\ PidList' = PidList \ Entries(fd[t])

PcloseTake(t) ==
    /\ at[t] = "pclose"
    /\ list_mutex = Null
    /\ IF Entries(fd[t]) = {}
       THEN /\ MoveTo(t, "release")
            /\ UNCHANGED <<pid, PidList, open_fds>>
       ELSE /\ \E e \in Entries(fd[t]) : pid' = [pid EXCEPT ![t] = e.pid]
            /\ TakeEntries(t)
            /\ MoveTo(t, "reap")
    /\ UNCHANGED <<items, tries, fd, available_scripts, list_mutex,
                   AbandonedPids, dropped, child>>

\* spine_reap_child_bounded(): reaped, or gone already (ECHILD); or the budget
\* runs out, or waitpid() fails, and the child is killed and parked.
ReapChildBounded_killsReaped(t) ==
    /\ at[t] = "reap"
    /\ child' = Reaped({pid[t]})
    /\ MoveTo(t, "kill_close")
    /\ UNCHANGED <<locals, available_scripts, registry, open_fds>>

ReapChildBounded_waits(t) ==
    /\ at[t] = "reap"
    /\ child[pid[t]].state \in {"zombie", "none"}
    /\ child' = Reaped({pid[t]})
    /\ MoveTo(t, "release")
    /\ UNCHANGED <<locals, available_scripts, registry, open_fds>>

ReapChildBounded(t) ==
    /\ at[t] = "reap"
    /\ \/ /\ child[pid[t]].state \in {"zombie", "none"}
          /\ child' = Reaped({pid[t]})
          /\ MoveTo(t, "release")
       \/ /\ MoveTo(t, "kill_close")
          /\ UNCHANGED child
    /\ UNCHANGED <<locals, available_scripts, registry, open_fds>>

\* Kill before parking: once parked, another thread's sweep may reap it.
KillClose(t) ==
    /\ at[t] = "kill_close"
    /\ Kill(pid[t])
    /\ MoveTo(t, "abandon")
    /\ UNCHANGED <<locals, available_scripts, registry, open_fds>>

\* nft_abandon_child(): sweep, then park if there is room.
Room(parked) == Cardinality(parked) < MaxAbandoned

Abandon(t) ==
    LET kept == AbandonedPids \ Sweepable IN
    /\ at[t] = "abandon"
    /\ list_mutex = Null
    /\ child' = Reaped(Sweepable)
    /\ IF Room(kept)
       THEN /\ AbandonedPids' = kept \cup {pid[t]}
            /\ UNCHANGED dropped
       ELSE /\ AbandonedPids' = kept
            /\ dropped' = dropped \cup {pid[t]}
    /\ MoveTo(t, "release")
    /\ UNCHANGED <<locals, available_scripts, list_mutex, PidList, open_fds>>

\* child_cleanup_script(), by pthread_cleanup_pop(needs_cleanup).
ReleaseScript(t) ==
    /\ at[t] = "release"
    /\ available_scripts' = available_scripts + 1
    /\ fd' = [fd EXCEPT ![t] = Null]
    /\ pid' = [pid EXCEPT ![t] = Null]
    /\ MoveTo(t, "idle")
    /\ UNCHANGED <<items, tries, registry, kernel>>

\* The kernel: a script exits, or a kill takes effect.
ChildExits(p) ==
    /\ child[p].state \in {"running", "killed"}
    /\ child' = [child EXCEPT ![p].state = "zombie"]
    /\ UNCHANGED <<at, locals, available_scripts, registry, open_fds>>

Caller(t) == \/ ExecPoll(t) \/ AcquireScriptPermit(t) \/ OpenPipe(t)
             \/ PopenLock(t) \/ Spawn(t) \/ ReadScriptResult(t)
             \/ KillTimeout(t) \/ PcloseTake(t) \/ ReapChildBounded(t)
             \/ KillClose(t) \/ Abandon(t) \/ ReleaseScript(t)

PopenDone == /\ \A t \in Threads : at[t] = "idle" /\ items[t] = 0
             /\ UNCHANGED popenVars

PopenNext ==
    (\E t \in Threads : Caller(t)) \/ (\E p \in Pids : ChildExits(p)) \/ PopenDone

PopenSpec == PopenInit /\ [][PopenNext]_popenVars

\* Threads are scheduled; nothing is asked of the scripts.
FairPopenSpec == PopenSpec /\ \A t \in Threads : WF_popenVars(Caller(t))

-----------------------------------------------------------------------------
(* Properties *)

\* SIGKILL never reaches a process that is not the script this thread started:
\* neither the time-out of read_script_result() nor nft_pclose() signals a
\* process number that was reaped, and perhaps given to another child, since
\* it was looked up.
KillsOwnChild ==
    \A t \in Threads : at[t] \in {"kill_timeout", "kill_close"} =>
        /\ child[pid[t]].state # "none"
        /\ child[pid[t]].of = t

\* Every child that was not reaped is in exactly one place: the registry, the
\* hands of the thread closing it, or the parking list; or it was logged as
\* dropped. "a child dropped here would stay a zombie".
InHand(p) == {t \in Threads : /\ at[t] \in {"reap", "kill_close", "abandon"}
                              /\ pid[t] = p}
EveryChildOwned ==
    \A p \in Pids :
        LET places == Cardinality({e \in PidList : e.pid = p})
                      + Cardinality(InHand(p))
                      + Cardinality({p} \cap AbandonedPids)
                      + Cardinality({p} \cap dropped)
        IN places = IF child[p].state = "none" THEN 0 ELSE 1

\* exec_poll() returns even if no script ever answers or exits: the permit
\* tries, the read and the reaping are bounded, and no path keeps ListMutex
\* ("a path that returns still holding it wedges every later nft_popen()").
ScriptEnds == \A t \in Threads : at[t] # "idle" ~> at[t] = "idle"
=============================================================================
