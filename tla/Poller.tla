------------------------------- MODULE Poller -------------------------------
(***************************************************************************)
(* One polling run of spine: the main thread hands the partitions of the   *)
(* selected devices to detached worker threads, each worker borrows its    *)
(* database connections from a fixed pool, polls, counts itself complete,  *)
(* and gives back its permit; the main thread waits for all permits and    *)
(* only then tears the shared storage down (poller/workers.c,              *)
(* poller/poller.c, database/pool.c, platform/thread.c, app/runtime.c).    *)
(*                                                                         *)
(* Everything done under LOCK_THDET, LOCK_POOL or inside one permit call   *)
(* is one step; every database statement is a step of its own.             *)
(***************************************************************************)
EXTENDS Naturals, FiniteSets

CONSTANTS
    Rows,              \* num_rows: devices of this run, device 0 included
    MaxDeviceThreads,  \* bound on host.device_threads and on the item counts
    Threads,           \* set.poller.threads: permits, and size of each pool
    Device0,           \* row 1 is the pseudo device 0 (has_device_0, poller 1)
    Remote,            \* poller_id > 1 && mode == REMOTE_ONLINE
    PingOnly,          \* set.availability.ping_only
    ActiveProfiles     \* set.poller.active_profiles

ASSUME RowsAssumption == Rows \in Nat
ASSUME ThreadsAssumption == Threads \in Nat \ {0}
ASSUME MaxDeviceThreadsAssumption == MaxDeviceThreads \in Nat \ {0}
ASSUME FlagsAssumption == /\ Device0 \in BOOLEAN
                          /\ Remote \in BOOLEAN
                          /\ PingOnly \in BOOLEAN
                          /\ ActiveProfiles \in Nat
                          /\ ~(Device0 /\ Remote)

Devices == 1..Rows
Partitions == 1..MaxDeviceThreads
Workers == Devices \X Partitions
ConnIds == 1..Threads
NoConn == 0

VARIABLES
    \* main thread
    main,               \* where spine_run() / launch_poll_workers() stands
    device_counter,     \* devices whose every partition has been launched
    current_thread,     \* partition being launched
    change_host,        \* the next iteration fetches a new device row
    partition_threads,  \* partition.threads, recomputed for every partition
    clock,              \* elapsed time against poller_interval
    exit_code,          \* set.exit.exit_code: 0 or 1 (EXIT_FAILURE)
    \* permits
    available_threads, thread_init_sem,
    \* details[d]; host_threads[d] = 0 stands for details[d] == NULL
    host_threads, threads_complete, output_failed, poll_failed, complete,
    \* connection pools
    local_free, remote_free,
    \* workers: program counter and locals
    wpc, local_cnn, remote_cnn,
    result,             \* what poll_host() found for this partition
    todo,               \* completion statements complete_poll_host() still runs
    write_failed,
    \* database
    persisted,          \* partitions of d whose whole output was accepted
    schedule_runs,      \* times the schedule UPDATE of d was issued
    advanced            \* the schedule UPDATE of d took effect

mainVars == <<device_counter, current_thread, change_host, partition_threads>>
permitVars == <<available_threads, thread_init_sem>>
detailVars == <<host_threads, threads_complete, output_failed, poll_failed,
                complete>>
poolVars == <<local_free, remote_free, local_cnn, remote_cnn>>
dbVars == <<persisted, schedule_runs, advanced>>
localVars == <<result, todo, write_failed>>
vars == <<main, mainVars, clock, exit_code, permitVars, detailVars, poolVars,
          wpc, localVars, dbVars>>

MainStates == {"fetch", "prepare", "acquire", "acquire_pause", "startup",
               "startup_pause", "create", "wait", "wait_check", "finish",
               "free", "exited", "died"}
WorkerStates == {"none", "started", "get_local", "get_remote", "load", "select",
                 "write", "complete", "completion_writes", "release_local",
                 "release_remote", "cleanup", "done"}
Results == {"pending", "missing", "pinged", "ok", "output_failed",
            "poll_failed"}
CompletionWrites == {"schedule", "polling_time", "host_errors"}

Ended == main \in {"exited", "died"}

\* launch_poll_workers(): device 0 takes the first slot without a row fetch.
Init ==
    /\ main = "fetch"
    /\ device_counter = 0
    /\ current_thread = 0
    /\ change_host = ~Device0
    /\ partition_threads = 1
    /\ clock = "early"
    /\ exit_code = 0
    /\ available_threads = Threads
    /\ thread_init_sem = 1
    /\ host_threads = [d \in Devices |-> 0]
    /\ threads_complete = [d \in Devices |-> 0]
    /\ output_failed = [d \in Devices |-> FALSE]
    /\ poll_failed = [d \in Devices |-> FALSE]
    /\ complete = [d \in Devices |-> FALSE]
    /\ local_free = ConnIds
    /\ remote_free = IF Remote THEN ConnIds ELSE {}
    /\ wpc = [w \in Workers |-> "none"]
    /\ local_cnn = [w \in Workers |-> NoConn]
    /\ remote_cnn = [w \in Workers |-> NoConn]
    /\ result = [w \in Workers |-> "pending"]
    /\ todo = [w \in Workers |-> {}]
    /\ write_failed = [w \in Workers |-> FALSE]
    /\ persisted = [d \in Devices |-> {}]
    /\ schedule_runs = [d \in Devices |-> 0]
    /\ advanced = [d \in Devices |-> FALSE]

-----------------------------------------------------------------------------
(* The main thread *)

\* die() from any thread ends the process with EXIT_FAILURE.
Die ==
    /\ main' = "died"
    /\ exit_code' = 1

workerSide == <<detailVars, poolVars, wpc, localVars, dbVars>>

\* Time passes: well before the deadline, within its last second, after it.
Tick ==
    /\ ~Ended
    /\ \/ clock = "early" /\ clock' = "closing"
       \/ clock = "closing" /\ clock' = "expired"
    /\ UNCHANGED <<main, mainVars, exit_code, permitVars, workerSide>>

\* device_threads of the row, at least one.
RequestedThreads(n) == IF n < 1 THEN 1 ELSE n

\* The head of the launch loop, when the next device row is due.
FetchRow ==
    /\ main = "fetch"
    /\ device_counter < Rows
    /\ change_host
    /\ \/ \E n \in 0..MaxDeviceThreads :
             /\ partition_threads' = RequestedThreads(n)
             /\ current_thread' = 1
             /\ main' = "prepare"
             /\ UNCHANGED exit_code
       \/ \* the device list ended early
          /\ exit_code' = 1
          /\ main' = "wait"
          /\ UNCHANGED <<partition_threads, current_thread>>
    /\ UNCHANGED <<device_counter, change_host, clock, permitVars, workerSide>>

NextPartition ==
    /\ main = "fetch"
    /\ device_counter < Rows
    /\ ~change_host
    /\ current_thread' = current_thread + 1
    /\ main' = "prepare"
    /\ UNCHANGED <<device_counter, change_host, partition_threads, clock,
                   exit_code, permitVars, workerSide>>

LaunchDone ==
    /\ main = "fetch"
    /\ device_counter = Rows
    /\ main' = "wait"
    /\ UNCHANGED <<mainVars, clock, exit_code, permitVars, workerSide>>

\* prepare_device_partition(): the item count is read again for every
\* partition, and an item count below the partition count shrinks it.
ClampedThreads(items) ==
    CASE PingOnly -> 1
      [] ~PingOnly /\ items # 0 /\ items < partition_threads -> items
      [] OTHER -> partition_threads

PreparePartition ==
    /\ main = "prepare"
    /\ \/ \E items \in 0..MaxDeviceThreads :
             LET d == device_counter + 1 IN
             /\ partition_threads' = ClampedThreads(items)
             /\ change_host' = IF current_thread >= partition_threads'
                               THEN TRUE ELSE FALSE
             /\ host_threads' = IF current_thread = 1
                                THEN [host_threads EXCEPT ![d] = partition_threads']
                                ELSE host_threads
             /\ main' = "acquire"
             /\ UNCHANGED exit_code
       \/ \* the count query failed
          /\ Die
          /\ UNCHANGED <<partition_threads, change_host, host_threads>>
    /\ UNCHANGED <<device_counter, current_thread, clock, permitVars,
                   threads_complete, output_failed, poll_failed, complete,
                   poolVars, wpc, localVars, dbVars>>

\* wait_for_worker_permit(&available_threads): one try, then a pause.
AcquireThread ==
    /\ main = "acquire"
    /\ IF available_threads > 0
       THEN /\ available_threads' = available_threads - 1
            /\ main' = "startup"
       ELSE /\ main' = "acquire_pause"
            /\ UNCHANGED available_threads
    /\ UNCHANGED <<mainVars, clock, exit_code, thread_init_sem, workerSide>>

\* After the pause: every tenth try gives up within the last second, every try
\* gives up after the deadline. start_poll_worker() then fails the run.
AcquireRetry_silent ==
    /\ main = "acquire_pause"
    /\ \/ clock # "expired" /\ main' = "acquire"
       \/ clock # "early" /\ main' = "wait"
    /\ UNCHANGED <<mainVars, clock, exit_code, permitVars, workerSide>>

AcquireRetry ==
    /\ main = "acquire_pause"
    /\ \/ /\ clock # "expired"
          /\ main' = "acquire"
          /\ UNCHANGED exit_code
       \/ /\ clock # "early"
          /\ main' = "wait"
          /\ exit_code' = 1
    /\ UNCHANGED <<mainVars, clock, permitVars, workerSide>>

AcquireStartup ==
    /\ main = "startup"
    /\ IF thread_init_sem > 0
       THEN /\ thread_init_sem' = thread_init_sem - 1
            /\ main' = "create"
       ELSE /\ main' = "startup_pause"
            /\ UNCHANGED thread_init_sem
    /\ UNCHANGED <<mainVars, clock, exit_code, available_threads, workerSide>>

\* Giving up on the startup permit gives the thread permit back.
StartupRetry ==
    /\ main = "startup_pause"
    /\ \/ /\ clock # "expired"
          /\ main' = "startup"
          /\ UNCHANGED <<exit_code, available_threads>>
       \/ /\ clock # "early"
          /\ main' = "wait"
          /\ exit_code' = 1
          /\ available_threads' = available_threads + 1
    /\ UNCHANGED <<mainVars, clock, thread_init_sem, workerSide>>

\* pthread_create(), EAGAIN retried; a failure returns both permits and stops
\* launching. No memory for the worker's instructions ends the process.
CreateWorker ==
    /\ main = "create"
    /\ \/ /\ wpc' = [wpc EXCEPT ![<<device_counter + 1, current_thread>>] =
                        "started"]
          /\ device_counter' = IF change_host THEN device_counter + 1
                                              ELSE device_counter
          /\ main' = "fetch"
          /\ UNCHANGED <<permitVars, exit_code>>
       \/ /\ thread_init_sem' = thread_init_sem + 1
          /\ available_threads' = available_threads + 1
          /\ exit_code' = 1
          /\ main' = "wait"
          /\ UNCHANGED <<wpc, device_counter>>
       \/ Die /\ UNCHANGED <<permitVars, wpc, device_counter>>
    /\ UNCHANGED <<current_thread, change_host, partition_threads, clock,
                   detailVars, poolVars, localVars, dbVars>>

\* wait_for_workers(): the permit count is read, then judged against the clock.
WorkersOut_offByOne == available_threads + 1 < Threads
WorkersOut == available_threads < Threads

WaitForWorkers ==
    /\ main = "wait"
    /\ main' = IF WorkersOut THEN "wait_check" ELSE "finish"
    /\ UNCHANGED <<mainVars, clock, exit_code, permitVars, workerSide>>

WaitCheck_patient ==
    /\ main = "wait_check"
    /\ main' = "wait"
    /\ UNCHANGED <<mainVars, clock, exit_code, permitVars, workerSide>>

WaitCheck ==
    /\ main = "wait_check"
    /\ IF clock = "expired"
       THEN Die
       ELSE /\ main' = "wait"
            /\ UNCHANGED exit_code
    /\ UNCHANGED <<mainVars, clock, permitVars, workerSide>>

\* report_worker_completion() and persist_poll_completion(): a remote poller's
\* push to the main server may fail the run; then the pools are closed.
PersistPollCompletion ==
    /\ main = "finish"
    /\ main' = "free"
    /\ \/ UNCHANGED exit_code
       \/ Remote /\ exit_code' = 1
    /\ local_free' = {}
    /\ remote_free' = {}
    /\ UNCHANGED <<mainVars, clock, permitVars, detailVars, local_cnn,
                   remote_cnn, wpc, localVars, dbVars>>

\* free_worker_storage() and exit(set.exit.exit_code).
FreeWorkerStorage ==
    /\ main = "free"
    /\ main' = "exited"
    /\ UNCHANGED <<mainVars, clock, exit_code, permitVars, workerSide>>

Main == \/ FetchRow \/ NextPartition \/ LaunchDone \/ PreparePartition
        \/ AcquireThread \/ AcquireRetry \/ AcquireStartup \/ StartupRetry
        \/ CreateWorker \/ WaitForWorkers \/ WaitCheck
        \/ PersistPollCompletion \/ FreeWorkerStorage

-----------------------------------------------------------------------------
(* A worker: child(), poll_host() and complete_poll_host() *)

mainSide == <<main, mainVars, clock>>

\* child() has copied its instructions: the next worker may be started.
ChildStart(w) ==
    /\ ~Ended
    /\ wpc[w] = "started"
    /\ thread_init_sem' = thread_init_sem + 1
    /\ wpc' = [wpc EXCEPT ![w] = "get_local"]
    /\ UNCHANGED <<mainSide, exit_code, available_threads, detailVars,
                   poolVars, localVars, dbVars>>

\* mysql_thread_init() or an allocation fails in a worker.
WorkerDies(w) ==
    /\ ~Ended
    /\ wpc[w] \in {"get_local", "load", "select", "write", "completion_writes"}
    /\ Die
    /\ UNCHANGED <<mainVars, clock, permitVars, workerSide>>

\* Taking entry id marks it as not free.
Take_stillFree(free, id) == free
Take(free, id) == free \ {id}

First(S) == {i \in S : \A j \in S : i <= j}

\* db_get_connection(LOCAL): the first free entry, or none.
GetLocal(w) ==
    /\ ~Ended
    /\ wpc[w] = "get_local"
    /\ IF local_free = {}
       THEN /\ wpc' = [wpc EXCEPT ![w] = "complete"]
            /\ result' = [result EXCEPT ![w] = "poll_failed"]
            /\ UNCHANGED <<local_free, local_cnn>>
       ELSE \E id \in First(local_free) :
            /\ local_free' = Take(local_free, id)
            /\ local_cnn' = [local_cnn EXCEPT ![w] = id]
            /\ wpc' = [wpc EXCEPT ![w] = IF Remote THEN "get_remote" ELSE "load"]
            /\ UNCHANGED result
    /\ UNCHANGED <<mainSide, exit_code, permitVars, detailVars, remote_free,
                   remote_cnn, todo, write_failed, dbVars>>

\* db_get_connection(REMOTE); without one the local connection goes back.
GetRemote(w) ==
    /\ ~Ended
    /\ wpc[w] = "get_remote"
    /\ IF remote_free = {}
       THEN /\ local_free' = local_free \cup {local_cnn[w]}
            /\ local_cnn' = [local_cnn EXCEPT ![w] = NoConn]
            /\ wpc' = [wpc EXCEPT ![w] = "complete"]
            /\ result' = [result EXCEPT ![w] = "poll_failed"]
            /\ UNCHANGED <<remote_free, remote_cnn>>
       ELSE \E id \in First(remote_free) :
            /\ remote_free' = Take(remote_free, id)
            /\ remote_cnn' = [remote_cnn EXCEPT ![w] = id]
            /\ wpc' = [wpc EXCEPT ![w] = "load"]
            /\ UNCHANGED <<result, local_free, local_cnn>>
    /\ UNCHANGED <<mainSide, exit_code, permitVars, detailVars, todo,
                   write_failed, dbVars>>

\* load_poll_host(): device 0 has no row to load; a device deleted since
\* selection returns without being counted, a failed query fails the device.
\* A ping-only run ends here.
LoadPollHost(w) ==
    /\ ~Ended
    /\ wpc[w] = "load"
    /\ \/ /\ ~(Device0 /\ w[1] = 1)
          /\ wpc' = [wpc EXCEPT ![w] = "complete"]
          /\ result' = [result EXCEPT ![w] = "poll_failed"]
       \/ /\ ~(Device0 /\ w[1] = 1)
          /\ wpc' = [wpc EXCEPT ![w] = "release_local"]
          /\ result' = [result EXCEPT ![w] = "missing"]
       \/ /\ PingOnly
          /\ wpc' = [wpc EXCEPT ![w] = "release_local"]
          /\ result' = [result EXCEPT ![w] = "pinged"]
       \/ /\ ~PingOnly
          /\ wpc' = [wpc EXCEPT ![w] = "select"]
          /\ UNCHANGED result
    /\ UNCHANGED <<mainSide, exit_code, permitVars, detailVars, poolVars, todo,
                   write_failed, dbVars>>

\* select_poll_items(), after poll_host_reindex(): a NULL result fails the
\* partition. Whether the partition has invalid results to report is decided
\* while it collects.
SelectPollItems(w) ==
    /\ ~Ended
    /\ wpc[w] = "select"
    /\ \/ /\ result' = [result EXCEPT ![w] = "poll_failed"]
          /\ wpc' = [wpc EXCEPT ![w] = "complete"]
          /\ UNCHANGED todo
       \/ \E errors \in SUBSET {"host_errors"} :
             /\ todo' = [todo EXCEPT ![w] = errors]
             /\ wpc' = [wpc EXCEPT ![w] = "write"]
             /\ UNCHANGED result
    /\ UNCHANGED <<mainSide, exit_code, permitVars, detailVars, poolVars,
                   write_failed, dbVars>>

\* write_poll_results(): every row of the partition accepted, or not.
WritePollResults(w) ==
    /\ ~Ended
    /\ wpc[w] = "write"
    /\ \/ /\ result' = [result EXCEPT ![w] = "ok"]
          /\ persisted' = [persisted EXCEPT ![w[1]] = @ \cup {w[2]}]
       \/ /\ result' = [result EXCEPT ![w] = "output_failed"]
          /\ UNCHANGED persisted
    /\ wpc' = [wpc EXCEPT ![w] = "complete"]
    /\ UNCHANGED <<mainSide, exit_code, permitVars, detailVars, poolVars, todo,
                   write_failed, schedule_runs, advanced>>

\* The schedule moves only for a device none of whose partitions failed.
MayAdvance_ignoresPollFailed(d) == ActiveProfiles # 1 /\ ~output_failed'[d]
MayAdvance(d) ==
    ActiveProfiles # 1 /\ ~(output_failed'[d] \/ poll_failed'[d])

\* A poll_failed partition returns early, still giving back what it borrowed.
AfterPollFailed_leaks(w) == "cleanup"
AfterPollFailed(w) == IF local_cnn[w] = NoConn THEN "cleanup"
                                               ELSE "release_local"

\* complete_poll_host() under LOCK_THDET: count this partition; the last one
\* decides from the flags of all whether the device is complete and whether
\* its schedule may advance. A poll_failed partition runs no statement.
CompletePollHost(w) ==
    LET d == w[1]
        last == threads_complete[d] + 1 = host_threads[d]
        failed == output_failed'[d] \/ poll_failed'[d]
        schedule == IF last /\ MayAdvance(d) THEN {"schedule"} ELSE {}
        time == IF last THEN {"polling_time"} ELSE {}
    IN
    /\ ~Ended
    /\ wpc[w] = "complete"
    /\ output_failed' = [output_failed EXCEPT ![d] =
                            @ \/ result[w] = "output_failed"]
    /\ poll_failed' = [poll_failed EXCEPT ![d] = @ \/ result[w] = "poll_failed"]
    /\ exit_code' = IF result[w] # "ok" THEN 1 ELSE exit_code
    /\ threads_complete' = [threads_complete EXCEPT ![d] = @ + 1]
    /\ complete' = [complete EXCEPT ![d] = IF last THEN ~failed ELSE @]
    /\ IF result[w] = "poll_failed"
       THEN /\ wpc' = [wpc EXCEPT ![w] = AfterPollFailed(w)]
            /\ UNCHANGED todo
       ELSE /\ wpc' = [wpc EXCEPT ![w] = "completion_writes"]
            /\ todo' = [todo EXCEPT ![w] = @ \cup schedule \cup time]
    /\ UNCHANGED <<mainSide, permitVars, host_threads, poolVars, result,
                   write_failed, dbVars>>

\* A completion statement ran: db_insert() said yes or no.
Ran(w, statement, ok) ==
    /\ todo' = [todo EXCEPT ![w] = @ \ {statement}]
    /\ write_failed' = [write_failed EXCEPT ![w] = @ \/ ~ok]

\* The schedule UPDATE. A connection lost after the server applied it is still
\* reported as a failure once the retries are spent.
UpdateSchedule(w) ==
    /\ ~Ended
    /\ wpc[w] = "completion_writes"
    /\ "schedule" \in todo[w]
    /\ schedule_runs' = [schedule_runs EXCEPT ![w[1]] = @ + 1]
    /\ \/ /\ Ran(w, "schedule", TRUE)
          /\ advanced' = [advanced EXCEPT ![w[1]] = TRUE]
       \/ /\ Ran(w, "schedule", FALSE)
          /\ \E applied \in BOOLEAN :
                advanced' = [advanced EXCEPT ![w[1]] = @ \/ applied]
    /\ UNCHANGED <<mainSide, exit_code, permitVars, detailVars, poolVars, wpc,
                   result, persisted>>

\* UPDATE host SET polling_time, then INSERT INTO host_errors.
UpdatePollingTime(w) ==
    /\ ~Ended
    /\ wpc[w] = "completion_writes"
    /\ "polling_time" \in todo[w] /\ "schedule" \notin todo[w]
    /\ \E ok \in BOOLEAN : Ran(w, "polling_time", ok)
    /\ UNCHANGED <<mainSide, exit_code, permitVars, detailVars, poolVars, wpc,
                   result, dbVars>>

InsertHostErrors(w) ==
    /\ ~Ended
    /\ wpc[w] = "completion_writes"
    /\ todo[w] = {"host_errors"}
    /\ \E ok \in BOOLEAN : Ran(w, "host_errors", ok)
    /\ UNCHANGED <<mainSide, exit_code, permitVars, detailVars, poolVars, wpc,
                   result, dbVars>>

\* A failed completion statement takes the device's completion back.
Retract_keepsComplete(d) ==
    /\ output_failed' = [output_failed EXCEPT ![d] = TRUE]
    /\ exit_code' = 1
    /\ UNCHANGED complete

Retract(d) ==
    /\ output_failed' = [output_failed EXCEPT ![d] = TRUE]
    /\ complete' = [complete EXCEPT ![d] = FALSE]
    /\ exit_code' = 1

\* The tail of complete_poll_host().
FinishCompletion(w) ==
    LET d == w[1] IN
    /\ ~Ended
    /\ wpc[w] = "completion_writes"
    /\ todo[w] = {}
    /\ IF write_failed[w]
       THEN Retract(d)
       ELSE UNCHANGED <<output_failed, complete, exit_code>>
    /\ wpc' = [wpc EXCEPT ![w] = "release_local"]
    /\ UNCHANGED <<mainSide, permitVars, host_threads, threads_complete,
                   poll_failed, poolVars, localVars, dbVars>>

\* release_poll_connections(): LOCAL, then REMOTE, each under LOCK_POOL.
ReleaseLocal(w) ==
    /\ ~Ended
    /\ wpc[w] = "release_local"
    /\ local_free' = local_free \cup {local_cnn[w]}
    /\ local_cnn' = [local_cnn EXCEPT ![w] = NoConn]
    /\ wpc' = [wpc EXCEPT ![w] = IF Remote THEN "release_remote" ELSE "cleanup"]
    /\ UNCHANGED <<mainSide, exit_code, permitVars, detailVars, remote_free,
                   remote_cnn, localVars, dbVars>>

ReleaseRemote(w) ==
    /\ ~Ended
    /\ wpc[w] = "release_remote"
    /\ remote_free' = remote_free \cup {remote_cnn[w]}
    /\ remote_cnn' = [remote_cnn EXCEPT ![w] = NoConn]
    /\ wpc' = [wpc EXCEPT ![w] = "cleanup"]
    /\ UNCHANGED <<mainSide, exit_code, permitVars, detailVars, local_free,
                   local_cnn, localVars, dbVars>>

\* child_cleanup(): releasing the permit is the last thing a worker does.
ChildCleanup(w) ==
    /\ ~Ended
    /\ wpc[w] = "cleanup"
    /\ available_threads' = available_threads + 1
    /\ wpc' = [wpc EXCEPT ![w] = "done"]
    /\ UNCHANGED <<mainSide, exit_code, thread_init_sem, detailVars, poolVars,
                   localVars, dbVars>>

Worker(w) ==
    \/ ChildStart(w) \/ WorkerDies(w) \/ GetLocal(w) \/ GetRemote(w)
    \/ LoadPollHost(w) \/ SelectPollItems(w) \/ WritePollResults(w)
    \/ CompletePollHost(w) \/ UpdateSchedule(w) \/ UpdatePollingTime(w)
    \/ InsertHostErrors(w) \/ FinishCompletion(w) \/ ReleaseLocal(w)
    \/ ReleaseRemote(w) \/ ChildCleanup(w)

\* The process has ended: nothing moves any more.
Terminated == Ended /\ UNCHANGED vars

Next == Tick \/ Main \/ (\E w \in Workers : Worker(w)) \/ Terminated

Spec == Init /\ [][Next]_vars

\* The scheduler runs the main thread. What each liveness property asks of the
\* clock and of the workers on top is its own hypothesis.
MainSpec == Spec /\ WF_vars(Main)

-----------------------------------------------------------------------------
(* Properties *)

\* Type invariant: permits and counters stay within their bounds.
TypeOK ==
    /\ main \in MainStates
    /\ device_counter \in 0..Rows
    /\ current_thread \in 0..MaxDeviceThreads
    /\ change_host \in BOOLEAN
    /\ partition_threads \in Partitions
    /\ clock \in {"early", "closing", "expired"}
    /\ exit_code \in {0, 1}
    /\ available_threads \in 0..Threads
    /\ thread_init_sem \in {0, 1}
    /\ host_threads \in [Devices -> 0..MaxDeviceThreads]
    /\ threads_complete \in [Devices -> 0..MaxDeviceThreads]
    /\ output_failed \in [Devices -> BOOLEAN]
    /\ poll_failed \in [Devices -> BOOLEAN]
    /\ complete \in [Devices -> BOOLEAN]
    /\ local_free \subseteq ConnIds
    /\ remote_free \subseteq ConnIds
    /\ wpc \in [Workers -> WorkerStates]
    /\ local_cnn \in [Workers -> ConnIds \cup {NoConn}]
    /\ remote_cnn \in [Workers -> ConnIds \cup {NoConn}]
    /\ result \in [Workers -> Results]
    /\ todo \in [Workers -> SUBSET CompletionWrites]
    /\ write_failed \in [Workers -> BOOLEAN]
    /\ persisted \in [Devices -> SUBSET Partitions]
    /\ schedule_runs \in [Devices -> {0, 1}]
    /\ advanced \in [Devices -> BOOLEAN]

\* db_get_connection() is never asked for a connection that is not there: the
\* pools have one entry per permit and every path of poll_host() gives its
\* entries back before child_cleanup() gives the permit back. "FATAL:
\* Connection Pool Fatal Error." is unreachable.
PoolNeverExhausted ==
    \A w \in Workers :
        /\ wpc[w] = "get_local" => local_free # {}
        /\ wpc[w] = "get_remote" => remote_free # {}

\* No two workers ever use the same MYSQL handle, and no handle in use is
\* marked free: LOCK_POOL and the release order keep a connection private.
ConnectionsExclusive ==
    \A v, w \in Workers :
        /\ local_cnn[w] # NoConn => /\ local_cnn[w] \notin local_free
                                    /\ v # w => local_cnn[v] # local_cnn[w]
        /\ remote_cnn[w] # NoConn => /\ remote_cnn[w] \notin remote_free
                                     /\ v # w => remote_cnn[v] # remote_cnn[w]

\* The pools are closed and details[] is freed only when no worker can touch
\* them any more: wait_for_workers() returns only with every permit back
\* ("Releasing the permit publishes completion").
TeardownAfterWorkers ==
    main \in {"finish", "free", "exited"} =>
        \A w \in Workers : wpc[w] \in {"none", "done"}

\* A device's schedule is advanced at most once, and only after every one of
\* its partitions has had its whole output accepted: an item is never moved to
\* its next step without the sample of this step, whatever the order in which
\* the partitions end and fail.
ScheduleCoversDevice ==
    \A d \in Devices :
        /\ schedule_runs[d] <= 1
        /\ schedule_runs[d] = 1 => persisted[d] = 1..host_threads[d]

\* A device marked complete has had the output of every partition accepted and
\* carries no failure flag: output_failed "keeps a later partition from marking
\* the device complete".
CompleteMeansPersisted ==
    \A d \in Devices :
        complete[d] => /\ ~output_failed[d] /\ ~poll_failed[d]
                       /\ persisted[d] = 1..host_threads[d]

\* exit(EXIT_SUCCESS) means that the launcher went through every device, and
\* that a device is complete unless a partition found it deleted or the
\* launcher started fewer partitions than it had announced (the item count
\* shrank).
ExitSuccessMeansPolled ==
    (main = "exited" /\ exit_code = 0 /\ ~PingOnly) =>
        /\ device_counter = Rows
        /\ \A d \in Devices :
            \/ complete[d]
            \/ \E k \in 1..host_threads[d] :
                  \/ wpc[<<d, k>>] = "none"
                  \/ result[<<d, k>>] = "missing"

\* If time passes, a run always ends, even if workers hang for ever: every wait
\* of the main thread watches the polling interval. And if every worker is
\* scheduled, permits, pool entries and the startup handshake never block it: it
\* ends without help from the clock, even if the interval never runs out.
RunEnds ==
    /\ WF_vars(Tick) => <>Ended
    /\ (\A w \in Workers : WF_vars(Worker(w))) => <>Ended \/ <>(clock # "early")
=============================================================================
