---------------------------- MODULE PollerProofs ----------------------------
(***************************************************************************)
(* Theorems about Poller, for any number of devices, partitions and        *)
(* threads: permits are conserved and teardown waits for the workers, the  *)
(* pools are large enough and never shared, a device is complete and its   *)
(* schedule moves only when every partition succeeded, and                 *)
(* exit(EXIT_SUCCESS) means that everything was polled. First the          *)
(* inductive invariant and what each step keeps of the parts of it that    *)
(* need no counting.                                                       *)
(***************************************************************************)
EXTENDS Poller, FiniteSetTheorems, TLAPS

(* Typing: the part of TypeOK that needs no counting. *)
Typing ==
    /\ main \in MainStates
    /\ device_counter \in Nat
    /\ current_thread \in Nat
    /\ change_host \in BOOLEAN
    /\ partition_threads \in Partitions
    /\ clock \in {"early", "closing", "expired"}
    /\ exit_code \in {0, 1}
    /\ available_threads \in Nat
    /\ thread_init_sem \in Nat
    /\ host_threads \in [Devices -> 0..MaxDeviceThreads]
    /\ threads_complete \in [Devices -> Nat]
    /\ output_failed \in [Devices -> BOOLEAN]
    /\ poll_failed \in [Devices -> BOOLEAN]
    /\ complete \in [Devices -> BOOLEAN]
    /\ local_free \subseteq ConnIds \cup {NoConn}
    /\ remote_free \subseteq ConnIds \cup {NoConn}
    /\ wpc \in [Workers -> WorkerStates]
    /\ local_cnn \in [Workers -> ConnIds \cup {NoConn}]
    /\ remote_cnn \in [Workers -> ConnIds \cup {NoConn}]
    /\ result \in [Workers -> Results]
    /\ todo \in [Workers -> SUBSET CompletionWrites]
    /\ write_failed \in [Workers -> BOOLEAN]
    /\ persisted \in [Devices -> SUBSET Partitions]
    /\ schedule_runs \in [Devices -> Nat]
    /\ advanced \in [Devices -> BOOLEAN]

-----------------------------------------------------------------------------
(* The inductive invariant, in layers. *)

\* The launcher works on one device at a time, starts its partitions in order,
\* and never starts more of them than details[] announces.
Launching == {"prepare", "acquire", "acquire_pause", "startup",
              "startup_pause", "create"}

LaunchInv ==
    LET d == device_counter + 1 IN
    /\ device_counter <= Rows
    /\ current_thread <= MaxDeviceThreads
    /\ main \in Launching => device_counter < Rows /\ 1 <= current_thread
    /\ main = "prepare" =>
          /\ current_thread <= partition_threads
          /\ current_thread > 1 => partition_threads <= host_threads[d]
    /\ main \in Launching \ {"prepare"} =>
          /\ current_thread <= host_threads[d]
          /\ partition_threads <= host_threads[d]
          /\ ~change_host => current_thread < partition_threads
    /\ (main = "fetch" /\ ~change_host) =>
          /\ current_thread < partition_threads
          /\ current_thread >= 1 => /\ device_counter < Rows
                                    /\ partition_threads <= host_threads[d]

LaunchedInv ==
    \A w \in Workers : wpc[w] # "none" =>
        /\ w[2] <= host_threads[w[1]]
        /\ main \in Launching \cup {"fetch"} =>
              \/ w[1] <= device_counter
              \/ /\ w[1] = device_counter + 1
                 /\ w[2] <= current_thread
                 /\ main = "fetch" => ~change_host
                 /\ main # "fetch" => w[2] < current_thread

\* Where a worker stands determines what is known of its result and of the
\* statements it still has to run.
Early == {"none", "started", "get_local", "get_remote", "load", "select"}
Late == {"release_local", "release_remote", "cleanup", "done"}

WorkerInv ==
    \A w \in Workers :
        /\ wpc[w] \in Early => result[w] = "pending" /\ todo[w] = {}
        /\ wpc[w] = "write" => /\ result[w] = "pending"
                               /\ todo[w] \subseteq {"host_errors"}
        /\ wpc[w] = "complete" =>
              /\ result[w] \in {"ok", "output_failed", "poll_failed"}
              /\ todo[w] \subseteq {"host_errors"}
        /\ wpc[w] = "completion_writes" => result[w] \in {"ok", "output_failed"}
        /\ wpc[w] \in Late => result[w] # "pending" /\ "schedule" \notin todo[w]

\* Permits: one for every live worker, one in the launcher's hand.
Holders == {w \in Workers : wpc[w] \notin {"none", "done"}}
MainHolds == IF main \in {"startup", "startup_pause", "create"} THEN 1 ELSE 0

PermitInv ==
    /\ available_threads + Cardinality(Holders) <= Threads
    /\ main # "died" =>
          available_threads + Cardinality(Holders) + MainHolds = Threads
    /\ main \in {"finish", "free", "exited"} => Holders = {}

\* The startup permit is with the launcher or with the one worker that has not
\* copied its instructions yet.
StartupInv ==
    /\ thread_init_sem \in {0, 1}
    /\ main # "died" =>
          /\ main = "create" => thread_init_sem = 0
          /\ \A w \in Workers : wpc[w] = "started" =>
                /\ thread_init_sem = 0
                /\ main # "create"
                /\ \A v \in Workers : wpc[v] = "started" => v = w

\* A worker has its connections exactly between db_get_connection() and
\* release_poll_connections(), and every entry is either free or with a worker.
HasLocal == {"get_remote", "load", "select", "write", "complete",
             "completion_writes", "release_local"}
HasRemote == {"load", "select", "write", "complete", "completion_writes",
              "release_local", "release_remote"}

PoolInv ==
    /\ \A w \in Workers :
          /\ local_cnn[w] # NoConn <=> wpc[w] \in HasLocal
          /\ remote_cnn[w] # NoConn <=> Remote /\ wpc[w] \in HasRemote
          /\ wpc[w] \in {"get_remote", "release_remote"} => Remote
    /\ ConnectionsExclusive
    /\ NoConn \notin local_free /\ NoConn \notin remote_free
    /\ main \notin {"free", "exited"} =>
          /\ ConnIds \subseteq local_free \cup {local_cnn[w] : w \in Workers}
          /\ Remote => ConnIds \subseteq
                         remote_free \cup {remote_cnn[w] : w \in Workers}

\* threads_complete counts the partitions that went through the locked section
\* of complete_poll_host(), and the flags remember what they found.
Passed(w) == /\ wpc[w] \in {"completion_writes"} \cup Late
             /\ result[w] \in {"ok", "output_failed", "poll_failed"}
Counted(d) == {k \in Partitions : Passed(<<d, k>>)}

CountInv ==
    /\ \A d \in Devices : threads_complete[d] = Cardinality(Counted(d))
    /\ \A w \in Workers :
          /\ Passed(w) /\ result[w] = "output_failed" => output_failed[w[1]]
          /\ Passed(w) /\ result[w] = "poll_failed" => poll_failed[w[1]]
          /\ result[w] = "ok" <=> w[2] \in persisted[w[1]]

\* A decision in favour of a device was made by its last partition, with every
\* partition counted and none failed.
AllPolled(d) ==
    /\ host_threads[d] >= 1
    /\ Counted(d) = 1..host_threads[d]
    /\ \A k \in 1..host_threads[d] : result[<<d, k>>] = "ok"

DecideInv ==
    \A d \in Devices :
        /\ complete[d] => AllPolled(d) /\ ~output_failed[d] /\ ~poll_failed[d]
        /\ schedule_runs[d] > 0 => AllPolled(d)
        /\ schedule_runs[d] <= 1
        /\ \A k \in Partitions : "schedule" \in todo[<<d, k>>] =>
              /\ AllPolled(d)
              /\ schedule_runs[d] = 0
              /\ \A j \in Partitions : "schedule" \in todo[<<d, j>>] => j = k

IInv == /\ Typing /\ LaunchInv /\ LaunchedInv /\ WorkerInv /\ PermitInv
        /\ StartupInv /\ PoolInv /\ CountInv /\ DecideInv

-----------------------------------------------------------------------------
(* What exit(EXIT_SUCCESS) means *)

\* With an exit code of 0 the launcher leaves its loop only at the last device, no
\* flag is up, and a device all of whose partitions were counted is complete.
Launched == {"wait", "wait_check", "finish", "free", "exited"}

ExitInv ==
    /\ \A d \in Devices : d <= device_counter => host_threads[d] >= 1
    /\ \A w \in Workers : result[w] = "pinged" => PingOnly
    /\ exit_code = 0 =>
          /\ main \in Launched => device_counter = Rows
          /\ \A d \in Devices :
                /\ ~output_failed[d] /\ ~poll_failed[d]
                /\ host_threads[d] >= 1 /\ threads_complete[d] = host_threads[d]
                      => complete[d]

-----------------------------------------------------------------------------
USE DEF mainVars, permitVars, detailVars, poolVars, dbVars, localVars,
        workerSide, mainSide

\* The clamped partition count stays between one and its old value.
LEMMA ClampFact ==
    ASSUME Typing, NEW items \in 0..MaxDeviceThreads
    PROVE  /\ ClampedThreads(items) \in Partitions
           /\ ClampedThreads(items) <= partition_threads
BY SMTT(30), MaxDeviceThreadsAssumption DEF Typing, ClampedThreads, Partitions

\* What a call of complete_poll_host() changes, field by field.
LEMMA CompleteParts ==
    ASSUME NEW w \in Workers, CompletePollHost(w)
    PROVE  /\ ~Ended /\ wpc[w] = "complete"
           /\ output_failed' = [output_failed EXCEPT ![w[1]] =
                                   @ \/ result[w] = "output_failed"]
           /\ poll_failed' = [poll_failed EXCEPT ![w[1]] =
                                   @ \/ result[w] = "poll_failed"]
           /\ exit_code' = IF result[w] # "ok" THEN 1 ELSE exit_code
           /\ threads_complete' = [threads_complete EXCEPT ![w[1]] = @ + 1]
           /\ complete' = [complete EXCEPT ![w[1]] =
                 IF threads_complete[w[1]] + 1 = host_threads[w[1]]
                 THEN ~(output_failed'[w[1]] \/ poll_failed'[w[1]]) ELSE @]
           /\ result[w] = "poll_failed" =>
                 /\ wpc' = [wpc EXCEPT ![w] = AfterPollFailed(w)]
                 /\ UNCHANGED todo
           /\ result[w] # "poll_failed" =>
                 /\ wpc' = [wpc EXCEPT ![w] = "completion_writes"]
                 /\ todo' = [todo EXCEPT ![w] =
                       @ \cup (IF threads_complete[w[1]] + 1 = host_threads[w[1]]
                                  /\ MayAdvance(w[1]) THEN {"schedule"} ELSE {})
                         \cup (IF threads_complete[w[1]] + 1 = host_threads[w[1]]
                               THEN {"polling_time"} ELSE {})]
           /\ UNCHANGED <<mainSide, permitVars, host_threads, poolVars, result,
                          write_failed, dbVars>>
  BY Zenon DEF CompletePollHost

\* Every value keeps its shape, whatever step is taken.
LEMMA TypingStep == Typing /\ [Next]_vars => Typing'
<1> SUFFICES ASSUME Typing, [Next]_vars PROVE Typing'
  BY Zenon
<1> USE RowsAssumption, ThreadsAssumption, MaxDeviceThreadsAssumption
<1> USE DEF Typing, MainStates, WorkerStates, Results, Partitions
<1>1. CASE Tick
  BY Zenon, <1>1 DEF Tick
<1>2. CASE FetchRow
  BY <1>2 DEF FetchRow, RequestedThreads
<1>3. CASE NextPartition
  BY <1>3 DEF NextPartition
<1>4. CASE LaunchDone
  BY Zenon, <1>4 DEF LaunchDone
<1>5. CASE PreparePartition
  <2>1. CASE main' = "died"
    BY Zenon, <1>5, <2>1 DEF PreparePartition, Die
  <2>2. CASE main' # "died"
    <3>1. PICK items \in 0..MaxDeviceThreads :
            /\ partition_threads' = ClampedThreads(items)
            /\ change_host' = IF current_thread >= partition_threads'
                              THEN TRUE ELSE FALSE
            /\ host_threads' = IF current_thread = 1
                  THEN [host_threads EXCEPT ![device_counter + 1] =
                          partition_threads']
                  ELSE host_threads
            /\ main' = "acquire"
            /\ UNCHANGED exit_code
      BY <1>5, <2>2, Zenon DEF PreparePartition, Die
    <3>2. /\ partition_threads' \in Partitions
          /\ partition_threads' \in 0..MaxDeviceThreads
      BY <3>1, ClampFact
    <3>3. host_threads' \in [Devices -> 0..MaxDeviceThreads]
      <4>1. CASE current_thread = 1
        BY <3>1, <3>2, <4>1, Zenon
      <4>2. CASE current_thread # 1
        BY Zenon, <3>1, <4>2
      <4> QED
        BY Zenon, <4>1, <4>2
    <3>4. change_host' \in BOOLEAN
      BY Zenon, <3>1
    <3> QED
      BY Zenon, <1>5, <3>1, <3>2, <3>3, <3>4 DEF PreparePartition
  <2> QED
    BY Zenon, <2>1, <2>2
<1>6. CASE AcquireThread
  BY <1>6 DEF AcquireThread
<1>7. CASE AcquireRetry
  BY Zenon, <1>7 DEF AcquireRetry
<1>8. CASE AcquireStartup
  BY <1>8 DEF AcquireStartup
<1>9. CASE StartupRetry
  BY <1>9 DEF StartupRetry
<1>10. CASE CreateWorker
  <2>1. CASE Die /\ UNCHANGED <<permitVars, wpc, device_counter>>
    BY Zenon, <1>10, <2>1 DEF CreateWorker, Die
  <2>2. CASE main' = "fetch"
    <3>1. device_counter' \in Nat
      BY <1>10, <2>2 DEF CreateWorker, Die
    <3>2. wpc' \in [Workers -> WorkerStates]
      BY Zenon, <1>10, <2>2 DEF CreateWorker, Die
    <3> QED
      BY SMTT(60), <1>10, <2>2, <3>1, <3>2 DEF CreateWorker, Die
  <2>3. CASE main' = "wait"
    BY SMTT(60), <1>10, <2>3 DEF CreateWorker, Die
  <2> QED
    BY Zenon, <1>10, <2>1, <2>2, <2>3 DEF CreateWorker
<1>11. CASE WaitForWorkers
  BY Zenon, <1>11 DEF WaitForWorkers
<1>12. CASE WaitCheck
  BY Zenon, <1>12 DEF WaitCheck, Die
<1>13. CASE PersistPollCompletion
  BY Zenon, <1>13 DEF PersistPollCompletion
<1>14. CASE FreeWorkerStorage
  BY Zenon, <1>14 DEF FreeWorkerStorage
<1>15. ASSUME NEW w \in Workers, Worker(w) PROVE Typing'
  <2>1. CASE ChildStart(w)
    BY <2>1 DEF ChildStart
  <2>2. CASE WorkerDies(w)
    BY Zenon, <2>2 DEF WorkerDies, Die
  <2>3. CASE GetLocal(w)
    BY SMTT(60), <2>3 DEF GetLocal, First, Take
  <2>4. CASE GetRemote(w)
    BY SMTT(60), <2>4 DEF GetRemote, First, Take
  <2>5. CASE LoadPollHost(w)
    BY <2>5 DEF LoadPollHost
  <2>6. CASE SelectPollItems(w)
    <3>1. todo' \in [Workers -> SUBSET CompletionWrites]
      BY ZenonT(30), <2>6 DEF SelectPollItems, CompletionWrites
    <3>2. wpc' \in [Workers -> WorkerStates] /\ result' \in [Workers -> Results]
      BY Zenon, <2>6 DEF SelectPollItems
    <3> QED
      BY ZenonT(60), <2>6, <3>1, <3>2 DEF SelectPollItems
  <2>7. CASE WritePollResults(w)
    <3>1. persisted' \in [Devices -> SUBSET Partitions]
      <4>1. w[1] \in Devices /\ w[2] \in Partitions
        BY Zenon DEF Workers
      <4>2. persisted[w[1]] \cup {w[2]} \in SUBSET Partitions
        BY Zenon, <4>1
      <4>3. \/ persisted' = [persisted EXCEPT ![w[1]] = persisted[w[1]] \cup {w[2]}]
            \/ persisted' = persisted
        BY Zenon, <2>7 DEF WritePollResults
      <4> QED
        BY <4>1, <4>2, <4>3
    <3>2. wpc' \in [Workers -> WorkerStates] /\ result' \in [Workers -> Results]
      BY Zenon, <2>7 DEF WritePollResults
    <3> QED
      BY Zenon, <2>7, <3>1, <3>2 DEF WritePollResults
  <2>8. CASE CompletePollHost(w)
    <3>1. w[1] \in Devices
      BY Zenon DEF Workers
    <3>2. output_failed' \in [Devices -> BOOLEAN]
      BY ZenonT(60), <2>8, <3>1, CompleteParts
    <3>3. poll_failed' \in [Devices -> BOOLEAN]
      BY Zenon, <2>8, <3>1, CompleteParts
    <3>4. complete' \in [Devices -> BOOLEAN]
      BY <2>8, <3>1, Zenon DEF CompletePollHost
    <3>5. threads_complete' \in [Devices -> Nat]
      BY <2>8, <3>1, CompleteParts
    <3>6. todo' \in [Workers -> SUBSET CompletionWrites]
      BY <2>8, CompleteParts DEF CompletionWrites
    <3>7. wpc' \in [Workers -> WorkerStates] /\ exit_code' \in {0, 1}
      BY SMTT(60), <2>8, CompleteParts DEF AfterPollFailed
    <3> QED
      BY ZenonT(60), <2>8, <3>2, <3>3, <3>4, <3>5, <3>6, <3>7, CompleteParts
  <2>9. CASE UpdateSchedule(w)
    <3>1. w[1] \in Devices
      BY Zenon DEF Workers
    <3>2. schedule_runs' \in [Devices -> Nat]
      BY <2>9, <3>1 DEF UpdateSchedule
    <3>3. advanced' \in [Devices -> BOOLEAN]
      <4>1. PICK b \in BOOLEAN : advanced' = [advanced EXCEPT ![w[1]] = b]
        BY <2>9, <3>1, Zenon DEF UpdateSchedule
      <4> QED
        BY <4>1, Zenon
    <3>4. /\ todo' \in [Workers -> SUBSET CompletionWrites]
          /\ write_failed' \in [Workers -> BOOLEAN]
      <4>1. PICK ok \in BOOLEAN : Ran(w, "schedule", ok)
        BY <2>9, Zenon DEF UpdateSchedule
      <4> QED
        BY Zenon, <4>1 DEF Ran
    <3> QED
      BY Zenon, <2>9, <3>2, <3>3, <3>4 DEF UpdateSchedule
  <2>10. CASE UpdatePollingTime(w)
    BY <2>10 DEF UpdatePollingTime, Ran
  <2>11. CASE InsertHostErrors(w)
    BY <2>11 DEF InsertHostErrors, Ran
  <2>12. CASE FinishCompletion(w)
    BY ZenonT(30), <2>12 DEF FinishCompletion, Retract, Workers
  <2>13. CASE ReleaseLocal(w)
    BY ZenonT(60), <2>13 DEF ReleaseLocal
  <2>14. CASE ReleaseRemote(w)
    BY ZenonT(60), <2>14 DEF ReleaseRemote
  <2>15. CASE ChildCleanup(w)
    BY <2>15 DEF ChildCleanup
  <2> QED
    BY ZenonT(30), <1>15, <2>1, <2>2, <2>3, <2>4, <2>5, <2>6, <2>7, <2>8, <2>9, <2>10,
       <2>11, <2>12, <2>13, <2>14, <2>15 DEF Worker
<1>16. CASE UNCHANGED vars
  BY ZenonT(60), <1>16 DEF vars
<1> QED
  BY ZenonT(30), <1>1, <1>2, <1>3, <1>4, <1>5, <1>6, <1>7, <1>8, <1>9, <1>10, <1>11, <1>12,
     <1>13, <1>14, <1>15, <1>16 DEF Next, Main, Terminated

\* What a worker's step does to the state of the others: it moves its own
\* program counter and may end the process.
LEMMA WorkerFrame ==
    ASSUME Typing, NEW w \in Workers, Worker(w)
    PROVE  /\ UNCHANGED <<mainVars, clock, host_threads>>
           /\ ~Ended
           /\ main' \in {main, "died"}
           /\ wpc[w] \notin {"none", "done"}
           /\ wpc' = [wpc EXCEPT ![w] = wpc'[w]]
           /\ wpc'[w] \notin {"none"}
           /\ wpc'[w] = "started" => wpc[w] = "started"
           /\ wpc'[w] = "done" <=> wpc[w] = "cleanup"
           /\ available_threads' = IF wpc[w] = "cleanup" THEN available_threads + 1
                                                       ELSE available_threads
           /\ thread_init_sem' = IF wpc[w] = "started" THEN thread_init_sem + 1
                                                     ELSE thread_init_sem
<1> USE DEF Typing
<1>1. CASE ChildStart(w)
  BY Zenon, <1>1 DEF ChildStart
<1>2. CASE WorkerDies(w)
  BY Zenon, <1>2 DEF WorkerDies, Die
<1>3. CASE GetLocal(w)
  BY Zenon, <1>3 DEF GetLocal
<1>4. CASE GetRemote(w)
  BY Zenon, <1>4 DEF GetRemote
<1>5. CASE LoadPollHost(w)
  BY Zenon, <1>5 DEF LoadPollHost
<1>6. CASE SelectPollItems(w)
  BY Zenon, <1>6 DEF SelectPollItems
<1>7. CASE WritePollResults(w)
  BY Zenon, <1>7 DEF WritePollResults
<1>8. CASE CompletePollHost(w)
  BY <1>8, CompleteParts DEF AfterPollFailed
<1>9. CASE UpdateSchedule(w)
  BY Zenon, <1>9 DEF UpdateSchedule
<1>10. CASE UpdatePollingTime(w)
  BY Zenon, <1>10 DEF UpdatePollingTime
<1>11. CASE InsertHostErrors(w)
  BY Zenon, <1>11 DEF InsertHostErrors
<1>12. CASE FinishCompletion(w)
  BY Zenon, <1>12 DEF FinishCompletion
<1>13. CASE ReleaseLocal(w)
  BY Zenon, <1>13 DEF ReleaseLocal
<1>14. CASE ReleaseRemote(w)
  BY Zenon, <1>14 DEF ReleaseRemote
<1>15. CASE ChildCleanup(w)
  BY Zenon, <1>15 DEF ChildCleanup
<1> QED
  BY ZenonT(30), <1>1, <1>2, <1>3, <1>4, <1>5, <1>6, <1>7, <1>8, <1>9, <1>10, <1>11, <1>12,
     <1>13, <1>14, <1>15 DEF Worker

\* Only PreparePartition moves host_threads, only CreateWorker and the workers
\* move wpc, and no main-thread step touches a worker's locals.
LEMMA MainFrame ==
    ASSUME Typing, Main
    PROVE  /\ UNCHANGED <<threads_complete, output_failed, poll_failed, complete,
                          local_cnn, remote_cnn, localVars, dbVars>>
           /\ main # "create" => UNCHANGED wpc
           /\ main # "finish" => UNCHANGED <<local_free, remote_free>>
           /\ main # "prepare" => UNCHANGED host_threads
<1> USE DEF Typing
<1>1. CASE FetchRow \/ NextPartition \/ LaunchDone
  BY Zenon, <1>1 DEF FetchRow, NextPartition, LaunchDone
<1>2. CASE PreparePartition
  BY Zenon, <1>2 DEF PreparePartition
<1>3. CASE AcquireThread \/ AcquireRetry \/ AcquireStartup \/ StartupRetry
  BY Zenon, <1>3 DEF AcquireThread, AcquireRetry, AcquireStartup, StartupRetry
<1>4. CASE CreateWorker
  BY Zenon, <1>4 DEF CreateWorker
<1>5. CASE WaitForWorkers \/ WaitCheck \/ FreeWorkerStorage
  BY Zenon, <1>5 DEF WaitForWorkers, WaitCheck, FreeWorkerStorage
<1>6. CASE PersistPollCompletion
  BY Zenon, <1>6 DEF PersistPollCompletion
<1> QED
  BY Zenon, <1>1, <1>2, <1>3, <1>4, <1>5, <1>6, Main DEF Main

\* The launcher's bookkeeping: one device at a time, no partition beyond the
\* announced number, although the partition count is recomputed every time.
LEMMA LaunchStep == Typing /\ Typing' /\ LaunchInv /\ [Next]_vars => LaunchInv'
<1> SUFFICES ASSUME Typing, LaunchInv, [Next]_vars PROVE LaunchInv'
  BY Zenon
<1> USE RowsAssumption, MaxDeviceThreadsAssumption
<1> DEFINE Launcher == /\ device_counter \in Nat
                       /\ current_thread \in Nat
                       /\ change_host \in BOOLEAN
                       /\ partition_threads \in Partitions
                       /\ host_threads \in [Devices -> 0..MaxDeviceThreads]
<1>0. Launcher
  BY Zenon DEF Typing
<1> USE <1>0 DEF LaunchInv, Launching, Partitions, Devices
<1>1. CASE Tick
  BY Zenon, <1>1 DEF Tick
<1>2. CASE FetchRow
  BY <1>2 DEF FetchRow, RequestedThreads
<1>3. CASE NextPartition
  BY <1>3 DEF NextPartition
<1>4. CASE LaunchDone
  BY Zenon, <1>4 DEF LaunchDone
<1>5. CASE PreparePartition
  <2>1. CASE main' = "died"
    BY Zenon, <1>5, <2>1 DEF PreparePartition, Die
  <2>2. CASE main' # "died"
    <3>1. PICK items \in 0..MaxDeviceThreads :
            /\ partition_threads' = ClampedThreads(items)
            /\ change_host' = IF current_thread >= partition_threads'
                              THEN TRUE ELSE FALSE
            /\ host_threads' = IF current_thread = 1
                  THEN [host_threads EXCEPT ![device_counter + 1] =
                          partition_threads']
                  ELSE host_threads
            /\ main' = "acquire"
      BY ZenonT(30), <1>5, <2>2 DEF PreparePartition, Die
    <3>2. /\ partition_threads' \in Partitions
          /\ partition_threads' <= partition_threads
      BY Zenon, <3>1, ClampFact
    <3>3. /\ UNCHANGED <<device_counter, current_thread>>
          /\ main = "prepare" /\ device_counter + 1 \in Devices
      BY <1>5 DEF PreparePartition
    <3>4. host_threads'[device_counter + 1] =
            IF current_thread = 1 THEN partition_threads'
                                  ELSE host_threads[device_counter + 1]
      BY Zenon, <3>1, <3>3
    <3>5. /\ current_thread' <= host_threads'[device_counter' + 1]
          /\ partition_threads' <= host_threads'[device_counter' + 1]
      <4>1. /\ 1 <= current_thread /\ current_thread <= partition_threads
            /\ current_thread # 1 =>
                  partition_threads <= host_threads[device_counter + 1]
            /\ host_threads[device_counter + 1] \in Nat
            /\ current_thread \in Nat /\ partition_threads \in Nat
        BY <3>3
      <4>2. device_counter' + 1 = device_counter + 1
        BY Zenon, <3>3
      <4> HIDE DEF LaunchInv, Launcher
      <4> QED
        BY <3>2, <3>3, <3>4, <4>1, <4>2
    <3>6. ~change_host' => current_thread' < partition_threads'
      BY <3>1, <3>2, <3>3
    <3> QED
      BY Zenon, <3>1, <3>3, <3>5, <3>6
  <2> QED
    BY Zenon, <2>1, <2>2
<1>6. CASE AcquireThread
  BY Zenon, <1>6 DEF AcquireThread
<1>7. CASE AcquireRetry
  BY Zenon, <1>7 DEF AcquireRetry
<1>8. CASE AcquireStartup
  BY Zenon, <1>8 DEF AcquireStartup
<1>9. CASE StartupRetry
  BY Zenon, <1>9 DEF StartupRetry
<1>10. CASE CreateWorker
  <2>1. CASE main' \in {"wait", "died"}
    BY Zenon, <1>10, <2>1 DEF CreateWorker
  <2>2. CASE main' = "fetch" /\ change_host
    BY <1>10, <2>2 DEF CreateWorker
  <2>3. CASE main' = "fetch" /\ ~change_host
    BY Zenon, <1>10, <2>3 DEF CreateWorker
  <2> QED
    BY Zenon, <1>10, <2>1, <2>2, <2>3 DEF CreateWorker, Die
<1>11. CASE WaitForWorkers
  BY Zenon, <1>11 DEF WaitForWorkers
<1>12. CASE WaitCheck
  BY Zenon, <1>12 DEF WaitCheck, Die
<1>13. CASE PersistPollCompletion
  BY Zenon, <1>13 DEF PersistPollCompletion
<1>14. CASE FreeWorkerStorage
  BY Zenon, <1>14 DEF FreeWorkerStorage
<1>15. ASSUME NEW w \in Workers, Worker(w) PROVE LaunchInv'
  BY Zenon, <1>15, WorkerFrame
<1>16. CASE UNCHANGED vars
  BY Zenon, <1>16 DEF vars
<1> HIDE <1>0 DEF LaunchInv, Launching, Partitions, Devices
<1> QED
  BY Zenon, <1>1, <1>2, <1>3, <1>4, <1>5, <1>6, <1>7, <1>8, <1>9, <1>10, <1>11, <1>12,
     <1>13, <1>14, <1>15, <1>16 DEF Next, Main, Terminated

\* The two halves of a worker's name.
LEMMA WorkerParts ==
    ASSUME NEW w \in Workers
    PROVE  /\ w[1] \in Devices /\ w[2] \in Partitions
           /\ w[1] \in Nat /\ w[2] \in Nat /\ w[2] >= 1
           /\ w = <<w[1], w[2]>>
<1>1. w[1] \in Devices /\ w[2] \in Partitions /\ w = <<w[1], w[2]>>
  BY DEF Workers
<1>2. /\ \A d \in Devices : d \in Nat
      /\ \A k \in Partitions : k \in Nat /\ k >= 1
  BY SMTT(30), RowsAssumption, MaxDeviceThreadsAssumption DEF Devices, Partitions
<1> QED
  BY Zenon, <1>1, <1>2

\* A launched worker is one the launcher has been at.
LEMMA LaunchedStep ==
    Typing /\ LaunchInv /\ LaunchedInv /\ [Next]_vars => LaunchedInv'
<1> SUFFICES ASSUME Typing, LaunchInv, LaunchedInv, [Next]_vars,
                    NEW w \in Workers, wpc'[w] # "none"
             PROVE  /\ w[2] <= host_threads'[w[1]]
                    /\ main' \in Launching \cup {"fetch"} =>
                         \/ w[1] <= device_counter'
                         \/ /\ w[1] = device_counter' + 1
                            /\ w[2] <= current_thread'
                            /\ main' = "fetch" => ~change_host'
                            /\ main' # "fetch" => w[2] < current_thread'
  BY Zenon DEF LaunchedInv
<1>0. /\ w[1] \in Devices /\ w[1] \in Nat /\ w[2] \in Nat /\ w[2] >= 1
      /\ device_counter \in Nat /\ current_thread \in Nat
      /\ host_threads \in [Devices -> 0..MaxDeviceThreads]
      /\ wpc \in [Workers -> WorkerStates]
      /\ change_host \in BOOLEAN
  BY Zenon, WorkerParts DEF Typing
<1> USE DEF Launching
<1>1. CASE Tick
  BY Zenon, <1>0, <1>1 DEF Tick, LaunchedInv
<1>2. CASE Main /\ main \notin {"prepare", "create"}
  <2>1. UNCHANGED <<wpc, host_threads>>
    BY Zenon, <1>2, MainFrame DEF LaunchInv
  <2>2. CASE FetchRow
    BY Zenon, <1>0, <2>1, <2>2 DEF FetchRow, LaunchedInv
  <2>3. CASE NextPartition
    BY <1>0, <2>1, <2>3 DEF NextPartition, LaunchedInv
  <2>4. CASE LaunchDone \/ AcquireThread \/ AcquireRetry
    BY Zenon, <2>1, <2>4 DEF LaunchDone, AcquireThread, AcquireRetry, LaunchedInv
  <2>5. CASE AcquireStartup \/ StartupRetry
    BY Zenon, <2>1, <2>5 DEF AcquireStartup, StartupRetry, LaunchedInv
  <2>6. CASE WaitForWorkers \/ WaitCheck \/ PersistPollCompletion
    BY Zenon, <2>1, <2>6 DEF WaitForWorkers, WaitCheck, PersistPollCompletion, Die,
                      LaunchedInv
  <2>7. CASE FreeWorkerStorage
    BY Zenon, <2>1, <2>7 DEF FreeWorkerStorage, LaunchedInv
  <2> QED
    BY ZenonT(30), <1>2, <2>2, <2>3, <2>4, <2>5, <2>6, <2>7
       DEF Main, PreparePartition, CreateWorker
<1>3. CASE PreparePartition
  <2>1. wpc' = wpc /\ main = "prepare" /\ UNCHANGED <<device_counter, current_thread>>
    BY Zenon, <1>3 DEF PreparePartition
  <2>2. \/ w[1] <= device_counter
        \/ w[1] = device_counter + 1 /\ w[2] < current_thread
    BY Zenon, <1>0, <2>1 DEF LaunchedInv
  <2>3. host_threads'[w[1]] = host_threads[w[1]]
    <3>1. current_thread = 1 => w[1] # device_counter + 1
      BY <1>0, <2>2
    <3>2. \/ host_threads' = host_threads
          \/ /\ current_thread = 1
             /\ host_threads' = [host_threads EXCEPT ![device_counter + 1] =
                                   partition_threads']
      BY <1>3, Zenon DEF PreparePartition
    <3> QED
      BY Zenon, <1>0, <3>1, <3>2
  <2>4. main' \in {"acquire", "died"}
    BY <1>3, Zenon DEF PreparePartition, Die
  <2> QED
    BY Zenon, <1>0, <2>1, <2>2, <2>3, <2>4 DEF LaunchedInv
<1>4. CASE CreateWorker
  <2>1. main = "create" /\ UNCHANGED <<host_threads, current_thread, change_host>>
    BY Zenon, <1>4 DEF CreateWorker
  <2>a. \/ main' \in {"wait", "died"}
        \/ /\ main' = "fetch"
           /\ device_counter' = IF change_host THEN device_counter + 1
                                               ELSE device_counter
    BY Zenon, <1>4 DEF CreateWorker, Die
  <2>2. CASE wpc[w] # "none"
    <3>1. /\ w[2] <= host_threads[w[1]]
          /\ \/ w[1] <= device_counter
             \/ w[1] = device_counter + 1 /\ w[2] < current_thread
      BY Zenon, <2>1, <2>2 DEF LaunchedInv
    <3> QED
      BY <1>0, <2>1, <2>a, <3>1
  <2>3. CASE wpc[w] = "none"
    <3>1. w = <<device_counter + 1, current_thread>>
      BY Zenon, <1>0, <1>4, <2>3 DEF CreateWorker
    <3>2. w[1] = device_counter + 1 /\ w[2] = current_thread
      BY Zenon, <3>1
    <3>3. current_thread <= host_threads[device_counter + 1]
      BY Zenon, <2>1 DEF LaunchInv
    <3> QED
      BY <1>0, <2>1, <2>a, <3>2, <3>3
  <2> QED
    BY Zenon, <2>2, <2>3
<1>5. ASSUME NEW v \in Workers, Worker(v) PROVE wpc[w] # "none"
  BY Zenon, <1>0, <1>5, WorkerFrame
<1>6. CASE \E v \in Workers : Worker(v)
  <2>1. wpc[w] # "none"
    BY Zenon, <1>5, <1>6
  <2>2. /\ UNCHANGED <<device_counter, current_thread, change_host, host_threads>>
        /\ main' \in {main, "died"}
    BY Zenon, <1>6, WorkerFrame
  <2> QED
    BY Zenon, <2>1, <2>2 DEF LaunchedInv
<1>7. CASE UNCHANGED vars
  BY Zenon, <1>7 DEF vars, LaunchedInv
<1> QED
  BY ZenonT(30), <1>1, <1>2, <1>3, <1>4, <1>6, <1>7
     DEF Next, Main, Terminated, PreparePartition, CreateWorker,
         FetchRow, NextPartition, LaunchDone, AcquireThread, AcquireRetry,
         AcquireStartup, StartupRetry, WaitForWorkers, WaitCheck,
         PersistPollCompletion, FreeWorkerStorage

\* The worker that pthread_create() starts was not running before.
LEMMA CreatedIsNew ==
    ASSUME Typing, LaunchInv, LaunchedInv, main = "create"
    PROVE  /\ <<device_counter + 1, current_thread>> \in Workers
           /\ wpc[<<device_counter + 1, current_thread>>] = "none"
<1> DEFINE n == <<device_counter + 1, current_thread>>
<1>1. n \in Workers /\ n[1] = device_counter + 1 /\ n[2] = current_thread
  BY SMTT(30), RowsAssumption, MaxDeviceThreadsAssumption
     DEF Typing, LaunchInv, Launching, Workers, Devices, Partitions
<1>2. current_thread \in Nat /\ device_counter \in Nat
  BY Zenon DEF Typing
<1> QED
  BY <1>1, <1>2 DEF LaunchedInv, Launching

\* At most one worker at a time is between pthread_create() and its copy of
\* the instructions.
LEMMA StartupStep == Typing /\ StartupInv /\ [Next]_vars => StartupInv'
<1> SUFFICES ASSUME Typing, StartupInv, [Next]_vars PROVE StartupInv'
  BY Zenon
<1>0. main \in MainStates /\ wpc \in [Workers -> WorkerStates]
  BY Zenon DEF Typing
<1> USE DEF StartupInv
<1>1. CASE Tick
  BY Zenon, <1>1 DEF Tick
<1>2. CASE FetchRow \/ NextPartition \/ LaunchDone \/ PreparePartition
  BY <1>0, <1>2, Zenon DEF FetchRow, NextPartition, LaunchDone, PreparePartition, Die
<1>3. CASE AcquireThread \/ AcquireRetry \/ StartupRetry
  BY Zenon, <1>0, <1>3 DEF AcquireThread, AcquireRetry, StartupRetry
<1>4. CASE AcquireStartup
  BY <1>0, <1>4 DEF AcquireStartup
<1>5. CASE CreateWorker
  BY <1>0, <1>5 DEF CreateWorker
<1>6. CASE WaitForWorkers \/ WaitCheck
  BY Zenon, <1>0, <1>6 DEF WaitForWorkers, WaitCheck, Die
<1>7. CASE PersistPollCompletion \/ FreeWorkerStorage
  BY Zenon, <1>0, <1>7 DEF PersistPollCompletion, FreeWorkerStorage
<1>8. ASSUME NEW w \in Workers, Worker(w) PROVE StartupInv'
  <2>1. /\ main' \in {main, "died"} /\ ~Ended
        /\ wpc' = [wpc EXCEPT ![w] = wpc'[w]]
        /\ wpc'[w] = "started" => wpc[w] = "started"
        /\ thread_init_sem' = IF wpc[w] = "started" THEN thread_init_sem + 1
                                                  ELSE thread_init_sem
    BY Zenon, <1>8, WorkerFrame
  <2>2. wpc[w] = "started" => wpc'[w] # "started"
    BY ZenonT(30), <1>8 DEF Worker, ChildStart, WorkerDies, GetLocal, GetRemote,
       LoadPollHost, SelectPollItems, WritePollResults, CompletePollHost,
       UpdateSchedule, UpdatePollingTime, InsertHostErrors, FinishCompletion,
       ReleaseLocal, ReleaseRemote, ChildCleanup, Typing
  <2> QED
    BY <1>0, <2>1, <2>2 DEF Ended
<1>9. CASE UNCHANGED vars
  BY Zenon, <1>9 DEF vars
<1> QED
  BY Zenon, <1>1, <1>2, <1>3, <1>4, <1>5, <1>6, <1>7, <1>8, <1>9
     DEF Next, Main, Terminated

\* A step that leaves the pools alone keeps PoolInv if the worker it moves
\* neither enters nor leaves the part of its life that has connections.
LEMMA PoolFrame ==
    ASSUME PoolInv, UNCHANGED poolVars,
           main \in {"free", "exited"} => main' \in {"free", "exited"},
           \A w \in Workers :
               /\ wpc'[w] \in HasLocal <=> wpc[w] \in HasLocal
               /\ wpc'[w] \in HasRemote <=> wpc[w] \in HasRemote
               /\ wpc'[w] \in {"get_remote", "release_remote"} =>
                     wpc[w] \in {"get_remote", "release_remote"}
    PROVE  PoolInv'
<1>1. ConnectionsExclusive'
  BY Zenon DEF PoolInv, ConnectionsExclusive
<1>2. {local_cnn'[w] : w \in Workers} = {local_cnn[w] : w \in Workers}
  BY Zenon
<1>3. {remote_cnn'[w] : w \in Workers} = {remote_cnn[w] : w \in Workers}
  BY Zenon
<1>4. \A w \in Workers :
        /\ local_cnn'[w] # NoConn <=> wpc'[w] \in HasLocal
        /\ remote_cnn'[w] # NoConn <=> Remote /\ wpc'[w] \in HasRemote
        /\ wpc'[w] \in {"get_remote", "release_remote"} => Remote
  BY Zenon DEF PoolInv
<1>5. main' \notin {"free", "exited"} =>
        /\ ConnIds \subseteq local_free' \cup {local_cnn'[w] : w \in Workers}
        /\ Remote => ConnIds \subseteq
                       remote_free' \cup {remote_cnn'[w] : w \in Workers}
  <2> SUFFICES ASSUME main' \notin {"free", "exited"}
               PROVE  /\ ConnIds \subseteq local_free \cup {local_cnn[w] : w \in Workers}
                      /\ Remote => ConnIds \subseteq
                            remote_free \cup {remote_cnn[w] : w \in Workers}
    BY Zenon, <1>2, <1>3
  <2>1. main \notin {"free", "exited"}
    BY Zenon
  <2> QED
    BY Zenon, <2>1 DEF PoolInv
<1>6. NoConn \notin local_free' /\ NoConn \notin remote_free'
  BY Zenon DEF PoolInv
<1> QED
  BY Zenon, <1>1, <1>4, <1>5, <1>6 DEF PoolInv

\* What a worker's position says of its result holds after every step.
LEMMA WorkerStep ==
    Typing /\ LaunchInv /\ LaunchedInv /\ WorkerInv /\ [Next]_vars => WorkerInv'
<1> SUFFICES ASSUME Typing, LaunchInv, LaunchedInv, WorkerInv, [Next]_vars
             PROVE  WorkerInv'
  BY Zenon
<1>0. /\ wpc \in [Workers -> WorkerStates] /\ result \in [Workers -> Results]
      /\ todo \in [Workers -> SUBSET CompletionWrites]
  BY Zenon DEF Typing
<1> USE DEF WorkerInv
<1>1. CASE UNCHANGED <<wpc, result, todo>>
  BY Zenon, <1>1
<1>2. CASE CreateWorker
  <2>1. UNCHANGED <<result, todo>>
    BY Zenon, <1>2 DEF CreateWorker
  <2>2. CASE main' = "wait"
    BY Zenon, <1>2, <2>1, <2>2 DEF CreateWorker
  <2>3. CASE main' = "fetch"
    BY ZenonT(60), <1>0, <1>2, <2>1, <2>3, CreatedIsNew DEF CreateWorker, Early, Late
  <2> QED
    BY Zenon, <1>2, <2>2, <2>3 DEF CreateWorker
<1>3. ASSUME NEW w \in Workers, Worker(w) PROVE WorkerInv'
  <2> USE DEF Early, Late
  <2>1. CASE ChildStart(w)
    BY Zenon, <1>0, <2>1 DEF ChildStart
  <2>2. CASE WorkerDies(w)
    BY Zenon, <1>1, <2>2 DEF WorkerDies
  <2>3. CASE GetLocal(w)
    <3>1. CASE local_free = {}
      BY ZenonT(60), <1>0, <2>3, <3>1 DEF GetLocal
    <3>2. CASE local_free # {}
      BY ZenonT(60), <1>0, <2>3, <3>2 DEF GetLocal
    <3> QED
      BY Zenon, <3>1, <3>2
  <2>4. CASE GetRemote(w)
    <3>1. CASE remote_free = {}
      BY ZenonT(60), <1>0, <2>4, <3>1 DEF GetRemote
    <3>2. CASE remote_free # {}
      BY Zenon, <1>0, <2>4, <3>2 DEF GetRemote
    <3> QED
      BY Zenon, <3>1, <3>2
  <2>5. CASE LoadPollHost(w)
    BY <1>0, <2>5 DEF LoadPollHost
  <2>6. CASE SelectPollItems(w)
    <3>1. CASE wpc' = [wpc EXCEPT ![w] = "complete"] /\ UNCHANGED todo
      BY ZenonT(60), <1>0, <2>6, <3>1 DEF SelectPollItems
    <3>2. CASE wpc' = [wpc EXCEPT ![w] = "write"] /\ UNCHANGED result
      <4>1. PICK errors \in SUBSET {"host_errors"} :
                todo' = [todo EXCEPT ![w] = errors]
        BY Zenon, <1>0, <2>6, <3>2 DEF SelectPollItems
      <4>2. wpc[w] = "select"
        BY Zenon, <2>6 DEF SelectPollItems
      <4> QED
        BY ZenonT(30), <1>0, <3>2, <4>1, <4>2
    <3> QED
      BY Zenon, <2>6, <3>1, <3>2 DEF SelectPollItems
  <2>7. CASE WritePollResults(w)
    BY ZenonT(60), <1>0, <2>7 DEF WritePollResults
  <2>8. CASE CompletePollHost(w)
    <3>1. CASE result[w] = "poll_failed"
      BY <1>0, <2>8, <3>1, CompleteParts DEF AfterPollFailed
    <3>2. CASE result[w] # "poll_failed"
      <4>1. /\ wpc[w] = "complete" /\ result' = result
            /\ wpc' = [wpc EXCEPT ![w] = "completion_writes"]
            /\ \A v \in Workers : v # w => todo'[v] = todo[v]
        BY <1>0, <2>8, <3>2, CompleteParts
      <4> QED
        BY ZenonT(60), <1>0, <3>2, <4>1
    <3> QED
      BY Zenon, <3>1, <3>2
  <2>9. CASE UpdateSchedule(w)
    BY Zenon, <1>0, <2>9 DEF UpdateSchedule, Ran
  <2>10. CASE UpdatePollingTime(w)
    BY Zenon, <1>0, <2>10 DEF UpdatePollingTime, Ran
  <2>11. CASE InsertHostErrors(w)
    BY Zenon, <1>0, <2>11 DEF InsertHostErrors, Ran
  <2>12. CASE FinishCompletion(w)
    BY Zenon, <1>0, <2>12 DEF FinishCompletion
  <2>13. CASE ReleaseLocal(w) \/ ReleaseRemote(w) \/ ChildCleanup(w)
    BY SMTT(30), <1>0, <2>13 DEF ReleaseLocal, ReleaseRemote, ChildCleanup
  <2> QED
    BY ZenonT(30), <1>3, <2>1, <2>2, <2>3, <2>4, <2>5, <2>6, <2>7, <2>8, <2>9, <2>10,
       <2>11, <2>12, <2>13 DEF Worker
<1>4. CASE Main
  <2>1. main # "create" => UNCHANGED <<wpc, result, todo>>
    BY Zenon, <1>4, MainFrame
  <2> QED
    BY ZenonT(30), <1>1, <1>2, <1>4, <2>1
       DEF Main, FetchRow, NextPartition, LaunchDone, PreparePartition,
           AcquireThread, AcquireRetry, AcquireStartup, StartupRetry,
           WaitForWorkers, WaitCheck, PersistPollCompletion, FreeWorkerStorage
<1> QED
  BY Zenon, <1>1, <1>3, <1>4 DEF Next, Tick, Terminated, vars

\* A partition that was counted stays counted with the result it had, and only
\* complete_poll_host() counts one.
LEMMA PassedStep ==
    ASSUME Typing, LaunchInv, LaunchedInv, WorkerInv, [Next]_vars,
           NEW v \in Workers
    PROVE  /\ Passed(v) => Passed(v)' /\ result'[v] = result[v]
           /\ Passed(v)' /\ ~Passed(v) => CompletePollHost(v)
<1>0. /\ wpc \in [Workers -> WorkerStates] /\ result \in [Workers -> Results]
  BY Zenon DEF Typing
<1> USE DEF Passed, Late
<1>1. CASE UNCHANGED <<wpc, result>>
  BY Zenon, <1>1
<1>2. CASE CreateWorker
  <2>1. UNCHANGED result
    BY Zenon, <1>2 DEF CreateWorker
  <2>2. CASE main' = "wait"
    BY Zenon, <1>2, <2>1, <2>2 DEF CreateWorker
  <2>3. CASE main' = "fetch"
    BY Zenon, <1>0, <1>2, <2>1, <2>3, CreatedIsNew DEF CreateWorker
  <2> QED
    BY Zenon, <1>2, <2>2, <2>3 DEF CreateWorker
<1>3. ASSUME NEW w \in Workers, Worker(w)
      PROVE  /\ Passed(v) => Passed(v)' /\ result'[v] = result[v]
             /\ Passed(v)' /\ ~Passed(v) => CompletePollHost(v)
  <2>1. CASE ChildStart(w) \/ ReleaseLocal(w) \/ ReleaseRemote(w)
             \/ ChildCleanup(w)
    BY Zenon, <1>0, <2>1 DEF ChildStart, ReleaseLocal, ReleaseRemote, ChildCleanup
  <2>2. CASE WorkerDies(w)
    BY Zenon, <1>1, <2>2 DEF WorkerDies
  <2>3. CASE GetLocal(w)
    BY Zenon, <1>0, <2>3 DEF GetLocal
  <2>4. CASE GetRemote(w)
    BY Zenon, <1>0, <2>4 DEF GetRemote
  <2>5. CASE LoadPollHost(w)
    BY ZenonT(60), <1>0, <2>5 DEF LoadPollHost, WorkerInv, Early
  <2>6. CASE SelectPollItems(w)
    BY Zenon, <1>0, <2>6 DEF SelectPollItems
  <2>7. CASE WritePollResults(w)
    BY Zenon, <1>0, <2>7 DEF WritePollResults
  <2>8. CASE CompletePollHost(w)
    <3>1. /\ wpc[w] = "complete" /\ result' = result
          /\ wpc' = [wpc EXCEPT ![w] = wpc'[w]]
      BY Zenon, <1>0, <2>8, CompleteParts
    <3> QED
      BY Zenon, <1>0, <2>8, <3>1
  <2>9. CASE UpdateSchedule(w) \/ UpdatePollingTime(w) \/ InsertHostErrors(w)
    BY <1>1, <2>9, Zenon DEF UpdateSchedule, UpdatePollingTime, InsertHostErrors
  <2>10. CASE FinishCompletion(w)
    BY Zenon, <1>0, <2>10 DEF FinishCompletion
  <2> QED
    BY ZenonT(30), <1>3, <2>1, <2>2, <2>3, <2>4, <2>5, <2>6, <2>7, <2>8, <2>9, <2>10
       DEF Worker
<1>4. CASE Main
  <2>1. main # "create" => UNCHANGED <<wpc, result>>
    BY Zenon, <1>4, MainFrame
  <2> QED
    BY ZenonT(30), <1>1, <1>2, <1>4, <2>1
       DEF Main, FetchRow, NextPartition, LaunchDone, PreparePartition,
           AcquireThread, AcquireRetry, AcquireStartup, StartupRetry,
           WaitForWorkers, WaitCheck, PersistPollCompletion, FreeWorkerStorage
<1> QED
  BY Zenon, <1>1, <1>3, <1>4 DEF Next, Tick, Terminated, vars

\* Failure flags are never taken back, and only complete_poll_host() counts.
LEMMA FlagStep ==
    ASSUME Typing, [Next]_vars
    PROVE  /\ \A d \in Devices : /\ output_failed[d] => output_failed'[d]
                                 /\ poll_failed[d] => poll_failed'[d]
           /\ \/ UNCHANGED threads_complete
              \/ \E w \in Workers : CompletePollHost(w)
<1>0. /\ output_failed \in [Devices -> BOOLEAN]
      /\ poll_failed \in [Devices -> BOOLEAN]
  BY Zenon DEF Typing
<1>1. CASE UNCHANGED detailVars
  BY Zenon, <1>1
<1>2. CASE Main
  BY Zenon, <1>2, MainFrame
<1>3. ASSUME NEW w \in Workers, Worker(w)
      PROVE  /\ \A d \in Devices : /\ output_failed[d] => output_failed'[d]
                                   /\ poll_failed[d] => poll_failed'[d]
             /\ \/ UNCHANGED threads_complete
                \/ \E v \in Workers : CompletePollHost(v)
  <2>1. CASE CompletePollHost(w)
    BY ZenonT(30), <1>0, <2>1, WorkerParts DEF CompletePollHost
  <2>2. CASE FinishCompletion(w)
    BY Zenon, <1>0, <2>2, WorkerParts DEF FinishCompletion, Retract
  <2>3. CASE UNCHANGED detailVars
    BY Zenon, <2>3
  <2> QED
    BY ZenonT(30), <1>3, <2>1, <2>2, <2>3
       DEF Worker, ChildStart, WorkerDies, GetLocal, GetRemote, LoadPollHost,
           SelectPollItems, WritePollResults, UpdateSchedule,
           UpdatePollingTime, InsertHostErrors, ReleaseLocal, ReleaseRemote,
           ChildCleanup
<1> QED
  BY Zenon, <1>1, <1>2, <1>3 DEF Next, Tick, Terminated, vars

\* The accepted partitions are those whose worker found its output accepted.
LEMMA PersistedStep ==
    ASSUME Typing, LaunchInv, LaunchedInv, WorkerInv, [Next]_vars,
           NEW v \in Workers,
           \A w \in Workers : result[w] = "ok" <=> w[2] \in persisted[w[1]]
    PROVE  result'[v] = "ok" <=> v[2] \in persisted'[v[1]]
<1>0. /\ result \in [Workers -> Results]
      /\ persisted \in [Devices -> SUBSET Partitions]
      /\ \A w \in Workers : w[1] \in Devices /\ w = <<w[1], w[2]>>
  BY Zenon, WorkerParts DEF Typing
<1>1. CASE UNCHANGED <<result, persisted>>
  BY Zenon, <1>1
<1>2. CASE Main
  BY ZenonT(30), <1>1, <1>2, MainFrame
<1>3. ASSUME NEW w \in Workers, Worker(w)
      PROVE  result'[v] = "ok" <=> v[2] \in persisted'[v[1]]
  <2>1. CASE WritePollResults(w)
    <3>1. result[w] = "pending"
      BY Zenon, <2>1 DEF WritePollResults, WorkerInv
    <3>2. v # w => v[1] # w[1] \/ v[2] # w[2]
      BY Zenon, <1>0
    <3>3. CASE result' = [result EXCEPT ![w] = "ok"]
      <4>1. persisted' = [persisted EXCEPT ![w[1]] = @ \cup {w[2]}]
        BY Zenon, <1>0, <2>1, <3>3 DEF WritePollResults
      <4> QED
        BY Zenon, <1>0, <3>2, <3>3, <4>1
    <3>4. CASE result' = [result EXCEPT ![w] = "output_failed"]
      <4>1. UNCHANGED persisted
        BY Zenon, <1>0, <2>1, <3>4 DEF WritePollResults
      <4> QED
        BY Zenon, <1>0, <3>1, <3>4, <4>1
    <3> QED
      BY Zenon, <2>1, <3>3, <3>4 DEF WritePollResults
  <2>2. CASE GetLocal(w) \/ GetRemote(w) \/ LoadPollHost(w)
             \/ SelectPollItems(w)
    <3>1. result[w] = "pending" /\ UNCHANGED persisted
      BY Zenon, <2>2 DEF GetLocal, GetRemote, LoadPollHost, SelectPollItems,
                  WorkerInv, Early
    <3>2. \/ UNCHANGED result
          \/ \E r \in {"poll_failed", "missing", "pinged"} :
                result' = [result EXCEPT ![w] = r]
      BY Zenon, <2>2 DEF GetLocal, GetRemote, LoadPollHost, SelectPollItems
    <3> QED
      BY Zenon, <1>0, <3>1, <3>2
  <2>3. CASE UNCHANGED <<result, persisted>>
    BY Zenon, <2>3
  <2> QED
    BY ZenonT(30), <1>3, <2>1, <2>2, <2>3
       DEF Worker, ChildStart, WorkerDies, CompletePollHost, UpdateSchedule,
           UpdatePollingTime, InsertHostErrors, FinishCompletion, ReleaseLocal,
           ReleaseRemote, ChildCleanup
<1> QED
  BY Zenon, <1>1, <1>2, <1>3 DEF Next, Tick, Terminated, vars

\* The launcher: what it does to the exit code, the devices it has been through and
\* the announced partitions.
LEMMA MainExit ==
    ASSUME Typing, LaunchInv, Main
    PROVE  /\ exit_code' \in {exit_code, 1}
           /\ main' \in Launched =>
                 \/ main \in Launched /\ UNCHANGED device_counter
                 \/ device_counter' = Rows \/ exit_code' = 1
           /\ UNCHANGED <<complete, output_failed, poll_failed, threads_complete, result>>
           /\ UNCHANGED host_threads \/ PreparePartition
           /\ \/ UNCHANGED device_counter
              \/ /\ device_counter' = device_counter + 1 /\ UNCHANGED host_threads
                 /\ host_threads[device_counter + 1] >= 1
<1>1. UNCHANGED <<complete, output_failed, poll_failed, threads_complete, result>>
  BY Zenon, MainFrame
<1> USE DEF Launched
<1>2. CASE FetchRow \/ NextPartition \/ LaunchDone
  BY Zenon, <1>1, <1>2 DEF FetchRow, NextPartition, LaunchDone
<1>3. CASE PreparePartition
  BY Zenon, <1>1, <1>3 DEF PreparePartition, Die
<1>4. CASE AcquireThread \/ AcquireRetry \/ AcquireStartup \/ StartupRetry
  BY Zenon, <1>1, <1>4 DEF AcquireThread, AcquireRetry, AcquireStartup, StartupRetry
<1>5. CASE CreateWorker
  <2>1. /\ current_thread \in Nat /\ 1 <= current_thread
        /\ device_counter + 1 \in Devices /\ host_threads[device_counter + 1] \in Nat
        /\ current_thread <= host_threads[device_counter + 1]
    BY <1>5, RowsAssumption, MaxDeviceThreadsAssumption
       DEF CreateWorker, LaunchInv, Launching, Typing, Devices
  <2> QED
    BY <1>1, <1>5, <2>1 DEF CreateWorker, Die
<1>6. CASE WaitForWorkers \/ WaitCheck \/ PersistPollCompletion \/ FreeWorkerStorage
  BY Zenon, <1>1, <1>6 DEF WaitForWorkers, WaitCheck, PersistPollCompletion, FreeWorkerStorage,
                    Die
<1> QED
  BY <1>2, <1>3, <1>4, <1>5, <1>6, Main, Zenon DEF Main

\* A worker: it never clears the exit code, and but for complete_poll_host() it
\* changes what is known of a device only together with the exit code.
LEMMA WorkerExit ==
    ASSUME Typing, NEW w \in Workers, Worker(w)
    PROVE  /\ exit_code' \in {exit_code, 1}
           /\ \/ UNCHANGED <<complete, output_failed, poll_failed, threads_complete>>
              \/ CompletePollHost(w) \/ exit_code' = 1
           /\ \A v \in Workers : result'[v] = "pinged" => result[v] = "pinged" \/ PingOnly
<1>0. result \in [Workers -> Results]
  BY Zenon DEF Typing
<1>1. CASE ChildStart(w) \/ WorkerDies(w) \/ ReleaseLocal(w) \/ ReleaseRemote(w)
           \/ ChildCleanup(w)
  BY <1>1, Zenon DEF ChildStart, WorkerDies, Die, ReleaseLocal, ReleaseRemote, ChildCleanup
<1>2. CASE GetLocal(w)
  BY Zenon, <1>0, <1>2 DEF GetLocal
<1>3. CASE GetRemote(w)
  BY Zenon, <1>0, <1>3 DEF GetRemote
<1>4. CASE LoadPollHost(w)
  BY Zenon, <1>0, <1>4 DEF LoadPollHost
<1>5. CASE SelectPollItems(w)
  BY Zenon, <1>0, <1>5 DEF SelectPollItems
<1>6. CASE WritePollResults(w)
  BY Zenon, <1>0, <1>6 DEF WritePollResults
<1>7. CASE CompletePollHost(w)
  BY <1>7, Zenon, CompleteParts
<1>8. CASE UpdateSchedule(w) \/ UpdatePollingTime(w) \/ InsertHostErrors(w)
  BY <1>8, Zenon DEF UpdateSchedule, UpdatePollingTime, InsertHostErrors
<1>9. CASE FinishCompletion(w)
  BY <1>9, Zenon DEF FinishCompletion, Retract
<1> QED
  BY <1>1, <1>2, <1>3, <1>4, <1>5, <1>6, <1>7, <1>8, <1>9, Worker(w), Zenon DEF Worker

\* The last partition of a device marks it complete unless something failed.
LEMMA CompleteExit ==
    ASSUME Typing, ExitInv, NEW w \in Workers, CompletePollHost(w), exit_code' = 0,
           NEW d \in Devices
    PROVE  /\ ~output_failed'[d] /\ ~poll_failed'[d]
           /\ host_threads[d] >= 1 /\ threads_complete'[d] = host_threads[d] => complete'[d]
<1>0. /\ output_failed \in [Devices -> BOOLEAN] /\ poll_failed \in [Devices -> BOOLEAN]
      /\ complete \in [Devices -> BOOLEAN] /\ threads_complete \in [Devices -> Nat]
      /\ w[1] \in Devices
  BY Zenon, WorkerParts DEF Typing
<1>1. result[w] = "ok" /\ exit_code = 0
  BY CompleteParts
<1>2. output_failed' = output_failed /\ poll_failed' = poll_failed
  <2>1. (output_failed[w[1]] \/ result[w] = "output_failed") = output_failed[w[1]]
    BY Zenon, <1>0, <1>1
  <2>2. (poll_failed[w[1]] \/ result[w] = "poll_failed") = poll_failed[w[1]]
    BY Zenon, <1>0, <1>1
  <2> QED
    BY <1>0, <2>1, <2>2, Zenon DEF CompletePollHost
<1>3. ~output_failed[d] /\ ~poll_failed[d] /\ ~output_failed[w[1]] /\ ~poll_failed[w[1]]
  BY Zenon, <1>0, <1>1 DEF ExitInv
<1>4. /\ threads_complete' = [threads_complete EXCEPT ![w[1]] = @ + 1]
      /\ complete' = [complete EXCEPT ![w[1]] =
            IF threads_complete[w[1]] + 1 = host_threads[w[1]]
            THEN ~(output_failed'[w[1]] \/ poll_failed'[w[1]]) ELSE @]
  BY Zenon, CompleteParts
<1>5. CASE d = w[1]
  BY Zenon, <1>0, <1>2, <1>3, <1>4, <1>5
<1>6. CASE d # w[1]
  BY Zenon, <1>0, <1>1, <1>2, <1>3, <1>4, <1>6 DEF ExitInv
<1> QED
  BY Zenon, <1>5, <1>6

-----------------------------------------------------------------------------
(* The parts that count *)

USE DEF mainVars, permitVars, detailVars, poolVars, dbVars, localVars,
        workerSide, mainSide

\* There are finitely many workers.
LEMMA WorkersFinite == IsFiniteSet(Workers) /\ IsFiniteSet(Holders)
<1>1. IsFiniteSet(Devices) /\ IsFiniteSet(Partitions)
  BY FS_Interval, RowsAssumption, MaxDeviceThreadsAssumption DEF Devices, Partitions
<1>2. IsFiniteSet(Workers)
  BY Zenon, <1>1, FS_Product DEF Workers
<1>3. Holders \in SUBSET Workers
  BY Zenon DEF Holders
<1> QED
  BY Zenon, <1>2, <1>3, FS_Subset

\* Permits are conserved on every path, the failing ones included.
LEMMA PermitStep ==
    Typing /\ LaunchInv /\ LaunchedInv /\ PermitInv /\ [Next]_vars => PermitInv'
<1> SUFFICES ASSUME Typing, LaunchInv, LaunchedInv, PermitInv, [Next]_vars
             PROVE  PermitInv'
  BY Zenon
<1>0. /\ IsFiniteSet(Holders) /\ Cardinality(Holders) \in Nat
      /\ available_threads \in Nat /\ Threads \in Nat
      /\ main \in MainStates /\ wpc \in [Workers -> WorkerStates]
  BY Zenon, WorkersFinite, FS_CardinalityType, ThreadsAssumption DEF Typing
<1> USE DEF PermitInv, MainHolds
<1>1. CASE Tick
  <2>1. Holders' = Holders
    BY Zenon, <1>1 DEF Tick, Holders
  <2> QED
    BY Zenon, <1>1, <2>1 DEF Tick
<1>2. CASE Main /\ main # "create"
  <2>1. Holders' = Holders
    BY Zenon, <1>2, MainFrame DEF Holders
  <2>2. CASE FetchRow \/ NextPartition \/ LaunchDone \/ PreparePartition
    BY <1>0, <2>1, <2>2, Zenon
       DEF FetchRow, NextPartition, LaunchDone, PreparePartition, Die
  <2>3. CASE AcquireThread \/ AcquireRetry
    BY <1>0, <2>1, <2>3 DEF AcquireThread, AcquireRetry
  <2>4. CASE AcquireStartup \/ StartupRetry
    BY <1>0, <2>1, <2>4 DEF AcquireStartup, StartupRetry
  <2>5. CASE WaitForWorkers
    <3>1. CASE WorkersOut
      BY Zenon, <1>0, <2>1, <2>5, <3>1 DEF WaitForWorkers
    <3>2. CASE ~WorkersOut
      <4>1. Cardinality(Holders) = 0
        BY <1>0, <2>5, <3>2 DEF WaitForWorkers, WorkersOut
      <4>2. Holders = {}
        BY Zenon, <1>0, <4>1, FS_EmptySet
      <4> QED
        BY Zenon, <1>0, <2>1, <2>5, <3>2, <4>2 DEF WaitForWorkers
    <3> QED
      BY Zenon, <3>1, <3>2
  <2>6. CASE WaitCheck
    BY Zenon, <1>0, <2>1, <2>6 DEF WaitCheck, Die
  <2>7. CASE PersistPollCompletion \/ FreeWorkerStorage
    BY Zenon, <1>0, <2>1, <2>7 DEF PersistPollCompletion, FreeWorkerStorage
  <2> QED
    BY Zenon, <1>2, <2>2, <2>3, <2>4, <2>5, <2>6, <2>7 DEF Main, CreateWorker
<1>3. CASE CreateWorker
  <2> DEFINE n == <<device_counter + 1, current_thread>>
  <2>1. n \in Workers /\ wpc[n] = "none" /\ main = "create"
    BY Zenon, <1>3, CreatedIsNew DEF CreateWorker
  <2>2. CASE main' = "fetch"
    <3>1. wpc' = [wpc EXCEPT ![n] = "started"]
      BY Zenon, <1>3, <2>2 DEF CreateWorker, Die
    <3>2. Holders' = Holders \cup {n} /\ n \notin Holders
      BY Zenon, <1>0, <2>1, <3>1 DEF Holders
    <3>3. Cardinality(Holders') = Cardinality(Holders) + 1
      BY <1>0, <3>2, FS_AddElement, Zenon
    <3>4. available_threads' = available_threads
      BY Zenon, <1>3, <2>2 DEF CreateWorker
    <3> QED
      BY <1>0, <2>1, <2>2, <3>3, <3>4
  <2>3. CASE main' = "wait"
    <3>1. Holders' = Holders /\ available_threads' = available_threads + 1
      BY Zenon, <1>3, <2>3 DEF CreateWorker, Holders, Die
    <3> QED
      BY <1>0, <2>1, <2>3, <3>1
  <2>4. CASE main' = "died"
    <3>1. Holders' = Holders /\ available_threads' = available_threads
      BY Zenon, <1>3, <2>4 DEF CreateWorker, Holders, permitVars
    <3> QED
      BY Zenon, <2>4, <3>1
  <2> QED
    BY Zenon, <1>3, <2>2, <2>3, <2>4 DEF CreateWorker, Die
<1>4. ASSUME NEW w \in Workers, Worker(w) PROVE PermitInv'
  <2>1. /\ main' \in {main, "died"}
        /\ wpc' = [wpc EXCEPT ![w] = wpc'[w]]
        /\ wpc'[w] # "none" /\ wpc[w] \notin {"none", "done"}
        /\ wpc'[w] = "done" <=> wpc[w] = "cleanup"
        /\ available_threads' = IF wpc[w] = "cleanup" THEN available_threads + 1
                                                    ELSE available_threads
    BY Zenon, <1>4, WorkerFrame
  <2>2. w \in Holders
    BY Zenon, <2>1 DEF Holders
  <2>3. CASE wpc[w] = "cleanup"
    <3>1. Holders' = Holders \ {w}
      BY Zenon, <1>0, <2>1, <2>3 DEF Holders
    <3>2. Cardinality(Holders') = Cardinality(Holders) - 1
      BY <1>0, <2>2, <3>1, FS_RemoveElement, Zenon
    <3> QED
      BY <1>0, <2>1, <2>2, <2>3, <3>2
  <2>4. CASE wpc[w] # "cleanup"
    <3>1. Holders' = Holders
      BY Zenon, <1>0, <2>1, <2>4 DEF Holders
    <3> QED
      BY Zenon, <1>0, <2>1, <2>2, <2>4, <3>1
  <2> QED
    BY Zenon, <2>3, <2>4
<1>5. CASE UNCHANGED vars
  <2>1. Holders' = Holders
    BY Zenon, <1>5 DEF vars, Holders
  <2> QED
    BY Zenon, <1>5, <2>1 DEF vars
<1> QED
  BY ZenonT(30), <1>1, <1>2, <1>3, <1>4, <1>5
     DEF Next, Main, Terminated, PreparePartition, FetchRow, NextPartition,
         LaunchDone, AcquireThread, AcquireRetry, AcquireStartup, StartupRetry,
         WaitForWorkers, WaitCheck, PersistPollCompletion, FreeWorkerStorage

\* A worker about to take a connection finds one: every entry that is not
\* free is with another permit holder, and there are too few of those to hold
\* them all.
LEMMA LocalAvailable ==
    ASSUME Typing, PermitInv, PoolInv, NEW w \in Workers,
           wpc[w] = "get_local", main \notin {"free", "exited"}
    PROVE  local_free # {}
<1> SUFFICES ASSUME local_free = {} PROVE FALSE
  BY Zenon
<1>1. \A i \in ConnIds : \E v \in Workers : local_cnn[v] = i
  BY Zenon DEF PoolInv
<1> DEFINE f == [i \in ConnIds |-> CHOOSE v \in Workers : local_cnn[v] = i]
           others == Holders \ {w}
<1>2. \A i \in ConnIds : f[i] \in Workers /\ local_cnn[f[i]] = i
  BY Zenon, <1>1
<1>3. \A i \in ConnIds : i # NoConn
  BY DEF ConnIds, NoConn
<1>4. f \in [ConnIds -> others]
  BY <1>2, <1>3 DEF PoolInv, Holders, HasLocal
<1>5. IsFiniteSet(ConnIds) /\ Cardinality(ConnIds) = Threads
  BY FS_Interval, ThreadsAssumption DEF ConnIds
<1>6. /\ IsFiniteSet(others) /\ Cardinality(others) = Cardinality(Holders) - 1
      /\ Cardinality(Holders) \in Nat
  BY WorkersFinite, FS_RemoveElement, FS_CardinalityType, Zenon DEF Holders
<1>7. Cardinality(others) < Cardinality(ConnIds)
  BY <1>5, <1>6, ThreadsAssumption DEF PermitInv, Typing
<1> HIDE DEF f
<1>8. \E i, j \in ConnIds : i # j /\ f[i] = f[j]
  BY <1>4, <1>5, <1>6, <1>7, FS_PigeonHole
<1> QED
  BY Zenon, <1>2, <1>8

\* The same of the pool of the main server's connections.
LEMMA RemoteAvailable ==
    ASSUME Typing, PermitInv, PoolInv, NEW w \in Workers,
           wpc[w] = "get_remote", main \notin {"free", "exited"}
    PROVE  remote_free # {}
<1> SUFFICES ASSUME remote_free = {} PROVE FALSE
  BY Zenon
<1>1. \A i \in ConnIds : \E v \in Workers : remote_cnn[v] = i
  BY Zenon DEF PoolInv
<1> DEFINE f == [i \in ConnIds |-> CHOOSE v \in Workers : remote_cnn[v] = i]
           others == Holders \ {w}
<1>2. \A i \in ConnIds : f[i] \in Workers /\ remote_cnn[f[i]] = i
  BY Zenon, <1>1
<1>3. \A i \in ConnIds : i # NoConn
  BY DEF ConnIds, NoConn
<1>4. f \in [ConnIds -> others]
  BY <1>2, <1>3 DEF PoolInv, Holders, HasRemote
<1>5. IsFiniteSet(ConnIds) /\ Cardinality(ConnIds) = Threads
  BY FS_Interval, ThreadsAssumption DEF ConnIds
<1>6. /\ IsFiniteSet(others) /\ Cardinality(others) = Cardinality(Holders) - 1
      /\ Cardinality(Holders) \in Nat
  BY WorkersFinite, FS_RemoveElement, FS_CardinalityType, Zenon DEF Holders
<1>7. Cardinality(others) < Cardinality(ConnIds)
  BY <1>5, <1>6, ThreadsAssumption DEF PermitInv, Typing
<1> HIDE DEF f
<1>8. \E i, j \in ConnIds : i # j /\ f[i] = f[j]
  BY <1>4, <1>5, <1>6, <1>7, FS_PigeonHole
<1> QED
  BY Zenon, <1>2, <1>8

\* Connections stay private to one worker and none is ever lost.
LEMMA PoolStep ==
    /\ Typing /\ LaunchInv /\ LaunchedInv /\ PermitInv /\ PoolInv
    /\ [Next]_vars
    => PoolInv'
<1> SUFFICES ASSUME Typing, LaunchInv, LaunchedInv, PermitInv, PoolInv,
                    [Next]_vars
             PROVE  PoolInv'
  BY Zenon
<1>0. /\ main \in MainStates /\ wpc \in [Workers -> WorkerStates]
      /\ local_cnn \in [Workers -> ConnIds \cup {NoConn}]
      /\ remote_cnn \in [Workers -> ConnIds \cup {NoConn}]
      /\ local_free \subseteq ConnIds /\ remote_free \subseteq ConnIds
      /\ \A i \in ConnIds : i # NoConn
  BY DEF Typing, PoolInv, ConnIds, NoConn
<1>1. CASE Tick
  BY Zenon, <1>1, PoolFrame DEF Tick
<1>2. CASE FetchRow \/ NextPartition \/ LaunchDone \/ PreparePartition
  BY ZenonT(30), <1>2, PoolFrame
     DEF FetchRow, NextPartition, LaunchDone, PreparePartition, Die
<1>3. CASE AcquireThread \/ AcquireRetry \/ AcquireStartup \/ StartupRetry
  BY Zenon, <1>3, PoolFrame
     DEF AcquireThread, AcquireRetry, AcquireStartup, StartupRetry
<1>4. CASE CreateWorker
  BY Zenon, <1>0, <1>4, PoolFrame, CreatedIsNew DEF CreateWorker, HasLocal, HasRemote
<1>5. CASE WaitForWorkers \/ WaitCheck \/ FreeWorkerStorage
  BY Zenon, <1>5, PoolFrame DEF WaitForWorkers, WaitCheck, FreeWorkerStorage, Die
<1>6. CASE PersistPollCompletion
  <2>1. \A w \in Workers : wpc[w] \in {"none", "done"}
    BY Zenon, <1>6 DEF PersistPollCompletion, PermitInv, Holders
  <2> QED
    BY Zenon, <1>6, <2>1
       DEF PersistPollCompletion, PoolInv, ConnectionsExclusive, HasLocal,
           HasRemote
<1>7. ASSUME NEW w \in Workers, Worker(w) PROVE PoolInv'
  <2>0. main \notin {"finish", "free", "exited"} /\ main' \in {main, "died"}
    BY Zenon, <1>7, WorkerFrame DEF PermitInv, Holders
  <2>1. CASE ChildStart(w) \/ WorkerDies(w) \/ ChildCleanup(w)
    BY Zenon, <1>0, <2>0, <2>1, PoolFrame
       DEF ChildStart, WorkerDies, ChildCleanup, Die, HasLocal, HasRemote
  <2>2. CASE LoadPollHost(w) \/ SelectPollItems(w) \/ WritePollResults(w)
    BY Zenon, <1>0, <2>0, <2>2, PoolFrame
       DEF LoadPollHost, SelectPollItems, WritePollResults, HasLocal, HasRemote
  <2>3. CASE CompletePollHost(w)
    <3>1. AfterPollFailed(w) = "release_local"
      BY Zenon, <2>3, CompleteParts DEF AfterPollFailed, PoolInv, HasLocal
    <3>2. wpc[w] = "complete" /\ UNCHANGED poolVars
      BY Zenon, <2>3, CompleteParts
    <3>3. \/ wpc' = [wpc EXCEPT ![w] = "release_local"]
          \/ wpc' = [wpc EXCEPT ![w] = "completion_writes"]
      BY Zenon, <2>3, <3>1, CompleteParts
    <3> QED
      BY Zenon, <1>0, <2>0, <3>2, <3>3, PoolFrame DEF HasLocal, HasRemote
  <2>4. CASE UpdateSchedule(w) \/ UpdatePollingTime(w) \/ InsertHostErrors(w)
    BY ZenonT(30), <1>0, <2>0, <2>4, PoolFrame
       DEF UpdateSchedule, UpdatePollingTime, InsertHostErrors
  <2>5. CASE FinishCompletion(w)
    BY Zenon, <1>0, <2>0, <2>5, PoolFrame DEF FinishCompletion, HasLocal, HasRemote
  <2>6. CASE GetLocal(w)
    <3>1. local_free # {}
      BY Zenon, <2>0, <2>6, LocalAvailable DEF GetLocal
    <3>2. PICK id \in First(local_free) :
            /\ local_free' = local_free \ {id}
            /\ local_cnn' = [local_cnn EXCEPT ![w] = id]
            /\ wpc' = [wpc EXCEPT ![w] = IF Remote THEN "get_remote" ELSE "load"]
      BY Zenon, <2>6, <3>1 DEF GetLocal, Take
    <3>3. /\ wpc[w] = "get_local" /\ local_cnn[w] = NoConn
          /\ remote_cnn' = remote_cnn /\ remote_free' = remote_free
          /\ id \in local_free
      BY Zenon, <2>6, <3>2 DEF GetLocal, First, PoolInv, HasLocal
    <3>4. \A v \in Workers :
            /\ local_cnn'[v] # NoConn <=> wpc'[v] \in HasLocal
            /\ remote_cnn'[v] # NoConn <=> Remote /\ wpc'[v] \in HasRemote
            /\ wpc'[v] \in {"get_remote", "release_remote"} => Remote
      BY Zenon, <1>0, <3>2, <3>3 DEF PoolInv, HasLocal, HasRemote
    <3>5. ConnectionsExclusive'
      BY ZenonT(60), <1>0, <3>2, <3>3 DEF PoolInv, ConnectionsExclusive
    <3>6. ConnIds \subseteq local_free' \cup {local_cnn'[v] : v \in Workers}
      <4> SUFFICES ASSUME NEW i \in ConnIds, i \notin local_free'
                   PROVE  \E v \in Workers : local_cnn'[v] = i
        BY Zenon
      <4>1. CASE i = id
        BY Zenon, <1>0, <3>2, <4>1
      <4>2. CASE i # id
        <5>1. PICK v \in Workers : local_cnn[v] = i
          BY ZenonT(60), <2>0, <3>2, <4>2 DEF PoolInv
        <5> QED
          BY Zenon, <1>0, <3>2, <3>3, <5>1
      <4> QED
        BY Zenon, <4>1, <4>2
    <3> QED
      BY SMTT(60), <1>0, <2>0, <3>2, <3>3, <3>4, <3>5, <3>6 DEF PoolInv
  <2>7. CASE GetRemote(w)
    <3>1. remote_free # {}
      BY Zenon, <2>0, <2>7, RemoteAvailable DEF GetRemote
    <3>2. PICK id \in First(remote_free) :
            /\ remote_free' = remote_free \ {id}
            /\ remote_cnn' = [remote_cnn EXCEPT ![w] = id]
            /\ wpc' = [wpc EXCEPT ![w] = "load"]
            /\ UNCHANGED <<local_free, local_cnn>>
      BY Zenon, <2>7, <3>1 DEF GetRemote, Take
    <3>3. /\ wpc[w] = "get_remote" /\ remote_cnn[w] = NoConn /\ Remote
          /\ id \in remote_free
      BY Zenon, <2>7, <3>2 DEF GetRemote, First, PoolInv, HasRemote
    <3>4. \A v \in Workers :
            /\ local_cnn'[v] # NoConn <=> wpc'[v] \in HasLocal
            /\ remote_cnn'[v] # NoConn <=> Remote /\ wpc'[v] \in HasRemote
            /\ wpc'[v] \in {"get_remote", "release_remote"} => Remote
      BY Zenon, <1>0, <3>2, <3>3 DEF PoolInv, HasLocal, HasRemote
    <3>5. ConnectionsExclusive'
      BY ZenonT(60), <1>0, <3>2, <3>3 DEF PoolInv, ConnectionsExclusive
    <3>6. ConnIds \subseteq remote_free' \cup {remote_cnn'[v] : v \in Workers}
      <4> SUFFICES ASSUME NEW i \in ConnIds, i \notin remote_free'
                   PROVE  \E v \in Workers : remote_cnn'[v] = i
        BY Zenon
      <4>1. CASE i = id
        BY Zenon, <1>0, <3>2, <4>1
      <4>2. CASE i # id
        <5>1. PICK v \in Workers : remote_cnn[v] = i
          BY ZenonT(60), <2>0, <3>2, <3>3, <4>2 DEF PoolInv
        <5> QED
          BY Zenon, <1>0, <3>2, <3>3, <5>1
      <4> QED
        BY Zenon, <4>1, <4>2
    <3> QED
      BY SMTT(60), <1>0, <2>0, <3>2, <3>3, <3>4, <3>5, <3>6 DEF PoolInv
  <2>8. CASE ReleaseLocal(w)
    <3>1. /\ local_free' = local_free \cup {local_cnn[w]}
          /\ local_cnn' = [local_cnn EXCEPT ![w] = NoConn]
          /\ wpc' = [wpc EXCEPT ![w] = IF Remote THEN "release_remote"
                                                ELSE "cleanup"]
          /\ UNCHANGED <<remote_free, remote_cnn>>
          /\ wpc[w] = "release_local" /\ local_cnn[w] \in ConnIds
      BY Zenon, <1>0, <2>8 DEF ReleaseLocal, PoolInv, HasLocal
    <3>2. \A v \in Workers :
            /\ local_cnn'[v] # NoConn <=> wpc'[v] \in HasLocal
            /\ remote_cnn'[v] # NoConn <=> Remote /\ wpc'[v] \in HasRemote
            /\ wpc'[v] \in {"get_remote", "release_remote"} => Remote
      BY Zenon, <1>0, <3>1 DEF PoolInv, HasLocal, HasRemote
    <3>3. ConnectionsExclusive'
      BY Zenon, <1>0, <3>1 DEF PoolInv, ConnectionsExclusive
    <3>4. ConnIds \subseteq local_free' \cup {local_cnn'[v] : v \in Workers}
      <4> SUFFICES ASSUME NEW i \in ConnIds, i \notin local_free'
                   PROVE  \E v \in Workers : local_cnn'[v] = i
        BY Zenon
      <4>1. PICK v \in Workers : local_cnn[v] = i
        BY Zenon, <2>0, <3>1 DEF PoolInv
      <4> QED
        BY Zenon, <1>0, <3>1, <4>1
    <3> QED
      BY SMTT(60), <1>0, <2>0, <3>1, <3>2, <3>3, <3>4 DEF PoolInv
  <2>9. CASE ReleaseRemote(w)
    <3>1. /\ remote_free' = remote_free \cup {remote_cnn[w]}
          /\ remote_cnn' = [remote_cnn EXCEPT ![w] = NoConn]
          /\ wpc' = [wpc EXCEPT ![w] = "cleanup"]
          /\ UNCHANGED <<local_free, local_cnn>>
          /\ wpc[w] = "release_remote" /\ remote_cnn[w] \in ConnIds /\ Remote
      BY Zenon, <1>0, <2>9 DEF ReleaseRemote, PoolInv, HasRemote
    <3>2. \A v \in Workers :
            /\ local_cnn'[v] # NoConn <=> wpc'[v] \in HasLocal
            /\ remote_cnn'[v] # NoConn <=> Remote /\ wpc'[v] \in HasRemote
            /\ wpc'[v] \in {"get_remote", "release_remote"} => Remote
      BY Zenon, <1>0, <3>1 DEF PoolInv, HasLocal, HasRemote
    <3>3. ConnectionsExclusive'
      BY Zenon, <1>0, <3>1 DEF PoolInv, ConnectionsExclusive
    <3>4. ConnIds \subseteq remote_free' \cup {remote_cnn'[v] : v \in Workers}
      <4> SUFFICES ASSUME NEW i \in ConnIds, i \notin remote_free'
                   PROVE  \E v \in Workers : remote_cnn'[v] = i
        BY Zenon
      <4>1. PICK v \in Workers : remote_cnn[v] = i
        BY Zenon, <2>0, <3>1 DEF PoolInv
      <4> QED
        BY Zenon, <1>0, <3>1, <4>1
    <3> QED
      BY SMTT(60), <1>0, <2>0, <3>1, <3>2, <3>3, <3>4 DEF PoolInv
  <2> QED
    BY ZenonT(60), <1>7, <2>1, <2>2, <2>3, <2>4, <2>5, <2>6, <2>7, <2>8, <2>9 DEF Worker
<1>8. CASE UNCHANGED vars
  BY Zenon, <1>8, PoolFrame DEF vars
<1> QED
  BY ZenonT(60), <1>1, <1>2, <1>3, <1>4, <1>5, <1>6, <1>7, <1>8 DEF Next, Main, Terminated

-----------------------------------------------------------------------------
(* The part of the invariant the resource theorems need. *)
ResourceInv == /\ Typing /\ LaunchInv /\ LaunchedInv /\ PermitInv
               /\ StartupInv /\ PoolInv

\* The first state satisfies it: all permits and connections are home.
LEMMA ResourceInit == Init => ResourceInv
<1> SUFFICES ASSUME Init PROVE ResourceInv
  BY Zenon
<1> USE RowsAssumption, ThreadsAssumption, MaxDeviceThreadsAssumption,
        FlagsAssumption
<1>1. Typing
  BY DEF Init, Typing, MainStates, WorkerStates, Results, Partitions
<1>2. LaunchInv /\ LaunchedInv
  BY DEF Init, LaunchInv, LaunchedInv, Launching
<1>3. PermitInv
  <2>1. Holders = {}
    BY Zenon DEF Init, Holders
  <2>2. Cardinality({}) = 0
    BY Zenon, FS_EmptySet
  <2> QED
    BY <2>1, <2>2 DEF Init, PermitInv, MainHolds
<1>4. StartupInv
  BY Zenon DEF Init, StartupInv
<1>5. PoolInv
  BY DEF Init, PoolInv, ConnectionsExclusive, HasLocal, HasRemote, ConnIds,
         NoConn
<1> QED
  BY Zenon, <1>1, <1>2, <1>3, <1>4, <1>5 DEF ResourceInv

\* Every action of launch_poll_workers() and poll_host() keeps the resource
\* invariant.
LEMMA ResourceStep == ResourceInv /\ [Next]_vars => ResourceInv'
BY Zenon, TypingStep, LaunchStep, LaunchedStep, PermitStep, StartupStep, PoolStep
   DEF ResourceInv

\* So permits, connections and worker slots are accounted for in every state.
LEMMA ResourceAlways == Spec => []ResourceInv
BY ResourceInit, ResourceStep, PTL DEF Spec

\* db_get_connection() never fails for want of an entry, for any number of
\* devices, partitions and threads.
THEOREM PoolNeverExhaustedThm == Spec => []PoolNeverExhausted
<1>1. ResourceInv => PoolNeverExhausted
  <2> SUFFICES ASSUME ResourceInv, NEW w \in Workers
               PROVE  /\ wpc[w] = "get_local" => local_free # {}
                      /\ wpc[w] = "get_remote" => remote_free # {}
    BY Zenon DEF PoolNeverExhausted
  <2>1. wpc[w] \in {"get_local", "get_remote"} => main \notin {"free", "exited"}
    BY Zenon DEF ResourceInv, PermitInv, Holders
  <2> QED
    BY Zenon, <2>1, LocalAvailable, RemoteAvailable DEF ResourceInv
<1> QED
  BY <1>1, ResourceAlways, PTL

\* A MYSQL handle is used by one worker at a time, and never while it is free.
THEOREM ConnectionsExclusiveThm == Spec => []ConnectionsExclusive
<1>1. ResourceInv => ConnectionsExclusive
  BY Zenon DEF ResourceInv, PoolInv
<1> QED
  BY <1>1, ResourceAlways, PTL

\* spine_run() closes the pools and frees details[] after the last worker has
\* gone, however the launch ended.
THEOREM TeardownAfterWorkersThm == Spec => []TeardownAfterWorkers
<1>1. ResourceInv => TeardownAfterWorkers
  BY Zenon DEF ResourceInv, PermitInv, Holders, TeardownAfterWorkers
<1> QED
  BY <1>1, ResourceAlways, PTL

-----------------------------------------------------------------------------
(* What complete_poll_host() decides. *)

\* The counted partitions of a device are among the announced ones.
LEMMA CountedBound ==
    ASSUME Typing, LaunchedInv, NEW d \in Devices
    PROVE  /\ Counted(d) \subseteq 1..host_threads[d]
           /\ IsFiniteSet(Counted(d)) /\ Cardinality(Counted(d)) \in Nat
           /\ host_threads[d] \in Nat
           /\ \A k \in Partitions : <<d, k>> \in Workers
<1>1. /\ host_threads[d] \in 0..MaxDeviceThreads
      /\ host_threads[d] \in Nat
  BY MaxDeviceThreadsAssumption DEF Typing
<1>2. \A k \in Partitions : <<d, k>> \in Workers /\ k \in Nat /\ k >= 1
  BY MaxDeviceThreadsAssumption DEF Workers, Partitions
<1>3. Counted(d) \subseteq 1..host_threads[d]
  BY <1>1, <1>2 DEF Counted, Passed, LaunchedInv, Late
<1>4. IsFiniteSet(1..host_threads[d])
  BY <1>1, FS_Interval
<1> QED
  BY Zenon, <1>1, <1>2, <1>3, <1>4, FS_Subset, FS_CardinalityType

\* threads_complete is the number of counted partitions, and a counted failure
\* is on record.
LEMMA CountStep ==
    /\ Typing /\ LaunchInv /\ LaunchedInv /\ WorkerInv /\ CountInv
    /\ [Next]_vars
    => CountInv'
<1> SUFFICES ASSUME Typing, LaunchInv, LaunchedInv, WorkerInv, CountInv,
                    [Next]_vars
             PROVE  CountInv'
  BY Zenon
<1>1. ASSUME NEW d \in Devices
      PROVE  threads_complete'[d] = Cardinality(Counted(d)')
  <2>0. /\ threads_complete[d] = Cardinality(Counted(d))
        /\ IsFiniteSet(Counted(d))
        /\ \A k \in Partitions : <<d, k>> \in Workers
    BY Zenon, CountedBound DEF CountInv
  <2>1. CASE \E w \in Workers : CompletePollHost(w)
    <3>1. PICK w \in Workers : CompletePollHost(w)
      BY Zenon, <2>1
    <3>2. /\ result' = result /\ wpc[w] = "complete"
          /\ \E s \in {"completion_writes", "cleanup", "release_local"} :
                wpc' = [wpc EXCEPT ![w] = s]
          /\ threads_complete' = [threads_complete EXCEPT ![w[1]] = @ + 1]
      BY Zenon, <3>1, CompleteParts DEF AfterPollFailed
    <3>3. \A v \in Workers : Passed(v)' <=> v = w \/ Passed(v)
      BY Zenon, <3>2 DEF Passed, Typing, WorkerInv, Late
    <3>4. ~Passed(w)
      BY Zenon, <3>2 DEF Passed, Late
    <3>5. CASE d = w[1]
      <4>1. Counted(d)' = Counted(d) \cup {w[2]} /\ w[2] \notin Counted(d)
        BY ZenonT(60), <2>0, <3>3, <3>4, <3>5, WorkerParts DEF Counted
      <4>2. Cardinality(Counted(d)') = Cardinality(Counted(d)) + 1
        BY <2>0, <4>1, FS_AddElement, Zenon
      <4> QED
        BY Zenon, <2>0, <3>2, <3>5, <4>2 DEF Typing
    <3>6. CASE d # w[1]
      <4>1. Counted(d)' = Counted(d)
        BY <2>0, <3>3, <3>6 DEF Counted
      <4> QED
        BY Zenon, <2>0, <3>2, <3>6, <4>1, WorkerParts DEF Typing
    <3> QED
      BY Zenon, <3>5, <3>6
  <2>2. CASE ~ \E w \in Workers : CompletePollHost(w)
    <3>1. Counted(d)' = Counted(d)
      BY Zenon, <2>0, <2>2, PassedStep DEF Counted
    <3>2. threads_complete' = threads_complete
      BY Zenon, <2>2, FlagStep
    <3> QED
      BY Zenon, <2>0, <3>1, <3>2
  <2> QED
    BY Zenon, <2>1, <2>2
<1>2. ASSUME NEW v \in Workers
      PROVE  /\ Passed(v)' /\ result'[v] = "output_failed" => output_failed'[v[1]]
             /\ Passed(v)' /\ result'[v] = "poll_failed" => poll_failed'[v[1]]
  <2>1. CASE Passed(v)
    BY Zenon, <2>1, PassedStep, FlagStep, WorkerParts DEF CountInv
  <2>2. CASE CompletePollHost(v)
    BY <2>2, WorkerParts, Zenon DEF CompletePollHost, Typing
  <2> QED
    BY Zenon, <2>1, <2>2, PassedStep
<1>3. \A v \in Workers : result'[v] = "ok" <=> v[2] \in persisted'[v[1]]
  BY Zenon, PersistedStep DEF CountInv
<1> QED
  BY Zenon, <1>1, <1>2, <1>3 DEF CountInv

\* Once all partitions of a device were counted with accepted output, nothing
\* takes that back; in particular the launcher never announces it again.
LEMMA AllPolledStable ==
    ASSUME Typing, LaunchInv, LaunchedInv, WorkerInv, [Next]_vars,
           NEW d \in Devices, AllPolled(d)
    PROVE  AllPolled(d)'
<1>0. /\ host_threads[d] \in Nat /\ host_threads[d] >= 1
      /\ Counted(d) = 1..host_threads[d]
      /\ \A k \in Partitions : <<d, k>> \in Workers
      /\ d \in Nat /\ device_counter \in Nat /\ current_thread \in Nat
  BY SMTT(60), CountedBound, RowsAssumption DEF AllPolled, Typing, Devices
<1>1. host_threads'[d] = host_threads[d]
  <2>1. CASE PreparePartition
    <3>1. 1 \in Counted(d)
      BY <1>0
    <3>2. wpc[<<d, 1>>] # "none" /\ <<d, 1>> \in Workers
      BY Zenon, <1>0, <3>1 DEF Counted, Passed, Late
    <3>3. current_thread = 1 => d # device_counter + 1
      <4>1. main = "prepare"
        BY Zenon, <2>1 DEF PreparePartition
      <4>2. \/ d <= device_counter
            \/ d = device_counter + 1 /\ 1 < current_thread
        <5>1. <<d, 1>>[1] = d /\ <<d, 1>>[2] = 1
          BY Zenon
        <5> QED
          BY Zenon, <3>2, <4>1, <5>1 DEF LaunchedInv, Launching
      <4> QED
        BY <1>0, <4>2
    <3>4. host_threads \in [Devices -> 0..MaxDeviceThreads]
      BY Zenon DEF Typing
    <3> QED
      BY <1>0, <2>1, <3>3, <3>4, Zenon DEF PreparePartition
  <2>2. CASE Main /\ main # "prepare"
    BY Zenon, <2>2, MainFrame
  <2>3. ASSUME NEW w \in Workers, Worker(w) PROVE host_threads' = host_threads
    BY Zenon, <2>3, WorkerFrame
  <2>4. CASE Tick \/ UNCHANGED vars
    BY Zenon, <2>4 DEF Tick, vars
  <2> QED
    BY ZenonT(30), <2>1, <2>2, <2>3, <2>4
       DEF Next, Main, Terminated, FetchRow, NextPartition, LaunchDone,
           AcquireThread, AcquireRetry, AcquireStartup, StartupRetry,
           CreateWorker, WaitForWorkers, WaitCheck, PersistPollCompletion,
           FreeWorkerStorage
<1>2. Typing' /\ LaunchedInv'
  BY Zenon, TypingStep, LaunchedStep
<1>3. Counted(d)' \subseteq 1..host_threads'[d]
  <2>1. \A k \in Partitions : Passed(<<d, k>>)' =>
            k <= host_threads'[d] /\ k >= 1 /\ k \in Nat
    BY <1>0, <1>2, MaxDeviceThreadsAssumption
       DEF LaunchedInv, Passed, Late, Partitions
  <2> QED
    BY <1>0, <1>1, <2>1 DEF Counted
<1>4. Counted(d) \subseteq Counted(d)'
  BY Zenon, <1>0, PassedStep DEF Counted
<1>5. \A k \in 1..host_threads[d] : result'[<<d, k>>] = "ok"
  BY Zenon, <1>0, PassedStep DEF Counted, AllPolled
<1> QED
  BY <1>0, <1>1, <1>3, <1>4, <1>5, ZenonT(60) DEF AllPolled

\* A device with a worker still to be counted is not AllPolled.
LEMMA NotYetPolled ==
    ASSUME Typing, LaunchedInv, NEW w \in Workers, wpc[w] = "complete"
    PROVE  ~AllPolled(w[1])
<1>1. w[2] \in 1..host_threads[w[1]]
  BY WorkerParts DEF LaunchedInv, Typing
<1>2. w[2] \notin Counted(w[1])
  BY Zenon, WorkerParts DEF Counted, Passed, Late
<1> QED
  BY <1>1, <1>2, Zenon DEF AllPolled

\* When the last announced partition is counted and no flag is up, every
\* partition had its output accepted.
LEMMA LastDecides ==
    ASSUME Typing, LaunchInv, LaunchedInv, WorkerInv, CountInv, [Next]_vars,
           NEW w \in Workers, CompletePollHost(w),
           threads_complete[w[1]] + 1 = host_threads[w[1]],
           ~output_failed'[w[1]], ~poll_failed'[w[1]]
    PROVE  AllPolled(w[1])'
<1> DEFINE d == w[1]
           h == host_threads[d]
<1>0. /\ d \in Devices /\ w[2] \in Partitions /\ w = <<d, w[2]>>
      /\ \A k \in Partitions : <<d, k>> \in Workers
      /\ h \in Nat /\ threads_complete[d] \in Nat
      /\ 1..h \subseteq Partitions /\ host_threads' = host_threads
  <2>1. d \in Devices /\ w[2] \in Partitions /\ w = <<d, w[2]>>
    BY Zenon, WorkerParts
  <2>2. \A k \in Partitions : <<d, k>> \in Workers
    BY Zenon, <2>1, CountedBound
  <2>3. h \in 0..MaxDeviceThreads /\ threads_complete[d] \in Nat
    BY Zenon, <2>1 DEF Typing
  <2>4. h \in Nat /\ 1..h \subseteq Partitions
    BY <2>3, MaxDeviceThreadsAssumption DEF Partitions
  <2>5. host_threads' = host_threads
    BY Zenon, CompleteParts
  <2> QED
    BY Zenon, <2>1, <2>2, <2>3, <2>4, <2>5
<1>1. CountInv' /\ Typing' /\ LaunchedInv'
  BY ZenonT(60), CountStep, TypingStep, LaunchedStep
<1>2. threads_complete'[d] = h
  BY <1>0, CompleteParts DEF Typing
<1>3. Cardinality(Counted(d)') = h
  BY Zenon, <1>0, <1>1, <1>2 DEF CountInv
<1>4. Counted(d)' \subseteq 1..h
  <2>1. \A k \in Partitions : Passed(<<d, k>>)' =>
            k <= h /\ k >= 1 /\ k \in Nat
    BY <1>0, <1>1, MaxDeviceThreadsAssumption
       DEF LaunchedInv, Passed, Late, Partitions
  <2> QED
    BY <1>0, <2>1 DEF Counted
<1>5. IsFiniteSet(1..h) /\ Cardinality(1..h) = h
  <2> HIDE DEF h
  <2>1. h \in Nat /\ 1 \in Int /\ h \in Int
    BY <1>0
  <2> QED
    BY <2>1, FS_Interval
<1>6. Counted(d)' = 1..h
  BY <1>3, <1>4, <1>5, FS_Subset, Zenon
<1>7. \A k \in 1..h : result'[<<d, k>>] = "ok"
  <2> SUFFICES ASSUME NEW k \in 1..h PROVE result'[<<d, k>>] = "ok"
    BY Zenon
  <2>1. Passed(<<d, k>>)' /\ <<d, k>> \in Workers
    BY Zenon, <1>0, <1>6 DEF Counted
  <2>2. <<d, k>>[1] = d
    BY Zenon
  <2> QED
    BY Zenon, <1>1, <2>1, <2>2 DEF CountInv, Passed
<1>8. h >= 1 /\ host_threads'[d] = h /\ d' = d
  BY <1>0
<1> QED
  BY Zenon, <1>6, <1>7, <1>8 DEF AllPolled

\* What was decided of a device rests on every one of its partitions.
LEMMA DecideStep ==
    /\ Typing /\ LaunchInv /\ LaunchedInv /\ WorkerInv /\ CountInv
    /\ DecideInv /\ [Next]_vars
    => DecideInv'
<1> SUFFICES ASSUME Typing, LaunchInv, LaunchedInv, WorkerInv, CountInv,
                    DecideInv, [Next]_vars
             PROVE  DecideInv'
  BY Zenon
<1>0. /\ todo \in [Workers -> SUBSET CompletionWrites]
      /\ complete \in [Devices -> BOOLEAN]
      /\ schedule_runs \in [Devices -> Nat]
      /\ output_failed \in [Devices -> BOOLEAN]
      /\ poll_failed \in [Devices -> BOOLEAN]
  BY Zenon DEF Typing
<1>s. \A d \in Devices : AllPolled(d) => AllPolled(d)'
  BY Zenon, AllPolledStable
<1>w. \A d \in Devices, k \in Partitions : <<d, k>> \in Workers
  BY Zenon DEF Workers
<1>1. CASE UNCHANGED <<complete, output_failed, poll_failed, schedule_runs,
                       todo>>
  BY Zenon, <1>1, <1>s DEF DecideInv
<1>2. CASE Main
  BY Zenon, <1>1, <1>2, MainFrame
<1>3. ASSUME NEW w \in Workers, Worker(w) PROVE DecideInv'
  <2>0. w[1] \in Devices /\ w[2] \in Partitions /\ w = <<w[1], w[2]>>
    BY Zenon, WorkerParts
  <2>1. CASE SelectPollItems(w)
    <3>1. /\ UNCHANGED <<complete, output_failed, poll_failed, schedule_runs>>
          /\ \A v \in Workers : "schedule" \in todo'[v] => "schedule" \in todo[v]
      BY <1>0, <2>1 DEF SelectPollItems
    <3> QED
      BY Zenon, <1>s, <1>w, <3>1 DEF DecideInv
  <2>2. CASE UpdateSchedule(w)
    <3>1. /\ UNCHANGED <<complete, output_failed, poll_failed>>
          /\ "schedule" \in todo[w]
          /\ schedule_runs' = [schedule_runs EXCEPT ![w[1]] = @ + 1]
          /\ todo' = [todo EXCEPT ![w] = @ \ {"schedule"}]
      BY Zenon, <2>2 DEF UpdateSchedule, Ran
    <3>2. AllPolled(w[1]) /\ schedule_runs[w[1]] = 0
      BY Zenon, <2>0, <3>1 DEF DecideInv
    <3>3. \A k \in Partitions : "schedule" \notin todo'[<<w[1], k>>]
      BY Zenon, <1>0, <1>w, <2>0, <3>1 DEF DecideInv
    <3>4. schedule_runs'[w[1]] = 1
      BY <1>0, <2>0, <3>1, <3>2
    <3>5. ASSUME NEW d \in Devices, d # w[1]
          PROVE  /\ schedule_runs'[d] = schedule_runs[d]
                 /\ \A k \in Partitions : todo'[<<d, k>>] = todo[<<d, k>>]
      BY SMTT(60), <1>0, <1>w, <2>0, <3>1, <3>5
    <3> QED
      BY SMTT(60), <1>s, <2>0, <3>1, <3>2, <3>3, <3>4, <3>5 DEF DecideInv
  <2>3. CASE UpdatePollingTime(w) \/ InsertHostErrors(w)
    <3>1. /\ UNCHANGED <<complete, output_failed, poll_failed, schedule_runs>>
          /\ \A v \in Workers : "schedule" \in todo'[v] => "schedule" \in todo[v]
      BY ZenonT(60), <1>0, <2>3 DEF UpdatePollingTime, InsertHostErrors, Ran
    <3> QED
      BY Zenon, <1>s, <1>w, <3>1 DEF DecideInv
  <2>4. CASE FinishCompletion(w)
    <3>1. UNCHANGED <<poll_failed, schedule_runs, todo>>
      BY Zenon, <2>4 DEF FinishCompletion
    <3>2. \A d \in Devices : complete'[d] =>
             complete[d] /\ output_failed'[d] = output_failed[d]
      BY Zenon, <1>0, <2>0, <2>4 DEF FinishCompletion, Retract
    <3> QED
      BY ZenonT(30), <1>s, <3>1, <3>2 DEF DecideInv
  <2>5. CASE CompletePollHost(w)
    <3> DEFINE d == w[1]
               last == threads_complete[d] + 1 = host_threads[d]
    <3>1. /\ wpc[w] = "complete" /\ UNCHANGED schedule_runs
          /\ complete' = [complete EXCEPT ![d] =
                IF last THEN ~(output_failed'[d] \/ poll_failed'[d]) ELSE @]
          /\ \A e \in Devices : e # d => /\ output_failed'[e] = output_failed[e]
                                        /\ poll_failed'[e] = poll_failed[e]
      BY SMTT(30), <1>0, <2>0, <2>5, CompleteParts
    <3>2. ~AllPolled(d)
      BY Zenon, <3>1, NotYetPolled
    <3>3. /\ ~complete[d] /\ schedule_runs[d] = 0
          /\ \A k \in Partitions : "schedule" \notin todo[<<d, k>>]
      BY <1>0, <2>0, <3>2 DEF DecideInv
    <3>4. /\ \A v \in Workers : v # w => todo'[v] = todo[v]
          /\ "schedule" \in todo'[w] =>
                last /\ ~output_failed'[d] /\ ~poll_failed'[d]
      <4>1. CASE result[w] = "poll_failed"
        BY Zenon, <1>0, <2>0, <2>5, <3>3, <4>1, CompleteParts
      <4>2. CASE result[w] # "poll_failed"
        <5>1. "schedule" \notin todo[w]
          BY Zenon, <2>0, <3>3
        <5>2. todo' = [todo EXCEPT ![w] = @
                \cup (IF last /\ MayAdvance(d) THEN {"schedule"} ELSE {})
                \cup (IF last THEN {"polling_time"} ELSE {})]
          BY Zenon, <2>5, <4>2, CompleteParts
        <5> QED
          BY Zenon, <1>0, <5>1, <5>2 DEF MayAdvance
      <4> QED
        BY Zenon, <4>1, <4>2
    <3>5. last /\ ~output_failed'[d] /\ ~poll_failed'[d] => AllPolled(d)'
      BY Zenon, <2>5, LastDecides
    <3>6. complete'[d] => last /\ ~output_failed'[d] /\ ~poll_failed'[d]
      BY Zenon, <1>0, <2>0, <3>1, <3>3
    <3>7. \A k \in Partitions : "schedule" \in todo'[<<d, k>>] =>
             <<d, k>> = w /\ k = w[2]
      BY <1>w, <2>0, <3>3, <3>4
    <3>8. ASSUME NEW e \in Devices, e # d
          PROVE  /\ complete'[e] = complete[e]
                 /\ \A k \in Partitions : todo'[<<e, k>>] = todo[<<e, k>>]
      BY <1>0, <1>w, <2>0, <3>1, <3>4, <3>8
    <3>9. \A k \in Partitions : "schedule" \in todo'[<<d, k>>] =>
             /\ AllPolled(d)'
             /\ \A j \in Partitions : "schedule" \in todo'[<<d, j>>] => j = k
      BY Zenon, <3>4, <3>5, <3>7
    <3>10. complete'[d] => AllPolled(d)' /\ ~output_failed'[d] /\ ~poll_failed'[d]
      BY Zenon, <3>5, <3>6
    <3>11. ASSUME NEW e \in Devices
           PROVE  /\ complete'[e] =>
                        AllPolled(e)' /\ ~output_failed'[e] /\ ~poll_failed'[e]
                  /\ schedule_runs'[e] > 0 => AllPolled(e)'
                  /\ schedule_runs'[e] <= 1
                  /\ \A k \in Partitions : "schedule" \in todo'[<<e, k>>] =>
                       /\ AllPolled(e)'
                       /\ schedule_runs'[e] = 0
                       /\ \A j \in Partitions :
                            "schedule" \in todo'[<<e, j>>] => j = k
      <4>1. CASE e = d
        BY SMTT(30), <3>1, <3>3, <3>9, <3>10, <4>1
      <4>2. CASE e # d
        BY ZenonT(60), <1>s, <3>1, <3>8, <4>2 DEF DecideInv
      <4> QED
        BY ZenonT(60), <4>1, <4>2
    <3> QED
      BY Zenon, <3>11 DEF DecideInv
  <2>6. CASE UNCHANGED <<complete, output_failed, poll_failed, schedule_runs,
                         todo>>
    BY Zenon, <1>1, <2>6
  <2> QED
    BY ZenonT(30), <1>3, <2>1, <2>2, <2>3, <2>4, <2>5, <2>6
       DEF Worker, ChildStart, WorkerDies, GetLocal, GetRemote, LoadPollHost,
           WritePollResults, ReleaseLocal, ReleaseRemote, ChildCleanup
<1> QED
  BY Zenon, <1>1, <1>2, <1>3 DEF Next, Tick, Terminated, vars

-----------------------------------------------------------------------------
\* The whole invariant holds in the first state and is kept by every step.
LEMMA IInvInit == Init => IInv
<1> SUFFICES ASSUME Init PROVE IInv
  BY Zenon
<1>1. ResourceInv
  BY Zenon, ResourceInit
<1>2. WorkerInv
  BY Zenon DEF Init, WorkerInv, Early, Late
<1>3. CountInv
  <2>1. \A d \in Devices, k \in Partitions : <<d, k>> \in Workers
    BY Zenon DEF Workers
  <2>2. \A d \in Devices : Counted(d) = {}
    BY Zenon, <2>1 DEF Init, Counted, Passed, Late
  <2>3. Cardinality({}) = 0
    BY Zenon, FS_EmptySet
  <2>4. \A w \in Workers : w[1] \in Devices /\ ~Passed(w)
    BY Zenon, WorkerParts DEF Init, Passed, Late
  <2> QED
    BY <2>2, <2>3, <2>4, Zenon DEF Init, CountInv
<1>4. DecideInv
  BY DEF Init, DecideInv, Workers
<1> QED
  BY Zenon, <1>1, <1>2, <1>3, <1>4 DEF IInv, ResourceInv

\* Every action keeps the inductive invariant on completion and schedule.
LEMMA IInvStep == IInv /\ [Next]_vars => IInv'
BY ZenonT(60), TypingStep, LaunchStep, LaunchedStep, WorkerStep, PermitStep, StartupStep,
   PoolStep, CountStep, DecideStep DEF IInv

\* So it holds in every state of complete_poll_host() and its callers.
LEMMA IInvAlways == Spec => []IInv
BY IInvInit, IInvStep, PTL DEF Spec

\* AllPolled means that the database accepted exactly the announced partitions.
LEMMA PolledIsPersisted ==
    ASSUME IInv, NEW d \in Devices, AllPolled(d)
    PROVE  persisted[d] = 1..host_threads[d]
<1>0. /\ persisted[d] \subseteq Partitions /\ Counted(d) = 1..host_threads[d]
      /\ \A k \in Partitions : <<d, k>> \in Workers /\ k \in Nat /\ k >= 1
      /\ host_threads[d] \in Nat /\ 1..host_threads[d] \subseteq Partitions
  <2>1. /\ persisted[d] \subseteq Partitions /\ Counted(d) = 1..host_threads[d]
        /\ host_threads[d] \in 0..MaxDeviceThreads
    BY Zenon DEF IInv, Typing, AllPolled
  <2>2. \A k \in Partitions : <<d, k>> \in Workers
    BY Zenon, CountedBound DEF IInv
  <2>3. \A k \in Partitions : k \in Nat /\ k >= 1
    BY MaxDeviceThreadsAssumption DEF Partitions
  <2>4. host_threads[d] \in Nat /\ 1..host_threads[d] \subseteq Partitions
    BY <2>1, MaxDeviceThreadsAssumption DEF Partitions
  <2> QED
    BY Zenon, <2>1, <2>2, <2>3, <2>4
<1>1. ASSUME NEW k \in 1..host_threads[d] PROVE k \in persisted[d]
  BY <1>0, Zenon DEF AllPolled, IInv, CountInv
<1>2. ASSUME NEW k \in persisted[d] PROVE k \in 1..host_threads[d]
  <2>1. result[<<d, k>>] = "ok"
    BY Zenon, <1>0, <1>2 DEF IInv, CountInv
  <2>2. wpc[<<d, k>>] # "none"
    BY Zenon, <1>0, <1>2, <2>1 DEF IInv, WorkerInv, Early
  <2>3. k <= host_threads[d]
    BY Zenon, <1>0, <1>2, <2>2 DEF IInv, LaunchedInv
  <2>4. k \in Nat /\ k >= 1 /\ host_threads[d] \in Nat
    BY <1>0, <1>2, Zenon
  <2> QED
    BY SMTT(30), <2>3, <2>4
<1> QED
  BY <1>1, <1>2, Zenon

\* A device's schedule moves at most once, and only after the output of all its
\* partitions was accepted, for any number of devices, partitions and threads.
THEOREM ScheduleCoversDeviceThm == Spec => []ScheduleCoversDevice
<1>1. IInv => ScheduleCoversDevice
  <2> SUFFICES ASSUME IInv, NEW d \in Devices
               PROVE  /\ schedule_runs[d] <= 1
                      /\ schedule_runs[d] = 1 => persisted[d] = 1..host_threads[d]
    BY Zenon DEF ScheduleCoversDevice
  <2> QED
    BY PolledIsPersisted DEF IInv, DecideInv
<1> QED
  BY <1>1, IInvAlways, PTL

\* details[d].complete implies that nothing of the device failed and all of
\* its output was accepted.
THEOREM CompleteMeansPersistedThm == Spec => []CompleteMeansPersisted
<1>1. IInv => CompleteMeansPersisted
  BY Zenon, PolledIsPersisted DEF IInv, DecideInv, CompleteMeansPersisted
<1> QED
  BY <1>1, IInvAlways, PTL

\* Every variable keeps its type; the counters and semaphores their bounds.
THEOREM TypeOKThm == Spec => []TypeOK
<1>1. IInv => TypeOK
  <2> SUFFICES ASSUME IInv PROVE TypeOK
    BY Zenon
  <2>1. available_threads \in 0..Threads
    BY WorkersFinite, FS_CardinalityType, ThreadsAssumption
       DEF IInv, Typing, PermitInv
  <2>2. device_counter \in 0..Rows /\ current_thread \in 0..MaxDeviceThreads
    BY RowsAssumption, MaxDeviceThreadsAssumption DEF IInv, Typing, LaunchInv
  <2>3. local_free \subseteq ConnIds /\ remote_free \subseteq ConnIds
    BY Zenon DEF IInv, Typing, PoolInv
  <2>4. \A d \in Devices : schedule_runs[d] \in {0, 1}
    BY DEF IInv, Typing, DecideInv
  <2>5. ASSUME NEW d \in Devices
        PROVE  threads_complete[d] \in 0..MaxDeviceThreads
    <3>1. /\ Counted(d) \subseteq Partitions
          /\ IsFiniteSet(Partitions) /\ Cardinality(Partitions) = MaxDeviceThreads
      BY FS_Interval, MaxDeviceThreadsAssumption DEF Counted, Partitions
    <3>2. Cardinality(Counted(d)) <= MaxDeviceThreads
      BY Zenon, <3>1, FS_Subset
    <3> QED
      BY <3>2, MaxDeviceThreadsAssumption DEF IInv, Typing, CountInv
  <2> QED
    BY ZenonT(60), <2>1, <2>2, <2>3, <2>4, <2>5 DEF IInv, Typing, StartupInv, TypeOK
<1> QED
  BY <1>1, IInvAlways, PTL

-----------------------------------------------------------------------------
(* What exit(EXIT_SUCCESS) means. *)

\* prepare_device_partition() announces at least one partition, of a device none of
\* whose partitions was counted.
LEMMA AnnounceExit ==
    ASSUME Typing, LaunchInv, LaunchedInv, CountInv, PreparePartition,
           NEW d \in Devices, host_threads'[d] # host_threads[d]
    PROVE  host_threads'[d] >= 1 /\ host_threads'[d] # threads_complete[d]
<1>1. /\ d = device_counter + 1 /\ current_thread = 1 /\ main = "prepare"
      /\ host_threads'[d] \in Partitions
  <2>1. PICK items \in 0..MaxDeviceThreads :
            /\ partition_threads' = ClampedThreads(items) /\ main = "prepare"
            /\ host_threads' = IF current_thread = 1
                    THEN [host_threads EXCEPT ![device_counter + 1] = partition_threads']
                    ELSE host_threads
    BY Zenon DEF PreparePartition
  <2>2. partition_threads' \in Partitions
    BY Zenon, <2>1, ClampFact
  <2> QED
    BY Zenon, <2>1, <2>2 DEF Typing
<1>2. ASSUME NEW n \in Partitions PROVE n \notin Counted(d)
  <2>1. <<d, n>> \in Workers /\ <<d, n>>[1] = d /\ <<d, n>>[2] = n
        /\ d \in Nat /\ device_counter \in Nat /\ n \in Nat /\ n >= 1
    BY RowsAssumption, MaxDeviceThreadsAssumption DEF Workers, Devices, Partitions, Typing
  <2>2. wpc[<<d, n>>] = "none"
    BY <1>1, <2>1 DEF LaunchedInv, Launching
  <2> QED
    BY Zenon, <2>2 DEF Counted, Passed, Late
<1>3. Counted(d) = {}
  BY Zenon, <1>2 DEF Counted
<1>4. threads_complete[d] = 0
  BY Zenon, <1>3, FS_EmptySet DEF CountInv
<1> QED
  BY <1>1, <1>4, MaxDeviceThreadsAssumption DEF Partitions

\* So the meaning of the exit code is kept by every step.
LEMMA ExitStep == IInv /\ ExitInv /\ [Next]_vars => ExitInv'
<1> SUFFICES ASSUME IInv, ExitInv, [Next]_vars PROVE ExitInv'
  BY Zenon
<1>0. Typing /\ LaunchInv /\ LaunchedInv /\ CountInv
  BY Zenon DEF IInv
<1>t. /\ device_counter \in Nat /\ host_threads \in [Devices -> 0..MaxDeviceThreads]
      /\ \A d \in Devices : d \in Nat
      /\ exit_code \in {0, 1}
  BY <1>0, RowsAssumption DEF Typing, Devices
<1>1. CASE UNCHANGED <<device_counter, host_threads, result, exit_code, main,
                       complete, output_failed, poll_failed, threads_complete>>
  BY Zenon, <1>1 DEF ExitInv
<1>2. CASE Main
  <2>1. ASSUME NEW d \in Devices, host_threads'[d] # host_threads[d]
        PROVE  host_threads'[d] >= 1 /\ host_threads'[d] # threads_complete[d]
    BY ZenonT(60), <1>0, <1>2, <2>1, MainExit, AnnounceExit
  <2>2. \A d \in Devices : d <= device_counter' => host_threads'[d] >= 1
    BY <1>0, <1>t, <1>2, <2>1, MainExit DEF ExitInv
  <2>3. exit_code' = 0 => exit_code = 0
    BY <1>0, <1>2, MainExit
  <2>4. exit_code' = 0 /\ main' \in Launched => device_counter' = Rows
    BY <1>0, <1>2, <2>3, MainExit DEF ExitInv
  <2>5. UNCHANGED <<complete, output_failed, poll_failed, threads_complete, result>>
    BY Zenon, <1>0, <1>2, MainExit
  <2> QED
    BY Zenon, <2>1, <2>2, <2>3, <2>4, <2>5 DEF ExitInv
<1>3. ASSUME NEW w \in Workers, Worker(w) PROVE ExitInv'
  <2>1. /\ UNCHANGED <<device_counter, host_threads>> /\ main' \in {main, "died"}
    BY ZenonT(60), <1>0, <1>3, WorkerFrame
  <2>2. exit_code' = 0 => exit_code = 0
    BY <1>0, <1>3, WorkerExit
  <2>3. \A v \in Workers : result'[v] = "pinged" => PingOnly
    BY ZenonT(60), <1>0, <1>3, WorkerExit DEF ExitInv
  <2>4. exit_code' = 0 => \A d \in Devices :
            /\ ~output_failed'[d] /\ ~poll_failed'[d]
            /\ host_threads[d] >= 1 /\ threads_complete'[d] = host_threads[d]
                  => complete'[d]
    <3>1. CASE CompletePollHost(w)
      BY Zenon, <1>0, <3>1, CompleteExit
    <3>2. CASE UNCHANGED <<complete, output_failed, poll_failed, threads_complete>>
      BY Zenon, <2>2, <3>2 DEF ExitInv
    <3> QED
      BY <1>0, <1>3, <3>1, <3>2, WorkerExit
  <2> QED
    BY Zenon, <2>1, <2>2, <2>3, <2>4 DEF ExitInv, Launched
<1> QED
  BY <1>1, <1>2, <1>3, Zenon DEF Next, Tick, Terminated, vars

\* exit(EXIT_SUCCESS) tells cron that every device was gone through and is complete,
\* but for one that was deleted or whose item count shrank.
THEOREM ExitSuccessMeansPolledThm == Spec => []ExitSuccessMeansPolled
<1>1. Init => ExitInv
  BY RowsAssumption DEF Init, ExitInv, Launched, Devices
<1>2. IInv /\ ExitInv => ExitSuccessMeansPolled
  <2> SUFFICES ASSUME IInv, ExitInv, main = "exited", exit_code = 0, ~PingOnly
               PROVE  /\ device_counter = Rows
                      /\ \A d \in Devices : complete[d] \/ \E k \in 1..host_threads[d] :
                            wpc[<<d, k>>] = "none" \/ result[<<d, k>>] = "missing"
    BY Zenon DEF ExitSuccessMeansPolled
  <2>1. device_counter = Rows
    BY Zenon DEF ExitInv, Launched
  <2>2. ASSUME NEW d \in Devices,
               \A k \in 1..host_threads[d] :
                  wpc[<<d, k>>] # "none" /\ result[<<d, k>>] # "missing"
        PROVE  complete[d]
    <3>0. Typing /\ LaunchedInv /\ WorkerInv /\ PermitInv /\ CountInv
      BY Zenon DEF IInv
    <3>1. /\ host_threads[d] \in Nat /\ host_threads[d] >= 1
          /\ 1..host_threads[d] \subseteq Partitions
      <4>1. host_threads[d] \in 0..MaxDeviceThreads /\ d <= device_counter
        BY <2>1, <3>0, RowsAssumption DEF Typing, Devices
      <4> QED
        BY <4>1, MaxDeviceThreadsAssumption DEF ExitInv, Partitions
    <3>2. ASSUME NEW k \in 1..host_threads[d] PROVE k \in Counted(d)
      <4>1. k \in Partitions /\ <<d, k>> \in Workers
        BY Zenon, <3>1 DEF Workers
      <4>2. wpc[<<d, k>>] = "done"
        BY Zenon, <2>2, <3>0, <4>1 DEF PermitInv, Holders
      <4>3. result[<<d, k>>] \in {"ok", "output_failed", "poll_failed"}
        BY Zenon, <2>2, <3>0, <4>1, <4>2 DEF WorkerInv, Late, ExitInv, Typing, Results
      <4> QED
        BY Zenon, <4>1, <4>2, <4>3 DEF Counted, Passed, Late
    <3>3. Counted(d) = 1..host_threads[d]
      BY <3>0, <3>2, CountedBound, Zenon
    <3>4. Cardinality(1..host_threads[d]) = host_threads[d]
      BY <3>1, FS_Interval
    <3>5. threads_complete[d] = host_threads[d]
      BY Zenon, <3>0, <3>3, <3>4 DEF CountInv
    <3> QED
      BY Zenon, <3>1, <3>5 DEF ExitInv
  <2> QED
    BY Zenon, <2>1, <2>2
<1> QED
  BY <1>1, <1>2, ExitStep, IInvAlways, PTL DEF Spec
=============================================================================
