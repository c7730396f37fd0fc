# A verification of Spine

TLA+ models of Spine, the threaded data collector of Cacti: what its threads,
child processes, sockets and database statements do to each other, checked with
TLC on small instances, and but for a few proved with TLAPS for every size.

The text has six parts: the system, the modules, the runs, the proofs, what the
code does that a reader may not expect, and what is left.

## 1. The system

One Spine process is one polling cycle. It reads its configuration, selects the
devices, hands their partitions to detached worker threads, waits for them and
exits. Paths below are relative to `src/src/`.

| Part | State | Operations that change it | What is hard |
| --- | --- | --- | --- |
| Start and end (`app/cli.c`, `app/startup.c`, `app/signals.c`, `config/`, `platform/privileges.c`) | options, settings cache, process credentials, signal dispositions | parse, read, clamp; drop root; install, handle, uninstall | four sources for one setting; a system call that fails half way; a signal between any two calls |
| Worker launch and completion (`poller/workers.c`, `poller/poller.c`, `app/runtime.c`, `platform/thread.c`) | permits, `details[]`, the exit code | launch, permit waits, `poll_host`, `complete_poll_host`, `wait_for_workers`, teardown | partitions end and fail in any order; the last one decides for all; hung workers against the polling interval |
| Connection pool (`database/pool.c`) | two arrays of entries | get, release | never empty for a permit holder |
| SQL (`database/sql.c`, `connection.c`) | session, its mode, retry counter | `db_insert`, `db_query`, `db_reconnect` | a connection lost after the statement took effect; stale EINTR; half a reconnect |
| What is written (`database/persistence.c`, `cacti_query.c`, `transfer.c`) | statement buffers, the schedule, the copy on the main server | append, flush, move the schedule, copy in batches | one counter for two buffers; one of several statements fails; a run cut off between two of them |
| One device (`poller/poller.c`, `items.c`, `result.c`, `snmp/`) | session, batch, results | open, gather, flush, retry, get, walk, classify, close | answers matched by position alone; credentials that change between items; agents that answer anything |
| Availability (`poller/availability.c`, `host.c`) | the device row | check, thresholds, write back | one counter for two directions; several partitions |
| Pings (`ping/`) | sockets, waiter list, reader | send, await, dispatch, hand over | lost wake-ups; replies to somebody else, or to an earlier attempt |
| Reindex checks (`poller/reindex.c`) | baselines, queued commands | evaluate, queue, store | failed polls that look like values; several partitions |
| Scripts (`script/external.c`, `process/`) | permits, registry of children, abandoned children | `exec_poll`, `nft_popen`, `nft_pclose`, sweep | descriptor and process numbers are reused |
| PHP script servers (`script/server.c`, `protocol.c`, `read.c`) | slots, pipes, cursor | select, repair, command, read, restart | late answers; two threads repairing one slot |

They meet in few places. A worker of `Poller` polls a device (`PollHost`): it
checks availability (`HostStatus`, over the pings), makes the reindex checks
(`Reindex`), collects (`SnmpBatch`, `NftPopen`, `PhpServer`) and writes
(`Output`), every statement going through `SqlRetry`. In `Poller` and `PollHost`
each of these is one step with every outcome its own module shows: accepted,
rejected, failed, or applied and reported as failed.

Components are composed in two ways. Where one calls the other, or where their
safety depends on each other, they run together: pool, permits, workers and main
thread in `Poller`; the three writers over `SqlRetry` in `Persist`; the
collection within `PollHost`. Where they only share a thread or a process and
none reads the other's state, a composing module (`Persist`, `Pings`, `Startup`,
`DevicePoll`) has a variable that says which of them a behaviour is about. It is
chosen in `Init` and never changes, and the others stay at rest.

## 2. The modules

In every module an action is a handler, or the part of one between two points
where another thread can act (a lock operation, a blocking call, a statement).
Data is reduced to what the properties tell apart. Names are those of the source.
`PROJECT.json` maps every definition to its lines.

The run:

- **Poller**: the main thread (`main`, `device_counter`, `current_thread`,
  `partition_threads`), the permits, `details[]` (`host_threads`,
  `threads_complete`, `output_failed`, `poll_failed`, `complete`), the pools and
  per worker a program counter, its connections and the completion statements
  still to send (`todo`). The item count may change between two launches of a
  device, since each launch queries it again. `clock` is `early`, `closing` (the
  permit loop's own margin) or `expired`. `die()` is possible where the code
  calls it. History: `persisted`, `schedule_runs`, `advanced`.
- **Startup** composes
  - **Config**: from `argv` to the selection of devices. A text is a numeral or a
    word, `atoi()` of a word is 0. A behaviour follows one setting at a time,
    because each is read on its own. History: `typed`, the last `-t`;
  - **Privileges**: `drop_privileges()` and `checkAsRoot()` on the ids and
    capabilities the kernel keeps, in both builds, from every way to start;
  - **Signals**: dispositions, one change at a time, and the handler on whichever
    thread the kernel picks.

The database:

- **Persist** composes, each as a client of **SqlRetry** (one handle; the
  connection may be lost before or after a statement takes effect, EINTR may be
  fresh or left over; `applied` counts what the server did):
  - **Output**: lengths in place of text, every row length up to `RowMax`;
  - **Schedule**: `rrd_next_step` of items with different steps, over any number
    of cycles, any of which may be cut off. History: `owed`, `waited`,
    `twice`;
  - **Transfer**: the batches of a remote collector's copy, bounded in rows and
    in bytes. The version of a row is the cycle that wrote it.

One device:

- **DevicePoll** composes
  - **PollHost**: `poll_host()` around its session, with every early end, over
    **SnmpBatch**: the collection of one partition. A value carries the position
    and the credentials it was asked with, so one stored for the wrong item is
    visible. What a slot asks for stands in the PDU at the slot's rank among those
    not yet ruled out, and an answer is taken by that rank;
  - **SnmpSession**: `snmp_host_init()`, from the stored credentials to an open
    session, with any copy, key or lookup failing;
  - **SnmpRequests**: `snmp_get()`, `snmp_get_allow_fail()`, `snmp_getnext()` and
    the walk of `snmp_count()`, against an agent that answers anything;
  - **Texts**: every short text, given to **Result** (`classify_result()`) or to
    **HostSpec** (`split_host_spec()` and its two users), and compared with
    grammars that know no cursor.
- **HostStatus** implements **Hysteresis**, an abstract specification with two
  variables: a verdict, and how many polls in a row contradict it. The mapping
  reads `recovering` as `down`.
- **Reindex**: two partitions of one device, each with the baselines it loaded.
- **IcmpShared**: waiters, the reader flag, dispatch in batches, the hand-over
  and `pthread_cond_timedwait`; the socket is a bounded queue that also receives
  strays.
- **Pings** composes **IcmpPing** (pings of several threads on private sockets,
  for IPv4 and IPv6, with the fallback from datagram to raw sockets, resolver
  retries and messages for others) and **PortPing** (a UDP or TCP ping, whose
  connected UDP socket keeps the errors and answers of earlier attempts).

Helper processes:

- **NftPopen**: `exec_poll()` in several threads, `PidList`, `AbandonedPids`,
  `ListMutex`, and the kernel's tables of descriptors and processes. Numbers are
  reused as soon as they are free. A killed child may take as long as it likes to
  become a zombie.
- **PhpServer**: slots with their mutexes, pipes as sequences of commands and
  answers named after the thread that asked. A server may die, answer late or
  never. It is assumed to answer a command with one line. The number of servers
  is chosen at the start, up to `MaxServers`.

Modules named `...Proofs` hold the theorems of part 4. Modules named `MC...` hold
values of constants that a configuration file cannot express. Definitions named
`Action_variant` stand next to the action they change. They are wrong versions of the
code (a dropped guard, a swapped order), one for each property of each passing run,
and are never part of a specification.

## 3. The runs

Every run checks deadlock: a module that may stop has a stuttering action for its
end states only.

| Run | Instance | Distinct states | What it shows |
| --- | --- | --- | --- |
| `poller_run` | device 0 and a device of 2 partitions, 2 permits, several profiles | 1,093,133 | the schedule moves once, after all output was accepted (`ScheduleCoversDevice`); complete devices are persisted (`CompleteMeansPersisted`); the pool never runs dry (`PoolNeverExhausted`); teardown comes after the last worker (`TeardownAfterWorkers`); what exit code 0 means (`ExitSuccessMeansPolled`) |
| `poller_ends` | three devices, 2 permits, remote poller, ping-only, one profile | 65,300 | connections of both pools are private (`ConnectionsExclusive`); the run ends: if time passes, even with hung workers; if workers are scheduled, without the deadline (`RunEnds`) |
| `startup` | command lines of 3 arguments, 6 settings; 4 ways to start, 2 fatal signals | 3,650,920 | settings come from the right source and stay within their bounds (`SettingsAsGiven`); root is gone for good, and the ICMP access got hold of is all that is kept (`OnlyIcmpIsKept`); a fatal signal ends the process, others leave it (`FatalSignalEnds`) |
| `persist` | statements with 2 errors, 3 rows, 4 steps, 3 cycles of copies | 932,970 | a retry keeps the session's mode (`RetryKeepsMode`); both buffers fit (`BuffersFit`); rows are sent once and loss is reported (`LossIsReported`); items come due on their step, if the interval ever counts down to it, and stay due until stored (`DueOnSchedule`); what the main server has is a prefix of the copy and all of it on success (`CopiedInOrder`); every call returns (`CallReturns`) |
| `device_poll` | 10 items, 3 OIDs per request; all credentials; 3 requests; texts of 6 characters | 918,695 | values are stored for the item that asked (`ResultsAreOwn`); none is left behind (`EveryItemServed`); no session is lost by opening the next (`NoSessionLost`); a session has the security asked for, or none is opened (`SessionAsConfigured`); single requests report what happened (`RequestsHonest`); a stored number is all the text holds of one, but for a leading point (`NumberNotGuessed`); names split into what they were put together from (`NamesComeApart`) |
| `session_cleanup` | the same | | the one path on which a session is left open (`SessionsCleanedUp` is violated, part 5) |
| `availability` | thresholds 3 and 2, 2 partitions, 7 cycles, all methods | about 3.1 million | `HostStatus` implements `Hysteresis` (`ImplementsHysteresis`); the dates are those of the first event (`DatesAreFirstEvents`) |
| `reindex_checks` | 3 rows of 2 data queries, 2 partitions, 1 change of the device | 2,654,472 | no reindex is lost by a moved baseline, and rows without an answer keep theirs, with two exceptions (`BaselineMovesWithReindex`) |
| `ping_shared` | 2 waiters, 1 retry, batches of 1 | 156,366 | one reader at most, and the socket is never left without one (`SocketNeverAbandoned`); replies reach their waiter (`ReplyDelivered`); pings end (`PingEnds`) |
| `ping_own` | 2 threads, 2 devices, 2 sequence numbers; or one UDP or TCP ping with 2 retries | 2,044,750 | up means an answer of that device, a UDP or TCP answer seen in time means up (`VerdictsTruthful`); an echo reply is kept until it is read (`RepliesKept`); resources return (`SocketsReturned`); strays do not lengthen a wait (`TimeBounded`) |
| `scripts` | 3 threads, 2 permits, 2 descriptors, 2 process numbers, 1 place for abandoned children | 147,690 | a signal only reaches one's own child (`KillsOwnChild`), no child is lost (`EveryChildOwned`), every script call ends (`ScriptEnds`) |
| `script_servers` | 2 threads, 1 or 2 servers, or none started yet | 1,150,767 | answers belong to their command (`AnswerMatches`), slots are exclusive (`SlotExclusive`), restarts are bounded and contention never costs a sample (`HealthyNeverUndefined`), requests end (`RequestEnds`) |

**Bounds.** They are the smallest at which the interesting case occurs, and the
variants (part 2) show that it does: for every property of every passing run TLC
finds the violation a wrong version of the code causes.

- Both `Poller` runs have three workers for two permits, so one starts after
  another has given everything back, and the partition that ends last need not be
  the one started last. Only poller 1 has a device 0 and only others have a
  remote database, so each is in one of the runs. Larger instances of the safety
  properties are covered by the proofs.
- `startup` follows one setting of each way of reading (range, keyword, lower
  bound, both bounds, poller table, late default). 101 exceeds the number of
  script servers and of threads; "-1" and a blank are always among the texts. The
  arguments of one command line set the same things (the devices; settings; the
  rest), since those of different groups do not meet: so three of them hold a
  repeated `-t` and a second and a third `-O` of one name, where the table of
  options has two places. Of the fatal signals, `SEGV` has a branch of its own and
  the others are alike.
- `persist` has an error budget of 2 where the code has 30, enough for a retry in
  place followed by a reconnect. The buffers keep the proportions of the default
  build (131072 bytes, 2048 of slack, prefixes of 74 and 80, a suffix of 46, rows
  up to 6399): the boost prefix is the longer one, and a row may be longer than the
  slack. Steps are shorter than the interval, as long, two of them, and one that
  counts past zero. Some batches of the copy end by
  count, others by size.
- `device_poll`: the items fill a batch, change profile and back, and hold an OID
  that does not parse. A walk has four names and INT_MAX is 3, so that it can
  overflow. Six characters hold every combination of sign, point, exponent,
  separator and padding that `classify_result()` tells apart; counters have
  eight bits, so that they overflow within them.
- `availability`: seven cycles suffice for down, recovering, down again, up.
- `reindex_checks`: a script's outcomes are among those of an SNMP get, so no row
  runs one.
- `ping_shared` has a queue of one message and batches of one, so the reader
  leaves between any two replies. A third waiter makes liveness too large.
- `ping_own` has two sequence numbers for two threads with two attempts each, so
  numbers repeat. The timeout is 2 ticks: with 1 a restarted wait is not longer.
- `scripts` has fewer descriptors, process numbers and permits than threads, so
  each is reused while others hold old values. The table of abandoned children
  (64 in the code) is full after one.

**Fairness.** A thread that can step does (weak fairness of each thread, of `Main`
in `Poller`): the operating system schedules threads, and no lock is held across
a wait that has no bound. Deadlines pass: weak fairness of the clock is a
hypothesis of `RunEnds` and `PingEnds`, not of the specifications. `select()` is
not interrupted every time (strong fairness in `IcmpShared`). Library calls of
the database return, since connect, read and write timeouts are set; that is the
hypothesis of `CallReturns`. Nothing is asked of scripts, script servers, devices
or the network.

## 4. The proofs

TLAPS proves 34 theorems, for every value of the constants that satisfies the
assumptions named here. Every safety property of every passing run is among them,
with two exceptions that are named at the end of this part.

| Module | Theorems | For any number of |
| --- | --- | --- |
| `PollerProofs` | `PoolNeverExhaustedThm`, `ConnectionsExclusiveThm`, `TeardownAfterWorkersThm`, `ScheduleCoversDeviceThm`, `CompleteMeansPersistedThm`, `ExitSuccessMeansPolledThm`, `TypeOKThm` | devices, partitions, permits, profiles |
| `StartupProofs` | `OnlyIcmpIsKeptThm`, `FatalSignalEndsThm`, `SettingsAsGivenThm` | fatal signals, arguments, settings of the table, values |
| `PersistProofs` | `RetryKeepsModeThm`, `BuffersFitThm`, `LossIsReportedThm`, `DueOnScheduleThm`, `CopiedInOrderThm` | errors and retries, rows and row lengths, steps, cycles |
| `DevicePollProofs` (with `PollHostProofs`) | `ResultsAreOwnThm`, `EveryItemServedThm`, `NoSessionLostThm`, `SessionAsConfiguredThm`, `RequestsHonestThm`, `DeviceInvariant` | items, profiles, OIDs in a request, requests, names of a walk |
| `AvailabilityProofs` | `VerdictsTruthfulThm`, `RepliesKeptThm`, `SocketsReturnedThm`, `TimeBoundedThm` | threads, devices, sequence numbers, attempts, ticks, queued messages |
| | `ImplementsHysteresisThm`, `DatesAreFirstEventsThm` | failures and answers the thresholds ask for, partitions, cycles |
| | `BaselineMovesWithReindexThm` | rows, data queries, partitions, values, changes of the device |
| `SharedListProofs` | `KillsOwnChildThm`, `EveryChildOwnedThm` | threads, descriptors, process numbers, places for abandoned children |
| | `SocketNeverAbandonedThm` | waiters, messages, attempts, batch sizes |
| `PhpServerProofs` | `SlotExclusiveThm`, `AnswerMatchesThm`, `HealthyNeverUndefinedThm` | servers, threads |

A property of a run that a theorem states has the theorem's name without `Thm`.
Hardly any of them is inductive. Each module has an invariant that is, a
conjunction of the facts below, which TLC confirms on the instances of part 3 too;
lemmas show that each action keeps each of them. What an operator of a model does (`Unlink`,
`Deliver`, `UpdateHostStatus`, ...) is stated once, as a lemma.

**Poller.** The assumptions are `RowsAssumption` (a natural number),
`ThreadsAssumption` and `MaxDeviceThreadsAssumption` (positive) and
`FlagsAssumption` (types, and that only poller 1 has a device 0). A thread count of
0 is possible if the poller table holds it, since only the upper bound is enforced;
no worker starts then.

- `Typing`: the types, with counters as natural numbers;
- `LaunchInv`: the launcher's counters are in range, and the partition it is
  about to launch is one that `host_threads` announced;
- `LaunchedInv`: workers exist only for announced partitions of devices and
  partitions the launcher has reached, so none is started twice;
- `WorkerInv`: the result of a worker, and which completion statements it may
  still have to send, at each program point;
- `PermitInv`: free permits, permits held by workers and the launcher's own sum
  up to `Threads`, and all are back once the main thread has stopped waiting;
- `StartupInv`: at most one worker between creation and the handshake;
- `PoolInv`: connections are either free or with exactly one worker, which holds
  a permit;
- `CountInv`: `threads_complete` is the number of partitions that were counted,
  and accepted output is what `persisted` says;
- `DecideInv`: a device that is complete, was scheduled or is about to be has all
  its announced partitions counted with accepted output, and at most one worker
  is about to send its schedule;
- `ExitInv`, for the exit code: with a code of 0 the launcher has left its loop at
  the last device only, no failure flag is up, and a device whose announced
  partitions were all counted is complete.

The pool theorem is a pigeonhole argument (`LocalAvailable`, `RemoteAvailable`):
a worker without a connection holds a permit, so at most `Threads` - 1 others
have one of `Threads` entries. The schedule theorem rests on `LastDecides`: when
the count reaches the announced number, the counted set is a subset of that many
partitions with that many members, so it is all of them.

**Startup.** The invariant has a part for each piece.

- `PrivilegesInv`: what `drop_privileges()` has left at each stage. Between the call
  that drops root and the one that confirms it, the saved id may still be root; once
  it is not, only the capability for raw sockets can be left. `icmp_ready` means that
  the socket or the capability is at hand.
- `SignalsInv`: an ignored signal has another disposition only between the two calls
  that put one there for a moment and take it away (`DispositionsFollow`), and a
  handler that runs then has interrupted the main thread, which therefore cannot go
  on (`HandlersHold`). Without the second fact the first is not inductive. `Removed`
  says how far the uninstall loops have come. Assumptions: there is a fatal signal
  and `SIGPIPE` is not one (`SignalsAssumption`); the order of the table is free.
- `ConfigInv`: each setting that start-up has read by its present point is the value
  of its text, from the source that wins (`ReadBy`), and so is the interval but for
  its late default; the thread count is that of the
  last usable `-t`, within its bound (`ThreadsTyped`), or else the poller table's
  (`ThreadsRead`). `ConfigAssumption` has the types of the inputs, and that no word
  is one of the marks for a missing and for a blank text.

**Persist.** The three writers share one handle, so the invariant has four parts.
`SqlInv` is about the handle: a session that a retry opened is not used before its
mode is set, and a call succeeds only if its statement was executed. `WriterInv`
is about `write_poll_results()`: the two statements differ by their prefixes and
the longer one has room (`BufferInv`), the rows of a buffer are the collected ones
in order (`QueueInv`), a row is in the statement at hand or was in one that was
sent, once (`SentInv`), and is stored unless a failure is noted (`StoredInv`).
`ScheduleInv` relates `rrd_next_step` to the updates since an item was stored
(`Counted`; for a step that counts past zero, that it is never zero again), and says
that an update finds nothing owed. `TransferInv` says which rows are in the
batch, and that the rows of the main server are ordered by age, host rows first.
The assumptions are the inequalities between the sizes of a build
(`SizeAssumption`, `TransferAssumption`) and `ScheduleAssumption`: the interval and
the steps are positive.

**DevicePoll.** `DeviceInv` again has a part for each piece.

- `PollInv`, for `poll_host()`: where the loop and the flush are (`Places`); the batch
  holds earlier items of one profile, each once, with nothing stored for them yet
  (`Contents`); there is at most one session, it belongs to the batch at hand, and it
  is the one `host->snmp.session` names (`Sessions`); the request holds the slots that
  are still asked for in their order, and as many attempts are left as it has OIDs
  (`Request`); each earlier SNMP item was asked for or is in the batch, and each
  answer is stored or in its slot (`Served`).

  That values end up with their items is an argument about ranks. Taking one OID out
  of a request moves those after it by one place, and taking one slot out of the live
  ones lowers the ranks after it by one (`UpToDrop`), so the two keep agreeing. Ranks
  are a bijection between the live slots and the places of the request (`UpToGrows`,
  `UpToInjective`, `UpToOnto`, by counting). `EveryItemServed` needs the bound on the
  attempts: each repetition drops one OID, so the batch's own count suffices.
- `SessionInv`, for `snmp_host_init()`: what each step has added to the draft agrees
  with the fields of the device.
- `RequestsInv`: a walk has counted different names, none behind the last one, so
  its count is the number of names, whatever the agent answers.

The assumptions are types: `ItemsAssumption`, `MaxOidsAssumption` (any integer, since
the code clamps it), `ProfileAssumption`, `WalkAssumption`.

**PhpServer.** A thread that uses a server holds its slot's mutex (`LockInv`). A
pipe carries the command being answered, or the greeting of a server that is
starting, and nothing while a slot is READY and nobody waits for a line
(`PipeInv`): this is why no late answer is taken for one's own (`ResultInv`).
`SpawnInv` counts the servers a request has started by the place it has come to,
`ScanInv` says what the scan for a free slot remembers, and `HealthInv` what holds
while no server has failed. Assumptions: there is a server (`MaxServersAssumption`),
and the marks for a greeting and for "U" are not threads (`ThreadsAssumption`).

**NftPopen.** A descriptor belongs to one thread from `pipe()` to `close()`
(`FdInv`); the registry names live children only, each under the descriptor of the
thread that started it (`RegistryInv`); what a thread took out of the registry is
its own child and not reaped (`HandInv`); a parked or dropped child is alive and
nowhere else (`ParkedInv`); every child is somewhere (`CoverInv`). `KillsOwnChild`
needs the first three together, since numbers are reused as soon as they are free.
Threads and process numbers are finite sets (`SetsAssumption`).

**IcmpShared.** The list holds every thread between register and unregister and
the sleeping flag tells who waits (`WaiterInv`), `reading` is a lock on the socket
(`ReaderInv`), and a free socket has been offered to somebody who sleeps
(`WakeInv`). That the first sleeper of the list is the one woken is shown with a
least counterexample, in place of an induction over the list.

**Pings.** An echo reply in a thread's queue answers a request of this process that
its device has echoed, or is another process's, and on a datagram socket it carries
that socket's own id (`QueueInv`); with `IdAssumption` (process ids and socket ids
differ) an accepted one is the echo of this ping (`AcceptedIsEchoed`). A reply to
this ping that has arrived is in the queue of the socket it arrived at, which is the
one the thread still reads (`KeptInv`), and would be accepted (`ReplyAccepted`). `HeldInv`
says what is open at each place, `WaitInv` that the time since `begin_time` is the
time listened. For UDP and TCP, what is pending on the socket was answered
(`PendingInv`), a sign that came while `select()` watched is still there to be read
and nothing has come that `recv()` would report before it (`HeardInv`), and each
attempt that is over has used up at most one timeout (`SpentInv`).

**HostStatus.** The first partition works on a copy of the row that nobody
overwrites before it is written back (`CopyInv`); so each step of the row maps to a
step of `Hysteresis` or to a stutter. This holds for thresholds of 0 as well. The
dates need `StreakInv`, which relates the row to the run of equal results at hand,
and thresholds other than 0, which the theorem has as hypotheses (part 5).

**Reindex.** Only the first partition queues and stores (`PhaseInv`), and each row
once, so the baselines of rows it has still to look at are the ones it loaded
(`BaselineInv`): the assertion it evaluated is about the stored value it replaces,
although other partitions and the device move meanwhile. It stores after a failed
assertion only with the command queued (`CommandInv`), and `ReadInv` says what a
source that did not answer leaves. `RowsAssumption` and `ChangesAssumption` are the
types of the rows and that there is a partition.

Only model-checked:

- liveness and ENABLED, which the prover does not treat: `RunEnds`, `ScriptEnds`,
  `ReplyDelivered`, `PingEnds`, `RequestEnds`, `CallReturns`;
- `NumberNotGuessed` and `NamesComeApart`, which are about what recursive functions
  and folds compute over a text and need an induction over it.

`TypeOK` is proved and in no run, since the proof covers every instance. The proof
modules are grouped by topic; the parts of a module do not use each other.

## 5. What the code does that a reader may not expect

**A session that is not closed.** `poll_host()` closes the session of a device
after collecting its items, `poll_host_reindex()` after its checks if the device
is not ignored. A device that availability found down, and that has no rows to
poll or whose item query failed, takes neither path (`poller/poller.c:446`): the
host structure is freed and the session with its socket stays. `snmp/session.c:503`
says that sessions are cleaned up "once polling is completed for a host". The run
`session_cleanup` shows it; `NoSessionLost` holds on all other paths.

**Where a comment, a help text, a log message or a test says something else.** The
models follow the code, the other properties are stated so that they hold of it,
and where a property makes an exception its comment names it.

- `poller/poller.c:272` says that items of a device whose completion failed
  "stay due for the next poll", and `poller/workers.c:214` logs "due items remain
  scheduled". The schedule statement is the first of the completion statements:
  if a later one fails the items have already been moved.
- `database/sql.c:105` says that a failed reconnect leaves the handle
  "unconnected". When `mysql_ping()` reconnected and the statement that sets the
  session's mode failed, the handle is connected, in the server's default mode.
- `poller/reindex.c:74` says "Keep the last good baseline". The count of a script
  that failed is 0 (`poller/reindex.c:236`) and an agent's error leaves an empty
  text with a status of success (`snmp/requests.c:170`); both are stored.
- `tests/contracts/test_spine_reindex_contracts.c:96` says that after a failed
  uptime assertion "the cycle's samples are discarded". Each partition decides
  for its own samples, and one that loads the baseline after the first partition
  has stored the new one keeps them.
- `config/options.c:305` says that one script server item is enough to need the
  servers. The query looks at the items of the selected devices; device 0 is polled
  besides, and reindex rows that ask a script server are not looked at. The first
  request that meets such a pool starts a server, as it repairs a failed one
  (`script_servers` starts there too). `close_main_php()` does not close it.
- `config/settings.c:153` says that a missing setting is NULL. It is an empty
  text, so the defaults in `config/options.c` that depend on NULL are not taken.
- `app/cli.c:318` lets `-V` name a level. `config/options.c:26` reads it with
  `atoi()`, and a name changes nothing.
- `app/cli.c:299` says that `-p` sets the poller id. The file is read later and a
  `Poller` directive overrides it (`config/file.c:61`).
- `database/connection.c:26` speaks of 20 tries to connect; there are 2.
- `tests/unit/test_ping_timing.c:400` calls a device alive that refuses a UDP
  probe. A refusal that arrives between two attempts makes the next `send()` fail
  (`ping/udp.c:53`), and the device is down (`VerdictsTruthful`).
- `poller/result.c:180` says that what is no number is "stored as U rather than as a
  guess". A number wrapped in text is read from its first digit, or a minus sign
  before it, on: ".9 U" is stored as 9 (`NumberNotGuessed`).
- `poller/reindex.c:121` says that mixing the two uptime OIDs "on different rows or
  cycles" caused false reindexing. They are pinned within a poll; the next cycle
  chooses again, and one lost answer compares two different counters.
- `poller/result.c:144` lists ":" among the separators of octets. A text without
  spaces that holds a ":" is taken for "name:value" fields before.
- `app/startup.c:199` relaxes seven modes of a session. The copy to the main server
  relaxes two (`database/transfer.c:152`), until a reconnect relaxes seven.

**Consequences no text speaks of.**

- A statement is retried after its answer is lost, so it may be applied twice. Rows
  of output replace each other; the schedule moves twice and `host_errors` counts
  twice. A schedule update that was applied and is reported as failed leaves the
  items not due. `DueOnSchedule` makes no statement about when items are due
  after that.
- An item whose step is longer than the interval and no multiple of it skips zero
  (`database/cacti_query.c:68`) and, once stored, is never due again
  (`DueOnSchedule`, `ComesRound`).
- A `threads` value of 0 in the poller table or from `-O` leaves no permit: the run
  waits for its deadline. A negative `poller_interval` is used as it is, and the
  deadline is past from the start. `SettingsAsGiven` has no lower bound for the two.
- With a failure or recovery threshold of 0 the dates of an outage are not those of
  its first event: the first one changes the status at once, and on that path the
  date is set only if the threshold is 1. The settings are read with `atoi()` and
  no lower bound (`config/options.c`). The verdicts themselves follow `Hysteresis`.
- An agent's error PDU leaves the result of a get empty, with success
  (`snmp/requests.c`). `snmp_getnext()` and `snmp_count()` do not ask whether the
  device is ignored. An unknown privacy protocol is refused only where privacy is
  used.
- A process started by root without CAP_NET_RAW keeps `icmp_avail`
  (`platform/privileges.c:289`); its pings then fail. When the probes of
  `checkAsRoot()` fail for want of a descriptor, pings fall back to UDP although the
  capability is there.
- An inherited SIG_IGN of SIGPIPE is not put back at the end, and a signal between
  two calls of the install or uninstall loops meets a table that is half done
  (`app/signals.c`). `FatalSignalEnds` says which dispositions are kept.

## 6. What is left

**Next to be proved.** Nothing that this prover can be asked: what is not proved is
liveness or needs an induction over a text (end of part 4).

**Next to be modelled.** The slices that the partitions of a device select by LIMIT
and offset, and the shared-socket branch of IPv6. The slices depend on the order in
which the server returns rows that compare equal, which nothing in the code
constrains: a model can only say that nothing is promised.

**Not modelled.** Logging, formatting and trimming, which no other part's state
depends on. The minimum, maximum and average response times, which are floating
point. Escaping, option setup and library start-up, which hand values through. The
text Net-SNMP prints for a value, and the pattern replacement of `regex.c`, which is
a call of the C library. Thin wrappers of system calls (`platform/`), whose failures
are outcomes of the actions that use them. Liveness under fairness, and what
recursive definitions compute for every input, are checked with TLC only.
