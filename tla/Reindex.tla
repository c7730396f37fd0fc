------------------------------- MODULE Reindex ------------------------------
(***************************************************************************)
(* The reindex checks of one device in one polling cycle. Every partition  *)
(* of the device loads the rows of poller_reindex and polls them           *)
(* (poll_host_reindex); only the first partition queues reindex commands   *)
(* and stores new baselines (queue_reindex, update_reindex_value). A       *)
(* failed uptime assertion makes the partition discard its samples.        *)
(*                                                                         *)
(* Values are small numbers; Undefined is "U", a missing value and "No     *)
(* Such Instance" alike.                                                   *)
(***************************************************************************)
EXTENDS Integers, Sequences

CONSTANTS
    Rows,           \* poller_reindex: records [dq, op, action], grouped by dq
                    \* (the order of the table's key; the query names none)
    DeviceThreads,  \* worker threads of the device
    MaxValue,       \* largest polled value
    MaxChanges      \* changes of the device during the cycle

\* script: also the script server and the SNMP count; count: script line counts
Actions == {"script", "snmp", "uptime", "count"}

ASSUME RowsAssumption ==
    Rows \in Seq([dq : Nat \ {0}, op : {"=", ">", "<"}, action : Actions])
ASSUME ChangesAssumption == /\ DeviceThreads \in Nat \ {0}
                            /\ MaxValue \in Nat /\ MaxChanges \in Nat

Index == 1..Len(Rows)
Values == 0..MaxValue
Undefined == -1
Empty == -2                             \* "", which compares as the number 0
Engine == 0                             \* the two uptime counters
Legacy == Len(Rows) + 1
Sources == 0..(Len(Rows) + 1)
Checkers == 1..DeviceThreads

VARIABLES
    device,         \* device: what each source would answer
    changes,
    assert_value,   \* database: the stored baselines
    queued,         \* database: reindex commands queued, per data query
    phase, index,   \* where each partition stands
    loaded,         \* the baselines its query returned
    last_data_query_id, previous_assert_failure,
    sysUptime,      \* the uptime it has read, if any
    value,          \* what it polled for the current row
    spike_kill,
    (* history *)
    read_failed     \* its source did not answer for the current row

cursor == <<index, loaded, last_data_query_id, previous_assert_failure>>
polled == <<sysUptime, value, read_failed>>
reindexVars ==
    <<device, changes, assert_value, queued, phase, cursor, polled, spike_kill>>

ReindexInit ==
    /\ device \in [Sources -> Values]
    /\ changes = 0
    /\ assert_value \in [Index -> Values]
    /\ queued = [q \in {Rows[i].dq : i \in Index} |-> 0]
    /\ phase = [t \in Checkers |-> "start"]
    /\ index = [t \in Checkers |-> 1]
    /\ loaded = [t \in Checkers |-> assert_value]
    /\ last_data_query_id = [t \in Checkers |-> 0]
    /\ previous_assert_failure = [t \in Checkers |-> FALSE]
    /\ sysUptime = [t \in Checkers |-> Undefined]
    /\ value = [t \in Checkers |-> Undefined]
    /\ spike_kill = [t \in Checkers |-> FALSE]
    /\ read_failed = [t \in Checkers |-> FALSE]

StepTo(t, s) == phase' = [phase EXCEPT ![t] = s]

-----------------------------------------------------------------------------
(* poll_host_reindex() *)

\* The partition's device is down (ignore_host), the query fails, or the rows
\* are stored in the client.
Load(t) ==
    /\ phase[t] = "start"
    /\ \/ /\ loaded' = [loaded EXCEPT ![t] = assert_value]
          /\ StepTo(t, "row")
       \/ StepTo(t, "done") /\ UNCHANGED loaded
    /\ UNCHANGED <<device, changes, assert_value, queued, index,
                   last_data_query_id, previous_assert_failure, sysUptime,
                   value, read_failed, spike_kill>>

\* An assertion that failed before in this data query.
FailedBefore(t) ==
    previous_assert_failure[t] /\ last_data_query_id[t] = Rows[index[t]].dq

\* The next row: past the last one the partition goes on to its items.
NextRow(t) ==
    /\ phase[t] = "row"
    /\ \/ /\ index[t] > Len(Rows)
          /\ StepTo(t, "done")
          /\ UNCHANGED cursor
       \/ /\ index[t] \in Index
          /\ last_data_query_id' = [last_data_query_id EXCEPT ![t] = Rows[index[t]].dq]
          /\ previous_assert_failure' =
                [previous_assert_failure EXCEPT ![t] = FailedBefore(t)]
          /\ IF FailedBefore(t)
             THEN index' = [index EXCEPT ![t] = @ + 1] /\ UNCHANGED phase
             ELSE StepTo(t, "poll") /\ UNCHANGED index
          /\ UNCHANGED loaded
    /\ UNCHANGED <<device, changes, assert_value, queued, polled, spike_kill>>

\* What poll_reindex_action() can come back with. The uptime is read once: from
\* the engine OID, else from the legacy one, which is another counter. An agent
\* that answers with an error leaves the value empty. A script whose lines are
\* counted and which fails has no lines.
Answered(v) == [value |-> v, failed |-> FALSE]
NotAnswered(v) == [value |-> v, failed |-> TRUE]

Readings(t) ==
    CASE Rows[index[t]].action = "uptime" /\ sysUptime[t] # Undefined ->
            {Answered(sysUptime[t])}
      [] Rows[index[t]].action = "uptime" /\ sysUptime[t] = Undefined ->
            {Answered(device[Engine]), Answered(device[Legacy]), NotAnswered(Undefined)}
      [] Rows[index[t]].action = "script" ->
            {Answered(device[index[t]]), NotAnswered(Undefined)}
      [] Rows[index[t]].action = "snmp" ->
            {Answered(device[index[t]]), NotAnswered(Undefined), NotAnswered(Empty)}
      [] Rows[index[t]].action = "count" ->
            {Answered(device[index[t]]), NotAnswered(0)}

Poll(t) ==
    /\ phase[t] = "poll"
    /\ \E r \in Readings(t) :
          /\ value' = [value EXCEPT ![t] = r.value]
          /\ read_failed' = [read_failed EXCEPT ![t] = r.failed]
          /\ sysUptime' = IF Rows[index[t]].action = "uptime"
                          THEN [sysUptime EXCEPT ![t] = r.value]
                          ELSE sysUptime
    /\ StepTo(t, "evaluate")
    /\ UNCHANGED <<device, changes, assert_value, queued, cursor, spike_kill>>

-----------------------------------------------------------------------------
(* evaluate_reindex_assertion() *)

\* reindex_assertion_failed(): a stored 0 never fails "<".
AsNumber(v) == IF v = Empty THEN 0 ELSE v

AssertionFailed(op, stored, v) ==
    /\ v # Undefined
    /\ \/ op = "=" /\ stored # v
       \/ op = ">" /\ AsNumber(stored) < AsNumber(v)
       \/ op = "<" /\ stored # 0 /\ AsNumber(stored) > AsNumber(v)

Failed(t) == AssertionFailed(Rows[index[t]].op, loaded[t][index[t]], value[t])

\* A failed uptime assertion, and any failed "<", discards the samples.
IsSpike(t) == Failed(t) /\ (Rows[index[t]].op = "<" \/ Rows[index[t]].action = "uptime")

FinishRow(t) ==
    /\ spike_kill' = [spike_kill EXCEPT ![t] = @ \/ IsSpike(t)]
    /\ previous_assert_failure' = [previous_assert_failure EXCEPT ![t] = Failed(t)]
    /\ index' = [index EXCEPT ![t] = @ + 1]
    /\ value' = [value EXCEPT ![t] = Undefined]
    /\ read_failed' = [read_failed EXCEPT ![t] = FALSE]
    /\ StepTo(t, "row")
    /\ UNCHANGED <<loaded, last_data_query_id, sysUptime>>

\* An assertion that holds moves the baseline of ">" and "<" along.
Stores(t) == value[t] # Undefined /\ (Failed(t) \/ Rows[index[t]].op \in {">", "<"})

Evaluate(t) ==
    /\ phase[t] = "evaluate"
    /\ \/ t = 1 /\ Failed(t) /\ StepTo(t, "queue") /\ UNCHANGED <<cursor, polled, spike_kill>>
       \/ /\ t = 1 /\ ~Failed(t) /\ Stores(t)
          /\ StepTo(t, "store")
          /\ UNCHANGED <<cursor, polled, spike_kill>>
       \/ (t # 1 \/ (~Failed(t) /\ ~Stores(t))) /\ FinishRow(t)
    /\ UNCHANGED <<device, changes, assert_value, queued>>

\* queue_reindex(): a command that cannot be queued leaves the baseline alone.
Queue_storesAnyway(t) ==
    /\ phase[t] = "queue"
    /\ \/ queued' = [queued EXCEPT ![Rows[index[t]].dq] = @ + 1]
       \/ UNCHANGED queued
    /\ StepTo(t, "store")
    /\ UNCHANGED <<device, changes, assert_value, cursor, polled, spike_kill>>

Queue(t) ==
    /\ phase[t] = "queue"
    /\ \/ /\ queued' = [queued EXCEPT ![Rows[index[t]].dq] = @ + 1]
          /\ StepTo(t, "store")
          /\ UNCHANGED <<cursor, polled, spike_kill>>
       \/ FinishRow(t) /\ UNCHANGED queued
    /\ UNCHANGED <<device, changes, assert_value>>

\* update_reindex_value(): its outcome is not looked at.
Store(t) ==
    /\ phase[t] = "store"
    /\ assert_value' \in {assert_value, [assert_value EXCEPT ![index[t]] = value[t]]}
    /\ FinishRow(t)
    /\ UNCHANGED <<device, changes, queued>>

-----------------------------------------------------------------------------

\* The device changes while it is polled.
DeviceChanges ==
    /\ changes < MaxChanges
    /\ \E s \in Sources, v \in Values : device' = [device EXCEPT ![s] = v]
    /\ changes' = changes + 1
    /\ UNCHANGED <<assert_value, queued, phase, cursor, polled, spike_kill>>

ReindexDone == (\A t \in Checkers : phase[t] = "done") /\ UNCHANGED reindexVars

ReindexNext ==
    \/ \E t \in Checkers : \/ Load(t) \/ NextRow(t) \/ Poll(t) \/ Evaluate(t)
                           \/ Queue(t) \/ Store(t)
    \/ DeviceChanges \/ ReindexDone

ReindexSpec == ReindexInit /\ [][ReindexNext]_reindexVars

-----------------------------------------------------------------------------
(* Properties *)

\* "Advancing the stored value without a queued reindex would lose the reindex
\* for good": a baseline only moves across a failed assertion when a reindex of
\* its data query has been queued. And "keep the last good baseline": a row whose
\* source did not answer keeps its stored value. Two failures are not told apart
\* from an answer and replace it: a counted script without a result (a count of 0)
\* and an agent's error (the empty string).
BaselineMovesWithReindex ==
    [][\A i \in Index : assert_value'[i] # assert_value[i] =>
          /\ AssertionFailed(Rows[i].op, assert_value[i], assert_value'[i]) =>
                queued[Rows[i].dq] > 0
          /\ read_failed[1] =>
                \/ Rows[i].action = "count" /\ assert_value'[i] = 0
                \/ Rows[i].action = "snmp" /\ assert_value'[i] = Empty]_reindexVars
=============================================================================
