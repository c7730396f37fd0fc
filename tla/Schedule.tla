------------------------------ MODULE Schedule ------------------------------
(***************************************************************************)
(* The polling schedule of one device with a single partition, cycle after *)
(* cycle: select_poll_items() reads the items whose rrd_next_step is due,  *)
(* their output is written, and complete_poll_host() moves the steps on,   *)
(* each by a statement of SqlRetry that may be retried after it has taken  *)
(* effect. (Poller has the partitions; here the schedule has values.)      *)
(***************************************************************************)
EXTENDS Integers, SqlRetry

CONSTANTS
    Interval,       \* set.poller.poller_interval
    Steps           \* rrd_step of the items

\* Several profiles are active, so the interval is known.
ASSUME ScheduleAssumption == Interval \in Nat \ {0} /\ Steps \subseteq Nat \ {0}

VARIABLES
    cpc,            \* "cycle", "select", "write", "schedule", "time", "errors", "end"
    rrd_next_step,  \* rrd_next_step[s]: of the items with step s
    due,            \* the items this cycle collects
    device_failed,  \* output_failed || poll_failed
    write_failed,
    (* history *)
    owed,           \* found due, and not stored since
    waited,         \* schedule updates since the item was last stored
    twice           \* an update was executed more than once

row == <<rrd_next_step, owed, waited, twice>>
scheduleVars == <<cpc, row, due, device_failed, write_failed>>

ScheduleInit ==
    /\ cpc = "cycle"
    /\ rrd_next_step = [s \in Steps |-> 0]
    /\ due = {} /\ device_failed = FALSE /\ write_failed = FALSE
    /\ owed = {} /\ waited = [s \in Steps |-> 0] /\ twice = FALSE

Due == {s \in Steps : rrd_next_step[s] <= 0}

\* select_poll_items()
SelectItems ==
    /\ cpc = "cycle"
    /\ Begin(FALSE)
    /\ cpc' = "select"
    /\ UNCHANGED <<row, due, device_failed, write_failed>>

\* No result set is poll_failed: complete_poll_host() writes nothing then.
Selected ==
    /\ cpc = "select" /\ Take
    /\ IF outcome = "ok"
       THEN /\ due' = Due /\ owed' = owed \cup Due
            /\ cpc' = IF Due = {} THEN "schedule" ELSE "write"
            /\ UNCHANGED device_failed
       ELSE /\ device_failed' = TRUE /\ cpc' = "end"
            /\ UNCHANGED <<due, owed>>
    /\ UNCHANGED <<rrd_next_step, waited, twice, write_failed>>

\* write_poll_results() of the due items.
WriteOutput ==
    /\ cpc = "write" /\ Begin(TRUE)
    /\ UNCHANGED scheduleVars

\* The rows are in the table once the statement was executed at all.
Stored(n) ==
    /\ owed' = IF n > 0 THEN owed \ due ELSE owed
    /\ waited' = [s \in Steps |-> IF n > 0 /\ s \in due THEN 0 ELSE waited[s]]
    /\ UNCHANGED <<rrd_next_step, twice>>

OutputWritten ==
    /\ cpc = "write" /\ Take
    /\ Stored(applied)
    /\ device_failed' = (outcome = "failed")
    /\ cpc' = "schedule"
    /\ UNCHANGED <<due, write_failed>>

\* update_schedule: not if the device failed.
UpdatesSchedule_always == TRUE
UpdatesSchedule == ~device_failed

UpdateSchedule ==
    /\ cpc = "schedule"
    /\ IF UpdatesSchedule
       THEN Begin(TRUE) /\ UNCHANGED cpc
       ELSE outcome = "none" /\ cpc' = "time" /\ UNCHANGED sqlVars
    /\ UNCHANGED <<row, due, device_failed, write_failed>>

\* The UPDATE of poller_item, for one item.
NextStep(s, next) ==
    IF s = Interval THEN 0
    ELSE IF next - Interval < 0 THEN s - Interval ELSE next - Interval

Moved(s, next, n) ==
    LET after[k \in 0..n] == IF k = 0 THEN next ELSE NextStep(s, after[k - 1])
    IN after[n]

Advanced(n) ==
    /\ rrd_next_step' = [s \in Steps |-> Moved(s, rrd_next_step[s], n)]
    /\ waited' = [s \in Steps |-> IF n > 0 /\ waited[s] * Interval < s
                                  THEN waited[s] + 1 ELSE waited[s]]
    /\ twice' = (twice \/ n > 1)
    /\ UNCHANGED owed

ScheduleUpdated ==
    /\ cpc = "schedule" /\ Take
    /\ Advanced(applied)
    /\ write_failed' = (outcome = "failed")
    /\ cpc' = "time"
    /\ UNCHANGED <<due, device_failed>>

\* polling_time of the host and, if items failed, a row of host_errors.
Record(from, to) ==
    /\ cpc = from
    /\ \/ Begin(TRUE) /\ UNCHANGED scheduleVars
       \/ /\ Take /\ cpc' = to
          /\ write_failed' = (write_failed \/ outcome = "failed")
          /\ UNCHANGED <<row, due, device_failed>>

PollingTime == Record("time", "errors")
HostErrors == Record("errors", "end")

NoErrors ==
    /\ cpc = "errors" /\ outcome = "none"
    /\ cpc' = "end"
    /\ UNCHANGED <<row, due, device_failed, write_failed, sqlVars>>

\* The next cycle is another process. The one before it has come to its end, or
\* ended at any point, with a statement on its way.
NextCycle ==
    /\ \/ cpc = "write" /\ \E n \in Executions : Stored(n)
       \/ cpc = "schedule" /\ \E n \in Executions : Advanced(n)
       \/ cpc \in {"select", "time", "errors", "end"} /\ UNCHANGED row
    /\ cpc' = "cycle"
    /\ due' = {} /\ device_failed' = FALSE /\ write_failed' = FALSE
    /\ Reopen

ScheduleStep == \/ SelectItems \/ Selected \/ WriteOutput \/ OutputWritten
                \/ UpdateSchedule \/ ScheduleUpdated \/ PollingTime \/ HostErrors
                \/ NoErrors \/ NextCycle

-----------------------------------------------------------------------------
(* Properties *)

\* Counting down by the interval meets zero or, for a step below the interval,
\* never leaves it.
ComesRound(s) == s % Interval = 0 \/ s < Interval

\* "due items stay eligible for recollection": an item that was found due is due
\* until its output is stored, through rejected and retried statements, lost
\* answers, and a process that ends between any two statements. Between cycles an
\* item is due exactly when its step has passed since it was stored (or no update
\* followed), with two exceptions that are the code's: when a schedule update was
\* executed twice nothing is said, and an item whose step is longer than the
\* interval and no multiple of it is never due again after its first update (the
\* UPDATE wraps at the value below zero, and skips zero for ever).
DueOnSchedule ==
    /\ owed \subseteq Due
    /\ cpc = "cycle" /\ ~twice =>
          \A s \in Steps :
              s \in Due <=> \/ waited[s] = 0
                            \/ ComesRound(s) /\ waited[s] * Interval >= s
=============================================================================
