------------------------------ MODULE Transfer ------------------------------
(***************************************************************************)
(* poller_push_data_to_main(): at the end of each cycle a remote collector *)
(* copies its host rows, then its poller_item rows, to the main server, in *)
(* statements bounded in rows and in bytes, each a db_insert() of SqlRetry *)
(* over the connection to the main server. A failure ends the copy; the    *)
(* next cycle starts over. Every cycle updates all local rows, so that the *)
(* version of a local row is the cycle.                                    *)
(***************************************************************************)
EXTENDS Integers, Sequences, SqlRetry

CONSTANTS
    HostRows, ItemRows,     \* lengths of the rows as transfer_row() writes them
    HostLimit, ItemLimit,   \* row_limit of the two plans
    BufSize,                \* HUGE_BUFSIZE
    Insert, OnDuplicate,    \* lengths of INSERT ... VALUES, ON DUPLICATE KEY ...
    MaxCycles               \* bound

Tables == {"host", "poller_item"}
Rows(t) == IF t = "host" THEN HostRows ELSE ItemRows
RowLimit(t) == IF t = "host" THEN HostLimit ELSE ItemLimit

\* The buffer holds a statement of one row (row_capacity is far below
\* HUGE_BUFSIZE).
ASSUME TransferAssumption ==
    /\ HostRows \in Seq(Nat) /\ ItemRows \in Seq(Nat)
    /\ HostLimit \in Nat \ {0} /\ ItemLimit \in Nat \ {0}
    /\ BufSize \in Nat /\ Insert \in Nat /\ OnDuplicate \in Nat /\ MaxCycles \in Nat
    /\ \A t \in Tables : \A n \in DOMAIN Rows(t) :
          Insert + Rows(t)[n] + OnDuplicate < BufSize

VARIABLES
    tpc, cycle,
    table, k,       \* transfer_table(): the table, its rows fetched so far
    rows, filled,   \* rows and bytes in the buffer
    exit_code,
    main            \* main[t][n]: version of row n on the main server

progress == <<cycle, table, exit_code>>
transferVars == <<tpc, progress, k, rows, filled, main>>

TransferInit ==
    /\ tpc = "start" /\ cycle = 1
    /\ table = "host" /\ k = 0 /\ rows = 0 /\ filled = 0
    /\ exit_code = 0
    /\ main = [t \in Tables |-> [n \in DOMAIN Rows(t) |-> 0]]

\* Either connection, or one of the four session statements, may fail.
Push ==
    /\ tpc = "start"
    /\ \/ tpc' = "query" /\ UNCHANGED exit_code
       \/ tpc' = "end" /\ exit_code' = 1
    /\ UNCHANGED <<cycle, table, k, rows, filled, main, sqlVars>>

\* Leaving transfer_table(): the item table follows the host table.
Leave_itemsAnyway(success) ==
    /\ tpc' = IF table = "host" THEN "query" ELSE "end"
    /\ table' = "poller_item"
    /\ exit_code' = IF success THEN exit_code ELSE 1

Leave(success) ==
    /\ tpc' = IF success /\ table = "host" THEN "query" ELSE "end"
    /\ table' = IF success THEN "poller_item" ELSE table
    /\ exit_code' = IF success THEN exit_code ELSE 1

\* The local db_query(). No result set, a wrong number of fields, or no memory:
\* nothing is copied. The result set is stored, so the rows do not end early.
QueryTable ==
    /\ tpc = "query"
    /\ k' = 0 /\ rows' = 0 /\ filled' = 0
    /\ \/ tpc' = "fetch" /\ UNCHANGED <<table, exit_code>>
       \/ Leave(FALSE)
    /\ UNCHANGED <<cycle, main, sqlVars>>

\* The batch is full, or the next row and the suffix would not fit after ", ".
BatchFull_noSuffix(length) ==
    rows > 0 /\ (rows = RowLimit(table) \/ length + 3 > BufSize - filled)

BatchFull(length) ==
    rows > 0 /\ (rows = RowLimit(table) \/ length + OnDuplicate + 3 > BufSize - filled)

Fetch ==
    /\ tpc = "fetch" /\ k < Len(Rows(table))
    /\ k' = k + 1
    /\ tpc' = IF BatchFull(Rows(table)[k']) THEN "flush" ELSE "add"
    /\ UNCHANGED <<progress, rows, filled, main, sqlVars>>

\* The rows of the buffer: those up to the one just fetched, or the last.
Last == IF tpc = "flush" THEN k - 1 ELSE k
Applied(n) ==
    main' = IF n = 0 THEN main ELSE
        [main EXCEPT ![table] =
            [m \in DOMAIN @ |-> IF Last - rows < m /\ m <= Last THEN cycle ELSE @[m]]]

\* transfer_batch()
SendBatch ==
    /\ tpc \in {"flush", "last"}
    /\ Begin(TRUE)
    /\ UNCHANGED transferVars

BatchSent ==
    /\ tpc = "flush" /\ Take
    /\ Applied(applied)
    /\ IF outcome = "ok" THEN rows' = 0 /\ tpc' = "add" /\ UNCHANGED <<table, exit_code>>
                         ELSE Leave(FALSE) /\ UNCHANGED rows
    /\ UNCHANGED <<cycle, k, filled>>

Add ==
    /\ tpc = "add"
    /\ filled' = (IF rows = 0 THEN Insert ELSE filled + 2) + Rows(table)[k]
    /\ rows' = rows + 1
    /\ tpc' = "fetch"
    /\ UNCHANGED <<progress, k, main, sqlVars>>

\* The rows are exhausted; what is left in the buffer is sent, unless the source
\* reports an error.
EndTable ==
    /\ tpc = "fetch" /\ k = Len(Rows(table))
    /\ \/ Leave(FALSE)
       \/ rows = 0 /\ Leave(TRUE)
       \/ rows > 0 /\ tpc' = "last" /\ UNCHANGED <<table, exit_code>>
    /\ UNCHANGED <<cycle, k, rows, filled, main, sqlVars>>

LastSent ==
    /\ tpc = "last" /\ Take
    /\ Applied(applied)
    /\ Leave(outcome = "ok")
    /\ UNCHANGED <<cycle, k, rows, filled>>

\* The next cycle is another process: local rows changed, the main ones stayed.
\* The one before it has come to its end, or ended at any point, with a
\* statement on its way.
NextPush ==
    /\ cycle < MaxCycles
    /\ IF tpc \in {"flush", "last"} THEN \E n \in Executions : Applied(n)
                                    ELSE UNCHANGED main
    /\ cycle' = cycle + 1 /\ tpc' = "start"
    /\ table' = "host" /\ k' = 0 /\ rows' = 0 /\ filled' = 0 /\ exit_code' = 0
    /\ Reopen

TransferStep == \/ Push \/ QueryTable \/ Fetch \/ SendBatch \/ BatchSent \/ Add
                \/ EndTable \/ LastSent \/ NextPush

-----------------------------------------------------------------------------
(* Properties *)

\* A statement never outgrows its buffer: spine_snprintf() would end the
\* process in the middle of the copy.
StatementFits == rows > 0 => filled + OnDuplicate < BufSize

\* A cycle that ends without a failure exit code has copied every row of both
\* tables, whatever earlier cycles left undone. After any number of cycles that
\* failed or were cut off, the main server's rows are ordered by age, host rows
\* first: no row is skipped, and no poller_item row is newer than the status of
\* any device.
CopiedInOrder ==
    /\ tpc = "end" /\ exit_code = 0 =>
          \A t \in Tables : \A n \in DOMAIN Rows(t) : main[t][n] = cycle
    /\ \A t \in Tables : \A m, n \in DOMAIN Rows(t) : m < n => main[t][m] >= main[t][n]
    /\ \A m \in DOMAIN HostRows, n \in DOMAIN ItemRows :
          main["host"][m] >= main["poller_item"][n]
=============================================================================
