------------------------------- MODULE Output -------------------------------
(***************************************************************************)
(* write_poll_results(): the rows one partition collected go to            *)
(* poller_output and, with boost redirection, to poller_output_boost. Both *)
(* statements are built side by side in buffers of MaxBuf + Slack bytes    *)
(* while one counter, out_buffer, follows the first of them only; each is  *)
(* sent by a db_insert() of SqlRetry. Lengths are in bytes.                *)
(***************************************************************************)
EXTENDS Integers, Sequences, SqlRetry

CONSTANTS
    MaxBuf, Slack,          \* MAX_MYSQL_BUF_SIZE, RESULTS_BUFFER
    Prefix, BoostPrefix,    \* lengths of the two INSERT ... VALUES
    Suffix,                 \* length of ON DUPLICATE KEY UPDATE ...
    RowMax,                 \* longest row that fits result_string
    MaxRows                 \* bound: rows of the partition

\* What the sizes of the default build guarantee (131072, 2048, 74, 80, 46 and
\* 6399): one row fits the limit, and the slack holds what it leaves out.
ASSUME SizeAssumption ==
    /\ MaxBuf \in Nat /\ Slack \in Nat /\ Prefix \in Nat /\ BoostPrefix \in Nat
    /\ Suffix \in Nat /\ RowMax \in Nat /\ MaxRows \in Nat
    /\ Prefix <= BoostPrefix
    /\ Prefix + RowMax < MaxBuf
    /\ (BoostPrefix - Prefix) + Suffix <= Slack

Targets == {"output", "boost"}
PrefixOf(t) == IF t = "output" THEN Prefix ELSE BoostPrefix

VARIABLES
    wpc,            \* "begin", "row", "flush" (early), "append", "last", "done"
    rows_processed,
    boost,          \* boost_redirect && boost_enabled
    i,              \* rows formatted so far
    len,            \* length of the row at hand
    out_buffer, new_buffer,
    used,           \* used[t]: length of the string in the buffer of t
    queued,         \* queued[t]: rows of that statement, with their delimiter
    unsent,         \* destinations this flush has still to write
    failed,
    (* the database and history *)
    sent,           \* sent[t][n]: statements for t that row n was part of
    stored,         \* stored[t]: rows in that table
    skipped         \* rows that format_poller_output_row() refused

args == <<rows_processed, boost>>
database == <<sent, stored, skipped>>
writerVars == <<wpc, args, i, len, out_buffer, new_buffer, used, queued, unsent,
                failed, database>>

Open == IF boost THEN Targets ELSE {"output"}       \* query12 is NULL without boost

WriterInit ==
    /\ wpc = "begin" /\ rows_processed = 0 /\ boost = FALSE
    /\ i = 0 /\ len = 0
    /\ out_buffer = Prefix /\ new_buffer = TRUE
    /\ used = [t \in Targets |-> PrefixOf(t)]
    /\ queued = [t \in Targets |-> <<>>]
    /\ unsent = {} /\ failed = FALSE
    /\ sent = [t \in Targets |-> [n \in 1..MaxRows |-> 0]]
    /\ stored = [t \in Targets |-> {}]
    /\ skipped = {}

\* The rows of the partition; each buffer is allocated and holds its prefix.
BeginRows ==
    /\ wpc = "begin"
    /\ rows_processed' \in 0..MaxRows /\ boost' \in BOOLEAN
    /\ wpc' = "row"
    /\ UNCHANGED <<i, len, out_buffer, new_buffer, used, queued, unsent, failed,
                   database, sqlVars>>

\* A row that does not fit result_string is skipped. One that would take the
\* statement to the limit is preceded by a flush.
FitsStatement(n) == out_buffer + n < MaxBuf

FormatRow ==
    /\ wpc = "row" /\ i < rows_processed
    /\ i' = i + 1
    /\ \/ skipped' = skipped \cup {i'} /\ UNCHANGED <<wpc, len, unsent>>
       \/ /\ len' \in 1..RowMax
          /\ IF FitsStatement(len')
             THEN wpc' = "append" /\ UNCHANGED unsent
             ELSE wpc' = "flush" /\ unsent' = Open
          /\ UNCHANGED skipped
    /\ UNCHANGED <<args, out_buffer, new_buffer, used, queued, failed, sent, stored,
                   sqlVars>>

RowsOf(t) == {queued[t][k].row : k \in DOMAIN queued[t]}

\* flush_output_query(): poller_output first.
Target == IF "output" \in unsent THEN "output" ELSE "boost"

SendTarget ==
    /\ wpc \in {"flush", "last"} /\ unsent # {}
    /\ Begin(TRUE)
    /\ sent' = [sent EXCEPT ![Target] =
                   [n \in DOMAIN @ |-> IF n \in RowsOf(Target) THEN @[n] + 1 ELSE @[n]]]
    /\ UNCHANGED <<wpc, args, i, len, out_buffer, new_buffer, used, queued, unsent,
                   failed, stored, skipped>>

\* Its outcome. A rejected statement does not keep the other from being sent.
Sent_lastOutcome ==
    /\ wpc \in {"flush", "last"} /\ Take
    /\ stored' = IF applied > 0 THEN [stored EXCEPT ![Target] = @ \cup RowsOf(Target)]
                                ELSE stored
    /\ failed' = (outcome = "failed")
    /\ unsent' = unsent \ {Target}
    /\ UNCHANGED <<wpc, args, i, len, out_buffer, new_buffer, used, queued, sent, skipped>>

Sent ==
    /\ wpc \in {"flush", "last"} /\ Take
    /\ stored' = IF applied > 0 THEN [stored EXCEPT ![Target] = @ \cup RowsOf(Target)]
                                ELSE stored
    /\ failed' = (failed \/ outcome = "failed")
    /\ unsent' = unsent \ {Target}
    /\ UNCHANGED <<wpc, args, i, len, out_buffer, new_buffer, used, queued, sent, skipped>>

\* After an early flush both statements start again.
Flushed ==
    /\ wpc = "flush" /\ unsent = {}
    /\ used' = [t \in Targets |-> PrefixOf(t)]
    /\ queued' = [t \in Targets |-> <<>>]
    /\ out_buffer' = Prefix /\ new_buffer' = TRUE
    /\ wpc' = "append"
    /\ UNCHANGED <<args, i, len, unsent, failed, database, sqlVars>>

AppendRow ==
    /\ wpc = "append"
    /\ used' = [t \in Targets |-> IF t \in Open THEN used[t] + len ELSE used[t]]
    /\ queued' = [t \in Targets |-> IF t \in Open
                    THEN Append(queued[t], [row |-> i, comma |-> ~new_buffer])
                    ELSE queued[t]]
    /\ out_buffer' = out_buffer + len
    /\ new_buffer' = FALSE
    /\ len' = 0
    /\ wpc' = "row"
    /\ UNCHANGED <<args, i, unsent, failed, database, sqlVars>>

\* The last statements are sent if they hold any row.
LastInsert ==
    /\ wpc = "row" /\ i = rows_processed
    /\ IF out_buffer > Prefix
       THEN wpc' = "last" /\ unsent' = Open
       ELSE wpc' = "done" /\ UNCHANGED unsent
    /\ UNCHANGED <<args, i, len, out_buffer, new_buffer, used, queued, failed,
                   database, sqlVars>>

Written ==
    /\ wpc = "last" /\ unsent = {}
    /\ wpc' = "done"
    /\ UNCHANGED <<args, i, len, out_buffer, new_buffer, used, queued, unsent, failed,
                   database, sqlVars>>

WriterStep == \/ BeginRows \/ FormatRow \/ SendTarget \/ Sent \/ Flushed
              \/ AppendRow \/ LastInsert \/ Written

-----------------------------------------------------------------------------
(* Properties *)

\* Both buffers hold their statement, suffix and terminating NUL included, at
\* every point, although out_buffer counts only the shorter prefix and
\* neither suffix (the strncat() calls are not bounded by the buffer).
OutputFits == \A t \in Open : used[t] + Suffix < MaxBuf + Slack

\* Each collected row was part of exactly one statement per destination, or was
\* skipped for its size: a rejected write suppresses neither the other destination
\* nor later batches, and a statement that follows an early flush starts without a
\* comma. Unless the caller is told of a failure, so that the items stay due, every
\* row that was not skipped is in every destination, through retries of statements
\* whose answer was lost.
LossIsReported ==
    /\ \A t \in Open : \A k \in DOMAIN queued[t] : queued[t][k].comma = (k # 1)
    /\ wpc = "done" => \A t \in Open : \A n \in 1..rows_processed :
          sent[t][n] = IF n \in skipped THEN 0 ELSE 1
    /\ wpc = "done" /\ ~failed /\ ~SQL_readonly =>
          \A t \in Open : (1..rows_processed) \ skipped \subseteq stored[t]
=============================================================================
