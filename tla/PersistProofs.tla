--------------------------- MODULE PersistProofs ----------------------------
(***************************************************************************)
(* Proofs about Persist, for buffers, rows, steps and retries of any size. *)
(***************************************************************************)
EXTENDS Persist, TLAPS

\* A call is under way, or its outcome was not taken yet.
InCall == ~(sql = "idle" /\ outcome = "none")

-----------------------------------------------------------------------------
(* The handle *)

SqlTypes ==
    /\ SQL_readonly \in BOOLEAN /\ eintr \in BOOLEAN /\ ranStrict \in BOOLEAN
    /\ sql \in {"idle", "query", "lost", "locked", "ping", "connect", "mode"}
    /\ session \in {"none", "strict", "relaxed"}
    /\ began \in {"none", "strict", "relaxed"}
    /\ outcome \in {"none", "ok", "failed"}
    /\ applied \in Nat

\* A session opened by the call is not used before its mode is set.
ModeInv ==
    /\ RetryKeepsMode
    /\ sql = "connect" => session = "none"
    /\ sql \in {"query", "lost", "locked", "ping"} /\ session = "strict" => began = "strict"

\* A call starts with nothing executed, and succeeds when the statement was.
CallInv ==
    /\ ~InCall => applied = 0 /\ ~ranStrict
    /\ sql # "idle" => outcome = "none"
    /\ outcome = "ok" => applied > 0 \/ SQL_readonly

SqlInv == SqlTypes /\ ModeInv /\ CallInv

-----------------------------------------------------------------------------
(* write_poll_results() *)

Queue == Seq([row : 1..MaxRows, comma : BOOLEAN])

WriterTypes ==
    /\ wpc \in {"begin", "row", "flush", "append", "last", "done"}
    /\ rows_processed \in 0..MaxRows /\ boost \in BOOLEAN
    /\ i \in 0..rows_processed /\ len \in 0..RowMax
    /\ new_buffer \in BOOLEAN /\ failed \in BOOLEAN
    /\ unsent \subseteq Open /\ skipped \subseteq 1..i
    /\ wpc \in {"flush", "append"} => i \notin skipped /\ i > 0 /\ len > 0
    /\ wpc = "begin" => i = 0 /\ unsent = {}
    /\ wpc \in {"last", "done"} => i = rows_processed

\* The two statements differ by their prefixes, and the longer one has room.
BufferInv ==
    /\ out_buffer \in Nat /\ used \in [Targets -> Nat]
    /\ Prefix <= out_buffer /\ out_buffer < MaxBuf
    /\ wpc = "append" => out_buffer + len < MaxBuf
    /\ wpc = "begin" => out_buffer = Prefix /\ used = [t \in Targets |-> PrefixOf(t)]
    /\ \A t \in Open : used[t] + Prefix = out_buffer + PrefixOf(t)

\* The row formatted last, while it is in no statement yet.
Pending == IF wpc \in {"flush", "append"} THEN {i} ELSE {}
Collected == ((1..i) \ skipped) \ Pending

\* Row after row, with a delimiter from the second on.
QueueInv ==
    /\ queued \in [Targets -> Queue]
    /\ wpc = "begin" => queued = [t \in Targets |-> <<>>]
    /\ \A t \in Open :
          /\ new_buffer <=> queued[t] = <<>>
          /\ out_buffer = Prefix => queued[t] = <<>>
          /\ \A n \in DOMAIN queued[t] : queued[t][n].comma = (n # 1)
          /\ RowsOf(t) \subseteq Collected

\* The statement for t was sent; its outcome is known.
Settled(t) == wpc = "done" \/ (wpc \in {"flush", "last"} /\ t \notin unsent)
Dispatched(t) == Settled(t) \/ (wpc \in {"flush", "last"} /\ t = Target /\ InCall)

\* A row is in the statement at hand, or was part of one that was sent, once.
SentInv ==
    /\ sent \in [Targets -> [1..MaxRows -> Nat]]
    /\ \A t \in Open : \A n \in 1..MaxRows :
          sent[t][n] = IF n \in Collected /\ (n \in RowsOf(t) => Dispatched(t))
                       THEN 1 ELSE 0
    /\ wpc = "begin" => \A t \in Targets : \A n \in 1..MaxRows : sent[t][n] = 0

StoredInv ==
    /\ stored \in [Targets -> SUBSET (1..MaxRows)]
    /\ ~failed /\ ~SQL_readonly =>
          \A t \in Open : \A n \in Collected :
              n \in stored[t] \/ (n \in RowsOf(t) /\ ~Settled(t))

\* The calls of the writer are those of a flush.
WriterCalls ==
    /\ client # "writer" => wpc = "begin"
    /\ client = "writer" /\ InCall => wpc \in {"flush", "last"} /\ unsent # {}

WriterInv == WriterTypes /\ BufferInv /\ QueueInv /\ SentInv /\ StoredInv /\ WriterCalls

-----------------------------------------------------------------------------
(* The handle: what a statement and its client do to it *)

\* The steps of db_insert(), db_query() and db_reconnect() keep the invariant of the
\* handle, and end the call with an outcome.
LEMMA StatementKeeps ==
    ASSUME SqlInv, SqlStep
    PROVE  SqlInv' /\ InCall /\ InCall' /\ sql # "idle" /\ SQL_readonly' = SQL_readonly
<1> USE DEF SqlInv, SqlTypes, ModeInv, CallInv, InCall, RetryKeepsMode, call, Return
<1>1. CASE Query
  <2>1. sql = "query" /\ UNCHANGED <<SQL_readonly, error_count, began>>
    BY Zenon, <1>1 DEF Query
  <2>2. /\ \/ applied' = applied + 1 
              /\ ranStrict' = (ranStrict \/ session = "strict")
           \/ applied' = applied /\ ranStrict' = ranStrict
        /\ session' \in {"none", session} /\ eintr' \in BOOLEAN
    BY Zenon, <1>1 DEF Query, Execute
  <2>3. \/ sql' = "idle" /\ outcome' = "ok" /\ applied' = applied + 1
        \/ sql' = "idle" /\ outcome' = "failed"
        \/ sql' \in {"lost", "locked"} /\ outcome' = outcome
    BY Zenon, <1>1 DEF Query, Execute
  <2>4. ranStrict' \in BOOLEAN
    <3>1. (ranStrict \/ session = "strict") \in BOOLEAN
      BY Zenon
    <3> QED
      BY <2>2, <3>1, Zenon
  <2>5. ranStrict' => began' = "strict"
    BY <2>1, <2>2, Zenon
  <2> QED
    BY <2>1, <2>2, <2>3, <2>4, <2>5
<1>2. CASE Locked
  BY Zenon, <1>2 DEF Locked
<1>3. CASE RetryDisconnected
  BY Zenon, <1>3 DEF RetryDisconnected
<1>4. CASE Ping
  BY Zenon, <1>4 DEF Ping, Reconnected
<1>5. CASE Connect
  BY Zenon, <1>5 DEF Connect, Reconnected
<1>6. CASE SetSessionMode
  BY Zenon, <1>6 DEF SetSessionMode, Reconnected
<1> QED
  BY Zenon, <1>1, <1>2, <1>3, <1>4, <1>5, <1>6 DEF SqlStep

\* A call begins with nothing executed; with SQL_readonly a write returns at once.
LEMMA BeginKeeps ==
    ASSUME SqlInv, NEW writes \in BOOLEAN, Begin(writes)
    PROVE  /\ SqlInv' /\ ~InCall /\ InCall' /\ SQL_readonly' = SQL_readonly
           /\ applied' = 0 /\ (writes /\ SQL_readonly => sql' = "idle")
BY Zenon DEF SqlInv, SqlTypes, ModeInv, CallInv, InCall, RetryKeepsMode, Return, Begin

\* A client goes on with an outcome; one that is ok stands for an execution.
LEMMA TakeKeeps ==
    ASSUME SqlInv, Take
    PROVE  /\ SqlInv' /\ InCall /\ ~InCall' /\ SQL_readonly' = SQL_readonly
           /\ sql' = "idle" /\ applied' = 0
           /\ applied \in Nat /\ outcome \in {"ok", "failed"}
           /\ outcome = "ok" => applied > 0 \/ SQL_readonly
BY Zenon DEF SqlInv, SqlTypes, ModeInv, CallInv, InCall, RetryKeepsMode, Take, Returned

\* Another process starts with a relaxed session and no call.
LEMMA ReopenKeeps ==
    ASSUME SqlInv, Reopen
    PROVE  /\ SqlInv' /\ ~InCall' /\ SQL_readonly' = SQL_readonly
           /\ sql' = "idle" /\ applied' = 0
BY Zenon DEF SqlInv, SqlTypes, ModeInv, CallInv, InCall, RetryKeepsMode, Reopen

\* A step that makes no call.
LEMMA SqlSame ==
    ASSUME SqlInv, UNCHANGED sqlVars
    PROVE  /\ SqlInv' /\ InCall' = InCall /\ SQL_readonly' = SQL_readonly
           /\ sql' = sql /\ applied' = applied
BY Zenon DEF SqlInv, SqlTypes, ModeInv, CallInv, InCall, RetryKeepsMode, sqlVars, call

\* Every step of a client begins a call, takes its outcome, starts another process
\* or leaves the handle alone.
LEMMA HandleUse ==
    ASSUME [Next]_vars
    PROVE  \/ SqlStep \/ (\E writes \in BOOLEAN : Begin(writes)) \/ Take \/ Reopen
           \/ UNCHANGED sqlVars
<1>1. CASE Statement
  BY Zenon, <1>1 DEF Statement
<1>2. CASE WriterStep
  BY <1>2, Zenon DEF WriterStep, BeginRows, FormatRow, SendTarget, Sent, Flushed, AppendRow,
              LastInsert, Written
<1>3. CASE ScheduleStep
  BY <1>3, Zenon DEF ScheduleStep, SelectItems, Selected, WriteOutput, OutputWritten,
              UpdateSchedule, ScheduleUpdated, PollingTime, HostErrors, Record,
              NoErrors, NextCycle
<1>4. CASE TransferStep
  BY <1>4, Zenon DEF TransferStep, Push, QueryTable, Fetch, SendBatch, BatchSent, Add,
              EndTable, LastSent, NextPush
<1>5. CASE UNCHANGED vars
  BY Zenon, <1>5 DEF vars
<1> QED
  BY Zenon, <1>1, <1>2, <1>3, <1>4, <1>5 DEF Next, Writer, Completion, Copy, Done

-----------------------------------------------------------------------------
(* write_poll_results() *)

\* Without boost there is one destination, poller_output.
LEMMA OpenFacts ==
    ASSUME WriterTypes
    PROVE  /\ "output" \in Open /\ Open \subseteq Targets
           /\ unsent # {} => Target \in unsent
BY Zenon DEF WriterTypes, Open, Targets, Target

\* A step that leaves the statements, the flush and the rows alone.
LEMMA WriterSame ==
    ASSUME SqlInv, WriterInv, UNCHANGED <<writerVars, client, SQL_readonly>>,
           \/ client # "writer" \/ SqlStep \/ UNCHANGED sqlVars
    PROVE  WriterInv'
<1> USE DEF writerVars, args, database
<1>1. /\ Open' = Open /\ Collected' = Collected /\ Target' = Target
      /\ \A t \in Targets : RowsOf(t)' = RowsOf(t) /\ Settled(t)' = Settled(t)
  BY Zenon DEF Open, Collected, Pending, Target, RowsOf, Settled
<1>2. \A t \in Targets : Dispatched(t)' = Dispatched(t)
  <2>1. CASE client # "writer"
    BY Zenon, <1>1, <2>1 DEF WriterInv, WriterCalls, Dispatched
  <2>2. CASE SqlStep
    BY Zenon, <1>1, <2>2, StatementKeeps DEF Dispatched
  <2>3. CASE UNCHANGED sqlVars
    BY <1>1, <2>3, SqlSame DEF Dispatched
  <2> QED
    BY Zenon, <2>1, <2>2, <2>3
<1>3. WriterTypes' /\ BufferInv'
  BY Zenon, <1>1 DEF WriterInv, WriterTypes, BufferInv
<1>4. QueueInv'
  BY <1>1, OpenFacts DEF WriterInv, QueueInv
<1>5. SentInv'
  BY Zenon, <1>1, <1>2, OpenFacts DEF WriterInv, SentInv
<1>6. StoredInv'
  BY Zenon, <1>1, OpenFacts DEF WriterInv, StoredInv
<1>7. WriterCalls'
  BY StatementKeeps, SqlSame DEF WriterInv, WriterCalls
<1> QED
  BY Zenon, <1>3, <1>4, <1>5, <1>6, <1>7 DEF WriterInv

\* The rows of the partition are at hand and nothing is queued.
LEMMA BeginRowsKeeps ==
    ASSUME SqlInv, WriterInv, client = "writer", client' = client, BeginRows
    PROVE  WriterInv'
<1>0. /\ WriterTypes /\ BufferInv /\ QueueInv /\ SentInv /\ StoredInv /\ WriterCalls
      /\ "output" \in Open /\ Open \subseteq Targets
      /\ unsent # {} => Target \in unsent
  BY Zenon, OpenFacts DEF WriterInv
<1> USE DEF args, database
<1>1. /\ wpc = "begin" /\ wpc' = "row"
      /\ rows_processed' \in 0..MaxRows /\ boost' \in BOOLEAN
      /\ UNCHANGED <<i, len, out_buffer, new_buffer, used, queued, unsent, failed,
                     sent, stored, skipped>>
      /\ UNCHANGED sqlVars
  BY Zenon DEF BeginRows
<1>2. i = 0 /\ Collected' = {} /\ ~InCall /\ ~InCall' /\ SQL_readonly' = SQL_readonly
  BY <1>0, <1>1, SqlSame DEF WriterTypes, WriterCalls, Collected, Pending
<1>3. \A t \in Targets : queued[t] = <<>> /\ RowsOf(t)' = {}
  BY <1>0, <1>1 DEF QueueInv, RowsOf
<1>4. Open' \subseteq Targets /\ new_buffer
  BY Zenon, <1>0, <1>1, <1>3 DEF QueueInv, Open, Targets
<1>5. WriterTypes'
  BY <1>0, <1>1, <1>2 DEF WriterTypes
<1>6. BufferInv'
  BY <1>0, <1>1, <1>4, SizeAssumption DEF BufferInv, PrefixOf
<1>7. QueueInv'
  BY Zenon, <1>0, <1>1, <1>3, <1>4 DEF QueueInv
<1>8. SentInv'
  BY Zenon, <1>0, <1>1, <1>2, <1>4 DEF SentInv
<1>9. StoredInv'
  BY Zenon, <1>0, <1>1, <1>2 DEF StoredInv
<1>10. WriterCalls'
  BY Zenon, <1>1, <1>2 DEF WriterCalls
<1> QED
  BY Zenon, <1>5, <1>6, <1>7, <1>8, <1>9, <1>10 DEF WriterInv

\* A formatted row is skipped, appended, or waits for a flush.
LEMMA FormatRowKeeps ==
    ASSUME SqlInv, WriterInv, client = "writer", client' = client, FormatRow
    PROVE  WriterInv'
<1>0. /\ WriterTypes /\ BufferInv /\ QueueInv /\ SentInv /\ StoredInv /\ WriterCalls
      /\ "output" \in Open /\ Open \subseteq Targets
      /\ unsent # {} => Target \in unsent
  BY Zenon, OpenFacts DEF WriterInv
<1> USE DEF args, database
<1>1. /\ wpc = "row" /\ i < rows_processed /\ i' = i + 1
      /\ UNCHANGED <<rows_processed, boost, out_buffer, new_buffer, used, queued,
                     failed, sent, stored>>
      /\ UNCHANGED sqlVars
      /\ \/ /\ skipped' = skipped \cup {i'} /\ UNCHANGED <<len, unsent>> /\ wpc' = "row"
         \/ /\ len' \in 1..RowMax /\ skipped' = skipped
            /\ \/ FitsStatement(len') /\ wpc' = "append" /\ unsent' = unsent
               \/ wpc' = "flush" /\ unsent' = Open
  BY Zenon DEF FormatRow
<1>2. /\ i \in Nat /\ skipped \subseteq 1..i /\ ~InCall /\ ~InCall'
      /\ SQL_readonly' = SQL_readonly /\ Open' = Open
  BY <1>0, <1>1, SqlSame DEF WriterTypes, WriterCalls, Open
<1>3. Collected' = Collected
  BY <1>1, <1>2 DEF Collected, Pending
<1>4. /\ \A t \in Targets : RowsOf(t)' = RowsOf(t)
      /\ \A t \in Open : /\ ~Dispatched(t) /\ ~Dispatched(t)'
                         /\ ~Settled(t) /\ ~Settled(t)'
  BY Zenon, <1>1, <1>2 DEF RowsOf, Dispatched, Settled
<1>5. WriterTypes'
  <2>1. i' \in 0..rows_processed' /\ i' > 0 /\ len' \in 0..RowMax
    BY <1>0, <1>1, <1>2, SizeAssumption DEF WriterTypes
  <2>2. skipped' \subseteq 1..i' /\ (wpc' # "row" => i' \notin skipped' /\ len' > 0)
    <3>1. CASE wpc' = "row" /\ skipped' = skipped \cup {i'}
      BY <1>1, <1>2, <3>1
    <3>2. CASE len' \in 1..RowMax /\ skipped' = skipped
      BY <1>1, <1>2, <3>2, SizeAssumption
    <3> QED
      BY Zenon, <1>1, <3>1, <3>2
  <2>3. unsent' \subseteq Open' /\ wpc' \in {"row", "flush", "append"}
    BY Zenon, <1>0, <1>1, <1>2 DEF WriterTypes
  <2> QED
    BY Zenon, <1>0, <1>1, <2>1, <2>2, <2>3 DEF WriterTypes
<1>6. BufferInv'
  BY Zenon, <1>0, <1>1, <1>2 DEF BufferInv, FitsStatement
<1>7. QueueInv'
  BY <1>0, <1>1, <1>2, <1>3, <1>4 DEF QueueInv
<1>8. SentInv'
  BY Zenon, <1>0, <1>1, <1>2, <1>3, <1>4 DEF SentInv
<1>9. StoredInv'
  BY Zenon, <1>0, <1>1, <1>2, <1>3, <1>4 DEF StoredInv
<1>10. WriterCalls'
  BY Zenon, <1>1, <1>2 DEF WriterCalls
<1> QED
  BY Zenon, <1>5, <1>6, <1>7, <1>8, <1>9, <1>10 DEF WriterInv

\* flush_output_query() sends the statement of one destination, once.
LEMMA SendTargetKeeps ==
    ASSUME SqlInv, WriterInv, client = "writer", client' = client, SendTarget
    PROVE  WriterInv'
<1>0. /\ WriterTypes /\ BufferInv /\ QueueInv /\ SentInv /\ StoredInv /\ WriterCalls
      /\ "output" \in Open /\ Open \subseteq Targets
      /\ unsent # {} => Target \in unsent
  BY Zenon, OpenFacts DEF WriterInv
<1> USE DEF args, database
<1>1. /\ wpc \in {"flush", "last"} /\ unsent # {} /\ Target \in Open
      /\ UNCHANGED <<wpc, rows_processed, boost, i, len, out_buffer, new_buffer, used,
                     queued, unsent, failed, stored, skipped>>
      /\ ~InCall /\ InCall' /\ SQL_readonly' = SQL_readonly
      /\ sent' = [sent EXCEPT ![Target] =
            [n \in DOMAIN sent[Target] |->
                IF n \in RowsOf(Target) THEN sent[Target][n] + 1 ELSE sent[Target][n]]]
  BY <1>0, BeginKeeps, Zenon DEF SendTarget, WriterTypes
<1>2. /\ Collected' = Collected /\ Open' = Open /\ Target' = Target
      /\ \A t \in Targets : RowsOf(t)' = RowsOf(t) /\ Settled(t)' = Settled(t)
  BY Zenon, <1>1 DEF Collected, Pending, Open, Target, RowsOf, Settled
<1>3. /\ \A t \in Targets : t = Target => Dispatched(t)' /\ ~Dispatched(t)
      /\ \A t \in Targets : t # Target => Dispatched(t)' = Dispatched(t)
  BY Zenon, <1>0, <1>1, <1>2 DEF Dispatched, Settled
<1>4. WriterTypes' /\ BufferInv'
  BY Zenon, <1>0, <1>1, <1>2 DEF WriterTypes, BufferInv
<1>5. QueueInv'
  BY <1>0, <1>1, <1>2 DEF QueueInv
<1>6. StoredInv'
  BY Zenon, <1>0, <1>1, <1>2 DEF StoredInv
<1>7. SentInv'
  <2>1. sent' \in [Targets -> [1..MaxRows -> Nat]]
    BY <1>0, <1>1 DEF SentInv
  <2>2. ASSUME NEW t \in Open, NEW n \in 1..MaxRows
        PROVE  sent'[t][n] = IF n \in Collected /\ (n \in RowsOf(t) => Dispatched(t)')
                             THEN 1 ELSE 0
    <3>0. sent[t][n] = IF n \in Collected /\ (n \in RowsOf(t) => Dispatched(t))
                       THEN 1 ELSE 0
      BY Zenon, <1>0 DEF SentInv
    <3>1. CASE t # Target
      <4>1. sent'[t] = sent[t] /\ Dispatched(t)' = Dispatched(t)
        BY Zenon, <1>0, <1>1, <1>3, <3>1 DEF SentInv
      <4> QED
        BY Zenon, <3>0, <4>1
    <3>2. CASE t = Target
      <4>1. sent'[t][n] = IF n \in RowsOf(t) THEN sent[t][n] + 1 ELSE sent[t][n]
        BY <1>0, <1>1, <3>2, Zenon DEF SentInv
      <4>2. RowsOf(t) \subseteq Collected
        BY Zenon, <1>0 DEF QueueInv
      <4> QED
        BY <1>0, <1>3, <3>0, <3>2, <4>1, <4>2
    <3> QED
      BY Zenon, <3>1, <3>2
  <2> QED
    BY <1>0, <1>1, <1>2, <2>1, <2>2 DEF SentInv
<1>8. WriterCalls'
  BY Zenon, <1>1 DEF WriterCalls
<1> QED
  BY Zenon, <1>4, <1>5, <1>6, <1>7, <1>8 DEF WriterInv

\* The outcome of a statement: its rows are stored, or the failure is remembered.
LEMMA SentKeeps ==
    ASSUME SqlInv, WriterInv, client = "writer", client' = client, Sent
    PROVE  WriterInv'
<1>0. /\ WriterTypes /\ BufferInv /\ QueueInv /\ SentInv /\ StoredInv /\ WriterCalls
      /\ "output" \in Open /\ Open \subseteq Targets
      /\ unsent # {} => Target \in unsent
  BY Zenon, OpenFacts DEF WriterInv
<1> USE DEF args, database
<1>1. /\ wpc \in {"flush", "last"} /\ InCall /\ ~InCall' /\ unsent # {}
      /\ SQL_readonly' = SQL_readonly /\ unsent' = unsent \ {Target}
      /\ UNCHANGED <<wpc, rows_processed, boost, i, len, out_buffer, new_buffer, used,
                     queued, sent, skipped>>
      /\ failed' = (failed \/ outcome = "failed")
      /\ outcome # "failed" => applied > 0 \/ SQL_readonly
      /\ stored' = IF applied > 0
                   THEN [stored EXCEPT ![Target] = stored[Target] \cup RowsOf(Target)]
                   ELSE stored
  <2>1. /\ wpc \in {"flush", "last"} /\ Take
        /\ stored' = IF applied > 0
                     THEN [stored EXCEPT ![Target] = stored[Target] \cup RowsOf(Target)]
                     ELSE stored
        /\ failed' = (failed \/ outcome = "failed") /\ unsent' = unsent \ {Target}
        /\ UNCHANGED <<wpc, rows_processed, boost, i, len, out_buffer, new_buffer, used,
                       queued, sent, skipped>>
    BY Zenon DEF Sent
  <2> QED
    BY Zenon, <1>0, <2>1, TakeKeeps DEF WriterCalls
<1>2. /\ Collected' = Collected /\ Open' = Open
      /\ \A t \in Targets : RowsOf(t)' = RowsOf(t)
  BY Zenon, <1>1 DEF Collected, Pending, Open, RowsOf
<1>3. /\ \A t \in Targets : Dispatched(t)' = Dispatched(t)
      /\ \A t \in Targets : Settled(t)' <=> Settled(t) \/ t = Target
  BY Zenon, <1>1 DEF Dispatched, Settled
<1>4. (failed \/ outcome = "failed") \in BOOLEAN
  BY Zenon
<1>5. WriterTypes' /\ BufferInv'
  BY Zenon, <1>0, <1>1, <1>2, <1>4 DEF WriterTypes, BufferInv
<1>6. QueueInv'
  BY <1>0, <1>1, <1>2 DEF QueueInv
<1>7. SentInv'
  BY Zenon, <1>0, <1>1, <1>2, <1>3 DEF SentInv
<1>8. Collected \subseteq 1..MaxRows /\ RowsOf(Target) \subseteq 1..MaxRows
  <2>1. Target \in Open /\ RowsOf(Target) \subseteq Collected
    BY Zenon, <1>0, <1>1 DEF QueueInv, WriterTypes
  <2>2. Collected \subseteq 1..i /\ i \in 0..rows_processed /\ rows_processed \in 0..MaxRows
    BY Zenon, <1>0 DEF Collected, WriterTypes
  <2>3. 1..i \subseteq 1..MaxRows
    BY <2>2, SizeAssumption
  <2> QED
    BY <2>1, <2>2, <2>3, Zenon
<1>9. StoredInv'
  <2>1. stored' \in [Targets -> SUBSET (1..MaxRows)]
    BY <1>0, <1>1, <1>8, Zenon DEF StoredInv
  <2>2. ASSUME ~failed', ~SQL_readonly, NEW t \in Open, NEW n \in Collected
        PROVE  n \in stored'[t] \/ (n \in RowsOf(t) /\ ~Settled(t)')
    <3>1. ~failed /\ applied > 0
      BY <1>1, <2>2, Zenon
    <3>2. n \in stored[t] \/ (n \in RowsOf(t) /\ ~Settled(t))
      BY Zenon, <1>0, <2>2, <3>1 DEF StoredInv
    <3>3. stored'[t] = IF t = Target THEN stored[t] \cup RowsOf(t) ELSE stored[t]
      BY Zenon, <1>0, <1>1, <3>1 DEF StoredInv
    <3> QED
      BY Zenon, <1>0, <1>3, <3>2, <3>3
  <2> QED
    BY <1>0, <1>1, <1>2, <2>1, <2>2 DEF StoredInv
<1>10. WriterCalls'
  BY Zenon, <1>1 DEF WriterCalls
<1> QED
  BY Zenon, <1>5, <1>6, <1>7, <1>9, <1>10 DEF WriterInv

\* After an early flush both statements are empty.
LEMMA FlushedKeeps ==
    ASSUME SqlInv, WriterInv, client = "writer", client' = client, Flushed
    PROVE  WriterInv'
<1>0. /\ WriterTypes /\ BufferInv /\ QueueInv /\ SentInv /\ StoredInv /\ WriterCalls
      /\ "output" \in Open /\ Open \subseteq Targets
      /\ unsent # {} => Target \in unsent
  BY Zenon, OpenFacts DEF WriterInv
<1> USE DEF args, database
<1>1. /\ wpc = "flush" /\ unsent = {} /\ wpc' = "append"
      /\ used' = [t \in Targets |-> PrefixOf(t)]
      /\ queued' = [t \in Targets |-> <<>>]
      /\ out_buffer' = Prefix /\ new_buffer' = TRUE
      /\ UNCHANGED <<rows_processed, boost, i, len, unsent, failed, sent, stored,
                     skipped>>
      /\ UNCHANGED sqlVars
  BY Zenon DEF Flushed
<1>2. /\ ~InCall' /\ SQL_readonly' = SQL_readonly /\ Open' = Open
      /\ Collected' = Collected
  BY <1>0, <1>1, SqlSame DEF WriterCalls, Open, Collected, Pending
<1>3. \A t \in Targets : /\ RowsOf(t)' = {} /\ Dispatched(t) /\ Settled(t)
  BY <1>1 DEF RowsOf, Dispatched, Settled
<1>4. WriterTypes'
  BY Zenon, <1>0, <1>1, <1>2 DEF WriterTypes
<1>5. BufferInv'
  BY <1>0, <1>1, <1>2, SizeAssumption DEF BufferInv, WriterTypes, PrefixOf
<1>6. QueueInv'
  <2>1. <<>> \in Queue
    BY DEF Queue
  <2> QED
    BY <1>0, <1>1, <1>2, <1>3, <2>1 DEF QueueInv
<1>7. SentInv'
  BY Zenon, <1>0, <1>1, <1>2, <1>3 DEF SentInv
<1>8. StoredInv'
  BY Zenon, <1>0, <1>1, <1>2, <1>3 DEF StoredInv
<1>9. WriterCalls'
  BY Zenon, <1>1, <1>2 DEF WriterCalls
<1> QED
  BY Zenon, <1>4, <1>5, <1>6, <1>7, <1>8, <1>9 DEF WriterInv

\* The row becomes the last of both statements, with its delimiter.
LEMMA AppendRowKeeps ==
    ASSUME SqlInv, WriterInv, client = "writer", client' = client, AppendRow
    PROVE  WriterInv'
<1>0. /\ WriterTypes /\ BufferInv /\ QueueInv /\ SentInv /\ StoredInv /\ WriterCalls
      /\ "output" \in Open /\ Open \subseteq Targets
      /\ unsent # {} => Target \in unsent
  BY Zenon, OpenFacts DEF WriterInv
<1> USE DEF args, database
<1>1. /\ wpc = "append" /\ wpc' = "row" /\ len' = 0
      /\ used' = [t \in Targets |-> IF t \in Open THEN used[t] + len ELSE used[t]]
      /\ queued' = [t \in Targets |-> IF t \in Open
                      THEN Append(queued[t], [row |-> i, comma |-> ~new_buffer])
                      ELSE queued[t]]
      /\ out_buffer' = out_buffer + len /\ new_buffer' = FALSE
      /\ UNCHANGED <<rows_processed, boost, i, unsent, failed, sent, stored, skipped>>
      /\ UNCHANGED sqlVars
  BY Zenon DEF AppendRow
<1>2. /\ ~InCall /\ ~InCall' /\ SQL_readonly' = SQL_readonly /\ Open' = Open
      /\ i \in 1..MaxRows /\ i \notin skipped /\ len \in Nat /\ len > 0
  BY <1>0, <1>1, SqlSame, SizeAssumption DEF WriterCalls, Open, WriterTypes
<1>3. /\ Collected' = Collected \cup {i} /\ i \notin Collected
  BY <1>1, <1>2 DEF Collected, Pending
<1>4. \A t \in Open : /\ ~Dispatched(t) /\ ~Dispatched(t)' /\ ~Settled(t)'
  BY Zenon, <1>1 DEF Dispatched, Settled
<1>5. ASSUME NEW t \in Open
      PROVE  /\ queued'[t] \in Queue /\ queued'[t] # <<>>
             /\ \A n \in DOMAIN queued'[t] : queued'[t][n].comma = (n # 1)
             /\ RowsOf(t)' = RowsOf(t) \cup {i}
  <2> DEFINE e == [row |-> i, comma |-> ~new_buffer]
  <2>1. /\ queued[t] \in Queue /\ queued'[t] = Append(queued[t], e)
        /\ new_buffer <=> queued[t] = <<>>
    BY Zenon, <1>0, <1>1 DEF QueueInv
  <2>2. e \in [row : 1..MaxRows, comma : BOOLEAN] /\ e.row = i /\ e.comma = ~new_buffer
    BY Zenon, <1>2
  <2> HIDE DEF e
  <2>3. /\ queued'[t] \in Queue /\ Len(queued[t]) \in Nat
        /\ DOMAIN queued[t] = 1..Len(queued[t])
        /\ DOMAIN queued'[t] = 1..(Len(queued[t]) + 1)
        /\ \A n \in 1..Len(queued[t]) : queued'[t][n] = queued[t][n]
        /\ queued'[t][Len(queued[t]) + 1] = e
    BY <2>1, <2>2 DEF Queue
  <2>4. queued'[t] # <<>>
    BY <2>3
  <2>5. Len(queued[t]) = 0 <=> queued[t] = <<>>
    BY <2>1, <2>3 DEF Queue
  <2>6. ASSUME NEW n \in DOMAIN queued'[t] PROVE queued'[t][n].comma = (n # 1)
    <3>1. CASE n \in 1..Len(queued[t])
      BY <1>0, <2>3, <3>1 DEF QueueInv
    <3>2. CASE n = Len(queued[t]) + 1
      BY <2>1, <2>2, <2>3, <2>5, <3>2
    <3> QED
      BY <2>3, <3>1, <3>2
  <2>7. RowsOf(t)' = RowsOf(t) \cup {i}
    <3>1. RowsOf(t)' = {queued'[t][n].row : n \in 1..(Len(queued[t]) + 1)}
      BY Zenon, <2>3 DEF RowsOf
    <3>2. RowsOf(t) = {queued[t][n].row : n \in 1..Len(queued[t])}
      BY Zenon, <2>3 DEF RowsOf
    <3>3. 1..(Len(queued[t]) + 1) = (1..Len(queued[t])) \cup {Len(queued[t]) + 1}
      BY <2>3
    <3>4. \A n \in 1..Len(queued[t]) : queued'[t][n].row = queued[t][n].row
      BY Zenon, <2>3
    <3>5. queued'[t][Len(queued[t]) + 1].row = i
      BY Zenon, <2>2, <2>3
    <3>6. RowsOf(t)' \subseteq RowsOf(t) \cup {i}
      BY Zenon, <3>1, <3>2, <3>3, <3>4, <3>5
    <3>7. RowsOf(t) \cup {i} \subseteq RowsOf(t)'
      BY Zenon, <3>1, <3>2, <3>3, <3>4, <3>5
    <3> QED
      BY Zenon, <3>6, <3>7
  <2> QED
    BY Zenon, <2>3, <2>4, <2>6, <2>7
<1>6. /\ wpc' = "row" /\ len' = 0 /\ new_buffer' = FALSE
      /\ UNCHANGED <<rows_processed, boost, i, unsent, failed, sent, stored, skipped>>
  BY Zenon, <1>1
<1>7. WriterTypes' /\ BufferInv'
  <2>1. WriterTypes'
    <3>1. len' \in 0..RowMax
      BY <1>6, SizeAssumption
    <3>3. new_buffer' \in BOOLEAN
      BY <1>6, Zenon
    <3>2. unsent' \subseteq Open' /\ skipped' \subseteq 1..i'
      BY Zenon, <1>0, <1>2, <1>6 DEF WriterTypes
    <3> QED
      BY Zenon, <1>0, <1>6, <3>1, <3>2, <3>3 DEF WriterTypes
  <2>2. used' \in [Targets -> Nat] /\ \A t \in Open : used'[t] = used[t] + len
    BY <1>0, <1>1, <1>2 DEF BufferInv
  <2>3. /\ out_buffer' \in Nat /\ Prefix <= out_buffer' /\ out_buffer' < MaxBuf
        /\ out_buffer' = out_buffer + len
    BY <1>0, <1>1, <1>2, SizeAssumption DEF BufferInv
  <2>4. \A t \in Open : used'[t] + Prefix = out_buffer' + PrefixOf(t)
    <3>1. ASSUME NEW t \in Open PROVE used'[t] + Prefix = out_buffer' + PrefixOf(t)
      <4>1. /\ used[t] + Prefix = out_buffer + PrefixOf(t) /\ used[t] \in Nat
            /\ out_buffer \in Nat /\ PrefixOf(t) \in Nat
        BY Zenon, <1>0, SizeAssumption DEF BufferInv, PrefixOf
      <4> QED
        BY <1>2, <2>2, <2>3, <4>1, SizeAssumption
    <3> QED
      BY Zenon, <3>1
  <2> QED
    BY Zenon, <1>2, <1>6, <2>1, <2>2, <2>3, <2>4 DEF BufferInv
<1>8. QueueInv'
  <2>1. queued' \in [Targets -> Queue]
    BY <1>0, <1>1, <1>5, Zenon DEF QueueInv
  <2>2. out_buffer' # Prefix
    BY <1>0, <1>1, <1>2, SizeAssumption DEF BufferInv
  <2>3. \A t \in Open : RowsOf(t)' \subseteq Collected'
    BY <1>0, <1>3, <1>5 DEF QueueInv
  <2> QED
    BY <1>1, <1>2, <1>5, <2>1, <2>2, <2>3, Zenon DEF QueueInv
<1>9. SentInv'
  <2>1. ASSUME NEW t \in Open, NEW n \in 1..MaxRows
        PROVE  sent[t][n] = IF n \in Collected' /\ (n \in RowsOf(t)' => Dispatched(t)')
                            THEN 1 ELSE 0
    <3>1. sent[t][n] = IF n \in Collected /\ (n \in RowsOf(t) => Dispatched(t))
                       THEN 1 ELSE 0
      BY Zenon, <1>0 DEF SentInv
    <3> QED
      BY <1>3, <1>4, <1>5, <3>1
  <2> QED
    BY Zenon, <1>0, <1>2, <1>6, <2>1 DEF SentInv
<1>10. StoredInv'
  <2>1. ASSUME ~failed, ~SQL_readonly, NEW t \in Open, NEW n \in Collected'
        PROVE  n \in stored[t] \/ (n \in RowsOf(t)' /\ ~Settled(t)')
    BY <1>0, <1>3, <1>4, <1>5, <2>1 DEF StoredInv
  <2> QED
    BY Zenon, <1>0, <1>2, <1>6, <2>1 DEF StoredInv
<1>11. WriterCalls'
  BY Zenon, <1>1, <1>2 DEF WriterCalls
<1> QED
  BY Zenon, <1>7, <1>8, <1>9, <1>10, <1>11 DEF WriterInv

\* The last statements are flushed unless they are empty.
LEMMA LastInsertKeeps ==
    ASSUME SqlInv, WriterInv, client = "writer", client' = client, LastInsert
    PROVE  WriterInv'
<1>0. /\ WriterTypes /\ BufferInv /\ QueueInv /\ SentInv /\ StoredInv /\ WriterCalls
      /\ "output" \in Open /\ Open \subseteq Targets
      /\ unsent # {} => Target \in unsent
  BY Zenon, OpenFacts DEF WriterInv
<1> USE DEF args, database
<1>1. /\ wpc = "row" /\ i = rows_processed
      /\ \/ wpc' = "last" /\ unsent' = Open
         \/ out_buffer = Prefix /\ wpc' = "done" /\ unsent' = unsent
      /\ UNCHANGED <<rows_processed, boost, i, len, out_buffer, new_buffer, used,
                     queued, failed, sent, stored, skipped>>
      /\ UNCHANGED sqlVars
  BY <1>0, SizeAssumption DEF LastInsert, BufferInv
<1>2. /\ ~InCall' /\ SQL_readonly' = SQL_readonly /\ Open' = Open
      /\ Collected' = Collected
  BY <1>0, <1>1, SqlSame DEF WriterCalls, Open, Collected, Pending
<1>3. \A t \in Open : /\ RowsOf(t)' = RowsOf(t) /\ ~Dispatched(t) /\ ~Settled(t)
                      /\ RowsOf(t) # {} => ~Dispatched(t)' /\ ~Settled(t)'
  BY <1>0, <1>1, <1>2 DEF QueueInv, RowsOf, Dispatched, Settled
<1>4. WriterTypes' /\ BufferInv'
  BY Zenon, <1>0, <1>1, <1>2 DEF WriterTypes, BufferInv
<1>5. QueueInv'
  BY <1>0, <1>1, <1>2, <1>3 DEF QueueInv
<1>6. SentInv'
  BY Zenon, <1>0, <1>1, <1>2, <1>3 DEF SentInv
<1>7. StoredInv'
  BY ZenonT(60), <1>0, <1>1, <1>2, <1>3 DEF StoredInv
<1>8. WriterCalls'
  BY Zenon, <1>1, <1>2 DEF WriterCalls
<1> QED
  BY Zenon, <1>4, <1>5, <1>6, <1>7, <1>8 DEF WriterInv

\* Everything was sent.
LEMMA WrittenKeeps ==
    ASSUME SqlInv, WriterInv, client = "writer", client' = client, Written
    PROVE  WriterInv'
<1>0. /\ WriterTypes /\ BufferInv /\ QueueInv /\ SentInv /\ StoredInv /\ WriterCalls
      /\ "output" \in Open /\ Open \subseteq Targets
      /\ unsent # {} => Target \in unsent
  BY Zenon, OpenFacts DEF WriterInv
<1> USE DEF args, database
<1>1. /\ wpc = "last" /\ unsent = {} /\ wpc' = "done"
      /\ UNCHANGED <<rows_processed, boost, i, len, out_buffer, new_buffer, used,
                     queued, unsent, failed, sent, stored, skipped>>
      /\ UNCHANGED sqlVars
  BY Zenon DEF Written
<1>2. /\ ~InCall' /\ SQL_readonly' = SQL_readonly /\ Open' = Open
      /\ Collected' = Collected
  BY <1>0, <1>1, SqlSame DEF WriterCalls, Open, Collected, Pending
<1>3. \A t \in Targets : /\ RowsOf(t)' = RowsOf(t)
                         /\ Dispatched(t) /\ Dispatched(t)'
                         /\ Settled(t) /\ Settled(t)'
  BY Zenon, <1>1 DEF RowsOf, Dispatched, Settled
<1>4. WriterTypes' /\ BufferInv'
  BY Zenon, <1>0, <1>1, <1>2 DEF WriterTypes, BufferInv
<1>5. QueueInv'
  BY <1>0, <1>1, <1>2, <1>3 DEF QueueInv
<1>6. SentInv'
  BY Zenon, <1>0, <1>1, <1>2, <1>3 DEF SentInv
<1>7. StoredInv'
  BY Zenon, <1>0, <1>1, <1>2, <1>3 DEF StoredInv
<1>8. WriterCalls'
  BY Zenon, <1>1, <1>2 DEF WriterCalls
<1> QED
  BY Zenon, <1>4, <1>5, <1>6, <1>7, <1>8 DEF WriterInv

\* Every step of the writer: a row is skipped, or goes into one statement for each
\* destination, and each statement is sent once and its loss remembered.
LEMMA WriterStepKeeps ==
    ASSUME SqlInv, WriterInv, client = "writer", client' = client, WriterStep
    PROVE  WriterInv'
BY Zenon, BeginRowsKeeps, FormatRowKeeps, SendTargetKeeps, SentKeeps,
   FlushedKeeps, AppendRowKeeps, LastInsertKeeps, WrittenKeeps DEF WriterStep

-----------------------------------------------------------------------------
(* The schedule *)

ScheduleTypes ==
    /\ cpc \in {"cycle", "select", "write", "schedule", "time", "errors", "end"}
    /\ due \subseteq Steps /\ owed \subseteq Steps
    /\ waited \in [Steps -> Nat]
    /\ device_failed \in BOOLEAN /\ twice \in BOOLEAN

\* What the step of an item holds w updates after it was stored: a multiple of the
\* interval is counted down to zero; a step below the interval stays due; any other
\* step is a number of intervals away from its start, and above zero.
Counted(s, w, next) ==
    /\ next \in Int
    /\ s % Interval = 0 => w * Interval <= s /\ next = IF w = 0 THEN 0 ELSE s - w * Interval
    /\ s < Interval => next <= 0
    /\ ~ComesRound(s) => IF w = 0 THEN next = 0
                         ELSE next > 0 /\ \E m \in Nat : next = s - m * Interval

\* Until an update is executed twice the step counts down the updates since the
\* item was stored.
StepInv ==
    ~twice => /\ rrd_next_step \in [Steps -> Int]
              /\ \A s \in Steps : Counted(s, waited[s], rrd_next_step[s])

\* An update of the schedule finds nothing owed.
OwedInv ==
    /\ owed \subseteq Due
    /\ client # "schedule" => cpc = "cycle"
    /\ client = "schedule" /\ cpc = "cycle" => ~InCall
    /\ cpc = "write" => due = Due /\ owed = Due
    /\ cpc = "schedule" =>
          /\ InCall => ~device_failed
          /\ sql # "idle" \/ applied > 0 => ~SQL_readonly
          /\ ~device_failed /\ ~SQL_readonly =>
                owed = {} /\ \A s \in Due : waited[s] = 0

ScheduleInv == ScheduleTypes /\ StepInv /\ OwedInv

-----------------------------------------------------------------------------
(* poller_push_data_to_main() *)

\* The versions on the main server are of this cycle or older.
MainTypes ==
    /\ main = [t \in Tables |-> main[t]]
    /\ \A t \in Tables : main[t] \in [DOMAIN Rows(t) -> 0..cycle]

TransferTypes ==
    /\ tpc \in {"start", "query", "fetch", "flush", "add", "last", "end"}
    /\ cycle \in Nat \ {0} /\ exit_code \in {0, 1}
    /\ table \in Tables
    /\ k \in Nat /\ rows \in Nat /\ filled \in Nat
    /\ MainTypes

\* The rows that are neither in the buffer nor still to be added.
Before == (IF tpc \in {"flush", "add"} THEN k - 1 ELSE k) - rows
BatchInv ==
    /\ StatementFits
    /\ tpc \in {"fetch", "flush", "add", "last"} => Before >= 0 /\ k <= Len(Rows(table))
    /\ tpc \in {"flush", "add"} => k > 0
    /\ tpc = "add" => ~BatchFull(Rows(table)[k])
    /\ tpc = "last" => k = Len(Rows(table))

\* Rows of the main server ordered by age, host rows first.
InOrder ==
    /\ \A t \in Tables : \A m, n \in DOMAIN Rows(t) : m < n => main[t][m] >= main[t][n]
    /\ \A m \in DOMAIN HostRows, n \in DOMAIN ItemRows :
          main["host"][m] >= main["poller_item"][n]

Copied(t, n) == \A m \in DOMAIN Rows(t) : m <= n => main[t][m] = cycle
CopyInv ==
    /\ InOrder
    /\ client # "transfer" => tpc = "start"
    /\ client = "transfer" => ~SQL_readonly
    /\ tpc = "start" => table = "host"
    /\ exit_code = 1 => tpc = "end"
    /\ table = "poller_item" => Copied("host", Len(Rows("host")))
    /\ tpc \in {"fetch", "flush", "add", "last"} => Copied(table, Before)
    /\ tpc = "end" /\ exit_code = 0 =>
          table = "poller_item" /\ Copied(table, Len(Rows(table)))

TransferInv == TransferTypes /\ BatchInv /\ CopyInv

-----------------------------------------------------------------------------

IInv == SqlInv /\ WriterInv /\ ScheduleInv /\ TransferInv

\* So every step keeps the invariant of the handle.
LEMMA SqlInvStep == IInv /\ [Next]_vars => SqlInv'
BY Zenon, HandleUse, StatementKeeps, BeginKeeps, TakeKeeps, ReopenKeeps, SqlSame DEF IInv

-----------------------------------------------------------------------------
(* The copy to the main server *)

\* The rows of the two plans of poller_push_data_to_main().
LEMMA RowsType ==
    /\ \A t \in Tables : /\ Rows(t) \in Seq(Nat) /\ Len(Rows(t)) \in Nat
                         /\ DOMAIN Rows(t) = 1..Len(Rows(t))
    /\ Rows("host") = HostRows /\ Rows("poller_item") = ItemRows
BY TransferAssumption DEF Rows, Tables

\* A batch follows the rows that were copied, so it leaves the main server in order.
LEMMA AppliedKeeps ==
    ASSUME TransferInv, tpc \in {"flush", "last"}, NEW n \in Nat, Applied(n)
    PROVE  /\ InOrder' /\ main' = [t \in Tables |-> main'[t]]
           /\ \A t \in Tables : main'[t] \in [DOMAIN Rows(t) -> 0..cycle]
           /\ table = "poller_item" =>
                 \A m \in DOMAIN Rows("host") : main'["host"][m] = cycle
           /\ n > 0 => \A m \in DOMAIN Rows(table) : m <= Last => main'[table][m] = cycle
<1>0. /\ table \in Tables /\ cycle \in Nat \ {0} /\ MainTypes /\ InOrder
      /\ k \in Nat /\ rows \in Nat /\ Before = Last - rows /\ Last \in Int
  BY RowsType DEF TransferInv, TransferTypes, BatchInv, CopyInv, Before, Last
<1>1. CASE n = 0
  <2>1. main' = main
    BY Zenon, <1>1 DEF Applied
  <2>2. /\ main' = [t \in Tables |-> main'[t]]
        /\ \A t \in Tables : main'[t] \in [DOMAIN Rows(t) -> 0..cycle]
    BY Zenon, <1>0, <2>1 DEF MainTypes
  <2>3. InOrder'
    BY Zenon, <1>0, <2>1 DEF InOrder
  <2>4. table = "poller_item" =>
           \A m \in DOMAIN Rows("host") : main'["host"][m] = cycle
    BY <2>1, RowsType DEF TransferInv, CopyInv, Copied, Tables
  <2> QED
    BY <1>1, <2>2, <2>3, <2>4
<1>2. CASE n # 0
  <2>1. /\ main' = [t \in Tables |-> main'[t]]
        /\ \A t \in Tables : t # table => main'[t] = main[t]
        /\ main'[table] = [m \in DOMAIN Rows(table) |->
                              IF Last - rows < m /\ m <= Last THEN cycle
                                                              ELSE main[table][m]]
    BY Zenon, <1>0, <1>2 DEF Applied, MainTypes
  <2>2. \A m \in DOMAIN Rows(table) :
           /\ main[table][m] \in 0..cycle
           /\ main'[table][m] = IF m <= Last THEN cycle ELSE main[table][m]
    <3>1. \A m \in DOMAIN Rows(table) : m <= Last - rows => main[table][m] = cycle
      BY Zenon, <1>0 DEF TransferInv, CopyInv, Copied
    <3>2. \A m \in DOMAIN Rows(table) : m \in Nat /\ main[table][m] \in 0..cycle
      BY <1>0, RowsType DEF MainTypes
    <3> QED
      BY <1>0, <2>1, <3>1, <3>2
  <2>3. \A t \in Tables : main'[t] \in [DOMAIN Rows(t) -> 0..cycle]
    BY <1>0, <2>1, <2>2 DEF MainTypes
  <2>4. \A t \in Tables : \A m \in DOMAIN Rows(t) :
           main[t][m] \in 0..cycle /\ main'[t][m] \in 0..cycle /\ m \in Nat
    BY <1>0, <2>3, RowsType DEF MainTypes
  <2>5. \A t \in Tables : \A m, q \in DOMAIN Rows(t) : m < q => main'[t][m] >= main'[t][q]
    <3>1. ASSUME NEW t \in Tables, NEW m \in DOMAIN Rows(t), NEW q \in DOMAIN Rows(t), m < q
          PROVE  main'[t][m] >= main'[t][q]
      <4>0. main[t][m] >= main[t][q]
        BY Zenon, <1>0, <3>1 DEF InOrder
      <4>1. CASE t # table
        BY Zenon, <2>1, <4>0, <4>1
      <4>2. CASE t = table
        <5>1. CASE m <= Last
          BY <1>0, <2>2, <2>4, <4>2, <5>1
        <5>2. CASE ~(m <= Last)
          BY <1>0, <2>2, <2>4, <3>1, <4>0, <4>2, <5>2
        <5> QED
          BY Zenon, <5>1, <5>2
      <4> QED
        BY Zenon, <4>1, <4>2
    <3> QED
      BY Zenon, <3>1
  <2>6. table = "poller_item" =>
           \A m \in DOMAIN Rows("host") : main'["host"][m] = cycle
    BY <2>1, RowsType DEF TransferInv, CopyInv, Copied, Tables
  <2>7. \A m \in DOMAIN HostRows, q \in DOMAIN ItemRows :
           main'["host"][m] >= main'["poller_item"][q]
    <3>1. ASSUME NEW m \in DOMAIN HostRows, NEW q \in DOMAIN ItemRows
          PROVE  main'["host"][m] >= main'["poller_item"][q]
      <4>1. /\ main["host"][m] >= main["poller_item"][q]
            /\ main["host"][m] \in 0..cycle /\ main'["host"][m] \in 0..cycle
            /\ main["poller_item"][q] \in 0..cycle /\ main'["poller_item"][q] \in 0..cycle
        BY Zenon, <1>0, <2>4, RowsType DEF InOrder, Tables
      <4>2. CASE table = "host"
        <5>1. /\ main'["poller_item"] = main["poller_item"]
              /\ main'["host"][m] \in {cycle, main["host"][m]}
          BY Zenon, <2>1, <2>2, <4>2, RowsType DEF Tables
        <5> QED
          BY <1>0, <4>1, <5>1
      <4>3. CASE table = "poller_item"
        <5>1. main'["host"][m] = cycle
          BY Zenon, <2>6, <4>3, RowsType
        <5> QED
          BY <1>0, <4>1, <5>1
      <4> QED
        BY Zenon, <1>0, <4>2, <4>3 DEF Tables
    <3> QED
      BY Zenon, <3>1
  <2> QED
    BY Zenon, <1>0, <2>1, <2>2, <2>3, <2>5, <2>6, <2>7 DEF InOrder
<1> QED
  BY Zenon, <1>1, <1>2

\* The copy depends on its own variables, and on SQL_readonly.
LEMMA TransferSame ==
    ASSUME TransferInv, UNCHANGED <<transferVars, client, SQL_readonly>>
    PROVE  TransferInv'
<1> USE DEF transferVars, progress
<1>1. TransferTypes'
  BY Zenon DEF TransferInv, TransferTypes, MainTypes
<1>2. BatchInv'
  BY Zenon DEF TransferInv, BatchInv, StatementFits, Before, BatchFull
<1>3. CopyInv'
  BY Zenon DEF TransferInv, CopyInv, InOrder, Copied, Before
<1> QED
  BY Zenon, <1>1, <1>2, <1>3 DEF TransferInv

\* Leaving transfer_table() after every row of the table was copied, or with exit
\* code 1.
LEMMA LeaveKeeps ==
    ASSUME TransferTypes, BatchInv, CopyInv, client = "transfer", client' = client,
           SQL_readonly' = SQL_readonly, tpc # "start", tpc # "end", cycle' = cycle,
           NEW success \in BOOLEAN, Leave(success),
           k' \in Nat, rows' \in Nat, filled' \in Nat, StatementFits',
           MainTypes', InOrder',
           table = "poller_item" => Copied("host", Len(Rows("host")))',
           success => \A m \in DOMAIN Rows(table) : main'[table][m] = cycle
    PROVE  TransferInv'
<1>1. /\ tpc' \in {"query", "end"} /\ table' \in Tables /\ exit_code' \in {0, 1}
      /\ tpc' = "query" => success /\ table = "host" /\ table' = "poller_item"
      /\ exit_code' = 1 => tpc' = "end"
      /\ tpc' = "end" /\ exit_code' = 0 => success /\ table' = table /\ table = "poller_item"
      /\ table' = "poller_item" => table = "poller_item" \/ (success /\ table = "host")
  BY Zenon DEF TransferTypes, CopyInv, Leave, Tables
<1>2. TransferTypes'
  BY Zenon, <1>1 DEF TransferTypes
<1>3. BatchInv'
  BY Zenon, <1>1 DEF BatchInv
<1>4. table' = "poller_item" => Copied("host", Len(Rows("host")))'
  BY Zenon, <1>1 DEF Copied
<1>5. tpc' = "end" /\ exit_code' = 0 =>
         table' = "poller_item" /\ Copied(table, Len(Rows(table)))'
  BY Zenon, <1>1 DEF Copied
<1>6. CopyInv'
  BY Zenon, <1>1, <1>4, <1>5 DEF CopyInv
<1> QED
  BY Zenon, <1>2, <1>3, <1>6 DEF TransferInv

\* The connections are opened, or the copy fails.
LEMMA PushKeeps ==
    ASSUME SqlInv, TransferInv, client = "transfer", client' = client, Push
    PROVE  TransferInv'
<1>0. TransferTypes /\ BatchInv /\ CopyInv /\ ~SQL_readonly
  BY Zenon DEF TransferInv, CopyInv
<1>1. /\ UNCHANGED <<cycle, table, k, rows, filled, main, SQL_readonly>>
      /\ tpc = "start" /\ tpc' \in {"query", "end"} /\ exit_code' \in {0, 1}
      /\ tpc' = "query" => exit_code' = exit_code
      /\ tpc' = "end" => exit_code' = 1
  BY Zenon, <1>0 DEF Push, sqlVars, TransferTypes
<1>2. TransferTypes'
  BY Zenon, <1>0, <1>1 DEF TransferTypes, MainTypes
<1>3. BatchInv'
  BY Zenon, <1>0, <1>1 DEF BatchInv, StatementFits
<1>4. InOrder' /\ (table' = "poller_item" => Copied("host", Len(Rows("host")))')
  BY Zenon, <1>0, <1>1 DEF CopyInv, InOrder, Copied
<1>5. CopyInv'
  BY Zenon, <1>0, <1>1, <1>4 DEF CopyInv, TransferTypes
<1> QED
  BY Zenon, <1>2, <1>3, <1>5 DEF TransferInv

\* The rows of a table are selected, or the copy fails.
LEMMA QueryTableKeeps ==
    ASSUME SqlInv, TransferInv, client = "transfer", client' = client, QueryTable
    PROVE  TransferInv'
<1>0. TransferTypes /\ BatchInv /\ CopyInv /\ ~SQL_readonly
  BY Zenon DEF TransferInv, CopyInv
<1>1. /\ UNCHANGED <<cycle, main, SQL_readonly>> /\ tpc = "query"
      /\ k' = 0 /\ rows' = 0 /\ filled' = 0
      /\ \/ tpc' = "fetch" /\ table' = table /\ exit_code' = exit_code
         \/ Leave(FALSE)
  BY Zenon DEF QueryTable, sqlVars
<1>2. MainTypes' /\ InOrder' /\ StatementFits'
  <2>1. MainTypes'
    BY Zenon, <1>0, <1>1 DEF TransferTypes, MainTypes
  <2>2. InOrder' /\ StatementFits'
    BY <1>0, <1>1 DEF CopyInv, InOrder, StatementFits
  <2> QED
    BY Zenon, <2>1, <2>2
<1>3. table = "poller_item" => Copied("host", Len(Rows("host")))'
  BY Zenon, <1>0, <1>1 DEF CopyInv, Copied
<1>4. CASE Leave(FALSE)
  BY <1>0, <1>1, <1>2, <1>3, <1>4, LeaveKeeps, Zenon
<1>5. CASE tpc' = "fetch" /\ table' = table /\ exit_code' = exit_code
  <2>1. TransferTypes'
    BY Zenon, <1>0, <1>1, <1>2, <1>5 DEF TransferTypes
  <2>2. BatchInv'
    BY <1>0, <1>1, <1>2, <1>5, RowsType DEF TransferTypes, BatchInv, Before
  <2>3. Before' = 0
    BY <1>1, <1>5 DEF Before
  <2>4. Copied(table, Before)'
    BY <1>0, <1>5, <2>3, RowsType DEF TransferTypes, Copied
  <2>5. CopyInv'
    BY Zenon, <1>0, <1>1, <1>2, <1>3, <1>5, <2>4 DEF CopyInv
  <2> QED
    BY Zenon, <2>1, <2>2, <2>5 DEF TransferInv
<1> QED
  BY <1>1, <1>4, <1>5, Zenon

\* A row is fetched; a full batch is sent before it is added.
LEMMA FetchKeeps ==
    ASSUME SqlInv, TransferInv, client = "transfer", client' = client, Fetch
    PROVE  TransferInv'
<1>0. TransferTypes /\ BatchInv /\ CopyInv /\ ~SQL_readonly
  BY Zenon DEF TransferInv, CopyInv
<1>1. /\ UNCHANGED <<cycle, table, exit_code, rows, filled, main, SQL_readonly>>
      /\ tpc = "fetch" /\ k < Len(Rows(table)) /\ k' = k + 1
      /\ tpc' = IF BatchFull(Rows(table)[k + 1]) THEN "flush" ELSE "add"
  BY Zenon DEF Fetch, progress, sqlVars
<1>2. TransferTypes'
  BY <1>0, <1>1 DEF TransferTypes, MainTypes
<1>3. Before' = Before /\ tpc' \in {"flush", "add"}
  BY <1>0, <1>1 DEF TransferTypes, Before
<1>4. tpc' = "add" => ~BatchFull(Rows(table)[k])'
  BY Zenon, <1>1 DEF BatchFull
<1>5. BatchInv'
  BY <1>0, <1>1, <1>3, <1>4, RowsType DEF TransferTypes, BatchInv, StatementFits
<1>6. InOrder' /\ (table' = "poller_item" => Copied("host", Len(Rows("host")))')
  BY Zenon, <1>0, <1>1 DEF CopyInv, InOrder, Copied
<1>7. Copied(table, Before)'
  BY Zenon, <1>0, <1>1, <1>3 DEF CopyInv, Copied
<1>8. CopyInv'
  BY Zenon, <1>0, <1>1, <1>3, <1>6, <1>7 DEF CopyInv
<1> QED
  BY Zenon, <1>2, <1>5, <1>8 DEF TransferInv

\* A batch is sent.
LEMMA SendBatchKeeps ==
    ASSUME SqlInv, TransferInv, client = "transfer", client' = client, SendBatch
    PROVE  TransferInv'
<1>0. TransferTypes /\ BatchInv /\ CopyInv /\ ~SQL_readonly
  BY Zenon DEF TransferInv, CopyInv
<1>1. SQL_readonly' = SQL_readonly
  BY BeginKeeps, Zenon DEF SendBatch
<1> QED
  BY Zenon, <1>1, TransferSame DEF SendBatch

\* A full batch was copied, or the copy fails.
LEMMA BatchSentKeeps ==
    ASSUME SqlInv, TransferInv, client = "transfer", client' = client, BatchSent
    PROVE  TransferInv'
<1>0. TransferTypes /\ BatchInv /\ CopyInv /\ ~SQL_readonly
  BY Zenon DEF TransferInv, CopyInv
<1>1. /\ tpc = "flush" /\ UNCHANGED <<cycle, k, filled, SQL_readonly>>
      /\ applied \in Nat /\ Applied(applied) /\ (outcome = "ok" => applied > 0)
      /\ IF outcome = "ok"
         THEN rows' = 0 /\ tpc' = "add" /\ UNCHANGED <<table, exit_code>>
         ELSE Leave(FALSE) /\ UNCHANGED rows
  BY <1>0, TakeKeeps, Zenon DEF BatchSent
<1>2. /\ MainTypes' /\ InOrder'
      /\ table = "poller_item" => Copied("host", Len(Rows("host")))'
      /\ applied > 0 => \A m \in DOMAIN Rows(table) :
                           m <= Last => main'[table][m] = cycle
  BY Zenon, <1>1, AppliedKeeps DEF MainTypes, Copied
<1>3. CASE outcome # "ok"
  <2>1. StatementFits' /\ k' \in Nat /\ rows' \in Nat /\ filled' \in Nat
    BY Zenon, <1>0, <1>1, <1>3 DEF BatchInv, StatementFits, TransferTypes
  <2> QED
    BY <1>0, <1>1, <1>2, <1>3, <2>1, LeaveKeeps, Zenon
<1>4. CASE outcome = "ok"
  <2>0. rows' = 0 /\ tpc' = "add" /\ UNCHANGED <<table, exit_code>> /\ applied > 0
    BY Zenon, <1>1, <1>4
  <2>1. TransferTypes'
    BY Zenon, <1>0, <1>1, <1>2, <2>0 DEF TransferTypes
  <2>2. BatchInv'
    BY <1>0, <1>1, <2>0 DEF TransferTypes, BatchInv, Before, BatchFull, StatementFits
  <2>3. Before' = Last
    BY <1>0, <1>1, <2>0 DEF TransferTypes, Before, Last
  <2>4. Copied(table, Before)'
    BY Zenon, <1>1, <1>2, <2>0, <2>3 DEF Copied
  <2>5. CopyInv'
    BY Zenon, <1>0, <1>1, <1>2, <2>0, <2>4 DEF CopyInv
  <2> QED
    BY Zenon, <2>1, <2>2, <2>5 DEF TransferInv
<1> QED
  BY Zenon, <1>3, <1>4

\* A row is added to a buffer that has room for it.
LEMMA AddKeeps ==
    ASSUME SqlInv, TransferInv, client = "transfer", client' = client, Add
    PROVE  TransferInv'
<1>0. TransferTypes /\ BatchInv /\ CopyInv /\ ~SQL_readonly
  BY Zenon DEF TransferInv, CopyInv
<1>1. /\ UNCHANGED <<cycle, table, exit_code, k, main, SQL_readonly>>
      /\ tpc = "add" /\ tpc' = "fetch" /\ rows' = rows + 1
      /\ filled' = (IF rows = 0 THEN Insert ELSE filled + 2) + Rows(table)[k]
  BY Zenon DEF Add, progress, sqlVars
<1>2. /\ k \in DOMAIN Rows(table) /\ table \in Tables /\ Rows(table)[k] \in Nat
      /\ k \in Nat /\ rows \in Nat /\ filled \in Nat
  BY <1>0, <1>1, RowsType DEF TransferTypes, BatchInv
<1>3. TransferTypes'
  <2>1. MainTypes'
    BY Zenon, <1>0, <1>1 DEF TransferTypes, MainTypes
  <2> QED
    BY <1>0, <1>1, <1>2, <2>1, TransferAssumption DEF TransferTypes
<1>4. Before' = Before
  BY <1>1, <1>2 DEF Before
<1>5. StatementFits'
  <2>1. rows > 0 => Rows(table)[k] + OnDuplicate + 3 <= BufSize - filled
    BY <1>0, <1>1, <1>2, TransferAssumption DEF BatchInv, BatchFull
  <2>2. Insert + Rows(table)[k] + OnDuplicate < BufSize
    BY Zenon, <1>2, TransferAssumption
  <2>3. Insert \in Nat /\ OnDuplicate \in Nat /\ BufSize \in Nat
    BY Zenon, TransferAssumption
  <2> DEFINE r == Rows(table)[k]
  <2>4. r \in Nat /\ (rows > 0 => r + OnDuplicate + 3 <= BufSize - filled)
          /\ Insert + r + OnDuplicate < BufSize
          /\ filled' = (IF rows = 0 THEN Insert ELSE filled + 2) + r
    BY Zenon, <1>1, <1>2, <2>1, <2>2
  <2> HIDE DEF r
  <2>5. filled' + OnDuplicate < BufSize
    BY <1>2, <2>3, <2>4
  <2> QED
    BY Zenon, <2>5 DEF StatementFits
<1>6. BatchInv'
  BY Zenon, <1>0, <1>1, <1>4, <1>5 DEF BatchInv
<1>7. InOrder' /\ (table' = "poller_item" => Copied("host", Len(Rows("host")))')
  BY Zenon, <1>0, <1>1 DEF CopyInv, InOrder, Copied
<1>8. Copied(table, Before)'
  BY Zenon, <1>0, <1>1, <1>4 DEF CopyInv, Copied
<1>9. CopyInv'
  BY Zenon, <1>0, <1>1, <1>7, <1>8 DEF CopyInv
<1> QED
  BY Zenon, <1>3, <1>6, <1>9 DEF TransferInv

\* The rows of a table are exhausted.
LEMMA EndTableKeeps ==
    ASSUME SqlInv, TransferInv, client = "transfer", client' = client, EndTable
    PROVE  TransferInv'
<1>0. TransferTypes /\ BatchInv /\ CopyInv /\ ~SQL_readonly
  BY Zenon DEF TransferInv, CopyInv
<1>1. /\ UNCHANGED <<cycle, k, rows, filled, main, SQL_readonly>>
      /\ tpc = "fetch" /\ k = Len(Rows(table))
      /\ \/ Leave(FALSE)
         \/ rows = 0 /\ Leave(TRUE)
         \/ rows > 0 /\ tpc' = "last" /\ UNCHANGED <<table, exit_code>>
  BY Zenon DEF EndTable, sqlVars
<1>2. MainTypes' /\ InOrder' /\ StatementFits' /\ k \in Nat /\ rows \in Nat
  BY Zenon, <1>0, <1>1 DEF TransferTypes, CopyInv, MainTypes, InOrder, BatchInv, StatementFits
<1>3. table = "poller_item" => Copied("host", Len(Rows("host")))'
  BY Zenon, <1>0, <1>1 DEF CopyInv, Copied
<1>4. k' \in Nat /\ rows' \in Nat /\ filled' \in Nat
  BY Zenon, <1>0, <1>1 DEF TransferTypes
<1>5. CASE Leave(FALSE)
  BY <1>0, <1>1, <1>2, <1>3, <1>4, <1>5, LeaveKeeps, Zenon
<1>6. CASE rows = 0 /\ Leave(TRUE)
  <2>1. \A m \in DOMAIN Rows(table) : main'[table][m] = cycle
    BY <1>0, <1>1, <1>2, <1>6, RowsType DEF TransferTypes, CopyInv, Copied, Before
  <2> QED
    BY <1>0, <1>1, <1>2, <1>3, <1>4, <1>6, <2>1, LeaveKeeps, Zenon
<1>7. CASE tpc' = "last" /\ UNCHANGED <<table, exit_code>>
  <2>1. TransferTypes'
    BY Zenon, <1>0, <1>1, <1>2, <1>7 DEF TransferTypes
  <2>2. Before' = Before
    BY Zenon, <1>1, <1>7 DEF Before
  <2>3. BatchInv'
    BY Zenon, <1>0, <1>1, <1>2, <1>7, <2>2 DEF BatchInv
  <2>4. Copied(table, Before)'
    BY Zenon, <1>0, <1>1, <1>7, <2>2 DEF CopyInv, Copied
  <2>5. CopyInv'
    BY Zenon, <1>0, <1>1, <1>2, <1>3, <1>7, <2>4 DEF CopyInv
  <2> QED
    BY Zenon, <2>1, <2>3, <2>5 DEF TransferInv
<1> QED
  BY <1>1, <1>5, <1>6, <1>7, Zenon

\* The last batch of a table was copied, or the copy fails.
LEMMA LastSentKeeps ==
    ASSUME SqlInv, TransferInv, client = "transfer", client' = client, LastSent
    PROVE  TransferInv'
<1>0. TransferTypes /\ BatchInv /\ CopyInv /\ ~SQL_readonly
  BY Zenon DEF TransferInv, CopyInv
<1>1. /\ tpc = "last" /\ UNCHANGED <<cycle, k, rows, filled, SQL_readonly>>
      /\ applied \in Nat /\ Applied(applied) /\ (outcome = "ok" => applied > 0)
      /\ Leave(outcome = "ok")
  BY Zenon, <1>0, TakeKeeps DEF LastSent
<1>2. /\ MainTypes' /\ InOrder'
      /\ table = "poller_item" => Copied("host", Len(Rows("host")))'
      /\ applied > 0 => \A m \in DOMAIN Rows(table) :
                           m <= Last => main'[table][m] = cycle
  BY Zenon, <1>1, AppliedKeeps DEF MainTypes, Copied
<1>3. StatementFits' /\ k' \in Nat /\ rows' \in Nat /\ filled' \in Nat
  BY Zenon, <1>0, <1>1 DEF BatchInv, StatementFits, TransferTypes
<1>4. Last = Len(Rows(table))
  BY Zenon, <1>0, <1>1 DEF BatchInv, Last
<1>5. outcome = "ok" => \A m \in DOMAIN Rows(table) : main'[table][m] = cycle
  BY <1>0, <1>1, <1>2, <1>4, RowsType DEF TransferTypes
<1>6. (outcome = "ok") \in BOOLEAN
  BY Zenon
<1> QED
  BY <1>0, <1>1, <1>2, <1>3, <1>5, <1>6, LeaveKeeps, Zenon

\* The next cycle finds the rows on the main server as old as they are.
LEMMA NextPushKeeps ==
    ASSUME SqlInv, TransferInv, client = "transfer", client' = client, NextPush
    PROVE  TransferInv'
<1>0. TransferTypes /\ BatchInv /\ CopyInv /\ ~SQL_readonly
  BY Zenon DEF TransferInv, CopyInv
<1>1. /\ cycle' = cycle + 1 /\ tpc' = "start" /\ table' = "host"
      /\ k' = 0 /\ rows' = 0 /\ filled' = 0 /\ exit_code' = 0
      /\ SQL_readonly' = SQL_readonly
      /\ \/ tpc \in {"flush", "last"} /\ \E n \in Executions : Applied(n)
         \/ main' = main
  BY Zenon, ReopenKeeps DEF NextPush
<1>2. /\ InOrder' /\ main' = [t \in Tables |-> main'[t]]
      /\ \A t \in Tables : main'[t] \in [DOMAIN Rows(t) -> 0..cycle]
  <2>1. CASE main' = main
    <3>1. InOrder'
      BY Zenon, <1>0, <2>1 DEF CopyInv, InOrder
    <3> QED
      BY Zenon, <1>0, <2>1, <3>1 DEF TransferTypes, MainTypes
  <2>2. ASSUME tpc \in {"flush", "last"}, NEW n \in Executions, Applied(n)
        PROVE  /\ InOrder' /\ main' = [t \in Tables |-> main'[t]]
               /\ \A t \in Tables : main'[t] \in [DOMAIN Rows(t) -> 0..cycle]
    <3>1. n \in Nat
      BY DEF Executions, SqlInv, SqlTypes
    <3> QED
      BY Zenon, <2>2, <3>1, AppliedKeeps
  <2> QED
    BY Zenon, <1>1, <2>1, <2>2
<1>3. MainTypes' /\ cycle' \in Nat \ {0}
  <2>1. cycle \in Nat /\ cycle' \in Nat \ {0} /\ 0..cycle \subseteq 0..cycle'
    BY <1>0, <1>1 DEF TransferTypes
  <2>2. ASSUME NEW t \in Tables PROVE main'[t] \in [DOMAIN Rows(t) -> 0..cycle']
    BY Zenon, <1>2, <2>1
  <2> QED
    BY Zenon, <1>2, <2>1, <2>2 DEF MainTypes
<1>4. TransferTypes'
  BY Zenon, <1>1, <1>3 DEF TransferTypes, Tables
<1>5. BatchInv'
  BY <1>1 DEF BatchInv, StatementFits
<1>6. CopyInv'
  BY <1>0, <1>1, <1>2 DEF CopyInv
<1> QED
  BY Zenon, <1>4, <1>5, <1>6 DEF TransferInv

\* Every step of the copy: rows are fetched and added in order, a batch is sent
\* before it outgrows its buffer, and no table is left but complete or with a
\* failure.
LEMMA TransferStepKeeps ==
    ASSUME SqlInv, TransferInv, client = "transfer", client' = client, TransferStep
    PROVE  TransferInv'
BY Zenon, PushKeeps, QueryTableKeeps, FetchKeeps, SendBatchKeeps,
   BatchSentKeeps, AddKeeps, EndTableKeeps, LastSentKeeps,
   NextPushKeeps DEF TransferStep

-----------------------------------------------------------------------------
(* The schedule *)

\* An update that was not executed moves nothing; executed once it moves an item by
\* one interval.
LEMMA MovedFew ==
    ASSUME NEW s, NEW next
    PROVE  Moved(s, next, 0) = next /\ Moved(s, next, 1) = NextStep(s, next)
<1>1. Moved(s, next, 0) = next
  <2> DEFINE D(f) == f = [m \in 0..0 |-> IF m = 0 THEN next ELSE NextStep(s, f[m - 1])]
             g == [m \in 0..0 |-> next]
  <2>1. D(g)
    OBVIOUS
  <2>2. D(CHOOSE f : D(f))
    <3> HIDE DEF D, g
    <3> QED
      BY <2>1, Zenon
  <2>3. \A f : D(f) => f[0] = next
    OBVIOUS
  <2> QED
    BY <2>2, <2>3, Zenon DEF Moved
<1>2. Moved(s, next, 1) = NextStep(s, next)
  <2> DEFINE D(f) == f = [m \in 0..1 |-> IF m = 0 THEN next ELSE NextStep(s, f[m - 1])]
             g == [m \in 0..1 |-> IF m = 0 THEN next ELSE NextStep(s, next)]
  <2>1. D(g)
    OBVIOUS
  <2>2. D(CHOOSE f : D(f))
    <3> HIDE DEF D, g
    <3> QED
      BY <2>1, Zenon
  <2>3. \A f : D(f) => f[1] = NextStep(s, next)
    OBVIOUS
  <2> QED
    BY <2>2, <2>3, Zenon DEF Moved
<1> QED
  BY Zenon, <1>1, <1>2

\* A step of whole intervals that waits counts down by the interval and comes to
\* zero exactly.
LEMMA CountDown ==
    ASSUME NEW s \in Steps, NEW w \in Nat, w * Interval < s, s % Interval = 0
    PROVE  /\ (w + 1) * Interval <= s
           /\ NextStep(s, IF w = 0 THEN 0 ELSE s - w * Interval) = s - (w + 1) * Interval
<1>0. /\ s \in Nat \ {0} /\ Interval \in Nat \ {0} /\ s % Interval = 0
  BY Zenon, ScheduleAssumption
<1>1. PICK q \in Nat : s = q * Interval
  BY <1>0
<1>2. w < q
  BY <1>0, <1>1
<1>3. /\ (w + 1) * Interval = w * Interval + Interval
      /\ w * Interval \in Nat
      /\ w = 0 => w * Interval = 0
      /\ w # 0 => w * Interval >= Interval
  BY <1>0
<1>4. (w + 1) * Interval <= s
  BY <1>0, <1>1, <1>2
<1>5. CASE w = 0
  BY <1>0, <1>3, <1>5 DEF NextStep
<1>6. CASE w # 0
  BY <1>0, <1>3, <1>4, <1>6 DEF NextStep
<1> QED
  BY Zenon, <1>4, <1>5, <1>6

\* A number of intervals leaves no remainder.
LEMMA WholeIntervals ==
    ASSUME NEW m \in Nat
    PROVE  (m * Interval) % Interval = 0
<1>0. Interval \in Nat /\ Interval > 0
  BY ScheduleAssumption
<1> DEFINE d == (m * Interval) \div Interval
           r == (m * Interval) % Interval
<1>1. /\ m * Interval \in Nat /\ d \in Int /\ r \in 0..(Interval - 1)
      /\ m * Interval = Interval * d + r
  BY <1>0
<1> HIDE DEF d, r
<1>2. CASE m > d
  <2>1. PICK e \in Nat : m = d + 1 + e
    BY <1>1, <1>2
  <2>2. /\ m * Interval = Interval * d + Interval + e * Interval
        /\ e * Interval >= 0
    BY <1>0, <1>1, <2>1
  <2> QED
    BY <1>0, <1>1, <2>2
<1>3. CASE m < d
  <2>0. d - m - 1 \in Nat /\ d = m + 1 + (d - m - 1)
    BY <1>1, <1>3
  <2>1. PICK e \in Nat : d = m + 1 + e
    BY Zenon, <2>0
  <2>2. /\ Interval * d = m * Interval + Interval + e * Interval
        /\ e * Interval >= 0
    BY <1>0, <1>1, <2>1
  <2> QED
    BY <1>0, <1>1, <2>2
<1>4. CASE m = d
  BY <1>0, <1>1, <1>4 DEF r
<1> QED
  BY <1>1, <1>2, <1>3, <1>4

\* Any other step longer than the interval skips zero: it stays above it.
LEMMA SkipsZero ==
    ASSUME NEW s \in Steps, ~ComesRound(s), NEW next \in Int,
           next = 0 \/ (next > 0 /\ \E m \in Nat : next = s - m * Interval)
    PROVE  /\ NextStep(s, next) \in Int /\ NextStep(s, next) > 0
           /\ \E m \in Nat : NextStep(s, next) = s - m * Interval
<1>0. /\ s \in Nat /\ Interval \in Nat /\ Interval > 0
      /\ s % Interval # 0 /\ ~(s < Interval)
  BY ScheduleAssumption DEF ComesRound
<1>1. Interval % Interval = 0
  <2>1. (1 * Interval) % Interval = 0
    BY WholeIntervals
  <2>2. 1 * Interval = Interval
    BY <1>0
  <2> QED
    BY Zenon, <2>1, <2>2
<1>2. s # Interval
  BY Zenon, <1>0, <1>1
<1>3. CASE next - Interval < 0
  <2>1. NextStep(s, next) = s - Interval
    BY <1>0, <1>2, <1>3 DEF NextStep
  <2>2. s - Interval = s - 1 * Interval /\ s - Interval \in Int /\ s - Interval > 0
    BY <1>0, <1>2
  <2> QED
    BY <2>1, <2>2
<1>4. CASE ~(next - Interval < 0)
  <2>1. NextStep(s, next) = next - Interval
    BY <1>0, <1>2, <1>4 DEF NextStep
  <2>2. PICK m \in Nat : next = s - m * Interval
    BY <1>0, <1>4
  <2>3. /\ m + 1 \in Nat /\ m * Interval \in Int
        /\ (m + 1) * Interval = m * Interval + Interval
    BY <1>0
  <2>4. next - Interval = s - (m + 1) * Interval
    BY <1>0, <2>2, <2>3
  <2>5. s # (m + 1) * Interval
    BY Zenon, <1>0, <2>3, WholeIntervals
  <2>6. next - Interval \in Int /\ next - Interval > 0
    BY <1>0, <1>4, <2>2, <2>3, <2>4, <2>5
  <2> QED
    BY Zenon, <2>1, <2>3, <2>4, <2>6
<1> QED
  BY Zenon, <1>3, <1>4

\* One update of an item that is either not due or has just been stored.
LEMMA CountedNext ==
    ASSUME NEW s \in Steps, NEW w \in Nat, NEW next, Counted(s, w, next),
           next <= 0 => w = 0
    PROVE  Counted(s, IF w * Interval < s THEN w + 1 ELSE w, NextStep(s, next))
<1>0. /\ s \in Nat /\ s > 0 /\ Interval \in Nat /\ Interval > 0 /\ next \in Int
  BY ScheduleAssumption DEF Counted
<1>1. w * Interval \in Nat /\ (w = 0 => w * Interval = 0)
  BY <1>0
<1> DEFINE v == IF w * Interval < s THEN w + 1 ELSE w
           after == NextStep(s, next)
<1>2. CASE s % Interval = 0
  <2>1. /\ w * Interval <= s
        /\ next = IF w = 0 THEN 0 ELSE s - w * Interval
    BY Zenon, <1>2 DEF Counted
  <2>2. w * Interval < s
    BY <1>0, <1>1, <2>1
  <2>3. /\ (w + 1) * Interval <= s
        /\ after = s - (w + 1) * Interval
    BY Zenon, <1>2, <2>1, <2>2, CountDown
  <2>4. v = w + 1 /\ w + 1 # 0 /\ (w + 1) * Interval \in Int
    BY <1>0, <2>2
  <2>5. ~(s < Interval) /\ ComesRound(s)
    BY <1>0, <1>2 DEF ComesRound
  <2>6. after \in Int
    BY <1>0, <2>3, <2>4
  <2> HIDE DEF v, after
  <2>7. Counted(s, v, after)
    BY Zenon, <2>3, <2>4, <2>5, <2>6 DEF Counted
  <2> QED
    BY <2>7 DEF v, after
<1>3. CASE s < Interval
  <2>1. next <= 0
    BY Zenon, <1>3 DEF Counted
  <2>2. after = s - Interval /\ s - Interval \in Int /\ s - Interval <= 0
    BY <1>0, <1>3, <2>1 DEF NextStep
  <2>3. s % Interval # 0 /\ ComesRound(s)
    BY <1>0, <1>3 DEF ComesRound
  <2> HIDE DEF v, after
  <2>4. Counted(s, v, after)
    BY Zenon, <2>2, <2>3 DEF Counted
  <2> QED
    BY <2>4 DEF v, after
<1>4. CASE ~ComesRound(s)
  <2>1. IF w = 0 THEN next = 0
        ELSE next > 0 /\ \E m \in Nat : next = s - m * Interval
    BY Zenon, <1>4 DEF Counted
  <2>2. next = 0 \/ (next > 0 /\ \E m \in Nat : next = s - m * Interval)
    BY Zenon, <2>1
  <2>3. /\ after \in Int /\ after > 0
        /\ \E m \in Nat : after = s - m * Interval
    BY Zenon, <1>0, <1>4, <2>2, SkipsZero
  <2>4. v # 0
    BY <1>0, <1>1
  <2> HIDE DEF v, after
  <2>5. s % Interval # 0 /\ ~(s < Interval)
    BY Zenon, <1>4 DEF ComesRound
  <2>6. Counted(s, v, after)
    BY Zenon, <1>4, <2>3, <2>4, <2>5 DEF Counted
  <2> QED
    BY <2>6 DEF v, after
<1> QED
  BY Zenon, <1>2, <1>3, <1>4 DEF ComesRound

\* The UPDATE of poller_item, executed any number of times: nothing owed is moved.
LEMMA AdvancedKeeps ==
    ASSUME ScheduleTypes, StepInv, owed \subseteq Due, NEW n \in Nat, Advanced(n),
           n > 0 => owed = {} /\ \A s \in Due : waited[s] = 0
    PROVE  /\ StepInv' /\ owed' \subseteq Due' /\ owed' = owed
           /\ waited' \in [Steps -> Nat] /\ twice' \in BOOLEAN
<1>0. Steps \subseteq Nat \ {0} /\ Interval \in Nat \ {0} /\ waited \in [Steps -> Nat]
  BY Zenon, ScheduleAssumption DEF ScheduleTypes
<1>1. owed' = owed /\ waited' \in [Steps -> Nat] /\ twice' \in BOOLEAN
  <2>1. (twice \/ n > 1) \in BOOLEAN
    BY Zenon
  <2> QED
    BY <1>0, <2>1 DEF Advanced, ScheduleTypes
<1>2. CASE n = 0
  <2>1. /\ rrd_next_step' = [s \in Steps |-> rrd_next_step[s]]
        /\ waited' = [s \in Steps |-> waited[s]] /\ twice' = twice
    BY <1>2, MovedFew DEF Advanced, ScheduleTypes
  <2>2. Due' = Due
    BY Zenon, <2>1 DEF Due
  <2>3. StepInv'
    BY Zenon, <2>1 DEF StepInv
  <2> QED
    BY Zenon, <1>1, <2>2, <2>3
<1>3. CASE n = 1
  <2>1. /\ rrd_next_step' = [s \in Steps |-> NextStep(s, rrd_next_step[s])]
        /\ waited' = [s \in Steps |-> IF waited[s] * Interval < s
                                      THEN waited[s] + 1 ELSE waited[s]]
        /\ twice' = twice
    BY <1>3, MovedFew DEF Advanced, ScheduleTypes
  <2>2. ASSUME ~twice', NEW s \in Steps
        PROVE  Counted(s, waited'[s], rrd_next_step'[s]) /\ rrd_next_step'[s] \in Int
    <3>1. Counted(s, waited[s], rrd_next_step[s])
      BY Zenon, <2>1, <2>2 DEF StepInv
    <3>2. rrd_next_step[s] <= 0 => waited[s] = 0
      BY <1>3, <2>2 DEF Due
    <3>3. waited[s] \in Nat
      BY Zenon, <1>0
    <3>4. Counted(s, IF waited[s] * Interval < s THEN waited[s] + 1 ELSE waited[s],
                  NextStep(s, rrd_next_step[s]))
      BY Zenon, <3>1, <3>2, <3>3, CountedNext
    <3> QED
      BY Zenon, <2>1, <3>4 DEF Counted
  <2>3. StepInv'
    BY Zenon, <2>1, <2>2 DEF StepInv
  <2> QED
    BY <1>1, <1>3, <2>3
<1>4. CASE n > 1
  <2>1. twice'
    BY <1>4, Zenon DEF Advanced
  <2> QED
    BY <1>1, <1>4, <2>1 DEF StepInv
<1> QED
  BY <1>2, <1>3, <1>4

\* A due item is stored, and counts from there.
LEMMA StoredAnew ==
    ASSUME NEW s \in Steps, NEW w \in Nat, NEW next, Counted(s, w, next), next <= 0
    PROVE  Counted(s, 0, next)
<1>0. /\ s \in Nat /\ s > 0 /\ Interval \in Nat /\ Interval > 0 /\ next \in Int
  BY ScheduleAssumption DEF Counted
<1>1. 0 * Interval = 0 /\ w * Interval \in Nat
  BY <1>0
<1>2. s % Interval = 0 => next = 0
  <2> SUFFICES ASSUME s % Interval = 0 PROVE next = 0
    BY Zenon
  <2>1. w * Interval <= s /\ next = IF w = 0 THEN 0 ELSE s - w * Interval
    BY Zenon DEF Counted
  <2> QED
    BY <1>0, <1>1, <2>1
<1>3. ~ComesRound(s) => next = 0
  <2> SUFFICES ASSUME ~ComesRound(s) PROVE next = 0
    BY Zenon
  <2>1. IF w = 0 THEN next = 0 ELSE next > 0
    BY Zenon DEF Counted
  <2> QED
    BY <1>0, <2>1
<1>4. 0 * Interval <= s
  BY <1>0, <1>1
<1> QED
  BY Zenon, <1>0, <1>2, <1>3, <1>4 DEF Counted

\* An item is due as its count says.
LEMMA DueWhenCounted ==
    ASSUME NEW s \in Steps, NEW w \in Nat, NEW next, Counted(s, w, next)
    PROVE  next <= 0 <=> \/ w = 0
                         \/ ComesRound(s) /\ w * Interval >= s
<1>0. /\ s \in Nat /\ s > 0 /\ Interval \in Nat /\ Interval > 0 /\ next \in Int
      /\ w * Interval \in Nat /\ (w # 0 => w * Interval >= Interval)
  BY ScheduleAssumption DEF Counted
<1>1. CASE s % Interval = 0
  <2>1. w * Interval <= s /\ next = IF w = 0 THEN 0 ELSE s - w * Interval
    BY Zenon, <1>1 DEF Counted
  <2> QED
    BY <1>0, <1>1, <2>1 DEF ComesRound
<1>2. CASE s < Interval
  <2>1. next <= 0
    BY Zenon, <1>2 DEF Counted
  <2> QED
    BY <1>0, <1>2, <2>1 DEF ComesRound
<1>3. CASE ~ComesRound(s)
  <2>1. IF w = 0 THEN next = 0 ELSE next > 0
    BY Zenon, <1>3 DEF Counted
  <2> QED
    BY <1>0, <1>3, <2>1
<1> QED
  BY Zenon, <1>1, <1>2, <1>3 DEF ComesRound

\* The output of the due items is written: they are owed no more.
LEMMA StoredKeeps ==
    ASSUME ScheduleTypes, StepInv, due = Due, owed = Due, NEW n \in Nat, Stored(n)
    PROVE  /\ StepInv' /\ owed' \subseteq Due' /\ Due' = Due /\ owed' \subseteq Steps
           /\ waited' \in [Steps -> Nat] /\ twice' \in BOOLEAN
           /\ n > 0 => owed' = {} /\ \A s \in Due : waited'[s] = 0
<1>0. Steps \subseteq Nat \ {0} /\ Interval \in Nat \ {0} /\ waited \in [Steps -> Nat]
  BY Zenon, ScheduleAssumption DEF ScheduleTypes
<1>1. /\ rrd_next_step' = rrd_next_step /\ twice' = twice
      /\ waited' = [s \in Steps |-> IF n > 0 /\ s \in Due THEN 0 ELSE waited[s]]
      /\ owed' = IF n > 0 THEN {} ELSE Due
  BY Zenon DEF Stored
<1>2. Due' = Due
  BY Zenon, <1>1 DEF Due
<1>3. waited' \in [Steps -> Nat]
  BY Zenon, <1>0, <1>1
<1>4. ASSUME ~twice', NEW s \in Steps
      PROVE  Counted(s, waited'[s], rrd_next_step'[s])
  <2>1. Counted(s, waited[s], rrd_next_step[s])
    BY Zenon, <1>1, <1>4 DEF StepInv
  <2>2. CASE n > 0 /\ s \in Due
    <3>1. waited'[s] = 0 /\ rrd_next_step'[s] = rrd_next_step[s] /\ rrd_next_step[s] <= 0
      BY Zenon, <1>1, <2>2 DEF Due
    <3>2. Counted(s, 0, rrd_next_step[s])
      BY <1>0, <2>1, <3>1, StoredAnew
    <3> QED
      BY Zenon, <3>1, <3>2
  <2>3. CASE ~(n > 0 /\ s \in Due)
    BY Zenon, <1>1, <2>1, <2>3
  <2> QED
    BY Zenon, <2>2, <2>3
<1>5. StepInv'
  BY Zenon, <1>1, <1>4 DEF StepInv
<1>6. Due \subseteq Steps
  BY Zenon DEF Due
<1> QED
  BY Zenon, <1>1, <1>2, <1>3, <1>5, <1>6 DEF ScheduleTypes

\* A step that is not the schedule's: at most the statement of the schedule goes on.
LEMMA ScheduleSame ==
    ASSUME SqlInv, ScheduleInv, UNCHANGED <<scheduleVars, client, SQL_readonly>>,
           \/ client # "schedule" \/ SqlStep \/ UNCHANGED sqlVars
    PROVE  ScheduleInv'
<1> USE DEF scheduleVars, row
<1>1. ScheduleTypes'
  BY Zenon DEF ScheduleInv, ScheduleTypes
<1>2. StepInv'
  BY Zenon DEF ScheduleInv, StepInv
<1>3. Due' = Due
  BY Zenon DEF Due
<1>4. OwedInv'
  <2>1. CASE client # "schedule"
    BY Zenon, <1>3, <2>1 DEF ScheduleInv, OwedInv
  <2>2. CASE client = "schedule" /\ SqlStep
    BY Zenon, <1>3, <2>2, StatementKeeps DEF ScheduleInv, OwedInv
  <2>3. CASE UNCHANGED sqlVars
    BY <1>3, <2>3, SqlSame DEF ScheduleInv, OwedInv
  <2> QED
    BY Zenon, <2>1, <2>2, <2>3
<1> QED
  BY Zenon, <1>1, <1>2, <1>4 DEF ScheduleInv

\* The cycle asks for the due items.
LEMMA SelectItemsKeeps ==
    ASSUME SqlInv, ScheduleInv, client = "schedule", client' = client, SelectItems
    PROVE  ScheduleInv'
<1>0. ScheduleTypes /\ StepInv /\ OwedInv
  BY Zenon DEF ScheduleInv
<1> USE DEF row, scheduleVars
<1>1. /\ cpc = "cycle" /\ cpc' = "select" /\ UNCHANGED <<row, due, device_failed>>
      /\ SQL_readonly' = SQL_readonly
  BY BeginKeeps, Zenon DEF SelectItems
<1>2. ScheduleTypes' /\ Due' = Due
  BY Zenon, <1>0, <1>1 DEF ScheduleTypes, Due
<1>3. StepInv'
  BY Zenon, <1>0, <1>1 DEF StepInv
<1>4. OwedInv'
  BY Zenon, <1>0, <1>1, <1>2 DEF OwedInv
<1> QED
  BY Zenon, <1>2, <1>3, <1>4 DEF ScheduleInv

\* The due items are owed their output.
LEMMA SelectedKeeps ==
    ASSUME SqlInv, ScheduleInv, client = "schedule", client' = client, Selected
    PROVE  ScheduleInv'
<1>0. ScheduleTypes /\ StepInv /\ OwedInv
  BY Zenon DEF ScheduleInv
<1> USE DEF row, scheduleVars
<1>1. /\ cpc = "select" /\ UNCHANGED <<rrd_next_step, waited, twice>>
      /\ SQL_readonly' = SQL_readonly /\ ~InCall' /\ sql' = "idle" /\ applied' = 0
      /\ \/ /\ due' = Due /\ owed' = owed \cup Due /\ device_failed' = device_failed
            /\ cpc' = IF Due = {} THEN "schedule" ELSE "write"
         \/ /\ cpc' = "end" /\ due' = due /\ owed' = owed /\ device_failed' = TRUE
  BY Zenon, TakeKeeps DEF Selected
<1>2. Due' = Due /\ Due \subseteq Steps /\ owed \subseteq Due
  BY Zenon, <1>0, <1>1 DEF Due, OwedInv
<1>3. ScheduleTypes'
  BY <1>0, <1>1, <1>2, Zenon DEF ScheduleTypes
<1>4. StepInv'
  BY Zenon, <1>0, <1>1 DEF StepInv
<1>5. owed' \subseteq Due /\ (cpc' = "write" => due' = Due /\ owed' = Due)
  BY Zenon, <1>1, <1>2
<1>6. cpc' = "schedule" => Due = {} /\ owed' = {}
  BY Zenon, <1>1, <1>2
<1>7. cpc' # "cycle"
  BY Zenon, <1>1
<1>8. OwedInv'
  BY <1>1, <1>2, <1>5, <1>6, <1>7 DEF OwedInv
<1> QED
  BY Zenon, <1>3, <1>4, <1>8 DEF ScheduleInv

\* Their output is sent.
LEMMA WriteOutputKeeps ==
    ASSUME SqlInv, ScheduleInv, client = "schedule", client' = client, WriteOutput
    PROVE  ScheduleInv'
<1>0. ScheduleTypes /\ StepInv /\ OwedInv
  BY Zenon DEF ScheduleInv
<1> USE DEF row, scheduleVars
<1>1. /\ cpc = "write" /\ UNCHANGED <<cpc, row, due, device_failed>>
      /\ SQL_readonly' = SQL_readonly
  BY BeginKeeps, Zenon DEF WriteOutput
<1>2. ScheduleTypes' /\ Due' = Due
  BY Zenon, <1>0, <1>1 DEF ScheduleTypes, Due
<1>3. StepInv'
  BY Zenon, <1>0, <1>1 DEF StepInv
<1>4. OwedInv'
  BY Zenon, <1>0, <1>1, <1>2 DEF OwedInv
<1> QED
  BY Zenon, <1>2, <1>3, <1>4 DEF ScheduleInv

\* Their output is stored, or the device failed.
LEMMA OutputWrittenKeeps ==
    ASSUME SqlInv, ScheduleInv, client = "schedule", client' = client, OutputWritten
    PROVE  ScheduleInv'
<1>0. ScheduleTypes /\ StepInv /\ OwedInv
  BY Zenon DEF ScheduleInv
<1> USE DEF row, scheduleVars
<1>1. /\ cpc = "write" /\ cpc' = "schedule" /\ due' = due
      /\ applied \in Nat /\ Stored(applied) /\ device_failed' = (outcome = "failed")
      /\ SQL_readonly' = SQL_readonly /\ ~InCall' /\ sql' = "idle" /\ applied' = 0
      /\ outcome # "failed" => applied > 0 \/ SQL_readonly
  BY Zenon, TakeKeeps DEF OutputWritten
<1>2. /\ StepInv' /\ owed' \subseteq Due' /\ Due' = Due /\ owed' \subseteq Steps
      /\ waited' \in [Steps -> Nat] /\ twice' \in BOOLEAN
      /\ applied > 0 => owed' = {} /\ \A s \in Due : waited'[s] = 0
  BY Zenon, <1>0, <1>1, StoredKeeps DEF OwedInv
<1>3. ScheduleTypes'
  <2>1. (outcome = "failed") \in BOOLEAN
    BY Zenon
  <2> QED
    BY Zenon, <1>0, <1>1, <1>2, <2>1 DEF ScheduleTypes
<1>4. ~device_failed' /\ ~SQL_readonly' => owed' = {} /\ \A s \in Due' : waited'[s] = 0
  BY <1>1, <1>2, Zenon
<1>5. OwedInv'
  BY <1>1, <1>2, <1>4 DEF OwedInv
<1> QED
  BY Zenon, <1>2, <1>3, <1>5 DEF ScheduleInv

\* The schedule is updated unless the device failed.
LEMMA UpdateScheduleKeeps ==
    ASSUME SqlInv, ScheduleInv, client = "schedule", client' = client, UpdateSchedule
    PROVE  ScheduleInv'
<1>0. ScheduleTypes /\ StepInv /\ OwedInv
  BY Zenon DEF ScheduleInv
<1> USE DEF row, scheduleVars
<1>1. /\ cpc = "schedule" /\ UNCHANGED <<row, due, device_failed>>
      /\ \/ ~device_failed /\ Begin(TRUE) /\ cpc' = cpc
         \/ cpc' = "time" /\ UNCHANGED sqlVars
  BY Zenon DEF UpdateSchedule, UpdatesSchedule
<1>2. Due' = Due /\ ScheduleTypes'
  BY <1>0, <1>1, Zenon DEF ScheduleTypes, Due
<1>3. StepInv'
  BY Zenon, <1>0, <1>1 DEF StepInv
<1>4. CASE ~device_failed /\ Begin(TRUE) /\ cpc' = cpc
  <2>1. /\ SQL_readonly' = SQL_readonly /\ applied' = 0
        /\ SQL_readonly => sql' = "idle"
    BY <1>4, BeginKeeps, Zenon
  <2>2. OwedInv'
    BY <1>0, <1>1, <1>2, <1>4, <2>1 DEF OwedInv
  <2> QED
    BY Zenon, <1>2, <1>3, <2>2 DEF ScheduleInv
<1>5. CASE cpc' = "time"
  <2>1. OwedInv'
    BY Zenon, <1>0, <1>1, <1>2, <1>5 DEF OwedInv
  <2> QED
    BY Zenon, <1>2, <1>3, <2>1 DEF ScheduleInv
<1> QED
  BY <1>1, <1>4, <1>5, Zenon

\* The update was executed, as often as it was retried.
LEMMA ScheduleUpdatedKeeps ==
    ASSUME SqlInv, ScheduleInv, client = "schedule", client' = client, ScheduleUpdated
    PROVE  ScheduleInv'
<1>0. ScheduleTypes /\ StepInv /\ OwedInv
  BY Zenon DEF ScheduleInv
<1> USE DEF row, scheduleVars
<1>1. /\ cpc = "schedule" /\ cpc' = "time" /\ UNCHANGED <<due, device_failed>>
      /\ applied \in Nat /\ Advanced(applied) /\ InCall
  BY Zenon, TakeKeeps DEF ScheduleUpdated
<1>2. applied > 0 => owed = {} /\ \A s \in Due : waited[s] = 0
  BY Zenon, <1>0, <1>1 DEF OwedInv
<1>3. owed \subseteq Due
  BY Zenon, <1>0 DEF OwedInv
<1>4. /\ StepInv' /\ owed' \subseteq Due' /\ owed' = owed
      /\ waited' \in [Steps -> Nat] /\ twice' \in BOOLEAN
  BY Zenon, <1>0, <1>1, <1>2, <1>3, AdvancedKeeps
<1>5. ScheduleTypes'
  BY Zenon, <1>0, <1>1, <1>4 DEF ScheduleTypes
<1>6. OwedInv'
  BY Zenon, <1>1, <1>4 DEF OwedInv
<1> QED
  BY Zenon, <1>4, <1>5, <1>6 DEF ScheduleInv

\* The other statements of complete_poll_host() leave the schedule alone.
LEMMA RecordsKeeps ==
    ASSUME SqlInv, ScheduleInv, client = "schedule", client' = client, (PollingTime \/ HostErrors \/ NoErrors)
    PROVE  ScheduleInv'
<1>0. ScheduleTypes /\ StepInv /\ OwedInv
  BY Zenon DEF ScheduleInv
<1> USE DEF row, scheduleVars
<1>1. /\ cpc' \in {"time", "errors", "end"}
      /\ UNCHANGED <<row, due, device_failed>>
  BY Zenon DEF PollingTime, HostErrors, NoErrors, Record
<1>2. Due' = Due /\ ScheduleTypes'
  BY Zenon, <1>0, <1>1 DEF ScheduleTypes, Due
<1>3. StepInv'
  BY Zenon, <1>0, <1>1 DEF StepInv
<1>4. OwedInv'
  BY Zenon, <1>0, <1>1, <1>2 DEF OwedInv
<1> QED
  BY Zenon, <1>2, <1>3, <1>4 DEF ScheduleInv

\* The process ends between any two steps, with a statement on its way.
LEMMA NextCycleKeeps ==
    ASSUME SqlInv, ScheduleInv, client = "schedule", client' = client, NextCycle
    PROVE  ScheduleInv'
<1>0. ScheduleTypes /\ StepInv /\ OwedInv
  BY Zenon DEF ScheduleInv
<1> USE DEF row, scheduleVars
<1>1. /\ cpc' = "cycle" /\ due' = {} /\ device_failed' = FALSE /\ ~InCall'
      /\ \/ cpc = "write" /\ \E n \in Executions : Stored(n)
         \/ cpc = "schedule" /\ \E n \in Executions : Advanced(n)
         \/ UNCHANGED <<rrd_next_step, owed, waited, twice>>
  BY Zenon, ReopenKeeps DEF NextCycle
<1>2. /\ Executions \subseteq Nat
      /\ \A n \in Executions : n > 0 => sql # "idle" \/ applied > 0
  BY DEF Executions, SqlInv, SqlTypes
<1>3. /\ StepInv' /\ owed' \subseteq Due' /\ owed' \subseteq Steps
      /\ waited' \in [Steps -> Nat] /\ twice' \in BOOLEAN
  <2>1. CASE UNCHANGED <<rrd_next_step, owed, waited, twice>>
    <3>1. Due' = Due
      BY Zenon, <2>1 DEF Due
    <3>2. StepInv'
      BY Zenon, <1>0, <2>1 DEF StepInv
    <3> QED
      BY Zenon, <1>0, <2>1, <3>1, <3>2 DEF ScheduleTypes, OwedInv
  <2>2. ASSUME cpc = "write", NEW n \in Executions, Stored(n)
        PROVE  /\ StepInv' /\ owed' \subseteq Due' /\ owed' \subseteq Steps
               /\ waited' \in [Steps -> Nat] /\ twice' \in BOOLEAN
    BY Zenon, <1>0, <1>2, <2>2, StoredKeeps DEF OwedInv
  <2>3. ASSUME cpc = "schedule", NEW n \in Executions, Advanced(n)
        PROVE  /\ StepInv' /\ owed' \subseteq Due' /\ owed' \subseteq Steps
               /\ waited' \in [Steps -> Nat] /\ twice' \in BOOLEAN
    <3>1. n > 0 => InCall /\ ~SQL_readonly
      BY <1>0, <1>2, <2>3 DEF OwedInv, SqlInv, CallInv, InCall
    <3>2. n > 0 => owed = {} /\ \A s \in Due : waited[s] = 0
      BY Zenon, <1>0, <2>3, <3>1 DEF OwedInv
    <3>3. owed \subseteq Due /\ owed \subseteq Steps /\ n \in Nat
      BY Zenon, <1>0, <1>2 DEF OwedInv, ScheduleTypes
    <3> QED
      BY Zenon, <1>0, <2>3, <3>2, <3>3, AdvancedKeeps
  <2> QED
    BY Zenon, <1>1, <2>1, <2>2, <2>3
<1>4. ScheduleTypes'
  BY <1>0, <1>1, <1>3, Zenon DEF ScheduleTypes
<1>5. OwedInv'
  BY Zenon, <1>1, <1>3 DEF OwedInv
<1> QED
  BY Zenon, <1>3, <1>4, <1>5 DEF ScheduleInv

\* Every step of a cycle, and the end of the process between any two of them.
LEMMA ScheduleStepKeeps ==
    ASSUME SqlInv, ScheduleInv, client = "schedule", client' = client, ScheduleStep
    PROVE  ScheduleInv'
BY Zenon, SelectItemsKeeps, SelectedKeeps, WriteOutputKeeps, OutputWrittenKeeps,
   UpdateScheduleKeeps, ScheduleUpdatedKeeps, RecordsKeeps, NextCycleKeeps DEF ScheduleStep

-----------------------------------------------------------------------------
(* The theorems *)

\* A handle of the pool, and each of its clients before it starts.
LEMMA InitInv == Init => IInv
<1> SUFFICES ASSUME Init PROVE IInv
  BY Zenon
<1>1. /\ client \in {"writer", "schedule", "transfer"}
      /\ client = "transfer" => ~SQL_readonly
      /\ SqlInit /\ WriterInit /\ ScheduleInit /\ TransferInit
  BY Zenon DEF Init
<1>2. SqlInv /\ ~InCall
  BY <1>1, Zenon DEF SqlInit, SqlInv, SqlTypes, ModeInv, CallInv, InCall, RetryKeepsMode
<1>3. WriterInv
  <2> USE DEF WriterInit
  <2>1. /\ wpc = "begin" /\ i = 0 /\ Collected = {} /\ Open = {"output"}
        /\ \A t \in Targets : RowsOf(t) = {} /\ queued[t] = <<>>
        /\ "output" \in Targets /\ "boost" \in Targets
    BY <1>1 DEF Collected, Pending, Open, RowsOf, Targets
  <2>2. WriterTypes
    <3>1. boost \in BOOLEAN /\ failed \in BOOLEAN /\ new_buffer \in BOOLEAN
      BY <1>1, Zenon
    <3>2. /\ rows_processed \in 0..MaxRows /\ i \in 0..rows_processed /\ len \in 0..RowMax
          /\ unsent = {} /\ skipped = {}
      BY <1>1, SizeAssumption
    <3> QED
      BY Zenon, <2>1, <3>1, <3>2 DEF WriterTypes
  <2>3. BufferInv
    BY <1>1, <2>1, SizeAssumption DEF BufferInv, PrefixOf
  <2>4. QueueInv
    <3>1. <<>> \in Queue
      BY DEF Queue
    <3> QED
      BY <1>1, <2>1, <3>1 DEF QueueInv
  <2>5. SentInv
    BY Zenon, <1>1, <2>1 DEF SentInv
  <2>6. StoredInv
    BY Zenon, <1>1, <2>1 DEF StoredInv
  <2>7. WriterCalls
    BY Zenon, <1>2, <2>1 DEF WriterCalls
  <2> QED
    BY Zenon, <2>2, <2>3, <2>4, <2>5, <2>6, <2>7 DEF WriterInv
<1>4. ScheduleInv
  <2> USE DEF ScheduleInit
  <2>1. ScheduleTypes
    BY <1>1, Zenon DEF ScheduleTypes
  <2>2. StepInv
    <3>1. ASSUME NEW s \in Steps PROVE Counted(s, 0, 0)
      BY ScheduleAssumption DEF Counted
    <3>2. /\ rrd_next_step = [s \in Steps |-> 0] /\ waited = [s \in Steps |-> 0]
          /\ 0 \in Int
      BY <1>1
    <3> HIDE DEF Counted
    <3> QED
      BY <3>1, <3>2 DEF StepInv
  <2>3. OwedInv
    BY Zenon, <1>1, <1>2 DEF OwedInv
  <2> QED
    BY Zenon, <2>1, <2>2, <2>3 DEF ScheduleInv
<1>5. TransferInv
  <2> USE DEF TransferInit
  <2>1. MainTypes /\ InOrder
    BY <1>1, RowsType DEF MainTypes, InOrder, Tables
  <2>2. TransferTypes
    BY <1>1, <2>1 DEF TransferTypes, Tables
  <2>3. BatchInv
    BY <1>1 DEF BatchInv, StatementFits
  <2>4. CopyInv
    BY <1>1, <2>1 DEF CopyInv
  <2> QED
    BY Zenon, <2>2, <2>3, <2>4 DEF TransferInv
<1> QED
  BY Zenon, <1>2, <1>3, <1>4, <1>5 DEF IInv

\* Every state the clients can reach satisfies the inductive invariant.
LEMMA Invariance == Spec => []IInv
<1>1. IInv /\ [Next]_vars => IInv'
  <2> SUFFICES ASSUME IInv, [Next]_vars PROVE IInv'
    BY Zenon
  <2>0. SqlInv /\ WriterInv /\ ScheduleInv /\ TransferInv /\ SqlInv'
    BY Zenon, SqlInvStep DEF IInv
  <2>1. SQL_readonly' = SQL_readonly /\ client' = client
    <3>1. \/ SqlStep \/ (\E writes \in BOOLEAN : Begin(writes)) \/ Take \/ Reopen
          \/ UNCHANGED sqlVars
      BY Zenon, HandleUse
    <3>2. SQL_readonly' = SQL_readonly
      BY Zenon, <2>0, <3>1, StatementKeeps, BeginKeeps, TakeKeeps, ReopenKeeps, SqlSame
    <3>3. client' = client
      BY Zenon DEF Next, Statement, Writer, Completion, Copy, Done, vars
    <3> QED
      BY Zenon, <3>2, <3>3
  <2>2. CASE Statement
    <3>1. SqlStep /\ UNCHANGED <<client, writerVars, scheduleVars, transferVars>>
      BY Zenon, <2>2 DEF Statement
    <3> QED
      BY Zenon, <2>0, <2>1, <3>1, WriterSame, ScheduleSame, TransferSame DEF IInv
  <2>3. CASE Writer
    <3>1. client = "writer" /\ WriterStep /\ UNCHANGED <<scheduleVars, transferVars>>
      BY Zenon, <2>3 DEF Writer
    <3> QED
      BY Zenon, <2>0, <2>1, <3>1, WriterStepKeeps, ScheduleSame, TransferSame DEF IInv
  <2>4. CASE Completion
    <3>1. client = "schedule" /\ ScheduleStep /\ UNCHANGED <<writerVars, transferVars>>
      BY Zenon, <2>4 DEF Completion
    <3> QED
      BY Zenon, <2>0, <2>1, <3>1, ScheduleStepKeeps, WriterSame, TransferSame DEF IInv
  <2>5. CASE Copy
    <3>1. client = "transfer" /\ TransferStep /\ UNCHANGED <<writerVars, scheduleVars>>
      BY Zenon, <2>5 DEF Copy
    <3> QED
      BY Zenon, <2>0, <2>1, <3>1, TransferStepKeeps, WriterSame, ScheduleSame DEF IInv
  <2>6. CASE UNCHANGED vars
    <3>1. UNCHANGED sqlVars /\ UNCHANGED <<writerVars, scheduleVars, transferVars>>
      BY Zenon, <2>6 DEF vars
    <3> QED
      BY Zenon, <2>0, <2>1, <3>1, WriterSame, ScheduleSame, TransferSame DEF IInv
  <2> QED
    BY Zenon, <2>2, <2>3, <2>4, <2>5, <2>6 DEF Next, Done
<1> QED
  BY InitInv, <1>1, PTL DEF Spec

\* db_reconnect() never lets a statement run in a session whose mode is not set:
\* with any limits on the retries.
THEOREM RetryKeepsModeThm == Spec => []RetryKeepsMode
<1>1. IInv => RetryKeepsMode
  BY Zenon DEF IInv, SqlInv, ModeInv
<1> QED
  BY <1>1, Invariance, PTL

\* The buffers of write_poll_results() and of transfer_table() hold every statement
\* they build, for all sizes that satisfy the assumptions and any number of rows.
THEOREM BuffersFitThm == Spec => []BuffersFit
<1>1. IInv => BuffersFit
  <2> SUFFICES ASSUME IInv PROVE BuffersFit
    BY Zenon
  <2>1. StatementFits
    BY Zenon DEF IInv, TransferInv, BatchInv
  <2>2. ASSUME NEW t \in Open PROVE used[t] + Suffix < MaxBuf + Slack
    <3>1. /\ t \in Targets /\ used[t] \in Nat /\ out_buffer \in Nat /\ out_buffer < MaxBuf
          /\ used[t] + Prefix = out_buffer + PrefixOf(t)
      BY Zenon, OpenFacts DEF IInv, WriterInv, BufferInv
    <3> QED
      BY <3>1, SizeAssumption DEF PrefixOf
  <2> QED
    BY Zenon, <2>1, <2>2 DEF BuffersFit, OutputFits
<1> QED
  BY <1>1, Invariance, PTL

\* write_poll_results() sends every row once to each destination, or reports the
\* failure.
THEOREM LossIsReportedThm == Spec => []LossIsReported
<1>1. IInv => LossIsReported
  <2> SUFFICES ASSUME IInv PROVE LossIsReported
    BY Zenon
  <2>0. WriterTypes /\ QueueInv /\ SentInv /\ StoredInv
    BY Zenon DEF IInv, WriterInv
  <2>1. \A t \in Open : \A n \in DOMAIN queued[t] : queued[t][n].comma = (n # 1)
    BY Zenon, <2>0 DEF QueueInv
  <2>2. ASSUME wpc = "done"
        PROVE  /\ Collected = (1..rows_processed) \ skipped
               /\ 1..rows_processed \subseteq 1..MaxRows
               /\ \A t \in Open : Settled(t) /\ Dispatched(t)
    BY <2>0, <2>2, SizeAssumption DEF WriterTypes, Collected, Pending, Settled, Dispatched
  <2>3. ASSUME wpc = "done", NEW t \in Open, NEW n \in 1..rows_processed
        PROVE  sent[t][n] = IF n \in skipped THEN 0 ELSE 1
    BY Zenon, <2>0, <2>2, <2>3 DEF SentInv
  <2>4. ASSUME wpc = "done", ~failed, ~SQL_readonly, NEW t \in Open
        PROVE  (1..rows_processed) \ skipped \subseteq stored[t]
    BY Zenon, <2>0, <2>2, <2>4 DEF StoredInv
  <2> QED
    BY Zenon, <2>1, <2>3, <2>4 DEF LossIsReported
<1> QED
  BY <1>1, Invariance, PTL

\* complete_poll_host() moves no item on that is owed, and an item becomes due
\* again exactly after its step, for any interval and any steps; one whose step is
\* longer than the interval and no multiple of it does not become due again.
THEOREM DueOnScheduleThm == Spec => []DueOnSchedule
<1>1. IInv => DueOnSchedule
  <2> SUFFICES ASSUME IInv PROVE DueOnSchedule
    BY Zenon
  <2>1. owed \subseteq Due
    BY Zenon DEF IInv, ScheduleInv, OwedInv
  <2>2. ASSUME ~twice, NEW s \in Steps
        PROVE  s \in Due <=> \/ waited[s] = 0
                             \/ ComesRound(s) /\ waited[s] * Interval >= s
    <3>1. /\ waited[s] \in Nat /\ Counted(s, waited[s], rrd_next_step[s])
      BY Zenon, <2>2 DEF IInv, ScheduleInv, ScheduleTypes, StepInv
    <3>2. s \in Due <=> rrd_next_step[s] <= 0
      BY Zenon DEF Due
    <3> QED
      BY Zenon, <3>1, <3>2, DueWhenCounted
  <2> QED
    BY Zenon, <2>1, <2>2 DEF DueOnSchedule
<1> QED
  BY <1>1, Invariance, PTL

\* poller_push_data_to_main() leaves the main server in order, whatever fails and
\* wherever a cycle ends, for any tables, limits and number of cycles.
THEOREM CopiedInOrderThm == Spec => []CopiedInOrder
<1>1. IInv => CopiedInOrder
  <2> SUFFICES ASSUME IInv PROVE CopiedInOrder
    BY Zenon
  <2>0. TransferTypes /\ CopyInv
    BY Zenon DEF IInv, TransferInv
  <2>1. InOrder
    BY Zenon, <2>0 DEF CopyInv
  <2>2. ASSUME tpc = "end", exit_code = 0, NEW t \in Tables, NEW n \in DOMAIN Rows(t)
        PROVE  main[t][n] = cycle
    <3>1. /\ Copied("host", Len(Rows("host")))
          /\ Copied("poller_item", Len(Rows("poller_item")))
      BY Zenon, <2>0, <2>2 DEF CopyInv
    <3>2. n <= Len(Rows(t))
      BY RowsType
    <3> QED
      BY Zenon, <3>1, <3>2 DEF Copied, Tables
  <2> QED
    BY Zenon, <2>1, <2>2 DEF CopiedInOrder, InOrder
<1> QED
  BY <1>1, Invariance, PTL
=============================================================================
