------------------------------ MODULE SqlRetry ------------------------------
(***************************************************************************)
(* One database handle and the statement sent over it: db_insert() and     *)
(* db_query() retry lost connections and deadlocks, db_reconnect() opens   *)
(* a new session, db_set_session_mode() relaxes its sql_mode. A client     *)
(* starts a call with Begin and goes on when it has Returned; Output,      *)
(* Schedule and Transfer are the clients, and Persist puts them together.  *)
(***************************************************************************)
EXTENDS Naturals

CONSTANTS
    MaxErrors,      \* failed attempts a statement may make (30)
    EintrTries,     \* of these, in-place retries after EINTR (3)
    ConnectTries    \* tries of db_connect() (2)

ASSUME BoundsAssumption == /\ MaxErrors \in Nat /\ EintrTries \in Nat
                           /\ ConnectTries \in Nat \ {0}

VARIABLES
    SQL_readonly,   \* the setting: db_insert() sends nothing
    sql,            \* where the call stands; "idle" between calls
    session,        \* "none", or a session whose sql_mode is "strict" or "relaxed"
    eintr,          \* errno holds EINTR, fresh or stale
    error_count, tries,
    outcome,        \* what the call returned: "ok" or "failed"
    applied,        \* the server: how many times it executed the statement
    (* history *)
    began,          \* the session the call began with
    ranStrict       \* the statement was executed in a strict session

call == <<error_count, began>>
sqlVars == <<SQL_readonly, sql, call, session, eintr, tries, outcome, applied, ranStrict>>

\* A handle of the pool: connected, its session relaxed.
SqlInit ==
    /\ SQL_readonly \in BOOLEAN
    /\ sql = "idle" /\ session = "relaxed" /\ eintr = FALSE
    /\ error_count = 0 /\ tries = 0
    /\ outcome = "none" /\ applied = 0
    /\ began = "none" /\ ranStrict = FALSE

-----------------------------------------------------------------------------
(* The interface *)

Return(value) ==
    /\ outcome' = value
    /\ sql' = "idle"

\* db_insert() if writes, else db_query().
Begin(writes) ==
    /\ sql = "idle" /\ outcome = "none"
    /\ began' = session
    /\ IF writes /\ SQL_readonly
       THEN Return("ok")
       ELSE sql' = "query" /\ UNCHANGED outcome
    /\ UNCHANGED <<SQL_readonly, error_count, session, eintr, tries, applied, ranStrict>>

Returned == sql = "idle" /\ outcome # "none"

\* The caller has seen the outcome.
Take ==
    /\ Returned
    /\ outcome' = "none" /\ applied' = 0 /\ ranStrict' = FALSE
    /\ began' = "none" /\ error_count' = 0 /\ tries' = 0
    /\ UNCHANGED <<SQL_readonly, sql, session, eintr>>

\* How often the statement at hand will have been executed if the process ends
\* now: one on its way to the server may or may not arrive.
Executions == IF sql = "query" /\ session # "none" THEN {applied, applied + 1}
              ELSE {applied}

\* Another process, with a handle of its own.
Reopen ==
    /\ sql' = "idle" /\ session' = "relaxed" /\ eintr' = FALSE
    /\ outcome' = "none" /\ applied' = 0 /\ ranStrict' = FALSE
    /\ began' = "none" /\ error_count' = 0 /\ tries' = 0
    /\ UNCHANGED SQL_readonly

-----------------------------------------------------------------------------
(* db_insert() and db_query() *)

\* The server executes the statement.
Execute ==
    /\ applied' = applied + 1
    /\ ranStrict' = (ranStrict \/ session = "strict")

\* mysql_query(): success; connection lost (2006, 2013) before or after the
\* statement took effect, or reported lost while the session lives; a lock
\* timeout or deadlock (1205, 1213); any other error.
Query ==
    /\ sql = "query"
    /\ \/ session # "none" /\ Execute /\ Return("ok") /\ UNCHANGED <<session, eintr>>
       \/ /\ \/ session # "none" /\ Execute /\ session' \in {"none", session}
             \/ session' \in {"none", session} /\ UNCHANGED <<applied, ranStrict>>
          /\ eintr' \in BOOLEAN
          /\ sql' = "lost"
          /\ UNCHANGED outcome
       \/ /\ session # "none"
          /\ sql' = "locked"
          /\ UNCHANGED <<session, eintr, outcome, applied, ranStrict>>
       \/ /\ session # "none"
          /\ Return("failed")
          /\ UNCHANGED <<session, eintr, applied, ranStrict>>
    /\ UNCHANGED <<SQL_readonly, call, tries>>

Locked ==
    /\ sql = "locked"
    /\ error_count' = error_count + 1
    /\ IF error_count' > MaxErrors
       THEN Return("failed")
       ELSE sql' = "query" /\ UNCHANGED outcome
    /\ UNCHANGED <<SQL_readonly, began, session, eintr, tries, applied, ranStrict>>

\* retry_disconnected_query()
RetryDisconnected_eintrFree ==
    /\ sql = "lost"
    /\ error_count' = IF eintr THEN error_count ELSE error_count + 1
    /\ \/ error_count' > MaxErrors /\ Return("failed")
       \/ error_count' <= MaxErrors /\ eintr /\ sql' = "query" /\ UNCHANGED outcome
       \/ error_count' <= MaxErrors /\ ~eintr /\ sql' = "ping" /\ UNCHANGED outcome
    /\ UNCHANGED <<SQL_readonly, began, session, eintr, tries, applied, ranStrict>>

RetryDisconnected ==
    /\ sql = "lost"
    /\ error_count' = error_count + 1
    /\ LET inPlace == eintr /\ error_count' <= EintrTries IN
       \/ error_count' > MaxErrors /\ Return("failed")
       \/ error_count' <= MaxErrors /\ inPlace /\ sql' = "query" /\ UNCHANGED outcome
       \/ error_count' <= MaxErrors /\ ~inPlace /\ sql' = "ping" /\ UNCHANGED outcome
    /\ UNCHANGED <<SQL_readonly, began, session, eintr, tries, applied, ranStrict>>

-----------------------------------------------------------------------------
(* db_reconnect() *)

\* Back to the statement: send it again, or give up.
Reconnected(value) ==
    \/ value = "unreachable" /\ Return("failed")
    \/ value # "unreachable" /\ sql' = "query" /\ UNCHANGED outcome

\* mysql_ping(): the library opened a session by itself, the session is alive,
\* or it must be closed and opened again.
Ping ==
    /\ sql = "ping"
    /\ \/ /\ session' = "strict"
          /\ sql' = "mode"
          /\ UNCHANGED <<tries, outcome>>
       \/ /\ session # "none"
          /\ Reconnected("alive")
          /\ UNCHANGED <<session, tries>>
       \/ /\ session' = "none"
          /\ tries' = ConnectTries
          /\ sql' = "connect"
          /\ UNCHANGED outcome
    /\ UNCHANGED <<SQL_readonly, call, eintr, applied, ranStrict>>

\* The tries of db_connect(); an unknown database, host or password ends them.
Connect_noMode ==
    /\ sql = "connect"
    /\ session' = "strict" /\ tries' = tries - 1 /\ Reconnected("new")
    /\ UNCHANGED <<SQL_readonly, call, eintr, applied, ranStrict>>

Connect ==
    /\ sql = "connect"
    /\ \/ /\ session' = "strict"
          /\ tries' = tries - 1
          /\ sql' = "mode"
          /\ UNCHANGED outcome
       \/ /\ tries' \in {tries - 1, 0}
          /\ IF tries' > 0 THEN sql' = "connect" /\ UNCHANGED outcome
                           ELSE Reconnected("unreachable")
          /\ UNCHANGED session
    /\ UNCHANGED <<SQL_readonly, call, eintr, applied, ranStrict>>

\* db_set_session_mode(): a statement of it may be refused, or lose the
\* connection.
SetSessionMode ==
    /\ sql = "mode"
    /\ \/ session' = "relaxed" /\ Reconnected("new")
       \/ session' \in {"none", session} /\ Reconnected("unreachable")
    /\ UNCHANGED <<SQL_readonly, call, eintr, tries, applied, ranStrict>>

SqlStep == \/ Query \/ Locked \/ RetryDisconnected \/ Ping \/ Connect
           \/ SetSessionMode

-----------------------------------------------------------------------------
(* Properties *)

\* "the server starts each session at its default mode": a retry never runs its
\* statement in a session opened by the retry itself before its mode is set.
RetryKeepsMode == ranStrict => began = "strict"

\* "Every attempt counts": with the library returning from each of its calls
\* (its timeouts are set), db_insert() and db_query() return.
CallReturns == WF_sqlVars(SqlStep) => []<>(sql = "idle")
=============================================================================
