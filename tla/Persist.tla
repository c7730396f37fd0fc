------------------------------ MODULE Persist -------------------------------
(***************************************************************************)
(* What spine writes to the database, statement by statement: the results  *)
(* of a partition (Output), the schedule of a device over many cycles      *)
(* (Schedule) and the copy to the main server (Transfer), each over one    *)
(* handle of SqlRetry whose connection fails at any point.                 *)
(***************************************************************************)
EXTENDS Output, Schedule, Transfer

VARIABLE client     \* whose handle it is

vars == <<client, sqlVars, writerVars, scheduleVars, transferVars>>

\* persist_poll_completion() copies nothing under SQL_readonly.
Init ==
    /\ client \in {"writer", "schedule", "transfer"}
    /\ SqlInit /\ WriterInit /\ ScheduleInit /\ TransferInit
    /\ client = "transfer" => ~SQL_readonly

Statement == SqlStep /\ UNCHANGED <<client, writerVars, scheduleVars, transferVars>>

Writer ==
    /\ client = "writer" /\ WriterStep
    /\ UNCHANGED <<client, scheduleVars, transferVars>>

Completion ==
    /\ client = "schedule" /\ ScheduleStep
    /\ UNCHANGED <<client, writerVars, transferVars>>

Copy ==
    /\ client = "transfer" /\ TransferStep
    /\ UNCHANGED <<client, writerVars, scheduleVars>>

Done ==
    /\ \/ client = "writer" /\ wpc = "done"
       \/ client = "transfer" /\ tpc = "end" /\ cycle = MaxCycles
    /\ UNCHANGED vars

Next == Statement \/ Writer \/ Completion \/ Copy \/ Done

Spec == Init /\ [][Next]_vars

-----------------------------------------------------------------------------
(* Properties; the others are with the client they are about *)

\* No statement outgrows its buffer: not the output statements, appended to
\* without a bound, nor the batches of the copy.
BuffersFit == OutputFits /\ StatementFits
=============================================================================
