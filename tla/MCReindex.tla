------------------------------ MODULE MCReindex -----------------------------
\* poller_reindex rows for Reindex.
EXTENDS Reindex

\* Two data queries, with every operator. The outcomes of a script are among
\* those of an SNMP get, so no row needs one.
MixedRows == <<[dq |-> 1, op |-> "=", action |-> "snmp"],
               [dq |-> 1, op |-> "<", action |-> "uptime"],
               [dq |-> 2, op |-> ">", action |-> "count"]>>
=============================================================================
