---------------------------- MODULE MCDevicePoll ----------------------------
\* Poller items for DevicePoll.
EXTENDS DevicePoll

oid == [action |-> "snmp", profile |-> 1, parses |-> TRUE, pairs |-> FALSE]
badOid == [oid EXCEPT !.parses = FALSE]
paired == [oid EXCEPT !.pairs = TRUE]
second == [oid EXCEPT !.profile = 2]
script == [oid EXCEPT !.action = "script"]
other == [oid EXCEPT !.action = "other"]

\* A batch that fills up, an OID that does not parse, a change of profile and back.
MixedItems == <<oid, script, badOid, paired, oid, second, other, second, oid, oid>>
=============================================================================
