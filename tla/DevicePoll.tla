----------------------------- MODULE DevicePoll -----------------------------
(***************************************************************************)
(* What is done to poll one device over SNMP: poll_host() around its       *)
(* sessions and batches (PollHost, SnmpBatch), the making of a session     *)
(* (SnmpSession), the single requests of the checks before (SnmpRequests), *)
(* and the texts on both ends, the name of the device and the answers      *)
(* (Texts). Each piece is used with every input it can be given, and the   *)
(* variable use says which piece a behaviour is about: the others stay at  *)
(* rest.                                                                   *)
(***************************************************************************)
EXTENDS PollHost, SnmpSession, SnmpRequests, Texts

vars == <<pollVars, sessionVars, requestVars, textVars>>

AtRest ==
    /\ use # "poll" => ~device_zero /\ ~ping_only
    /\ use # "session" => options = [version |-> 1, timeout |-> 1, auth |-> "", password |-> FALSE,
                                     priv |-> "", passphrase |-> FALSE]
    /\ use # "request" => ~connected

Init ==
    /\ use \in {"poll", "session", "request", "answer", "name"}
    /\ PollInit /\ SessionInit /\ RequestsInit /\ TextsInit
    /\ AtRest

PollStep == /\ use = "poll" /\ PollNext
            /\ UNCHANGED <<sessionVars, requestVars, textVars>>
SessionStep == /\ use = "session" /\ SessionNext
               /\ UNCHANGED <<pollVars, requestVars, textVars>>
RequestStep == /\ use = "request" /\ RequestsNext
               /\ UNCHANGED <<pollVars, sessionVars, textVars>>
TextStep == TextsNext /\ UNCHANGED <<pollVars, sessionVars, requestVars>>

\* Each piece comes to its end; a text or a series of requests may be given up.
Over == \/ use = "poll" /\ pc = "returned"
        \/ use = "session" /\ step = "end"
        \/ use = "request" /\ kind # "count"
        \/ use \in {"answer", "name"}

Done == Over /\ UNCHANGED vars

Next == PollStep \/ SessionStep \/ RequestStep \/ TextStep \/ Done

Spec == Init /\ [][Next]_vars
=============================================================================
