---------------------------- MODULE SnmpRequests ----------------------------
(***************************************************************************)
(* The requests for one OID that availability, system information and     *)
(* reindex checks make of a device, one after the other: snmp_get(),       *)
(* snmp_get_allow_fail(), snmp_getnext() and the walk of snmp_count().     *)
(*                                                                         *)
(* A name below the walk's root is a number, the root is 0 and any name    *)
(* outside its subtree is Outside. INT_MAX is scaled down.                 *)
(***************************************************************************)
EXTENDS Integers, Sequences, FiniteSets, Functions

CONSTANTS
    Names,          \* names below the root: 1..Names
    IntMax,         \* INT_MAX
    MaxAsked        \* requests made of the device

ASSUME WalkAssumption == Names \in Nat /\ IntMax \in Nat /\ MaxAsked \in Nat

VARIABLES
    connected,      \* host->snmp.session != NULL
    kind,           \* the request at hand, "none" between requests
    made,           \* requests made
    status,         \* host->snmp.status
    ignored,        \* host->ignore_host
    was_ignored,    \* ... when the request was made
    output,         \* "U", "" or "value"; of a count: the number, -1
    current, number, failed,    \* snmp_walk_t
    (* history *)
    named,          \* the names below the root the agent gave, in order
    responded       \* the agent answered the last request of the one at hand

walkVars == <<current, number, failed, named>>
requestVars == <<connected, kind, made, status, ignored, was_ignored, output, walkVars,
                 responded>>

Outside == Names + 1

RequestsInit ==
    /\ connected \in BOOLEAN
    /\ kind = "none" /\ made = 0 /\ status = "success" /\ ignored = FALSE
    /\ was_ignored = FALSE /\ output = "" /\ responded = FALSE
    /\ current = 0 /\ number = 0 /\ failed = FALSE /\ named = <<>>

-----------------------------------------------------------------------------
(* One request *)

\* What snmp_sess_synch_response() can come back with: a variable (a value, an
\* exception, noSuchObject for sysDescr or sysUpTime, a value that cannot be
\* formatted), a PDU without variables, an error PDU, or no PDU at all; with an
\* error, variables all the same or the USM report notInTimeWindow.
Replies ==
    [status : {"success"},
     data : {"value", "exception", "noObject", "bad", "empty", "agentError", "none"}]
    \cup [status : {"error"}, data : {"none", "vars", "window"}]
    \cup [status : {"timeout"}, data : {"none"}]

\* No PDU could be made for the request: nothing was sent.
NotSent == [status : {"descrip", "error"}, data : {"none"}]

\* What the caller is given, and what is left in host->snmp.status.
Outcome(out, st, host) == [output |-> out, status |-> st, host |-> host]

\* snmp_decode_session_error()
DecodeSessionError(reply) ==
    IF reply.data = "window" THEN Outcome("U", "success", "success")
    ELSE Outcome("", reply.status, reply.status)

\* snmp_get_variable()
GetVariable(data) ==
    IF data \in {"value", "noObject"} THEN Outcome("value", "success", "success")
    ELSE Outcome("U", "error", "success")

\* snmp_get_response()
GetResponse(reply) ==
    CASE reply.status = "descrip" -> Outcome("U", "error", "descrip")
      [] reply.status = "success" /\ reply.data = "none" -> Outcome("U", "error", "success")
      [] reply.status = "success" /\ reply.data \in {"empty", "agentError"} -> Outcome("", "success", "success")
      [] reply.status = "success" /\ reply.data \notin {"none", "empty", "agentError"} ->
            GetVariable(reply.data)
      [] reply.status = "error" /\ reply.data = "vars" -> Outcome("U", "error", "error")
      [] reply.status = "timeout" -> Outcome("", "timeout", "timeout")
      [] OTHER -> DecodeSessionError(reply)

\* The same in snmp_getnext(), which has no use for any exception.
GetNextResponse(reply) ==
    CASE reply.status = "success" /\ reply.data \notin {"value", "agentError"} ->
            Outcome("U", "error", "success")
      [] reply.status = "error" -> DecodeSessionError(reply)
      [] reply.status = "descrip" -> Outcome("", "descrip", "descrip")
      [] OTHER -> GetResponse(reply)

\* A failure ignores the device, unless it is allowed to fail.
Finish(result, should_fail) ==
    LET fails == result.status # "success" /\ should_fail
    IN /\ output' = IF fails THEN "U" ELSE result.output
       /\ ignored' = (ignored \/ fails)
       /\ status' = result.host

Ask ==
    /\ kind # "count" /\ made < MaxAsked
    /\ made' = made + 1
    /\ was_ignored' = ignored
    /\ UNCHANGED connected

\* snmp_single_request(): an OID that does not parse is undefined, and not the
\* device's fault.
BadOid ==
    /\ connected
    /\ output' = "U" /\ status' = "error" /\ responded' = FALSE
    /\ UNCHANGED ignored

\* snmp_get_base() and snmp_getnext(), which does not ask whether the device is
\* ignored.
Single(k) ==
    /\ Ask /\ kind' = k
    /\ \/ /\ k # "next" /\ ignored
          /\ output' = "U" /\ responded' = FALSE
          /\ UNCHANGED <<ignored, status>>
       \/ /\ (k = "next" \/ ~ignored) /\ ~connected
          /\ Finish(Outcome("", "descrip", status), k # "allow")
          /\ responded' = FALSE
       \/ (k = "next" \/ ~ignored) /\ BadOid
       \/ /\ (k = "next" \/ ~ignored) /\ connected
          /\ \E reply \in Replies \cup NotSent :
               /\ Finish(IF k = "next" THEN GetNextResponse(reply) ELSE GetResponse(reply),
                         k # "allow")
               /\ responded' = (reply.data # "none")
    /\ UNCHANGED walkVars

-----------------------------------------------------------------------------
(* snmp_count() *)

\* Without a session, or with a root that does not parse, there is no walk.
CountStarts ==
    /\ Ask
    /\ \/ ~connected /\ kind' = "none" /\ ignored' = TRUE /\ output' = "-1"
       \/ connected /\ kind' = "none" /\ UNCHANGED ignored /\ output' = "-1"
       \/ connected /\ kind' = "count" /\ UNCHANGED ignored /\ output' = ""
    /\ current' = 0 /\ number' = 0 /\ failed' = FALSE /\ named' = <<>>
    /\ responded' = FALSE
    /\ UNCHANGED status

\* The walk ends. "A negative count tells the caller this walk never produced a
\* usable result".
CountEnds(fails, host) ==
    /\ kind' = "none"
    /\ failed' = fails
    /\ output' = IF fails THEN "-1" ELSE "number"
    /\ ignored' = (ignored \/ fails)
    /\ status' = IF fails /\ host = "success" THEN "error" ELSE host

\* snmp_count_response() without a variable to look at. The error noSuchName is
\* how version 1 ends a walk; with success, anything else is an invalid response.
CountResponse ==
    /\ kind = "count"
    /\ \/ CountEnds(FALSE, "success") /\ responded' = TRUE
       \/ /\ \E host \in {"success", "error", "timeout", "descrip"} : CountEnds(TRUE, host)
          /\ responded' = FALSE
    /\ UNCHANGED <<connected, made, was_ignored, current, number, named>>

\* snmp_count_advance() for one variable: its name, and whether it is an exception.
CountAdvance_anyOrder(name, exception) ==
    /\ kind = "count"
    /\ responded' = TRUE
    /\ \/ /\ name = Outside \/ (exception /\ number < IntMax)
          /\ CountEnds(FALSE, "success")
          /\ UNCHANGED <<current, number, named>>
       \/ /\ name # Outside /\ number = IntMax
          /\ CountEnds(TRUE, "success")
          /\ UNCHANGED <<current, number, named>>
       \/ /\ name # Outside /\ number < IntMax /\ ~exception
          /\ number' = number + 1 /\ named' = Append(named, name)
          /\ current' = name /\ status' = "success"
          /\ UNCHANGED <<kind, failed, output, ignored>>
    /\ UNCHANGED <<connected, made, was_ignored>>

CountAdvance(name, exception) ==
    /\ kind = "count"
    /\ responded' = TRUE
    /\ \/ /\ name = Outside \/ (exception /\ number < IntMax)
          /\ CountEnds(FALSE, "success")
          /\ UNCHANGED <<current, number, named>>
       \/ /\ name # Outside /\ number = IntMax
          /\ CountEnds(TRUE, "success")
          /\ UNCHANGED <<current, number, named>>
       \/ /\ name # Outside /\ number < IntMax /\ ~exception
          /\ number' = number + 1 /\ named' = Append(named, name)
          /\ IF name > current
             THEN /\ current' = name /\ status' = "success"
                  /\ UNCHANGED <<kind, failed, output, ignored>>
             ELSE CountEnds(TRUE, "success") /\ UNCHANGED current
    /\ UNCHANGED <<connected, made, was_ignored>>

RequestsNext ==
    \/ \E k \in {"get", "allow", "next"} : Single(k)
    \/ CountStarts \/ CountResponse
    \/ \E name \in 0..Outside, exception \in BOOLEAN : CountAdvance(name, exception)

-----------------------------------------------------------------------------
(* Properties *)

\* A value is one the agent gave for this request; a device that the request made
\* ignored gives U, and so does every later get of an ignored device, whatever was
\* left in the output on the way. A count that is not negative is the number of
\* different names below the root, which the agent gave to the end: an agent that
\* goes round in circles, stops answering or has more entries than an int counts
\* gives no count, and its device is ignored and not said to answer.
RequestsHonest ==
    /\ kind \in {"get", "allow", "next"} /\ output = "value" => responded
    /\ kind \in {"get", "next"} /\ ignored /\ ~was_ignored => output = "U"
    /\ kind \in {"get", "allow"} /\ was_ignored => output = "U"
    /\ output = "number" => number = Cardinality(Range(named)) /\ responded
    /\ kind = "none" /\ failed => ignored /\ status # "success"
=============================================================================
