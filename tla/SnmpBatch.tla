------------------------------ MODULE SnmpBatch -----------------------------
(***************************************************************************)
(* One partition collects its poller items (collect_poll_items). SNMP      *)
(* items are gathered into batches of at most max_oids that share a        *)
(* session; a batch is one GET request (snmp_get_multi), repeated without  *)
(* the offending OID when the agent names one. Answers are matched to the  *)
(* items by position alone.                                                *)
(*                                                                         *)
(* The value of an item is <<position of its OID, profile it was asked     *)
(* with>>, so that a value stored for the wrong item shows.                *)
(***************************************************************************)
EXTENDS Integers, Sequences, FiniteSets

CONSTANTS
    Items,          \* poller_item rows; pairs: a value holds "name:value" pairs
    RawMaxOids      \* host.max_oids as stored

ASSUME ItemsAssumption ==
    Items \in Seq([action : {"snmp", "script", "other"}, profile : Nat \ {0},
                   parses : BOOLEAN, pairs : BOOLEAN])
ASSUME MaxOidsAssumption == RawMaxOids \in Int

Positions == 1..Len(Items)
NoSession == 0
U == <<0, 0>>                           \* the result "U"
Empty == <<-1, -1>>                     \* a cleared result buffer
Right(p) == <<p, Items[p].profile>>

VARIABLES
    device_zero,    \* host_id 0: data sources without a device
    pc, i,          \* collect_poll_items(): i is the item at hand
    ret,            \* where flush_snmp_batch() returns to
    key,            \* batch->key: profile of the open session, 0 before any
    session,        \* host->snmp.session: profile, or NoSession
    handles,        \* Net-SNMP: sessions that are open
    ignore_host,
    spike_kill,     \* what the reindex checks decided, an argument
    count, oids,    \* the batch: oids[1..count]
    request, attempt,   \* slots of the request PDU, requests sent
    results,        \* items[].result
    (* history *)
    asked,          \* items that were part of a flushed batch
    answered        \* items the agent sent a value for

\* load_host_metadata() and load_poll_items() bound what the database says.
max_oids ==
    LET loaded == IF device_zero THEN 1
                  ELSE IF RawMaxOids = 0 \/ RawMaxOids > 100 THEN 5 ELSE RawMaxOids
    IN IF loaded <= 0 THEN 1 ELSE loaded
Slots == 1..max_oids

walk == <<i, ret, key, spike_kill>>
wire == <<request, attempt>>
link == <<session, handles>>
history == <<asked, answered>>
batchVars == <<pc, walk, link, ignore_host, count, oids, wire, results, history>>

Cleared == [s \in Slots |-> [pos |-> 0, result |-> Empty]]

BatchInit ==
    /\ i = 1 /\ ret = "item"
    /\ key = 0 /\ session = NoSession /\ handles = 0
    /\ ignore_host = FALSE /\ spike_kill = FALSE
    /\ count = 0 /\ oids = Cleared
    /\ request = <<>> /\ attempt = 0
    /\ results = [p \in Positions |-> U]
    /\ asked = {} /\ answered = {}

\* snmp_host_init() and snmp_host_cleanup(): SnmpSession has the former in detail.
Open(profile) ==
    /\ session' \in {NoSession, profile}
    /\ handles' = handles + (IF session' = NoSession THEN 0 ELSE 1)

Close ==
    /\ session' = NoSession
    /\ handles' = handles - (IF session = NoSession THEN 0 ELSE 1)

-----------------------------------------------------------------------------
(* collect_poll_items() *)

\* A sample taken across a reset is discarded, unless it is "name:value" pairs.
Kept(p, r) == IF spike_kill /\ ~Items[p].pairs THEN U ELSE r

\* A script's result is stored at once; an unknown action leaves U.
PollOther ==
    /\ pc = "item" /\ i \in Positions /\ ~ignore_host
    /\ Items[i].action # "snmp"
    /\ \E r \in IF Items[i].action = "script" THEN {U, Right(i)} ELSE {U} :
          results' = [results EXCEPT ![i] = Kept(i, r)]
    /\ i' = i + 1
    /\ UNCHANGED <<pc, ret, key, spike_kill, link, ignore_host, count, oids, wire, history>>

\* poll_snmp_item(): the first SNMP item opens the session.
PollSnmpItem ==
    /\ pc = "item" /\ i \in Positions /\ ~ignore_host
    /\ Items[i].action = "snmp"
    /\ IF key = 0
       THEN Open(Items[i].profile) /\ key' = Items[i].profile
       ELSE UNCHANGED <<link, key>>
    /\ IF session' = NoSession
       THEN ignore_host' = TRUE /\ i' = i + 1 /\ UNCHANGED pc
       ELSE pc' = "changed" /\ UNCHANGED <<ignore_host, i>>
    /\ UNCHANGED <<ret, spike_kill, count, oids, wire, results, history>>

\* flush_snmp_batch(), returning to s.
Flush(s) == IF count = 0 THEN pc' = s /\ UNCHANGED ret
                         ELSE pc' = "flush" /\ ret' = s

\* An item with another profile flushes the batch and reopens the session.
Changed ==
    /\ pc = "changed"
    /\ IF Items[i].profile # key THEN Flush("reopen")
                                 ELSE pc' = "full" /\ UNCHANGED ret
    /\ UNCHANGED <<i, key, spike_kill, link, ignore_host, count, oids, wire, results, history>>

Reopen ==
    /\ pc = "reopen"
    /\ session' \in {NoSession, Items[i].profile}
    /\ handles' = handles + (IF session' = NoSession THEN 0 ELSE 1)
                          - (IF session = NoSession THEN 0 ELSE 1)
    /\ key' = Items[i].profile
    /\ pc' = "full"
    /\ UNCHANGED <<i, ret, spike_kill, ignore_host, count, oids, wire, results, history>>

Full ==
    /\ pc = "full"
    /\ IF count >= max_oids THEN Flush("append")
                            ELSE pc' = "append" /\ UNCHANGED ret
    /\ UNCHANGED <<i, key, spike_kill, link, ignore_host, count, oids, wire, results, history>>

Append_ ==
    /\ pc = "append"
    /\ count' = count + 1
    /\ oids' = IF count' \in Slots THEN [oids EXCEPT ![count'].pos = i] ELSE oids
    /\ i' = i + 1
    /\ pc' = "item"
    /\ UNCHANGED <<ret, key, spike_kill, link, ignore_host, wire, results, history>>

\* After the last item, or once the device is ignored, the rest is flushed.
Final_drops ==
    /\ pc = "item"
    /\ i > Len(Items) \/ ignore_host
    /\ pc' = "done"
    /\ UNCHANGED <<walk, link, ignore_host, count, oids, wire, results, history>>

Final ==
    /\ pc = "item"
    /\ i > Len(Items) \/ ignore_host
    /\ Flush("done")
    /\ UNCHANGED <<i, key, spike_kill, link, ignore_host, count, oids, wire, results, history>>

-----------------------------------------------------------------------------
(* snmp_get_multi() *)

Batch == 1..count
AllUndefined == [s \in Slots |-> IF s \in Batch THEN [oids[s] EXCEPT !.result = U]
                                                ELSE oids[s]]
\* The slots still asked for: IS_UNDEFINED results are skipped.
Live(slots) == {s \in Batch : slots[s].result # U}

\* A loop over them counts along with the variables of a PDU: the number of the
\* variable that goes with slot s, and the slot of the k-th variable.
Place(slots, s) == Cardinality({t \in Live(slots) : t <= s})
Slot(slots, k) == CHOOSE s \in Live(slots) : Place(slots, s) = k

\* snmp_multi_request(): an OID that does not parse, or that there is no memory for,
\* is undefined at once.
Parsed(lost) == [s \in Slots |-> IF s \in lost \/ (s \in Batch /\ ~Items[oids[s].pos].parses)
                                 THEN [oids[s] EXCEPT !.result = U] ELSE oids[s]]

BuildRequest ==
    /\ pc = "flush"
    /\ asked' = asked \cup {oids[s].pos : s \in Batch}
    /\ attempt' = 0
    /\ \/ /\ session = NoSession
          /\ ignore_host' = TRUE /\ oids' = AllUndefined
          /\ pc' = "store" /\ UNCHANGED request
       \/ /\ session # NoSession /\ UNCHANGED ignore_host
          /\ \E lost \in SUBSET Batch :
               IF Live(Parsed(lost)) = {}
               THEN oids' = AllUndefined /\ pc' = "store" /\ UNCHANGED request
               ELSE /\ oids' = Parsed(lost)
                    /\ request' = [k \in 1..Cardinality(Live(Parsed(lost))) |-> Slot(Parsed(lost), k)]
                    /\ pc' = "send"
    /\ UNCHANGED <<walk, link, count, results, answered>>

\* No answer: a timeout ignores the device, another error leaves the results as
\* they are. A success without a response is an internal error.
NoAnswer ==
    /\ pc = "send"
    /\ attempt' = attempt + 1
    /\ \/ ignore_host' = TRUE /\ oids' = AllUndefined
       \/ UNCHANGED <<ignore_host, oids>>
       \/ oids' = AllUndefined /\ UNCHANGED ignore_host
    /\ request' = <<>> /\ pc' = "store"
    /\ UNCHANGED <<walk, link, count, results, history>>

\* snmp_multi_values(): the k-th value goes to the k-th slot still asked for.
\* The agent answers a prefix of the request, some of it with exceptions
\* (or values that are no valid result, which normalize_snmp_item() replaces).
Values(n, exceptions) ==
    LET value(k) == IF k > n \/ k \in exceptions THEN U
                    ELSE <<oids[request[k]].pos, session>>
    IN [s \in Slots |-> IF s \in Live(oids)
                        THEN [oids[s] EXCEPT !.result = value(Place(oids, s))]
                        ELSE oids[s]]

Answer ==
    /\ pc = "send"
    /\ attempt' = attempt + 1
    /\ \E n \in 0..Len(request) : \E exceptions \in SUBSET (1..n) :
          /\ oids' = Values(n, exceptions)
          /\ answered' = answered \cup {oids[request[k]].pos : k \in (1..n) \ exceptions}
    /\ request' = <<>> /\ pc' = "store"
    /\ UNCHANGED <<walk, link, ignore_host, count, results, asked>>

\* An error PDU names an OID, which is dropped and the rest asked again
\* (snmp_multi_error_index, snmp_fix_pdu, which may also decline), or names none.
Without(s, e) == [k \in 1..(Len(s) - 1) |-> s[IF k < e THEN k ELSE k + 1]]
MaxRequests == count

AgentError ==
    /\ pc = "send"
    /\ attempt' = attempt + 1
    /\ \E e \in 0..(Len(request) + 1) :
          IF e \in 1..Cardinality(Live(oids))
          THEN /\ oids' = [oids EXCEPT ![Slot(oids, e)].result = U]
               /\ request' \in {Without(request, e), <<>>}
          ELSE oids' = AllUndefined /\ request' = <<>>
    /\ pc' = IF request' # <<>> /\ attempt' < MaxRequests THEN "send" ELSE "spent"
    /\ UNCHANGED <<walk, link, ignore_host, count, results, history>>

\* A request left over when the attempts are used up makes the batch undefined.
Spent ==
    /\ pc = "spent"
    /\ oids' = IF request # <<>> THEN AllUndefined ELSE oids
    /\ request' = <<>> /\ pc' = "store"
    /\ UNCHANGED <<walk, link, ignore_host, count, attempt, results, history>>

\* store_snmp_results(), then the batch is cleared: an empty result is not a
\* number, and nothing of an ignored device is kept.
Clear_countOnly == oids
Clear == Cleared

Store ==
    /\ pc = "store"
    /\ results' = [p \in Positions |->
          IF \E s \in Batch : oids[s].pos = p
          THEN LET r == oids[CHOOSE s \in Batch : oids[s].pos = p].result
               IN IF ignore_host \/ r = Empty THEN U ELSE Kept(p, r)
          ELSE results[p]]
    /\ count' = 0 /\ oids' = Clear
    /\ pc' = ret
    /\ UNCHANGED <<walk, link, ignore_host, wire, history>>

BatchNext == \/ PollOther \/ PollSnmpItem \/ Changed \/ Reopen \/ Full \/ Append_ \/ Final
             \/ BuildRequest \/ NoAnswer \/ Answer \/ AgentError \/ Spent \/ Store

-----------------------------------------------------------------------------
(* Properties *)

\* A stored value is the item's own: the answer to its OID, asked with its
\* profile, after any number of retries without the OIDs an agent rejected.
ResultsAreOwn == \A p \in Positions : results[p] \in {U, Right(p)}

\* Every SNMP item of a device that is not ignored was part of a request, and a
\* value the agent sent is stored unless the samples are discarded: what one batch
\* left behind never hides an item of the next. "Every v1 retry removes one valid
\* OID, so at most count requests are possible": no request is given up for lack
\* of attempts.
EveryItemServed ==
    /\ pc = "done" /\ ~ignore_host =>
         /\ \A p \in Positions : Items[p].action = "snmp" => p \in asked
         /\ \A p \in answered : results[p] = Kept(p, Right(p))
    /\ pc = "spent" => request = <<>>
=============================================================================
