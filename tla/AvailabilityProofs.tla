------------------------- MODULE AvailabilityProofs -------------------------
(***************************************************************************)
(* Proofs about what is found out about a device before its items are      *)
(* collected: the probes (Pings), for any number of threads, devices,      *)
(* sequence numbers, attempts and ticks and receive queues of any length;  *)
(* the status they lead to (HostStatus), for any thresholds, any number of *)
(* partitions and any number of polling cycles; and the reindex checks     *)
(* (Reindex), for any rows, partitions and changes of the device.          *)
(***************************************************************************)
EXTENDS HostStatus, Pings, Reindex, TLAPS

-----------------------------------------------------------------------------
(* update_host_status() *)

Statuses == {"unknown", "up", "down", "recovering"}
Row == [status : Statuses, status_event_count : Nat, fail_date : Nat,
        rec_date : Nat, total_polls : Nat, failed_polls : Nat]

StatusTypes ==
    /\ avail \in Methods
    /\ row \in Row
    /\ cycle \in Nat
    /\ at \in [Workers -> {"load", "refresh", "persist", "done"}]
    /\ host \in [Workers -> Row]
    /\ alive \in [Workers -> BOOLEAN]
    /\ streak \in [alive : BOOLEAN, length : Nat, since : Nat]

\* The first partition works on a copy of the row that nobody overwrites before
\* it is written back.
CopyInv ==
    /\ at[1] = "refresh" => host[1] = row
    /\ at[1] = "persist" => host[1] = UpdateHostStatus(alive[1], row)

\* What the row counts and dates is the run of equal results at hand.
Failing == ~streak.alive /\ streak.length > 0
StreakInv ==
    /\ row.status = "unknown" => streak.length = 0
    /\ row.status = "up" =>
          /\ row.status_event_count < FailureCount
          /\ row.status_event_count = IF Failing THEN streak.length ELSE 0
          /\ Failing => row.fail_date = streak.since
    /\ row.status = "down" => Failing
    /\ row.status = "recovering" =>
          /\ streak.alive /\ streak.length = row.status_event_count
          /\ 0 < row.status_event_count /\ row.status_event_count < RecoveryCount
          /\ row.rec_date = streak.since

-----------------------------------------------------------------------------
(* What update_host_status() does to a row, field by field. *)

\* A failed poll: host_failure_transition() in every status.
LEMMA FailureFields ==
    ASSUME StatusTypes, NEW h \in Row, NEW g, g = UpdateHostStatus(FALSE, h)
    PROVE  /\ g \in Row
           /\ h.status \in {"unknown", "down", "recovering"} => g.status = "down"
           /\ h.status = "up" =>
                /\ g.status = IF h.status_event_count + 1 >= FailureCount
                              THEN "down" ELSE "up"
                /\ g.status_event_count = h.status_event_count + 1
                /\ g.fail_date =
                     IF \/ FailureCount = 1
                        \/ h.status_event_count = 0 /\ 1 < FailureCount
                     THEN cycle ELSE h.fail_date
<1> USE CountsAssumption
<1>1. PICK a, b, c : /\ a = h.total_polls + 1 /\ b = h.failed_polls + 1
                     /\ c = [h EXCEPT !.total_polls = a, !.failed_polls = b]
                     /\ g = FailureTransition(c)
  BY Zenon DEF UpdateHostStatus
<1>2. a \in Nat /\ b \in Nat
  BY <1>1 DEF Row
<1>3. /\ c \in Row
      /\ c.status = h.status /\ c.status_event_count = h.status_event_count
      /\ c.fail_date = h.fail_date /\ c.rec_date = h.rec_date
  BY <1>1, <1>2, Zenon DEF Row
<1>0. g = FailureTransition(c)
  BY <1>1, Zenon
<1>4. /\ c.status_event_count \in Nat /\ c.fail_date \in Nat
      /\ c.status \in Statuses /\ cycle \in Nat /\ "down" \in Statuses
  BY Zenon, <1>3 DEF Row, StatusTypes, Statuses
<1>5. CASE c.status = "up" /\ c.status_event_count + 1 >= FailureCount
  <2>1. ~(c.status_event_count + 1 < FailureCount)
    BY <1>4, <1>5
  <2>2. PICK n, d : /\ n = c.status_event_count + 1
                    /\ d = IF FailureCount = 1 THEN cycle ELSE c.fail_date
                    /\ g = [c EXCEPT !.status = "down", !.status_event_count = n,
                                     !.fail_date = d]
    BY <1>0, <1>5, <2>1, Zenon DEF FailureTransition
  <2>3. n \in Nat /\ n = c.status_event_count + 1 /\ d \in Nat
    BY <1>4, <2>2
  <2>4. g \in Row /\ g.status = "down" /\ g.status_event_count = n /\ g.fail_date = d
    BY <1>3, <1>4, <2>2, <2>3, Zenon DEF Row
  <2>5. d = IF FailureCount = 1 THEN cycle ELSE c.fail_date
    BY Zenon, <2>2
  <2>6. h.status = "up" /\ g.status_event_count = h.status_event_count + 1
    BY <1>3, <1>5, <2>3, <2>4, Zenon
  <2>7. h.status_event_count + 1 >= FailureCount
    BY Zenon, <1>3, <1>5
  <2>8. d = IF \/ FailureCount = 1
               \/ h.status_event_count = 0 /\ 1 < FailureCount
            THEN cycle ELSE h.fail_date
    BY <1>3, <1>4, <1>5, <2>5
  <2> QED
    BY <2>4, <2>6, <2>7, <2>8, Zenon
<1>6. CASE c.status = "up" /\ ~(c.status_event_count + 1 >= FailureCount)
  <2>1. c.status_event_count + 1 < FailureCount
    BY <1>4, <1>6
  <2>2. PICK n, d : /\ n = c.status_event_count + 1
                    /\ d = IF c.status_event_count = 0 THEN cycle ELSE c.fail_date
                    /\ g = [c EXCEPT !.status_event_count = n, !.fail_date = d]
    BY <1>0, <1>6, <2>1, Zenon DEF FailureTransition
  <2>3. n \in Nat /\ n = c.status_event_count + 1 /\ d \in Nat
    BY <1>4, <2>2
  <2>4. g \in Row /\ g.status = "up" /\ g.status_event_count = n /\ g.fail_date = d
    BY <1>3, <1>6, <2>2, <2>3, Zenon DEF Row
  <2>5. d = IF c.status_event_count = 0 THEN cycle ELSE c.fail_date
    BY Zenon, <2>2
  <2>6. h.status = "up" /\ g.status_event_count = h.status_event_count + 1
    BY <1>3, <1>6, <2>3, <2>4, Zenon
  <2>7. ~(h.status_event_count + 1 >= FailureCount)
    BY Zenon, <1>3, <1>6
  <2>8. d = IF \/ FailureCount = 1
               \/ h.status_event_count = 0 /\ 1 < FailureCount
            THEN cycle ELSE h.fail_date
    BY <1>3, <1>4, <1>6, <2>5
  <2> QED
    BY <2>4, <2>6, <2>7, <2>8, Zenon
<1>7. CASE c.status \in {"recovering", "unknown"}
  <2>1. PICK n \in {0, 1} : g = [c EXCEPT !.status = "down", !.status_event_count = n]
    BY <1>0, <1>7, Zenon DEF FailureTransition
  <2>2. n \in Nat
    OBVIOUS
  <2>3. g \in Row /\ g.status = "down"
    BY <1>3, <1>4, <2>1, <2>2, Zenon DEF Row
  <2> QED
    BY <1>3, <1>7, <2>3, Zenon
<1>8. CASE c.status = "down"
  <2>1. PICK n : /\ n = c.status_event_count + 1
                 /\ g = [c EXCEPT !.status_event_count = n]
    BY <1>0, <1>8, Zenon DEF FailureTransition
  <2>2. n \in Nat
    BY <1>4, <2>1
  <2>3. g \in Row /\ g.status = c.status
    BY <1>3, <2>1, <2>2, Zenon DEF Row
  <2> QED
    BY <1>3, <1>8, <2>3, Zenon
<1> QED
  BY <1>4, <1>5, <1>6, <1>7, <1>8, Zenon DEF Statuses

\* The answers in a row, this one included, in host_recovery_transition().
Answers(h) == IF h.status = "down" THEN 1 ELSE h.status_event_count + 1

\* An answered poll: host_recovery_transition() in every status.
LEMMA RecoveryFields ==
    ASSUME StatusTypes, NEW h \in Row, NEW g, g = UpdateHostStatus(TRUE, h)
    PROVE  /\ g \in Row
           /\ h.status \in {"unknown", "up"} =>
                g.status = "up" /\ g.status_event_count = 0
           /\ h.status \in {"down", "recovering"} =>
                /\ g.status = IF Answers(h) >= RecoveryCount THEN "up" ELSE "recovering"
                /\ g.status_event_count = IF Answers(h) >= RecoveryCount THEN 0 ELSE Answers(h)
                /\ g.rec_date =
                     IF RecoveryCount = 1 \/ (Answers(h) = 1 /\ 1 < RecoveryCount)
                     THEN cycle ELSE h.rec_date
<1> USE CountsAssumption
<1> DEFINE count == Answers(h)
<1>1. PICK a, b, c : /\ a = h.total_polls + 1 /\ b = h.failed_polls
                     /\ c = [h EXCEPT !.total_polls = a, !.failed_polls = b]
                     /\ g = RecoveryTransition(c)
  BY Zenon DEF UpdateHostStatus
<1>2. a \in Nat /\ b \in Nat
  BY <1>1 DEF Row
<1>3. /\ c \in Row
      /\ c.status = h.status /\ c.status_event_count = h.status_event_count
      /\ c.fail_date = h.fail_date /\ c.rec_date = h.rec_date
  BY <1>1, <1>2, Zenon DEF Row
<1>0. g = RecoveryTransition(c)
  BY <1>1, Zenon
<1>4. /\ count \in Nat \ {0} /\ c.rec_date \in Nat /\ cycle \in Nat /\ c.status \in Statuses
      /\ "up" \in Statuses /\ "recovering" \in Statuses /\ 0 \in Nat
      /\ count = IF c.status = "down" THEN 1 ELSE c.status_event_count + 1
  BY <1>3 DEF Row, StatusTypes, Statuses, Answers
<1> HIDE DEF count
<1>5. CASE c.status \notin {"down", "recovering"}
  <2>1. g = [c EXCEPT !.status = "up", !.status_event_count = 0]
    BY <1>0, <1>5, Zenon DEF RecoveryTransition
  <2>2. g \in Row /\ g.status = "up" /\ g.status_event_count = 0
    BY <1>3, <1>4, <2>1, Zenon DEF Row
  <2> QED
    BY <1>3, <1>5, <2>2, Zenon
<1>6. CASE c.status \in {"down", "recovering"} /\ count >= RecoveryCount
  <2>1. PICK d : /\ d = IF RecoveryCount = 1 THEN cycle ELSE c.rec_date
                 /\ g = [c EXCEPT !.status = "up", !.status_event_count = 0,
                                  !.rec_date = d]
    BY <1>0, <1>4, <1>6, Zenon DEF RecoveryTransition
  <2>2. d \in Nat
    BY Zenon, <1>4, <2>1
  <2>3. g \in Row /\ g.status = "up" /\ g.status_event_count = 0 /\ g.rec_date = d
    BY <1>3, <1>4, <2>1, <2>2, Zenon DEF Row
  <2>4. d = IF RecoveryCount = 1 THEN cycle ELSE c.rec_date
    BY Zenon, <2>1
  <2>5. d = IF RecoveryCount = 1 \/ (count = 1 /\ 1 < RecoveryCount)
            THEN cycle ELSE h.rec_date
    BY <1>3, <1>4, <1>6, <2>4
  <2>6. h.status \in {"down", "recovering"}
    BY Zenon, <1>3, <1>6
  <2> QED
    BY <1>6, <2>3, <2>5, <2>6, Zenon DEF count
<1>7. CASE c.status \in {"down", "recovering"} /\ ~(count >= RecoveryCount)
  <2>1. PICK d : /\ d = IF count = 1 THEN cycle ELSE c.rec_date
                 /\ g = [c EXCEPT !.status = "recovering",
                                  !.status_event_count = count, !.rec_date = d]
    BY <1>0, <1>4, <1>7, Zenon DEF RecoveryTransition
  <2>2. d \in Nat
    BY Zenon, <1>4, <2>1
  <2>3. /\ g \in Row /\ g.status = "recovering" /\ g.status_event_count = count
        /\ g.rec_date = d
    BY <1>3, <1>4, <2>1, <2>2, Zenon DEF Row
  <2>4. d = IF count = 1 THEN cycle ELSE c.rec_date
    BY Zenon, <2>1
  <2>5. d = IF RecoveryCount = 1 \/ (count = 1 /\ 1 < RecoveryCount)
            THEN cycle ELSE h.rec_date
    BY <1>3, <1>4, <1>7, <2>4
  <2>6. h.status \in {"down", "recovering"}
    BY Zenon, <1>3, <1>7
  <2> QED
    BY <1>7, <2>3, <2>5, <2>6, Zenon DEF count
<1> QED
  BY <1>5, <1>6, <1>7, Zenon

-----------------------------------------------------------------------------
(* The invariants *)

\* A check finds a device up or down.
LEMMA VerdictsType == \A v \in Verdicts : v \in BOOLEAN
<1> SUFFICES ASSUME NEW v \in Verdicts PROVE v \in BOOLEAN
  BY Zenon
<1>1. PICK net, snmp : v = (Unchecked \/ PingHost(net, snmp))
  BY DEF Verdicts
<1> QED
  BY Zenon, <1>1

\* update_host_status() returns a row of the table.
LEMMA UpdateType ==
    ASSUME StatusTypes, NEW up \in BOOLEAN, NEW h \in Row
    PROVE  UpdateHostStatus(up, h) \in Row
BY FailureFields, RecoveryFields, Zenon

\* The update depends on the date only.
LEMMA UpdateSame ==
    ASSUME cycle' = cycle, NEW up, up = (alive[1])', NEW h, h = row'
    PROVE  UpdateHostStatus(alive[1], row)' = UpdateHostStatus(up, h)
BY DEF UpdateHostStatus, FailureTransition, RecoveryTransition

\* A poller starts with a row of the table and a copy for each thread.
LEMMA StatusInitially == StatusInit => StatusTypes /\ CopyInv
BY CyclesAssumption DEF StatusInit, StatusTypes, CopyInv, Row, Statuses, Workers

\* Every step keeps the types: no refresh or update leaves the table.
LEMMA TypingStep == StatusTypes /\ [StatusNext]_statusVars => StatusTypes'
<1> SUFFICES ASSUME StatusTypes, [StatusNext]_statusVars PROVE StatusTypes'
  BY Zenon
<1>1. ASSUME NEW t \in Workers, LoadPollHost(t) PROVE StatusTypes'
  BY <1>1 DEF StatusTypes, LoadPollHost, MoveTo
<1>2. ASSUME NEW t \in Workers, RefreshHostAvailability(t) PROVE StatusTypes'
  <2>1. PICK up \in Verdicts :
            /\ alive' = [alive EXCEPT ![t] = up]
            /\ host' = IF t = 1 \/ Unchecked
                       THEN [host EXCEPT ![t] = UpdateHostStatus(up, host[t])]
                       ELSE host
    BY <1>2, Zenon DEF RefreshHostAvailability
  <2>2. up \in BOOLEAN /\ host[t] \in Row
    BY Zenon, VerdictsType DEF StatusTypes
  <2>3. UpdateHostStatus(up, host[t]) \in Row
    BY Zenon, <2>2, UpdateType
  <2>4. alive' \in [Workers -> BOOLEAN] /\ host' \in [Workers -> Row]
    BY Zenon, <2>1, <2>2, <2>3 DEF StatusTypes
  <2> QED
    BY Zenon, <1>2, <2>4 DEF StatusTypes, RefreshHostAvailability, MoveTo
<1>3. ASSUME NEW t \in Workers, PersistHostStatus(t) PROVE StatusTypes'
  <2>1. row' \in Row
    BY <1>3 DEF StatusTypes, PersistHostStatus
  <2>2. streak' \in [alive : BOOLEAN, length : Nat, since : Nat]
    BY <1>3 DEF StatusTypes, PersistHostStatus
  <2> QED
    BY Zenon, <1>3, <2>1, <2>2 DEF StatusTypes, PersistHostStatus, MoveTo
<1>4. CASE NextCycle
  BY <1>4 DEF StatusTypes, NextCycle
<1>5. CASE UNCHANGED statusVars
  BY Zenon, <1>5 DEF StatusTypes, statusVars
<1> QED
  BY Zenon, <1>1, <1>2, <1>3, <1>4, <1>5 DEF StatusNext, StatusDone

\* Between refresh and write-back no other thread writes the row.
LEMMA CopyStep == StatusTypes /\ CopyInv /\ [StatusNext]_statusVars => CopyInv'
<1> SUFFICES ASSUME StatusTypes, CopyInv, [StatusNext]_statusVars PROVE CopyInv'
  BY Zenon
<1>0. 1 \in Workers
  BY CyclesAssumption DEF Workers
<1>1. ASSUME NEW t \in Workers, LoadPollHost(t) PROVE CopyInv'
  <2>1. UpdateHostStatus(alive[1], row)' = UpdateHostStatus(alive[1], row)
    BY Zenon, <1>1, UpdateSame DEF LoadPollHost
  <2> QED
    BY Zenon, <1>0, <1>1, <2>1 DEF StatusTypes, CopyInv, LoadPollHost, MoveTo
<1>2. ASSUME NEW t \in Workers, RefreshHostAvailability(t) PROVE CopyInv'
  <2>1. UpdateHostStatus(alive[1], row)' = UpdateHostStatus(alive[1]', row)
    BY Zenon, <1>2, UpdateSame DEF RefreshHostAvailability
  <2>2. CASE t = 1
    BY <1>0, <1>2, <2>1, <2>2 DEF StatusTypes, CopyInv, RefreshHostAvailability, MoveTo
  <2>3. CASE t # 1
    <3>1. host'[1] = host[1] /\ alive'[1] = alive[1] /\ at'[1] = at[1] /\ row' = row
      BY Zenon, <1>0, <1>2, <2>3 DEF StatusTypes, RefreshHostAvailability, MoveTo
    <3> QED
      BY Zenon, <2>1, <3>1 DEF CopyInv
  <2> QED
    BY Zenon, <2>2, <2>3
<1>3. ASSUME NEW t \in Workers, PersistHostStatus(t) PROVE CopyInv'
  <2>1. CASE t = 1
    BY Zenon, <1>0, <1>3, <2>1 DEF StatusTypes, CopyInv, PersistHostStatus, MoveTo
  <2>2. CASE t # 1
    <3>1. /\ host' = host /\ alive' = alive /\ at'[1] = at[1] /\ row' = row
          /\ cycle' = cycle
      BY Zenon, <1>0, <1>3, <2>2 DEF StatusTypes, PersistHostStatus, MoveTo
    <3>2. UpdateHostStatus(alive[1], row)' = UpdateHostStatus(alive[1], row)
      BY Zenon, <3>1, UpdateSame
    <3> QED
      BY Zenon, <3>1, <3>2 DEF CopyInv
  <2> QED
    BY Zenon, <2>1, <2>2
<1>4. CASE NextCycle
  BY Zenon, <1>0, <1>4 DEF StatusTypes, CopyInv, NextCycle
<1>5. CASE UNCHANGED statusVars
  <2>1. UpdateHostStatus(alive[1], row)' = UpdateHostStatus(alive[1], row)
    BY Zenon, <1>5, UpdateSame DEF statusVars
  <2> QED
    BY Zenon, <1>5, <2>1 DEF CopyInv, statusVars
<1> QED
  BY Zenon, <1>1, <1>2, <1>3, <1>4, <1>5 DEF StatusNext, StatusDone

\* The row changes only where the first partition writes its copy back, and then
\* as one update of the row that is stored.
LEMMA RowStep ==
    ASSUME StatusTypes, CopyInv, [StatusNext]_statusVars
    PROVE  \/ row' = row /\ streak' = streak
           \/ /\ at[1] = "persist" /\ alive[1] \in BOOLEAN
              /\ row' = UpdateHostStatus(alive[1], row)
              /\ streak' = IF streak.alive = alive[1] /\ streak.length > 0
                           THEN [streak EXCEPT !.length = @ + 1]
                           ELSE [alive |-> alive[1], length |-> 1, since |-> cycle]
<1>0. 1 \in Workers
  BY CyclesAssumption DEF Workers
<1>1. ASSUME NEW t \in Workers, PersistHostStatus(t)
      PROVE  \/ row' = row /\ streak' = streak
             \/ /\ t = 1 /\ at[1] = "persist" /\ row' = host[1]
                /\ streak' = IF streak.alive = alive[1] /\ streak.length > 0
                             THEN [streak EXCEPT !.length = @ + 1]
                             ELSE [alive |-> alive[1], length |-> 1, since |-> cycle]
  BY <1>1, Zenon DEF PersistHostStatus
<1>2. alive[1] \in BOOLEAN
  BY Zenon, <1>0 DEF StatusTypes
<1>3. ASSUME NEW t \in Workers, LoadPollHost(t) \/ RefreshHostAvailability(t)
      PROVE  row' = row /\ streak' = streak
  BY <1>3, Zenon DEF LoadPollHost, RefreshHostAvailability
<1>4. ASSUME NextCycle \/ UNCHANGED statusVars
      PROVE  row' = row /\ streak' = streak
  BY Zenon, <1>4 DEF NextCycle, statusVars
<1>5. CASE \E t \in Workers : PersistHostStatus(t)
  BY <1>1, <1>2, <1>5, Zenon DEF CopyInv
<1> QED
  BY Zenon, <1>3, <1>4, <1>5 DEF StatusNext, StatusDone

-----------------------------------------------------------------------------
(* The refinement *)

\* A host starts in a state of the abstract machine.
LEMMA HysteresisInit == StatusInit => H!Init
BY Zenon DEF StatusInit, H!Init

\* Every step of the poller is a step of the abstract machine, or none of it.
LEMMA HysteresisStep ==
    ASSUME StatusTypes, CopyInv, [StatusNext]_statusVars
    PROVE  [H!Next]_(H!vars)
<1>1. CASE row' = row
  BY Zenon, <1>1 DEF H!vars
<1>2. CASE row' = UpdateHostStatus(FALSE, row)
  <2>1. row \in Row /\ row.status \in Statuses /\ row.status_event_count \in Nat
    BY Zenon DEF StatusTypes, Row
  <2>2. /\ row.status \in {"unknown", "down", "recovering"} => row'.status = "down"
        /\ row.status = "up" =>
                /\ row'.status = IF row.status_event_count + 1 >= FailureCount
                                 THEN "down" ELSE "up"
                /\ row'.status_event_count = row.status_event_count + 1
    BY <1>2, <2>1, FailureFields, Zenon
  <2>3. H!Unanswered
    BY Zenon, <2>1, <2>2, CountsAssumption DEF H!Unanswered, H!Contradict, H!Settle, Statuses
  <2> QED
    BY Zenon, <2>3 DEF H!Next
<1>3. CASE row' = UpdateHostStatus(TRUE, row)
  <2> DEFINE count == Answers(row)
  <2>1. row \in Row /\ row.status \in Statuses /\ row.status_event_count \in Nat
    BY Zenon DEF StatusTypes, Row
  <2>2. /\ row.status \in {"unknown", "up"} =>
             row'.status = "up" /\ row'.status_event_count = 0
        /\ row.status \in {"down", "recovering"} =>
             /\ row'.status = IF count >= RecoveryCount THEN "up" ELSE "recovering"
             /\ row'.status_event_count = IF count >= RecoveryCount THEN 0 ELSE count
    BY <1>3, <2>1, RecoveryFields, Zenon
  <2>3. H!Answered
    BY <2>1, <2>2, CountsAssumption DEF Answers, H!Answered, H!Contradict, H!Settle, Statuses
  <2> QED
    BY Zenon, <2>3 DEF H!Next
<1> QED
  BY <1>1, <1>2, <1>3, RowStep, Zenon

\* update_host_status() keeps the verdict of a device against fewer than the
\* configured number of contradicting polls, for any thresholds, any number of
\* partitions and any number of cycles: the stored row implements Hysteresis.
THEOREM ImplementsHysteresisThm == StatusSpec => ImplementsHysteresis
<1>1. StatusInit => StatusTypes /\ CopyInv /\ H!Init
  BY Zenon, StatusInitially, HysteresisInit
<1>2. StatusTypes /\ CopyInv /\ [StatusNext]_statusVars => (StatusTypes /\ CopyInv)'
  BY Zenon, TypingStep, CopyStep
<1>3. StatusTypes /\ CopyInv /\ [StatusNext]_statusVars => [H!Next]_(H!vars)
  BY Zenon, HysteresisStep
<1> QED
  BY <1>1, <1>2, <1>3, PTL DEF StatusSpec, ImplementsHysteresis, H!Spec

-----------------------------------------------------------------------------
(* The dates *)

\* What persist_host_status() does to the run of equal results.
LEMMA StreakFields ==
    ASSUME StatusTypes, NEW up \in BOOLEAN,
           streak' = IF streak.alive = up /\ streak.length > 0
                     THEN [streak EXCEPT !.length = @ + 1]
                     ELSE [alive |-> up, length |-> 1, since |-> cycle]
    PROVE  /\ streak'.alive = up
           /\ streak.alive = up /\ streak.length > 0 =>
                streak'.length = streak.length + 1 /\ streak'.since = streak.since
           /\ ~(streak.alive = up /\ streak.length > 0) =>
                streak'.length = 1 /\ streak'.since = cycle
<1>1. CASE streak.alive = up /\ streak.length > 0
  <2>1. streak' = [streak EXCEPT !.length = @ + 1]
    BY Zenon, <1>1
  <2> QED
    BY Zenon, <1>1, <2>1 DEF StatusTypes
<1>2. CASE ~(streak.alive = up /\ streak.length > 0)
  <2>1. streak' = [alive |-> up, length |-> 1, since |-> cycle]
    BY <1>2, Zenon
  <2> QED
    BY <1>2, <2>1
<1> QED
  BY Zenon, <1>1, <1>2

\* The dates of one step, from what is known of the row and the run before it.
DatesStep ==
    /\ row.status = "up" /\ row'.status = "down"
          => ~streak'.alive /\ row'.fail_date = streak'.since
    /\ row.status \in {"down", "recovering"} /\ row'.status = "up"
          => streak'.alive /\ row'.rec_date = streak'.since

\* A host starts with no failures and no streak.
LEMMA StreakInit == ASSUME FailureCount # 0 PROVE StatusInit => StreakInv
BY CountsAssumption DEF StatusInit, StreakInv, Failing

\* A write-back extends or restarts the streak as update_host_status() counts it.
LEMMA StreakStep ==
    ASSUME FailureCount # 0, RecoveryCount # 0,
           StatusTypes, CopyInv, StreakInv, [StatusNext]_statusVars
    PROVE  StreakInv' /\ DatesStep
<1> USE CountsAssumption
<1>1. CASE row' = row /\ streak' = streak
  BY Zenon, <1>1 DEF StreakInv, Failing, DatesStep
<1>2. /\ row \in Row /\ row.status \in Statuses /\ row.status_event_count \in Nat
      /\ streak.length \in Nat /\ streak.alive \in BOOLEAN
  BY Zenon DEF StatusTypes, Row
<1>3. CASE /\ row' = UpdateHostStatus(FALSE, row)
           /\ streak' = IF streak.alive = FALSE /\ streak.length > 0
                        THEN [streak EXCEPT !.length = @ + 1]
                        ELSE [alive |-> FALSE, length |-> 1, since |-> cycle]
  <2>1. /\ row.status \in {"unknown", "down", "recovering"} => row'.status = "down"
        /\ row.status = "up" =>
             /\ row'.status = IF row.status_event_count + 1 >= FailureCount
                              THEN "down" ELSE "up"
             /\ row'.status_event_count = row.status_event_count + 1
             /\ row'.fail_date =
                  IF \/ FailureCount = 1
                     \/ row.status_event_count = 0 /\ 1 < FailureCount
                  THEN cycle ELSE row.fail_date
    BY <1>2, <1>3, FailureFields, Zenon
  <2>2. /\ streak'.alive = FALSE
        /\ Failing => streak'.length = streak.length + 1 /\ streak'.since = streak.since
        /\ ~Failing => streak'.length = 1 /\ streak'.since = cycle
    BY Zenon, <1>2, <1>3, StreakFields DEF Failing
  <2>3. streak'.length > 0 /\ Failing'
    BY <1>2, <2>2 DEF Failing
  <2>4. CASE row.status # "up"
    BY Zenon, <1>2, <2>1, <2>3, <2>4 DEF StreakInv, DatesStep, Statuses
  <2>5. CASE row.status = "up"
    <3>1. /\ row'.status \in {"up", "down"}
          /\ row'.status = "up" => row'.status_event_count < FailureCount
          /\ row'.status_event_count = streak'.length
      BY <1>2, <2>1, <2>2, <2>5 DEF StreakInv
    <3>2. row'.fail_date = streak'.since
      <4>1. CASE Failing
        BY <1>2, <2>1, <2>2, <2>5, <4>1 DEF StreakInv, Failing
      <4>2. CASE ~Failing
        BY <1>2, <2>1, <2>2, <2>5, <4>2 DEF StreakInv
      <4> QED
        BY Zenon, <4>1, <4>2
    <3> QED
      BY Zenon, <2>2, <2>3, <2>5, <3>1, <3>2 DEF StreakInv, DatesStep
  <2> QED
    BY Zenon, <2>4, <2>5
<1>4. CASE /\ row' = UpdateHostStatus(TRUE, row)
           /\ streak' = IF streak.alive = TRUE /\ streak.length > 0
                        THEN [streak EXCEPT !.length = @ + 1]
                        ELSE [alive |-> TRUE, length |-> 1, since |-> cycle]
  <2> DEFINE count == Answers(row)
  <2>1. /\ row.status \in {"unknown", "up"} =>
             row'.status = "up" /\ row'.status_event_count = 0
        /\ row.status \in {"down", "recovering"} =>
             /\ row'.status = IF count >= RecoveryCount THEN "up" ELSE "recovering"
             /\ row'.status_event_count = IF count >= RecoveryCount THEN 0 ELSE count
             /\ row'.rec_date =
                  IF RecoveryCount = 1 \/ (count = 1 /\ 1 < RecoveryCount)
                  THEN cycle ELSE row.rec_date
    <3>1. row \in Row /\ row' = UpdateHostStatus(TRUE, row)
      BY Zenon, <1>2, <1>4
    <3> QED
      BY <3>1, RecoveryFields, Zenon
  <2>2. /\ streak'.alive = TRUE
        /\ streak.alive /\ streak.length > 0 =>
             streak'.length = streak.length + 1 /\ streak'.since = streak.since
        /\ ~(streak.alive /\ streak.length > 0) =>
             streak'.length = 1 /\ streak'.since = cycle
    BY Zenon, <1>2, <1>4, StreakFields
  <2>3. ~Failing'
    BY Zenon, <2>2 DEF Failing
  <2>4. CASE row.status \notin {"down", "recovering"}
    BY <1>2, <2>1, <2>3, <2>4 DEF StreakInv, DatesStep, Statuses
  <2>5. CASE row.status = "down"
    BY <1>2, <2>1, <2>2, <2>3, <2>5 DEF Answers, StreakInv, DatesStep, Failing
  <2>6. CASE row.status = "recovering"
    BY <1>2, <2>1, <2>2, <2>3, <2>6 DEF Answers, StreakInv, DatesStep
  <2> QED
    BY Zenon, <2>4, <2>5, <2>6
<1> QED
  BY <1>1, <1>3, <1>4, RowStep, Zenon

\* status_fail_date and status_rec_date are the dates of the first failure of an
\* outage and of the first answer after it (host_failure_transition,
\* host_recovery_transition), for any thresholds but zero. With a threshold of
\* zero the transition is taken at once and its date is not set.
THEOREM DatesAreFirstEventsThm ==
    ASSUME FailureCount # 0, RecoveryCount # 0
    PROVE  StatusSpec => DatesAreFirstEvents
<1>1. StatusInit => StatusTypes /\ CopyInv /\ StreakInv
  BY Zenon, StatusInitially, StreakInit
<1>2. StatusTypes /\ CopyInv /\ StreakInv /\ [StatusNext]_statusVars
         => (StatusTypes /\ CopyInv /\ StreakInv)' /\ DatesStep
  BY Zenon, TypingStep, CopyStep, StreakStep
<1>3. StatusTypes /\ CopyInv /\ StreakInv /\ [StatusNext]_statusVars
         => [DatesStep]_statusVars
  BY Zenon, <1>2
<1> QED
  BY <1>1, <1>2, <1>3, PTL DEF StatusSpec, DatesAreFirstEvents, DatesStep

-----------------------------------------------------------------------------
(* ping_icmp(), ping_udp() and ping_tcp() *)

-----------------------------------------------------------------------------
(* ICMP *)

Before == {"open", "raw"}
Holding == {"resolve", "send", "listen"}
Requests == [dev : Devices, id : Threads \cup {Pid}, seq : Seqs]
Messages == [from : Devices, id : Threads \cup {Pid, OtherPid}, seq : Seqs,
             echo : BOOLEAN]

\* The request an echo reply answers.
AnsweredTo(m) == [dev |-> m.from, id |-> m.id, seq |-> m.seq]

\* What can be in a thread's receive queue: an echo reply answers a request of
\* this process that its device has echoed, or is another process's; and on a
\* datagram socket it carries the socket's own id.
Genuine(t) ==
    {m \in Messages : m.echo => /\ m.id = OtherPid \/ AnsweredTo(m) \in echoed
                                /\ dgram[t] => m.id = t}

IcmpTypes ==
    /\ family \in {"v4", "v6"}
    /\ target \in [Threads -> Devices]
    /\ pc \in [Threads -> Before \cup {"packet", "done"} \cup Holding]
    /\ rc \in [Threads -> {"none", "up", "down"}]
    /\ dgram \in [Threads -> BOOLEAN]
    /\ large \in [Threads -> BOOLEAN]
    /\ held \in [Threads -> SUBSET {"socket", "packet"}]
    /\ retry_count \in [Threads -> Nat]
    /\ seq \in [Threads -> Seqs]
    /\ elapsed \in [Threads -> Nat]
    /\ asked \in SUBSET Requests
    /\ echoed \in SUBSET Requests

\* The socket is open from its creation to cleanup, the packet from its
\* allocation; without a socket nothing is queued.
HeldInv ==
    \A t \in Threads :
        /\ pc[t] \in Before \cup {"done"} => held[t] = {} /\ inbox[t] = <<>>
        /\ pc[t] = "packet" => held[t] = {"socket"}
        /\ pc[t] \in Holding => held[t] = {"socket", "packet"}

QueueInv == /\ DOMAIN inbox = Threads
            /\ \A t \in Threads : inbox[t] \in Seq(Genuine(t))

UpInv == \A t \in Threads :
            rc[t] = "up" => pc[t] = "done" /\ Request(t) \in echoed

\* begin_time is set where an attempt starts and nowhere else, so the time since
\* then is the time it has listened.
WaitInv == waited = elapsed /\ \A t \in Threads : elapsed[t] <= Timeout

IcmpInv == IcmpTypes /\ HeldInv /\ QueueInv /\ UpInv /\ WaitInv

-----------------------------------------------------------------------------
(* UDP and TCP *)

PortTypes ==
    /\ method \in {"udp", "tcp", "tcp_closed"}
    /\ retries \in Nat /\ timeout \in Nat
    /\ step \in {"start", "socket", "attempt", "sent", "select", "done"}
    /\ verdict \in {"none", "up", "down"}
    /\ fd \in {"none", "open", "large"}
    /\ try \in Nat /\ clock \in Nat /\ spent \in Nat
    /\ error \in {"none", "refused", "unreachable", "network"}
    /\ data \in BOOLEAN /\ sent \in BOOLEAN /\ heard \in BOOLEAN

\* A closed socket has nothing pending, and what is pending was answered.
PendingInv ==
    /\ fd = "none" => error = "none" /\ ~data /\ ~sent
    /\ error # "none" => error \in signs
    /\ data => (IF method = "udp" THEN "data" ELSE "ok") \in signs
    /\ method # "udp" => error = "none" \/ ~data

\* Where the call is says whether its socket is open and its verdict known.
NoSocket == \/ step \in {"start", "socket", "done"}
            \/ method # "udp" /\ step = "attempt"

StepInv ==
    /\ fd = "none" <=> NoSocket
    /\ step = "socket" => method = "udp"
    /\ verdict # "none" <=> step = "done"
    /\ verdict = "up" => \E kind \in signs : Decisive(kind)

\* A sign that came while select() watched is still there to be read, and
\* nothing has come that recv() would report before it.
HeardInv ==
    heard =>
        /\ step \in {"select", "done"} /\ verdict # "down"
        /\ step = "select" =>
              CASE method = "udp" -> error # "network" /\ (error # "none" \/ data)
                [] method = "tcp" -> error = "none" /\ data
                [] method = "tcp_closed" -> error = "refused" \/ (error = "none" /\ data)

\* Every attempt that is over has used up at most the timeout.
SpentInv == /\ try <= retries /\ clock <= timeout
            /\ spent <= try * timeout + clock

PortInv == PortTypes /\ PendingInv /\ StepInv /\ HeardInv /\ SpentInv

IInv == IcmpInv /\ PortInv

-----------------------------------------------------------------------------
(* What a step of one thread keeps *)

USE DEF attempt, socket, network, observed, icmpVars, Goto, Count, Restart

\* A thread that only drops messages, or starts with none, keeps its queue genuine.
LEMMA QueueKeeps ==
    ASSUME QueueInv, NEW t \in Threads, echoed' = echoed, DOMAIN inbox' = Threads,
           \A u \in Threads : u # t => inbox'[u] = inbox[u] /\ dgram'[u] = dgram[u],
           \/ inbox'[t] = <<>>
           \/ /\ dgram'[t] = dgram[t]
              /\ \/ inbox'[t] = inbox[t]
                 \/ inbox[t] # <<>> /\ inbox'[t] = Tail(inbox[t])
    PROVE  QueueInv'
<1>1. ASSUME NEW u \in Threads PROVE inbox'[u] \in Seq(Genuine(u)')
  <2>1. CASE dgram'[u] = dgram[u]
    <3>1. Genuine(u)' = Genuine(u)
      BY Zenon, <2>1 DEF Genuine
    <3>2. CASE inbox'[u] = <<>>
      BY <3>2
    <3>3. CASE inbox'[u] = inbox[u]
      BY Zenon, <3>1, <3>3 DEF QueueInv
    <3>4. CASE inbox[u] # <<>> /\ inbox'[u] = Tail(inbox[u])
      <4>1. inbox[u] \in Seq(Genuine(u))
        BY Zenon DEF QueueInv
      <4>2. Tail(inbox[u]) \in Seq(Genuine(u))
        BY <4>1, <3>4
      <4> QED
        BY Zenon, <3>1, <3>4, <4>2
    <3> QED
      BY Zenon, <3>2, <3>3, <3>4
  <2>2. CASE inbox'[u] = <<>>
    BY <2>2
  <2> QED
    BY Zenon, <2>1, <2>2
<1> QED
  BY Zenon, <1>1 DEF QueueInv

\* A thread that is not done and does not say "up" disturbs no verdict.
LEMMA UpKeeps ==
    ASSUME UpInv, NEW t \in Threads, echoed \subseteq echoed', target' = target,
           \A u \in Threads : u # t => /\ rc'[u] = rc[u] /\ pc'[u] = pc[u]
                                       /\ dgram'[u] = dgram[u] /\ seq'[u] = seq[u],
           rc'[t] # "up"
    PROVE  UpInv'
BY Zenon DEF UpInv, Request, Id

\* The end of a call, whatever its verdict, gives everything back.
LEMMA CleanupKeeps ==
    ASSUME IcmpInv, NEW t \in Threads, NEW r \in {"up", "down"}, Cleanup(t, r),
           UNCHANGED <<family, target, waited, dgram, large, seq, elapsed, asked, echoed>>,
           retry_count' \in [Threads -> Nat],
           r = "up" => Request(t) \in echoed
    PROVE  IcmpInv'
<1> USE DEF Cleanup
<1>1. IcmpTypes'
  BY Zenon DEF IcmpInv, IcmpTypes
<1>2. HeldInv'
  BY Zenon DEF IcmpInv, IcmpTypes, HeldInv, QueueInv, Before, Holding
<1>3. QueueInv'
  <2>1. /\ DOMAIN inbox' = Threads /\ inbox'[t] = <<>>
        /\ \A u \in Threads : u # t => inbox'[u] = inbox[u] /\ dgram'[u] = dgram[u]
    BY Zenon DEF IcmpInv, QueueInv
  <2> QED
    BY Zenon, <2>1, QueueKeeps DEF IcmpInv
<1>4. UpInv'
  BY Zenon DEF IcmpInv, IcmpTypes, UpInv, Request, Id
<1>5. WaitInv'
  BY Zenon DEF IcmpInv, WaitInv
<1> QED
  BY Zenon, <1>1, <1>2, <1>3, <1>4, <1>5 DEF IcmpInv

\* A step of one thread that keeps the network, opens no queue and ends no call.
LEMMA MoveKeeps ==
    ASSUME IcmpInv, NEW t \in Threads, pc[t] # "done", IcmpTypes', UNCHANGED <<target, rc, echoed>>,
           NEW s \in Before \cup {"packet"} \cup Holding, pc' = [pc EXCEPT ![t] = s],
           \A u \in Threads : u # t => /\ dgram'[u] = dgram[u] /\ seq'[u] = seq[u]
                                       /\ held'[u] = held[u] /\ inbox'[u] = inbox[u],
           DOMAIN inbox' = Threads,
           \/ inbox'[t] = <<>>
           \/ /\ dgram'[t] = dgram[t]
              /\ \/ inbox'[t] = inbox[t]
                 \/ inbox[t] # <<>> /\ inbox'[t] = Tail(inbox[t]),
           s \in Before => held'[t] = {} /\ inbox'[t] = <<>>,
           s = "packet" => held'[t] = {"socket"},
           s \in Holding => held'[t] = {"socket", "packet"},
           WaitInv'
    PROVE  IcmpInv'
<1>1. HeldInv'
  <2>1. pc'[t] = s /\ \A u \in Threads : u # t => pc'[u] = pc[u]
    BY Zenon DEF IcmpInv, IcmpTypes
  <2>2. s # "done"
    BY Zenon DEF Before, Holding
  <2>3. ASSUME NEW u \in Threads, u # t
        PROVE  /\ pc'[u] \in Before \cup {"done"} => held'[u] = {} /\ inbox'[u] = <<>>
               /\ pc'[u] = "packet" => held'[u] = {"socket"}
               /\ pc'[u] \in Holding => held'[u] = {"socket", "packet"}
    BY ZenonT(60), <2>1, <2>3 DEF IcmpInv, HeldInv
  <2>4. /\ pc'[t] \in Before \cup {"done"} => held'[t] = {} /\ inbox'[t] = <<>>
        /\ pc'[t] = "packet" => held'[t] = {"socket"}
        /\ pc'[t] \in Holding => held'[t] = {"socket", "packet"}
    BY Zenon, <2>1, <2>2
  <2> QED
    BY Zenon, <2>3, <2>4 DEF HeldInv
<1>2. QueueInv'
  BY ZenonT(60), QueueKeeps DEF IcmpInv
<1>3. UpInv'
  <2>1. rc'[t] # "up"
    BY Zenon DEF IcmpInv, UpInv
  <2>2. \A u \in Threads : u # t => pc'[u] = pc[u]
    BY Zenon DEF IcmpInv, IcmpTypes
  <2> QED
    BY ZenonT(60), <2>1, <2>2, UpKeeps DEF IcmpInv
<1> QED
  BY Zenon, <1>1, <1>2, <1>3 DEF IcmpInv

-----------------------------------------------------------------------------
(* The actions of a thread *)

\* opening the datagram socket keeps the invariant of ping_icmp().
LEMMA OpenDgramKeeps ==
    ASSUME IcmpInv, NEW t \in Threads, OpenDgram(t)
    PROVE  IcmpInv'
<1> USE DEF OpenDgram, Opened
<1>1. /\ pc[t] = "open" /\ held[t] = {} /\ inbox[t] = <<>>
      /\ UNCHANGED <<target, rc, seq, inbox, echoed>>
  BY Zenon DEF IcmpInv, HeldInv, Before
<1>2. IcmpTypes'
  <2>1. dgram' \in [Threads -> BOOLEAN] /\ large' \in [Threads -> BOOLEAN]
    BY ZenonT(60) DEF IcmpInv, IcmpTypes
  <2>2. /\ pc' \in [Threads -> Before \cup {"packet", "done"} \cup Holding]
        /\ held' \in [Threads -> SUBSET {"socket", "packet"}]
    BY DEF IcmpInv, IcmpTypes, Before
  <2> QED
    BY Zenon, <2>1, <2>2 DEF IcmpInv, IcmpTypes
<1>w. WaitInv'
  BY Zenon DEF IcmpInv, WaitInv
<1>3. CASE Opened(t, TRUE) /\ Goto(t, "packet")
  <2>1. /\ held'[t] = {"socket"}
        /\ \A u \in Threads : u # t => dgram'[u] = dgram[u] /\ held'[u] = held[u]
    BY Zenon, <1>3 DEF IcmpInv, IcmpTypes
  <2>2. "packet" \notin Before /\ "packet" \notin Holding
    BY Zenon DEF Before, Holding
  <2> QED
    BY ZenonT(30), <1>1, <1>2, <1>w, <1>3, <2>1, <2>2, MoveKeeps DEF IcmpInv, QueueInv
<1>4. CASE Goto(t, "raw") /\ UNCHANGED socket
  <2>1. "raw" \in Before /\ "raw" \notin Holding
    BY Zenon DEF Before, Holding
  <2> QED
    BY ZenonT(30), <1>1, <1>2, <1>w, <1>4, <2>1, MoveKeeps DEF IcmpInv, QueueInv
<1> QED
  BY Zenon, <1>3, <1>4

\* so does falling back to the raw socket,
LEMMA RawSocketKeeps ==
    ASSUME IcmpInv, NEW t \in Threads, RawSocket(t)
    PROVE  IcmpInv'
<1> USE DEF RawSocket
<1>1. /\ pc[t] = "raw" /\ held[t] = {} /\ inbox[t] = <<>>
      /\ UNCHANGED <<family, target, waited, seq, elapsed, asked, echoed>>
  BY Zenon DEF IcmpInv, HeldInv, Before
<1>2. retry_count' \in [Threads -> Nat]
  <2>1. UNCHANGED retry_count \/ Count(t)
    BY Zenon
  <2> QED
    BY <2>1 DEF IcmpInv, IcmpTypes
<1>3. CASE Opened(t, FALSE) /\ Goto(t, "packet") /\ UNCHANGED <<rc, retry_count, inbox>>
  <2> USE DEF Opened
  <2>1. /\ held'[t] = {"socket"}
        /\ \A u \in Threads : u # t => dgram'[u] = dgram[u] /\ held'[u] = held[u]
    BY Zenon, <1>3 DEF IcmpInv, IcmpTypes
  <2>2. "packet" \notin Before /\ "packet" \notin Holding
    BY Zenon DEF Before, Holding
  <2>3. IcmpTypes'
    <3>1. dgram' \in [Threads -> BOOLEAN] /\ large' \in [Threads -> BOOLEAN]
      BY Zenon, <1>3 DEF IcmpInv, IcmpTypes
    <3>2. /\ pc' \in [Threads -> Before \cup {"packet", "done"} \cup Holding]
          /\ held' \in [Threads -> SUBSET {"socket", "packet"}]
      BY Zenon, <1>3 DEF IcmpInv, IcmpTypes, Before
    <3> QED
      BY Zenon, <1>1, <1>3, <3>1, <3>2 DEF IcmpInv, IcmpTypes
  <2>4. WaitInv'
    BY Zenon, <1>1 DEF IcmpInv, WaitInv
  <2> QED
    BY ZenonT(30), <1>1, <1>3, <2>1, <2>2, <2>3, <2>4, MoveKeeps DEF IcmpInv, QueueInv
<1>4. CASE Cleanup(t, "down") /\ UNCHANGED <<dgram, large>>
  BY ZenonT(30), <1>1, <1>2, <1>4, CleanupKeeps
<1>5. CASE UNCHANGED <<pc, rc, socket, inbox>>
  <2>1. IcmpTypes' /\ HeldInv' /\ UpInv' /\ WaitInv'
    BY Zenon, <1>1, <1>2, <1>5
       DEF IcmpInv, IcmpTypes, HeldInv, UpInv, WaitInv, Request, Id
  <2>2. QueueInv'
    BY Zenon, <1>1, <1>5 DEF IcmpInv, QueueInv, Genuine
  <2> QED
    BY Zenon, <2>1, <2>2 DEF IcmpInv
<1> QED
  BY Zenon, <1>3, <1>4, <1>5

\* and taking a sequence number,
LEMMA NumberKeeps ==
    ASSUME IcmpInv, NEW t \in Threads, Number(t)
    PROVE  IcmpInv'
<1> USE DEF Number
<1>1. pc[t] = "packet" /\ UNCHANGED <<family, target, waited, rc, dgram, elapsed, network>>
  BY Zenon
<1>2. IcmpTypes'
  <2>1. /\ pc' \in [Threads -> Before \cup {"packet", "done"} \cup Holding]
        /\ held' \in [Threads -> SUBSET {"socket", "packet"}]
        /\ seq' \in [Threads -> Seqs] /\ retry_count' \in [Threads -> Nat]
    BY DEF IcmpInv, IcmpTypes, Holding
  <2> QED
    BY Zenon, <2>1 DEF IcmpInv, IcmpTypes
<1>3. /\ held'[t] = {"socket", "packet"}
      /\ \A u \in Threads : u # t => seq'[u] = seq[u] /\ held'[u] = held[u]
  BY Zenon, <1>1 DEF IcmpInv, IcmpTypes, HeldInv
<1>4. WaitInv'
  BY Zenon DEF IcmpInv, WaitInv
<1>5. "resolve" \in Holding /\ "resolve" \notin Before
  BY Zenon DEF Before, Holding
<1> QED
  BY ZenonT(30), <1>1, <1>2, <1>3, <1>4, <1>5, MoveKeeps DEF IcmpInv, QueueInv

\* and resolving the name of the device.
LEMMA LookupKeeps ==
    ASSUME IcmpInv, NEW t \in Threads, Lookup(t)
    PROVE  IcmpInv'
<1> USE DEF Lookup
<1>1. /\ pc[t] = "resolve" /\ held[t] = {"socket", "packet"}
      /\ UNCHANGED <<family, target, waited, dgram, large, seq, elapsed, asked, echoed>>
  BY Zenon DEF IcmpInv, HeldInv, Holding
<1>2. retry_count' \in [Threads -> Nat]
  BY DEF IcmpInv, IcmpTypes
<1>3. CASE Goto(t, "send") /\ UNCHANGED <<rc, held, inbox>>
  <2>1. "send" \in Holding /\ "send" \notin Before
    BY Zenon DEF Before, Holding
  <2>2. pc' \in [Threads -> Before \cup {"packet", "done"} \cup Holding]
    BY Zenon, <1>3, <2>1 DEF IcmpInv, IcmpTypes
  <2>3. IcmpTypes' /\ WaitInv'
    BY Zenon, <1>1, <1>2, <1>3, <2>2 DEF IcmpInv, IcmpTypes, WaitInv
  <2> QED
    BY ZenonT(30), <1>1, <1>3, <2>1, <2>3, MoveKeeps DEF IcmpInv, QueueInv
<1>4. CASE UNCHANGED <<pc, rc, held, inbox>>
  <2>1. IcmpTypes' /\ HeldInv' /\ UpInv' /\ WaitInv'
    BY ZenonT(60), <1>1, <1>2, <1>4
       DEF IcmpInv, IcmpTypes, HeldInv, UpInv, WaitInv, Request, Id
  <2>2. QueueInv'
    <3>1. inbox' = inbox /\ dgram' = dgram /\ echoed' = echoed
      BY Zenon, <1>1, <1>4
    <3> QED
      BY Zenon, <3>1, QueueKeeps DEF IcmpInv, QueueInv
  <2> QED
    BY Zenon, <2>1, <2>2 DEF IcmpInv
<1>5. CASE Cleanup(t, "down")
  BY ZenonT(30), <1>1, <1>2, <1>5, CleanupKeeps
<1> QED
  BY Zenon, <1>3, <1>4, <1>5

\* A ping that gives up leaves the answers of the others where they are.
LEMMA OutOfAttemptsKeeps ==
    ASSUME IcmpInv, NEW t \in Threads, OutOfAttempts(t)
    PROVE  IcmpInv'
<1>1. retry_count' \in [Threads -> Nat]
  BY Zenon DEF OutOfAttempts, IcmpInv, IcmpTypes
<1> QED
  BY ZenonT(30), <1>1, CleanupKeeps DEF OutOfAttempts

\* A request is sent or not; the thread stays between "send" and "listen".
LEMMA SendKeeps ==
    ASSUME IcmpInv, NEW t \in Threads, Send(t) \/ Send6(t)
    PROVE  IcmpInv'
<1>1. /\ pc[t] = "send" /\ held[t] = {"socket", "packet"}
      /\ elapsed' = [elapsed EXCEPT ![t] = 0]
      /\ waited' = [waited EXCEPT ![t] = 0]
      /\ UNCHANGED <<family, target, rc, socket, seq, inbox, echoed>>
  BY Zenon DEF Send, Send6, IcmpInv, HeldInv, Holding
<1>2. PICK s \in {"send", "listen"} : pc' = [pc EXCEPT ![t] = s]
  <2>1. Goto(t, "listen") \/ pc' = pc
    BY Zenon DEF Send, Send6, Transmit
  <2>2. CASE pc' = pc
    <3>1. pc' = [pc EXCEPT ![t] = "send"]
      BY Zenon, <1>1, <2>2 DEF IcmpInv, IcmpTypes
    <3> QED
      BY Zenon, <3>1
  <2> QED
    BY Zenon, <2>1, <2>2
<1>3. asked' \in SUBSET Requests
  <2>1. Request(t) \in Requests
    BY Zenon DEF IcmpInv, IcmpTypes, Request, Id, Requests
  <2>2. asked' = asked \/ asked' = asked \cup {Request(t)}
    BY Zenon DEF Send, Send6, Transmit
  <2> QED
    BY Zenon, <2>1, <2>2 DEF IcmpInv, IcmpTypes
<1>4. retry_count' \in [Threads -> Nat]
  <2>1. UNCHANGED retry_count \/ Count(t)
    BY Zenon DEF Send, Send6, Transmit
  <2> QED
    BY <2>1 DEF IcmpInv, IcmpTypes
<1>5. s \in Holding /\ s \notin Before /\ s # "packet"
  BY Zenon DEF Before, Holding
<1>6. IcmpTypes'
  <2>1. pc' \in [Threads -> Before \cup {"packet", "done"} \cup Holding]
    BY Zenon, <1>2, <1>5 DEF IcmpInv, IcmpTypes
  <2>2. elapsed' \in [Threads -> Nat]
    BY Zenon, <1>1 DEF IcmpInv, IcmpTypes
  <2> QED
    BY Zenon, <1>1, <1>3, <1>4, <2>1, <2>2 DEF IcmpInv, IcmpTypes
<1>7. WaitInv'
  BY <1>1, BoundsAssumption DEF IcmpInv, IcmpTypes, WaitInv
<1> QED
  BY ZenonT(30), <1>1, <1>2, <1>5, <1>6, <1>7, MoveKeeps DEF IcmpInv, QueueInv

\* An accepted message is the device's echo of this ping's request: it carries
\* the id this thread's socket sends with, which no other process uses.
LEMMA AcceptedIsEchoed ==
    ASSUME IcmpInv, NEW t \in Threads, inbox[t] # <<>>, Accepted(t, Head(inbox[t]))
    PROVE  Request(t) \in echoed
<1> DEFINE m == Head(inbox[t])
<1>1. m \in Genuine(t)
  <2>1. inbox[t] \in Seq(Genuine(t))
    BY Zenon DEF IcmpInv, QueueInv
  <2> QED
    BY <2>1
<1>2. /\ m.echo /\ m.seq = seq[t] /\ m.from = target[t]
      /\ ~dgram[t] => m.id = Pid
  BY Zenon DEF Accepted, Accepts, Accepts6, Matches6, Classify, ClassifyDgram
<1>3. m.id = OtherPid \/ AnsweredTo(m) \in echoed
  BY Zenon, <1>1, <1>2 DEF Genuine
<1>4. m.id = Id(t) /\ m.id # OtherPid
  <2>1. dgram[t] => m.id = t
    BY Zenon, <1>1, <1>2 DEF Genuine
  <2> QED
    BY Zenon, <1>2, <2>1, IdAssumption DEF Id
<1>5. AnsweredTo(m) = Request(t)
  BY Zenon, <1>2, <1>4 DEF AnsweredTo, Request
<1> QED
  BY Zenon, <1>3, <1>4, <1>5

\* An attempt that is used up leaves the queues as they are.
LEMMA NextAttemptKeeps ==
    ASSUME IcmpInv, NEW t \in Threads, pc[t] = "listen", NextAttempt(t),
           UNCHANGED <<family, target, waited, dgram, large, seq, asked, echoed>>
    PROVE  IcmpInv'
<1> USE DEF NextAttempt
<1>1. /\ held[t] = {"socket", "packet"}
      /\ UNCHANGED <<rc, held, elapsed, inbox>>
  BY Zenon DEF IcmpInv, HeldInv, Holding
<1>2. retry_count' \in [Threads -> Nat]
  BY DEF IcmpInv, IcmpTypes
<1>3. "send" \in Holding /\ "send" \notin Before
  BY Zenon DEF Before, Holding
<1>4. pc' \in [Threads -> Before \cup {"packet", "done"} \cup Holding]
  BY Zenon, <1>3 DEF IcmpInv, IcmpTypes
<1>5. IcmpTypes' /\ WaitInv'
  BY Zenon, <1>1, <1>2, <1>4 DEF IcmpInv, IcmpTypes, WaitInv
<1> QED
  BY ZenonT(30), <1>1, <1>3, <1>5, MoveKeeps DEF IcmpInv, QueueInv

\* A message that is taken leaves the queue, and one that is accepted is the reply.
LEMMA HearKeeps ==
    ASSUME IcmpInv, NEW t \in Threads, Hear(t)
    PROVE  IcmpInv'
<1> USE DEF Hear
<1>1. /\ pc[t] = "listen"
      /\ UNCHANGED <<family, target, waited, dgram, large, seq, asked, echoed>>
  BY Zenon
<1>2. ASSUME NEW r \in {"up", "down"}, Cleanup(t, r), UNCHANGED <<retry_count, elapsed>>,
             r = "up" => Request(t) \in echoed
      PROVE  IcmpInv'
  <2>1. retry_count' \in [Threads -> Nat]
    BY Zenon, <1>2 DEF IcmpInv, IcmpTypes
  <2> QED
    BY ZenonT(30), <1>1, <1>2, <2>1, CleanupKeeps
<1>3. CASE Cleanup(t, "down") /\ UNCHANGED <<retry_count, elapsed>>
  BY Zenon, <1>2, <1>3
<1>4. CASE NextAttempt(t)
  BY Zenon, <1>1, <1>4, NextAttemptKeeps
<1>5. CASE /\ inbox[t] # <<>> /\ Accepted(t, Head(inbox[t]))
           /\ Cleanup(t, "up") /\ UNCHANGED <<retry_count, elapsed>>
  BY Zenon, <1>2, <1>5, AcceptedIsEchoed
<1>6. CASE /\ inbox[t] # <<>> /\ inbox' = [inbox EXCEPT ![t] = Tail(@)]
           /\ UNCHANGED <<pc, rc, held, retry_count, elapsed>>
  <2>1. IcmpTypes' /\ UpInv' /\ WaitInv'
    BY Zenon, <1>1, <1>6 DEF IcmpInv, IcmpTypes, UpInv, WaitInv, Request, Id
  <2>2. /\ DOMAIN inbox' = Threads /\ inbox'[t] = Tail(inbox[t])
        /\ \A u \in Threads : u # t => inbox'[u] = inbox[u]
    BY Zenon, <1>6 DEF IcmpInv, QueueInv
  <2>3. QueueInv'
    BY Zenon, <1>1, <1>6, <2>2, QueueKeeps DEF IcmpInv
  <2>4. HeldInv'
    BY Zenon, <1>1, <1>6, <2>2 DEF IcmpInv, HeldInv, Before, Holding
  <2> QED
    BY Zenon, <2>1, <2>3, <2>4 DEF IcmpInv
<1> QED
  BY Zenon, <1>3, <1>4, <1>5, <1>6

\* Waiting keeps the invariant.
LEMMA TickKeeps ==
    ASSUME IcmpInv, NEW t \in Threads, Tick(t)
    PROVE  IcmpInv'
<1> USE DEF Tick
<1>1. IcmpTypes' /\ WaitInv'
  <2>1. elapsed' \in [Threads -> Nat]
    BY DEF IcmpInv, IcmpTypes
  <2>2. WaitInv'
    BY BoundsAssumption DEF IcmpInv, IcmpTypes, WaitInv
  <2> QED
    BY Zenon, <2>1, <2>2 DEF IcmpInv, IcmpTypes
<1>2. HeldInv' /\ UpInv'
  BY Zenon DEF IcmpInv, HeldInv, UpInv, Request, Id
<1>3. QueueInv'
  BY Zenon DEF IcmpInv, QueueInv, Genuine
<1> QED
  BY Zenon, <1>1, <1>2, <1>3 DEF IcmpInv

-----------------------------------------------------------------------------
(* What the network delivers *)

\* A sequence over a set is one over a larger set.
LEMMA SeqGrows == ASSUME NEW S, NEW T, S \subseteq T, NEW q \in Seq(S)
                  PROVE  q \in Seq(T)
OBVIOUS

\* The kernel puts on a socket's queue only what that socket may hear.
LEMMA DeliverKeeps ==
    ASSUME IcmpInv, NEW m \in Messages, Deliver(m),
           echoed \subseteq echoed', echoed' \in SUBSET Requests,
           m.echo => m.id = OtherPid \/ AnsweredTo(m) \in echoed',
           UNCHANGED <<family, target, waited, pc, rc, socket, attempt, asked>>
    PROVE  IcmpInv'
<1> USE DEF Deliver
<1>1. IcmpTypes' /\ UpInv' /\ WaitInv'
  BY Zenon DEF IcmpInv, IcmpTypes, UpInv, WaitInv, Request, Id
<1>2. QueueInv'
  <2>1. ASSUME NEW u \in Threads PROVE inbox'[u] \in Seq(Genuine(u)')
    <3>1. Genuine(u) \subseteq Genuine(u)'
      BY Zenon DEF Genuine
    <3>2. inbox[u] \in Seq(Genuine(u)')
      <4>1. inbox[u] \in Seq(Genuine(u))
        BY Zenon DEF IcmpInv, QueueInv
      <4> HIDE DEF Deliver
      <4> QED
        BY Zenon, <3>1, <4>1, SeqGrows
    <3>3. CASE inbox'[u] = inbox[u]
      BY Zenon, <3>2, <3>3
    <3>4. CASE inbox'[u] # inbox[u]
      <4>1. (dgram[u] => m.id = u) /\ inbox'[u] = Append(inbox[u], m)
        BY Zenon, <3>4
      <4>2. m \in Genuine(u)'
        BY Zenon, <4>1 DEF Genuine
      <4> HIDE DEF Deliver
      <4> QED
        BY <3>2, <4>1, <4>2
    <3> QED
      BY Zenon, <3>3, <3>4
  <2>2. DOMAIN inbox' = Threads
    BY Zenon
  <2> QED
    BY Zenon, <2>1, <2>2 DEF QueueInv
<1>3. HeldInv'
  <2>1. \A u \in Threads : held[u] = {} => inbox'[u] = inbox[u]
    BY Zenon
  <2> QED
    BY Zenon, <2>1 DEF IcmpInv, HeldInv
<1> QED
  BY Zenon, <1>1, <1>2, <1>3 DEF IcmpInv

\* A device answers only what it was asked.
LEMMA ReplyKeeps == ASSUME IcmpInv, Reply PROVE IcmpInv'
<1> DEFINE Message(r) == [from |-> r.dev, id |-> r.id, seq |-> r.seq, echo |-> TRUE]
<1>1. PICK r \in asked \cup [dev : Devices, id : {OtherPid}, seq : Seqs] :
         echoed' = echoed \cup ({r} \cap asked) /\ Deliver(Message(r))
  BY Zenon DEF Reply
<1>2. r \in [dev : Devices, id : Threads \cup {Pid, OtherPid}, seq : Seqs]
  BY Zenon DEF IcmpInv, IcmpTypes, Requests
<1>3. Message(r) \in Messages
  BY Zenon, <1>2 DEF Messages
<1>4. r.id = OtherPid \/ AnsweredTo(Message(r)) \in echoed'
  <2>1. CASE r \in asked
    <3>1. AnsweredTo(Message(r)) = r
      BY Zenon, <1>2 DEF AnsweredTo
    <3> QED
      BY Zenon, <1>1, <2>1, <3>1
  <2>2. CASE r \notin asked
    BY Zenon, <2>2
  <2> QED
    BY Zenon, <2>1, <2>2
<1>5. echoed \subseteq echoed' /\ echoed' \in SUBSET Requests
  BY Zenon, <1>1 DEF IcmpInv, IcmpTypes
<1>6. Message(r).echo /\ Message(r).id = r.id
  BY Zenon
<1>7. UNCHANGED <<family, target, waited, pc, rc, socket, attempt, asked>>
  BY Zenon DEF Reply
<1> HIDE DEF Message
<1> QED
  BY Zenon, <1>1, <1>3, <1>4, <1>5, <1>6, <1>7, DeliverKeeps

\* Messages that belong to no ping change no verdict.
LEMMA OtherMessageKeeps == ASSUME IcmpInv, OtherMessage PROVE IcmpInv'
<1>1. PICK d \in Devices, s \in Seqs :
         Deliver([from |-> d, id |-> Pid, seq |-> s, echo |-> FALSE])
  BY Zenon DEF OtherMessage
<1> DEFINE m == [from |-> d, id |-> Pid, seq |-> s, echo |-> FALSE]
<1>2. m \in Messages /\ ~m.echo
  BY Zenon DEF Messages
<1>3. echoed' = echoed /\ UNCHANGED <<family, target, waited, pc, rc, socket, attempt, asked>>
  BY Zenon DEF OtherMessage
<1>4. Deliver(m)
  BY Zenon, <1>1
<1>5. echoed' \in SUBSET Requests
  BY Zenon, <1>3 DEF IcmpInv, IcmpTypes
<1> HIDE DEF m
<1> QED
  BY Zenon, <1>2, <1>3, <1>4, <1>5, DeliverKeeps

\* Every step of the threads, the clock and the network keeps the ICMP part.
LEMMA IcmpStep == ASSUME IcmpInv, IcmpNext PROVE IcmpInv'
<1>1. ASSUME NEW t \in Threads, Thread(t) PROVE IcmpInv'
  BY ZenonT(30), <1>1, OpenDgramKeeps, RawSocketKeeps, NumberKeeps, LookupKeeps,
     OutOfAttemptsKeeps, SendKeeps, HearKeeps
     DEF Thread, OpenRaw, OpenRaw6, Packet, Packet6, Resolve, Resolve6, Listen, Listen6
<1>2. ASSUME NEW t \in Threads, ReceiveFails(t) PROVE IcmpInv'
  BY Zenon, <1>2, NextAttemptKeeps DEF ReceiveFails
<1> QED
  BY Zenon, <1>1, <1>2, TickKeeps, ReplyKeeps, OtherMessageKeeps DEF IcmpNext

-----------------------------------------------------------------------------
(* The UDP and the TCP ping *)

USE DEF socketVars, history, portVars, Settings

\* A return closes the socket; it is sound with the sign its verdict needs.
LEMMA ReturnKeeps ==
    ASSUME PortInv, NEW r \in {"up", "down"}, PortReturn(r),
           UNCHANGED <<Settings, heard, spent>>, signs \subseteq signs',
           r = "up" => \E kind \in signs' : Decisive(kind),
           r = "down" => ~heard
    PROVE  PortInv'
<1> USE DEF PortReturn, Close
<1>1. PortTypes' /\ PendingInv'
  BY Zenon DEF PortInv, PortTypes, PendingInv
<1>2. StepInv'
  BY Zenon DEF PortInv, PortTypes, StepInv, NoSocket, Decisive
<1>3. HeardInv' /\ SpentInv'
  BY Zenon DEF PortInv, HeardInv, SpentInv
<1> QED
  BY Zenon, <1>1, <1>2, <1>3 DEF PortInv

\* One more attempt: the time of the last one is paid for.
LEMMA TryAgainKeeps ==
    ASSUME PortInv, TryAgain, try < retries, ~heard, verdict = "none",
           UNCHANGED <<Settings, heard, spent>>, signs \subseteq signs',
           \/ method # "udp" /\ Close
           \/ method = "udp" /\ fd # "none" /\ UNCHANGED <<fd, error, data, sent>>
    PROVE  PortInv'
<1> USE DEF TryAgain, Close
<1>1. PortTypes'
  <2>1. try' \in Nat /\ clock' \in Nat
    BY DEF PortInv, PortTypes
  <2> QED
    BY Zenon, <2>1 DEF PortInv, PortTypes
<1>2. PendingInv'
  <2>1. CASE Close
    BY Zenon, <2>1 DEF PendingInv
  <2>2. CASE UNCHANGED <<fd, error, data, sent>>
    BY Zenon, <2>2 DEF PortInv, PendingInv
  <2> QED
    BY Zenon, <2>1, <2>2
<1>3. StepInv'
  <2>1. fd' = "none" <=> NoSocket'
    BY Zenon DEF NoSocket
  <2> QED
    BY Zenon, <2>1 DEF StepInv
<1>4. HeardInv'
  BY Zenon DEF HeardInv
<1>5. SpentInv'
  <2>1. (try + 1) * timeout = try * timeout + timeout
    BY DEF PortInv, PortTypes
  <2>2. try * timeout \in Nat
    BY DEF PortInv, PortTypes
  <2> QED
    BY <2>1, <2>2 DEF PortInv, PortTypes, SpentInv
<1> QED
  BY Zenon, <1>1, <1>2, <1>3, <1>4, <1>5 DEF PortInv

\* Between the steps that answer, nothing is decided yet.
LEMMA Undecided ==
    ASSUME PortInv
    PROVE  /\ step # "done" => verdict = "none"
           /\ step \notin {"select", "done"} => ~heard
BY Zenon DEF PortInv, PortTypes, StepInv, HeardInv

\* The invariant after a step that decides nothing.
LEMMA GoOn ==
    ASSUME PortInv, PortTypes', PendingInv', SpentInv', ~heard', verdict' = "none",
           step' # "done", step' = "socket" => method' = "udp",
           fd' = "none" <=> NoSocket'
    PROVE  PortInv'
<1>1. StepInv'
  BY Zenon DEF StepInv
<1>2. HeardInv'
  BY Zenon DEF HeardInv
<1> QED
  BY Zenon, <1>1, <1>2 DEF PortInv

\* A port ping that ends before there is a socket has opened none.
LEMMA PrepareKeeps == ASSUME PortInv, Prepare PROVE PortInv'
<1> USE DEF Prepare
<1>1. CASE PortReturn("down")
  BY Zenon, <1>1, ReturnKeeps, Undecided
<1>2. CASE ~PortReturn("down")
  <2>1. /\ step = "start" /\ UNCHANGED <<Settings, history, verdict, try, clock, socketVars>>
        /\ step' \in {"socket", "attempt"} /\ (step' = "socket" <=> method = "udp")
    BY Zenon, <1>2
  <2>2. ~heard /\ verdict = "none" /\ fd = "none"
    BY Zenon, <2>1, Undecided DEF PortInv, StepInv, NoSocket
  <2>3. PortTypes' /\ PendingInv' /\ SpentInv'
    BY ZenonT(60), <2>1 DEF PortInv, PortTypes, PendingInv, SpentInv
  <2>4. fd' = "none" <=> NoSocket'
    BY Zenon, <2>1, <2>2 DEF NoSocket
  <2>5. /\ ~heard' /\ verdict' = "none" /\ step' # "done"
        /\ step' = "socket" => method' = "udp"
    BY <2>1, <2>2
  <2> QED
    BY Zenon, <2>3, <2>4, <2>5, GoOn
<1> QED
  BY Zenon, <1>1, <1>2

\* The UDP socket is had and connected, or the call ends.
LEMMA OpenUdpKeeps == ASSUME PortInv, OpenUdp PROVE PortInv'
<1> USE DEF OpenUdp
<1>1. CASE PortReturn("down")
  BY Zenon, <1>1, ReturnKeeps, Undecided
<1>2. CASE ~PortReturn("down")
  <2>1. /\ step = "socket" /\ step' = "attempt" /\ fd' \in {"open", "large"}
        /\ UNCHANGED <<Settings, history, verdict, try, clock, error, data, sent>>
    BY Zenon, <1>2
  <2>2. ~heard /\ verdict = "none" /\ method = "udp"
    BY Zenon, <2>1, Undecided DEF PortInv, StepInv, NoSocket
  <2>3. PortTypes' /\ PendingInv' /\ SpentInv'
    BY Zenon, <2>1 DEF PortInv, PortTypes, PendingInv, SpentInv
  <2>4. fd' = "none" <=> NoSocket'
    BY Zenon, <2>1, <2>2 DEF NoSocket
  <2>5. /\ ~heard' /\ verdict' = "none" /\ step' # "done"
        /\ step' = "socket" => method' = "udp"
    BY <2>1, <2>2
  <2> QED
    BY Zenon, <2>3, <2>4, <2>5, GoOn
<1> QED
  BY Zenon, <1>1, <1>2

\* A request that is sent, or cannot be, keeps the invariant of the port pings.
LEMMA UdpSendKeeps == ASSUME PortInv, UdpSend PROVE PortInv'
<1> USE DEF UdpSend
<1>1. CASE PortReturn("down")
  BY Zenon, <1>1, ReturnKeeps, Undecided
<1>2. CASE ~PortReturn("down")
  <2>1. /\ step = "attempt" /\ step' = "sent" /\ sent' = TRUE /\ method = "udp"
        /\ UNCHANGED <<Settings, history, verdict, fd, try, clock, error, data>>
    BY Zenon, <1>2
  <2>2. ~heard /\ verdict = "none" /\ fd # "none"
    BY Zenon, <2>1, Undecided DEF PortInv, StepInv, NoSocket
  <2>3. PortTypes' /\ PendingInv' /\ SpentInv'
    BY Zenon, <2>1, <2>2 DEF PortInv, PortTypes, PendingInv, SpentInv
  <2>4. fd' = "none" <=> NoSocket'
    BY Zenon, <2>1, <2>2 DEF NoSocket
  <2>5. /\ ~heard' /\ verdict' = "none" /\ step' # "done"
        /\ step' = "socket" => method' = "udp"
    BY <2>1, <2>2
  <2> QED
    BY Zenon, <2>3, <2>4, <2>5, GoOn
<1> QED
  BY Zenon, <1>1, <1>2

\* The wait ends with an answer, a refusal or nothing.
LEMMA WaitFdKeeps == ASSUME PortInv, WaitFd PROVE PortInv'
<1> USE DEF WaitFd
<1>1. ~heard /\ verdict = "none"
  BY Zenon, Undecided
<1>2. PortTypes' /\ PendingInv' /\ SpentInv'
  BY Zenon DEF PortInv, PortTypes, PendingInv, SpentInv
<1>3. fd' = "none" <=> NoSocket'
  BY Zenon DEF NoSocket
<1> QED
  BY Zenon, <1>1, <1>2, <1>3, GoOn

\* A deadline passes only where nothing has been heard.
LEMMA TimedOutUnheard ==
    ASSUME PortInv, TimedOut
    PROVE  ~heard /\ verdict = "none"
<1>1. CASE step = "sent"
  BY Zenon, <1>1, Undecided
<1>2. CASE step = "select" /\ error = "none" /\ ~data
  <2>1. ~heard
    BY Zenon, <1>2 DEF PortInv, PortTypes, HeardInv
  <2> QED
    BY Zenon, <1>2, <2>1, Undecided
<1> QED
  BY Zenon, <1>1, <1>2 DEF TimedOut

\* What UDP hears of its device decides, whichever way it is read.
LEMMA UdpResponseKeeps == ASSUME PortInv, UdpResponse PROVE PortInv'
<1>0. method = "udp" /\ UNCHANGED <<Settings, history>>
  BY Zenon DEF UdpResponse
<1>1. CASE step = "sent" /\ fd = "large" /\ PortReturn("down")
  BY Zenon, <1>0, <1>1, ReturnKeeps, Undecided
<1>2. CASE TimedOut /\ try < retries /\ TryAgain /\ UNCHANGED socketVars
  <2>1. fd # "none"
    BY Zenon, <1>2 DEF TimedOut, PortInv, StepInv, NoSocket
  <2> QED
    BY Zenon, <1>0, <1>2, <2>1, TryAgainKeeps, TimedOutUnheard
<1>3. CASE TimedOut /\ PortReturn("down")
  BY Zenon, <1>0, <1>3, ReturnKeeps, TimedOutUnheard
<1>4. CASE step = "select" /\ error \notin Alive \cup {"none"} /\ PortReturn("down")
  <2>1. ~heard
    BY Zenon, <1>0, <1>4 DEF PortInv, PortTypes, HeardInv, Alive
  <2> QED
    BY Zenon, <1>0, <1>4, <2>1, ReturnKeeps
<1>5. CASE step = "select" /\ error \in Alive /\ PortReturn("up")
  <2>1. error \in signs /\ Decisive(error)
    BY Zenon, <1>0, <1>5 DEF PortInv, PendingInv, Alive, Decisive
  <2> QED
    BY Zenon, <1>0, <1>5, <2>1, ReturnKeeps
<1>6. CASE step = "select" /\ error = "none" /\ data /\ PortReturn("up")
  <2>1. "data" \in signs /\ Decisive("data")
    BY Zenon, <1>0, <1>6 DEF PortInv, PendingInv, Alive, Decisive
  <2> QED
    BY Zenon, <1>0, <1>6, <2>1, ReturnKeeps
<1> QED
  BY Zenon, <1>1, <1>2, <1>3, <1>4, <1>5, <1>6 DEF UdpResponse

\* A TCP attempt's result that counts comes with its sign, and one that does not
\* is used only where nothing that counts was heard.
LEMMA TcpResultKeeps ==
    ASSUME PortInv, NEW result, TcpResult(result), method # "udp", step # "done",
           UNCHANGED <<Settings, heard, spent>>, signs \subseteq signs',
           result \in {"ok", "refused"} => result \in signs',
           result # "ok" /\ ~(result = "refused" /\ method = "tcp_closed") => ~heard
    PROVE  PortInv'
<1>0. verdict = "none" /\ method \in {"tcp", "tcp_closed"}
  BY Zenon, Undecided DEF PortInv, PortTypes
<1>1. CASE result = "ok" \/ (result = "refused" /\ method = "tcp_closed")
  <2>1. result \in signs' /\ Decisive(result)
    BY Zenon, <1>0, <1>1 DEF Decisive
  <2> QED
    BY Zenon, <1>1, <2>1, ReturnKeeps DEF TcpResult
<1>2. CASE ~(result = "ok" \/ (result = "refused" /\ method = "tcp_closed"))
  <2>1. CASE try >= retries
    BY Zenon, <1>2, <2>1, ReturnKeeps DEF TcpResult
  <2>2. CASE ~(try >= retries)
    <3>1. try < retries
      BY <2>2 DEF PortInv, PortTypes
    <3> QED
      BY Zenon, <1>0, <1>2, <2>2, <3>1, TryAgainKeeps DEF TcpResult
  <2> QED
    BY Zenon, <2>1, <2>2
<1> QED
  BY Zenon, <1>1, <1>2

\* connect() is decided at once, or the socket stays open while it is under way.
LEMMA TcpConnectKeeps == ASSUME PortInv, TcpConnect PROVE PortInv'
<1>0. method # "udp" /\ step = "attempt" /\ ~heard /\ UNCHANGED <<Settings, heard, spent>>
  BY Zenon, Undecided DEF TcpConnect
<1>1. CASE TcpResult("failed") /\ UNCHANGED signs
  BY Zenon, <1>0, <1>1, TcpResultKeeps
<1>2. ASSUME NEW result \in {"ok", "refused"}, TcpResult(result),
             signs' = signs \cup {result}
      PROVE  PortInv'
  BY Zenon, <1>0, <1>2, TcpResultKeeps
<1>3. CASE /\ fd' \in {"open", "large"} /\ sent' = TRUE /\ step' = "sent"
           /\ UNCHANGED <<verdict, try, clock, error, data, signs>>
  <2>1. PortTypes' /\ PendingInv' /\ SpentInv'
    BY Zenon, <1>0, <1>3 DEF PortInv, PortTypes, PendingInv, SpentInv
  <2>2. fd' = "none" <=> NoSocket'
    BY Zenon, <1>0, <1>3 DEF NoSocket
  <2>3. ~heard' /\ verdict' = "none" /\ step' = "sent"
    BY Zenon, <1>0, <1>3, Undecided
  <2> QED
    BY Zenon, <2>1, <2>2, <2>3, GoOn
<1> QED
  BY Zenon, <1>1, <1>2, <1>3 DEF TcpConnect

\* The handshake ends with a connection, a refusal or another error.
LEMMA TcpCompleteKeeps == ASSUME PortInv, TcpComplete PROVE PortInv'
<1>0. method # "udp" /\ UNCHANGED <<Settings, history>>
  BY Zenon DEF TcpComplete
<1>1. CASE step = "sent" /\ fd = "large" /\ TcpResult("failed")
  BY Zenon, <1>0, <1>1, TcpResultKeeps, Undecided
<1>2. CASE TimedOut /\ TcpResult("timedout")
  <2>1. step # "done"
    BY Zenon, <1>2 DEF TimedOut
  <2> QED
    BY Zenon, <1>0, <1>2, <2>1, TcpResultKeeps, TimedOutUnheard
<1>3. CASE step = "select" /\ error # "none" /\ TcpResult(error)
  <2>1. error \in signs
    BY Zenon, <1>3 DEF PortInv, PendingInv
  <2>2. ~(error = "refused" /\ method = "tcp_closed") => ~heard
    BY Zenon, <1>0, <1>3 DEF PortInv, PortTypes, HeardInv
  <2> QED
    BY Zenon, <1>0, <1>3, <2>1, <2>2, TcpResultKeeps
<1>4. CASE step = "select" /\ error = "none" /\ data /\ TcpResult("ok")
  <2>1. "ok" \in signs
    BY Zenon, <1>0, <1>4 DEF PortInv, PendingInv
  <2> QED
    BY Zenon, <1>0, <1>4, <2>1, TcpResultKeeps
<1> QED
  BY Zenon, <1>1, <1>2, <1>3, <1>4 DEF TcpComplete

\* Waiting keeps the invariant of the port pings.
LEMMA PortTickKeeps == ASSUME PortInv, PortTick PROVE PortInv'
<1> USE DEF PortTick
<1>1. PortTypes'
  <2>1. clock' \in Nat /\ spent' \in Nat
    BY DEF PortInv, PortTypes
  <2> QED
    BY ZenonT(60), <2>1 DEF PortInv, PortTypes
<1>2. PendingInv' /\ HeardInv'
  BY Zenon DEF PortInv, PendingInv, HeardInv
<1>3. StepInv'
  BY Zenon DEF PortInv, StepInv, NoSocket, Decisive
<1>4. SpentInv'
  <2>1. try * timeout \in Nat
    BY DEF PortInv, PortTypes
  <2> QED
    BY <2>1 DEF PortInv, PortTypes, SpentInv
<1> QED
  BY Zenon, <1>1, <1>2, <1>3, <1>4 DEF PortInv

\* An answer that reaches the socket is remembered; a network error takes back
\* what was heard, anything else leaves it to be read.
LEMMA AnswerKeeps == ASSUME PortInv, Answer PROVE PortInv'
<1>1. PICK kind \in (IF method = "udp" THEN {"data"} ELSE {"ok"})
                      \cup {"refused", "unreachable", "network"} :
         /\ method # "udp" => error = "none" /\ ~data
         /\ signs' = signs \cup {kind}
         /\ IF kind \in {"data", "ok"} THEN data' = TRUE /\ UNCHANGED error
                                       ELSE error' = kind /\ UNCHANGED data
         /\ heard' = /\ kind # "network"
                     /\ heard \/ (step = "select" /\ error # "network" /\ Decisive(kind))
  BY Zenon DEF Answer
<1>2. /\ fd # "none" /\ UNCHANGED <<Settings, step, verdict, try, clock, fd, sent, spent>>
  BY Zenon DEF Answer
<1>3. step # "done" /\ verdict = "none" /\ method \in {"udp", "tcp", "tcp_closed"}
  BY Zenon, <1>2, Undecided DEF PortInv, StepInv, NoSocket, PortTypes
<1>4. PortTypes'
  <2>1. heard' \in BOOLEAN
    BY Zenon, <1>1
  <2>2. data' \in BOOLEAN
    BY Zenon, <1>1 DEF PortInv, PortTypes
  <2>3. error' \in {"none", "refused", "unreachable", "network"}
    BY Zenon, <1>1 DEF PortInv, PortTypes
  <2> QED
    BY Zenon, <1>2, <2>1, <2>2, <2>3 DEF PortInv, PortTypes
<1>5. PendingInv'
  <2>1. CASE kind \in {"data", "ok"}
    <3>1. data' = TRUE /\ error' = error
      BY Zenon, <1>1, <2>1
    <3>2. kind = IF method = "udp" THEN "data" ELSE "ok"
      BY Zenon, <1>1, <2>1
    <3> QED
      BY Zenon, <1>1, <1>2, <3>1, <3>2 DEF PortInv, PendingInv
  <2>2. CASE kind \notin {"data", "ok"}
    BY Zenon, <1>1, <1>2, <2>2 DEF PortInv, PendingInv
  <2> QED
    BY Zenon, <2>1, <2>2
<1>6. StepInv'
  BY Zenon, <1>2, <1>3 DEF PortInv, StepInv, NoSocket
<1>7. HeardInv'
  <2> SUFFICES ASSUME heard' PROVE HeardInv'
    BY Zenon DEF HeardInv
  <2>1. /\ kind # "network" /\ error # "network" /\ step = "select"
        /\ heard \/ Decisive(kind)
    BY Zenon, <1>1, <1>3 DEF PortInv, PortTypes, HeardInv
  <2>2. CASE method = "udp"
    <3>1. error' # "network" /\ (error' # "none" \/ data')
      BY Zenon, <1>1, <2>1, <2>2
    <3> QED
      BY Zenon, <1>2, <1>3, <2>1, <2>2, <3>1 DEF HeardInv
  <2>3. CASE method = "tcp"
    <3>1. error' = "none" /\ data'
      BY Zenon, <1>1, <2>1, <2>3 DEF PortInv, HeardInv, Decisive
    <3> QED
      BY Zenon, <1>2, <1>3, <2>1, <2>3, <3>1 DEF HeardInv
  <2>4. CASE method = "tcp_closed"
    <3>1. error' = "refused" \/ (error' = "none" /\ data')
      BY Zenon, <1>1, <2>1, <2>4 DEF PortInv, HeardInv, Decisive
    <3> QED
      BY Zenon, <1>2, <1>3, <2>1, <2>4, <3>1 DEF HeardInv
  <2> QED
    BY Zenon, <1>3, <2>2, <2>3, <2>4
<1>8. SpentInv'
  BY Zenon, <1>2 DEF PortInv, SpentInv
<1> QED
  BY Zenon, <1>4, <1>5, <1>6, <1>7, <1>8 DEF PortInv

\* Every step of the call, the clock and the network keeps the UDP and TCP part.
LEMMA PortStep == ASSUME PortInv, PortNext PROVE PortInv'
BY Zenon, PrepareKeeps, OpenUdpKeeps, UdpSendKeeps, WaitFdKeeps, UdpResponseKeeps,
   TcpConnectKeeps, TcpCompleteKeeps, PortTickKeeps, AnswerKeeps
   DEF PortNext, PortCall

-----------------------------------------------------------------------------
(* Both probes *)

\* Nothing has been sent at the start.
LEMMA InitInv == Init => IInv
<1> SUFFICES ASSUME Init PROVE IInv
  BY Zenon
<1> USE DEF Init
<1>1. IcmpInv
  <2> USE DEF IcmpInit
  <2>1. seq \in [Threads -> Seqs]
    BY Zenon, BoundsAssumption
  <2>2. IcmpTypes
    <3>1. /\ pc \in [Threads -> Before \cup {"packet", "done"} \cup Holding]
          /\ retry_count \in [Threads -> Nat] /\ elapsed \in [Threads -> Nat]
      BY Zenon DEF Before
    <3>2. /\ dgram \in [Threads -> BOOLEAN] /\ large \in [Threads -> BOOLEAN]
          /\ held \in [Threads -> SUBSET {"socket", "packet"}]
          /\ rc \in [Threads -> {"none", "up", "down"}]
      BY Zenon
    <3> QED
      BY Zenon, <2>1, <3>1, <3>2 DEF IcmpTypes
  <2>3. HeldInv
    BY Zenon DEF HeldInv, Before, Holding
  <2>4. QueueInv
    BY DEF QueueInv
  <2>5. UpInv
    BY Zenon DEF UpInv
  <2>6. WaitInv
    BY BoundsAssumption DEF WaitInv
  <2> QED
    BY Zenon, <2>2, <2>3, <2>4, <2>5, <2>6 DEF IcmpInv
<1>2. PortInv
  <2> USE DEF PortInit
  <2>1. PortTypes
    <3>1. retries \in Nat /\ timeout \in Nat /\ try \in Nat /\ clock \in Nat /\ spent \in Nat
      BY PortAssumption
    <3> QED
      BY Zenon, <3>1 DEF PortTypes
  <2>2. PendingInv /\ HeardInv
    BY Zenon DEF PendingInv, HeardInv
  <2>3. StepInv
    BY Zenon DEF StepInv, NoSocket
  <2>4. SpentInv
    BY <2>1 DEF SpentInv, PortTypes
  <2> QED
    BY Zenon, <2>1, <2>2, <2>3, <2>4 DEF PortInv
<1> QED
  BY Zenon, <1>1, <1>2 DEF IInv

\* The ICMP ping is at rest while a port is pinged,
LEMMA IcmpStutter == ASSUME IcmpInv, UNCHANGED icmpVars PROVE IcmpInv'
<1>1. IcmpTypes' /\ HeldInv'
  BY Zenon DEF IcmpInv, IcmpTypes, HeldInv
<1>2. QueueInv'
  BY Zenon DEF IcmpInv, QueueInv, Genuine
<1>3. UpInv' /\ WaitInv'
  BY Zenon DEF IcmpInv, UpInv, WaitInv, Request, Id
<1> QED
  BY Zenon, <1>1, <1>2, <1>3 DEF IcmpInv

\* and the port ping while an ICMP ping is under way.
LEMMA PortStutter == ASSUME PortInv, UNCHANGED portVars PROVE PortInv'
<1>1. /\ method' = method /\ retries' = retries /\ timeout' = timeout /\ step' = step
      /\ verdict' = verdict /\ try' = try /\ clock' = clock /\ fd' = fd /\ error' = error
      /\ data' = data /\ sent' = sent /\ signs' = signs /\ heard' = heard /\ spent' = spent
  BY Zenon DEF portVars, socketVars, history
<1> HIDE DEF portVars, socketVars, history
<1>2. PortTypes'
  BY <1>1 DEF PortInv, PortTypes
<1>3. PendingInv' /\ SpentInv'
  BY Zenon, <1>1 DEF PortInv, PendingInv, SpentInv
<1>4. HeardInv'
  BY Zenon, <1>1 DEF PortInv, HeardInv
<1>5. StepInv'
  BY Zenon, <1>1 DEF PortInv, StepInv, NoSocket, Decisive
<1> QED
  BY Zenon, <1>2, <1>3, <1>4, <1>5 DEF PortInv

\* Every step of either keeps both invariants.
LEMMA Step == IInv /\ [Next]_vars => IInv'
<1> SUFFICES ASSUME IInv, [Next]_vars PROVE IInv'
  BY Zenon
<1>1. CASE IcmpNext /\ UNCHANGED portVars
  BY Zenon, <1>1, IcmpStep, PortStutter DEF IInv
<1>2. CASE PortNext /\ UNCHANGED icmpVars
  BY Zenon, <1>2, PortStep, IcmpStutter DEF IInv
<1>3. CASE UNCHANGED vars
  BY Zenon, <1>3, IcmpStutter, PortStutter DEF IInv, vars
<1> QED
  BY Zenon, <1>1, <1>2, <1>3 DEF Next, Done

\* The invariant holds in every state.
LEMMA Invariance == Spec => []IInv
BY InitInv, Step, PTL DEF Spec

\* Whatever a raw socket overhears, however late the answers come and however
\* the numbers wrap: ping_icmp(), ping_udp() and ping_tcp() say up only on the
\* device's own sign of life, and the last two down never against a sign that came
\* while select() watched.
THEOREM VerdictsTruthfulThm == Spec => []VerdictsTruthful
<1>1. IInv => VerdictsTruthful
  BY Zenon DEF IInv, IcmpInv, UpInv, PortInv, StepInv, HeardInv,
     VerdictsTruthful, UpMeansEchoed, AnswerDecides
<1> QED
  BY <1>1, Invariance, PTL

-----------------------------------------------------------------------------
(* The replies that wait to be read *)

\* A reply counts from the first attempt on; it is in the queue as long as the
\* call goes on.
KeptAt(t) ==
    replied[t] =>
        /\ pc[t] \in {"send", "listen", "done"}
        /\ IF pc[t] # "done" THEN Queued(t)
           ELSE rc[t] = "up" \/ retry_count[t] > Retries \/ large[t]

KeptInv == \A t \in Threads : KeptAt(t)

\* The reply is one the thread accepts, whatever its socket and the family.
LEMMA ReplyAccepted ==
    ASSUME IcmpInv, NEW t \in Threads
    PROVE  Accepted(t, ReplyTo(t))
<1>1. /\ ReplyTo(t).echo /\ ReplyTo(t).seq = seq[t] /\ ReplyTo(t).from = target[t]
      /\ ~dgram[t] => ReplyTo(t).id = Pid
  BY Zenon DEF ReplyTo, Id
<1> QED
  BY Zenon, <1>1 DEF Accepted, Accepts, Accepts6, Matches6, Classify, ClassifyDgram

\* A step of one thread leaves the others as they are.
LEMMA KeptByOthers ==
    ASSUME KeptInv, NEW t \in Threads, replied' = replied, target' = target,
           \A u \in Threads : u # t =>
               /\ dgram'[u] = dgram[u] /\ seq'[u] = seq[u] /\ inbox'[u] = inbox[u]
               /\ pc'[u] = pc[u] /\ rc'[u] = rc[u] /\ large'[u] = large[u]
               /\ retry_count'[u] = retry_count[u],
           KeptAt(t)'
    PROVE  KeptInv'
<1>1. ASSUME NEW u \in Threads, u # t PROVE KeptAt(u)'
  <2>1. ReplyTo(u)' = ReplyTo(u)
    BY Zenon, <1>1 DEF ReplyTo, Id
  <2>2. Queued(u)' <=> Queued(u)
    BY Zenon, <1>1, <2>1 DEF Queued
  <2> QED
    BY Zenon, <1>1, <2>2 DEF KeptInv, KeptAt
<1> QED
  BY Zenon, <1>1 DEF KeptInv

\* A thread that has not sent yet waits for no reply.
LEMMA KeptBefore ==
    ASSUME IcmpInv, KeptInv, NEW t \in Threads,
           OpenDgram(t) \/ RawSocket(t) \/ Number(t) \/ Lookup(t)
    PROVE  KeptInv'
<1> USE DEF OpenDgram, RawSocket, Number, Lookup, Opened, Cleanup
<1>1. replied' = replied /\ target' = target
  BY Zenon
<1>2. ~replied[t]
  BY Zenon DEF KeptInv, KeptAt
<1>3. ASSUME NEW u \in Threads, u # t
      PROVE  /\ dgram'[u] = dgram[u] /\ seq'[u] = seq[u] /\ inbox'[u] = inbox[u]
             /\ pc'[u] = pc[u] /\ rc'[u] = rc[u] /\ large'[u] = large[u]
             /\ retry_count'[u] = retry_count[u]
  <2>0. DOMAIN inbox = Threads
    BY Zenon DEF IcmpInv, QueueInv
  <2>1. CASE OpenDgram(t)
    BY Zenon, <1>3, <2>0, <2>1 DEF IcmpInv, IcmpTypes
  <2>2. CASE RawSocket(t)
    <3>1. seq'[u] = seq[u] /\ inbox'[u] = inbox[u]
      BY Zenon, <1>3, <2>0, <2>2
    <3>2. rc'[u] = rc[u] /\ retry_count'[u] = retry_count[u]
      BY Zenon, <1>3, <2>2 DEF IcmpInv, IcmpTypes
    <3>3. pc'[u] = pc[u]
      BY Zenon, <1>3, <2>2 DEF IcmpInv, IcmpTypes
    <3>4. dgram'[u] = dgram[u] /\ large'[u] = large[u]
      BY Zenon, <1>3, <2>2 DEF IcmpInv, IcmpTypes
    <3> QED
      BY Zenon, <3>1, <3>2, <3>3, <3>4
  <2>3. CASE Number(t)
    BY Zenon, <1>3, <2>0, <2>3 DEF IcmpInv, IcmpTypes
  <2>4. CASE Lookup(t)
    BY ZenonT(30), <1>3, <2>0, <2>4 DEF IcmpInv, IcmpTypes
  <2> QED
    BY Zenon, <2>1, <2>2, <2>3, <2>4
<1>4. KeptAt(t)'
  BY Zenon, <1>1, <1>2 DEF KeptAt
<1> HIDE DEF OpenDgram, RawSocket, Number, Lookup, Opened, Cleanup
<1> QED
  BY Zenon, <1>1, <1>3, <1>4, KeptByOthers

\* A step that leaves the thread's queue alone and goes on, or ends as it may.
LEMMA KeptMove ==
    ASSUME IcmpInv, KeptInv, NEW t \in Threads, pc[t] # "done",
           UNCHANGED <<replied, target, dgram, seq, large>>,
           NEW s \in {"send", "listen", "done"}, pc' = [pc EXCEPT ![t] = s],
           \A u \in Threads : u # t => /\ inbox'[u] = inbox[u] /\ rc'[u] = rc[u]
                                       /\ retry_count'[u] = retry_count[u],
           replied[t] /\ s # "done" /\ Queued(t) => Queued(t)',
           s = "done" => rc'[t] = "up" \/ retry_count'[t] > Retries \/ large[t]
    PROVE  KeptInv'
<1>1. pc'[t] = s /\ \A u \in Threads : u # t => pc'[u] = pc[u]
  BY Zenon DEF IcmpInv, IcmpTypes
<1>2. KeptAt(t)'
  BY Zenon, <1>1 DEF KeptInv, KeptAt
<1> QED
  BY Zenon, <1>1, <1>2, KeptByOthers

\* The queue of a thread that neither reads nor closes its socket.
LEMMA QueuedSame ==
    ASSUME NEW t \in Threads, UNCHANGED <<target, dgram, seq, inbox>>
    PROVE  Queued(t)' <=> Queued(t)
BY Zenon DEF Queued, ReplyTo, Id

\* An attempt that is used up, or sends, leaves the queue to the next.
LEMMA KeptAttempt ==
    ASSUME IcmpInv, KeptInv, NEW t \in Threads,
           \/ OutOfAttempts(t) \/ Send(t) \/ Send6(t)
           \/ /\ pc[t] = "listen" /\ NextAttempt(t)
              /\ UNCHANGED <<family, target, observed, dgram, large, seq, asked, echoed>>
    PROVE  KeptInv'
<1>0. DOMAIN inbox = Threads /\ rc \in [Threads -> {"none", "up", "down"}]
  BY Zenon DEF IcmpInv, QueueInv, IcmpTypes
<1>1. CASE OutOfAttempts(t)
  <2>1. /\ pc[t] = "send" /\ retry_count[t] > Retries
        /\ UNCHANGED <<replied, target, dgram, seq, large, retry_count>>
        /\ pc' = [pc EXCEPT ![t] = "done"]
        /\ \A u \in Threads : u # t => inbox'[u] = inbox[u] /\ rc'[u] = rc[u]
    BY Zenon, <1>0, <1>1 DEF OutOfAttempts, Cleanup
  <2> QED
    BY Zenon, <2>1, KeptMove
<1>2. CASE Send(t) \/ Send6(t)
  <2>1. /\ pc[t] = "send" /\ UNCHANGED <<replied, target, dgram, seq, large, rc, inbox>>
        /\ \E s \in {"send", "listen"} : pc' = [pc EXCEPT ![t] = s]
        /\ \A u \in Threads : u # t => retry_count'[u] = retry_count[u]
    <3>1. pc = [pc EXCEPT ![t] = pc[t]]
      BY Zenon DEF IcmpInv, IcmpTypes
    <3> QED
      BY Zenon, <1>2, <3>1 DEF Send, Send6, Transmit, IcmpInv, IcmpTypes
  <2>2. PICK s \in {"send", "listen"} : pc' = [pc EXCEPT ![t] = s]
    BY Zenon, <2>1
  <2> QED
    BY Zenon, <2>1, <2>2, QueuedSame, KeptMove
<1>3. CASE /\ pc[t] = "listen" /\ NextAttempt(t)
           /\ UNCHANGED <<family, target, observed, dgram, large, seq, asked, echoed>>
  <2>1. /\ UNCHANGED <<replied, target, dgram, seq, large, rc, inbox>>
        /\ pc' = [pc EXCEPT ![t] = "send"]
        /\ \A u \in Threads : u # t => retry_count'[u] = retry_count[u]
    BY Zenon, <1>3 DEF NextAttempt, IcmpInv, IcmpTypes
  <2> QED
    BY Zenon, <1>3, <2>1, QueuedSame, KeptMove
<1> QED
  BY Zenon, <1>1, <1>2, <1>3

\* A message that is dropped was not the reply, so the reply is behind it.
LEMMA KeptDrop ==
    ASSUME IcmpInv, NEW t \in Threads, UNCHANGED <<target, dgram, seq>>, Queued(t),
           inbox[t] # <<>>, ~Accepted(t, Head(inbox[t])), inbox'[t] = Tail(inbox[t])
    PROVE  Queued(t)'
<1>1. inbox[t] \in Seq(Genuine(t))
  BY Zenon DEF IcmpInv, QueueInv
<1>2. PICK i \in DOMAIN inbox[t] : inbox[t][i] = ReplyTo(t)
  BY Zenon DEF Queued
<1>3. Head(inbox[t]) # ReplyTo(t)
  BY Zenon, ReplyAccepted
<1>4. i \in 2..Len(inbox[t])
  BY <1>1, <1>2, <1>3
<1>5. i - 1 \in DOMAIN Tail(inbox[t]) /\ Tail(inbox[t])[i - 1] = inbox[t][i]
  BY <1>1, <1>4
<1>6. ReplyTo(t)' = ReplyTo(t)
  BY Zenon DEF ReplyTo, Id
<1> QED
  BY Zenon, <1>2, <1>5, <1>6 DEF Queued

\* Listening: the reply is read only to say "up".
LEMMA KeptHear ==
    ASSUME IcmpInv, KeptInv, NEW t \in Threads, Hear(t)
    PROVE  KeptInv'
<1>0. /\ DOMAIN inbox = Threads /\ rc \in [Threads -> {"none", "up", "down"}]
      /\ pc \in [Threads -> Before \cup {"packet", "done"} \cup Holding]
  BY Zenon DEF IcmpInv, QueueInv, IcmpTypes
<1>1. /\ pc[t] = "listen"
      /\ UNCHANGED <<family, target, observed, dgram, large, seq, asked, echoed>>
  BY Zenon DEF Hear
<1>2. CASE NextAttempt(t)
  BY Zenon, <1>1, <1>2, KeptAttempt
<1>3. ASSUME NEW r \in {"up", "down"}, Cleanup(t, r), UNCHANGED retry_count,
             r = "up" \/ large[t]
      PROVE  KeptInv'
  <2>1. /\ pc' = [pc EXCEPT ![t] = "done"] /\ rc'[t] = r
        /\ \A u \in Threads : u # t => inbox'[u] = inbox[u] /\ rc'[u] = rc[u]
    BY Zenon, <1>0, <1>3 DEF Cleanup
  <2> QED
    BY Zenon, <1>1, <1>3, <2>1, KeptMove
<1>4. CASE /\ inbox[t] # <<>> /\ ~Accepted(t, Head(inbox[t]))
           /\ inbox' = [inbox EXCEPT ![t] = Tail(@)]
           /\ UNCHANGED <<pc, rc, retry_count>>
  <2>1. /\ pc' = [pc EXCEPT ![t] = "listen"] /\ inbox'[t] = Tail(inbox[t])
        /\ \A u \in Threads : u # t => inbox'[u] = inbox[u]
    BY Zenon, <1>0, <1>1, <1>4
  <2> QED
    BY Zenon, <1>1, <1>4, <2>1, KeptDrop, KeptMove
<1> QED
  BY Zenon, <1>2, <1>3, <1>4 DEF Hear

\* What the kernel adds to a queue removes nothing from it.
LEMMA KeptDeliver ==
    ASSUME IcmpInv, NEW m, Deliver(m), NEW t \in Threads,
           UNCHANGED <<target, dgram, seq>>, Queued(t)
    PROVE  Queued(t)'
<1>1. inbox[t] \in Seq(Genuine(t))
  BY Zenon DEF IcmpInv, QueueInv
<1>2. PICK i \in DOMAIN inbox[t] : inbox[t][i] = ReplyTo(t)
  BY Zenon DEF Queued
<1>3. ReplyTo(t)' = ReplyTo(t)
  BY Zenon DEF ReplyTo, Id
<1>4. CASE inbox'[t] = inbox[t]
  BY Zenon, <1>2, <1>3, <1>4 DEF Queued
<1>5. CASE inbox'[t] = Append(inbox[t], m)
  <2>1. i \in DOMAIN Append(inbox[t], m) /\ Append(inbox[t], m)[i] = inbox[t][i]
    BY <1>1, <1>2
  <2> QED
    BY Zenon, <1>2, <1>3, <1>5, <2>1 DEF Queued
<1> QED
  BY Zenon, <1>4, <1>5 DEF Deliver

\* Whatever arrives, a reply that waits goes on waiting.
LEMMA KeptNetwork ==
    ASSUME IcmpInv, KeptInv, Reply \/ OtherMessage
    PROVE  KeptInv'
<1>1. UNCHANGED <<target, pc, rc, dgram, large, seq, retry_count>>
  BY Zenon DEF Reply, OtherMessage
<1>2. \E m : Deliver(m)
  BY Zenon DEF Reply, OtherMessage
<1>3. ASSUME NEW t \in Threads
      PROVE  replied'[t] => replied[t] \/ (pc[t] \in {"send", "listen"} /\ Queued(t)')
  BY Zenon DEF Reply, OtherMessage
<1>4. ASSUME NEW t \in Threads PROVE KeptAt(t)'
  BY Zenon, <1>1, <1>2, <1>3, KeptDeliver DEF KeptInv, KeptAt
<1> QED
  BY Zenon, <1>4 DEF KeptInv

\* Every step of the threads, the clock and the network keeps the replies.
LEMMA KeptStep == IcmpInv /\ KeptInv /\ [Next]_vars => KeptInv'
<1> SUFFICES ASSUME IcmpInv, KeptInv, [Next]_vars PROVE KeptInv'
  BY Zenon
<1>1. ASSUME NEW t \in Threads, Thread(t) PROVE KeptInv'
  BY ZenonT(30), <1>1, KeptBefore, KeptAttempt, KeptHear
     DEF Thread, OpenRaw, OpenRaw6, Packet, Packet6, Resolve, Resolve6, Listen, Listen6
<1>2. ASSUME NEW t \in Threads, ReceiveFails(t) PROVE KeptInv'
  BY Zenon, <1>2, KeptAttempt DEF ReceiveFails
<1>3. ASSUME UNCHANGED <<target, pc, rc, dgram, large, seq, retry_count, inbox, replied>>
      PROVE  KeptInv'
  BY Zenon, <1>3, QueuedSame DEF KeptInv, KeptAt
<1>4. ASSUME NEW t \in Threads, Tick(t) PROVE KeptInv'
  BY Zenon, <1>3, <1>4 DEF Tick
<1>5. CASE UNCHANGED icmpVars
  BY Zenon, <1>3, <1>5
<1> QED
  BY Zenon, <1>1, <1>2, <1>4, <1>5, KeptNetwork DEF Next, IcmpNext, Done, vars

\* ping_icmp() and ping_icmp_ipv6() never throw a reply to their own ping away,
\* for any threads, devices, attempts and queue lengths: it waits in the queue, and
\* down is said over it only when every attempt has been used up or select() cannot
\* watch the socket.
THEOREM RepliesKeptThm == Spec => []RepliesKept
<1>1. Init => KeptInv
  BY Zenon DEF Init, IcmpInit, KeptInv, KeptAt
<1>2. IInv /\ KeptInv /\ [Next]_vars => KeptInv'
  BY Zenon, KeptStep DEF IInv
<1>3. KeptInv => RepliesKept
  BY Zenon DEF KeptInv, KeptAt, RepliesKept
<1> QED
  BY <1>1, <1>2, <1>3, Invariance, PTL DEF Spec

-----------------------------------------------------------------------------
(* What both probes give back *)

\* On every path through a ping, cleanup included, its socket is closed and its
\* packet freed exactly once, and no TCP attempt starts with a socket open.
THEOREM SocketsReturnedThm == Spec => []SocketsReturned
<1>1. IInv => ResourcesReturned
  <2> SUFFICES ASSUME IInv, NEW t \in Threads
               PROVE  held[t] = CASE pc[t] \in {"open", "raw", "done"} -> {}
                                  [] pc[t] = "packet" -> {"socket"}
                                  [] OTHER -> {"socket", "packet"}
    BY Zenon DEF ResourcesReturned
  <2>1. CASE pc[t] \in {"open", "raw", "done"}
    <3>1. held[t] = {} /\ pc[t] # "packet"
      BY Zenon, <2>1 DEF IInv, IcmpInv, HeldInv, Before
    <3> QED
      BY Zenon, <2>1, <3>1
  <2>2. CASE pc[t] = "packet"
    <3>1. held[t] = {"socket"}
      BY Zenon, <2>2 DEF IInv, IcmpInv, HeldInv
    <3> QED
      BY Zenon, <2>2, <3>1
  <2>3. CASE pc[t] \in Holding
    <3>1. held[t] = {"socket", "packet"}
      BY Zenon, <2>3 DEF IInv, IcmpInv, HeldInv
    <3> QED
      BY Zenon, <2>3, <3>1 DEF Holding
  <2> QED
    BY Zenon, <2>1, <2>2, <2>3 DEF IInv, IcmpInv, IcmpTypes, Before
<1>2. IInv => PortClosed
  BY Zenon DEF IInv, PortInv, StepInv, NoSocket, PortClosed
<1> QED
  BY <1>1, <1>2, Invariance, PTL DEF SocketsReturned

\* Strays and late answers never lengthen the wait: an ICMP attempt listens for
\* its timeout at most, and a UDP or TCP ping is over within one timeout for
\* each of the attempts it is allowed.
THEOREM TimeBoundedThm == Spec => []TimeBounded
<1>1. IInv => WaitBounded
  BY Zenon DEF IInv, IcmpInv, WaitInv, WaitBounded
<1>2. IInv => CallBounded
  <2> SUFFICES ASSUME IInv PROVE spent <= (retries + 1) * timeout
    BY Zenon DEF CallBounded
  <2>1. /\ retries \in Nat /\ timeout \in Nat /\ try \in Nat /\ clock \in Nat
        /\ spent \in Nat /\ try <= retries /\ clock <= timeout
        /\ spent <= try * timeout + clock
    BY Zenon DEF IInv, PortInv, PortTypes, SpentInv
  <2>2. PICK k \in Nat : retries = try + k
    <3>1. retries - try \in Nat /\ retries = try + (retries - try)
      BY <2>1
    <3> QED
      BY Zenon, <3>1
  <2>3. (retries + 1) * timeout = try * timeout + k * timeout + timeout
    BY <2>1, <2>2
  <2>4. try * timeout \in Nat /\ k * timeout \in Nat
    BY <2>1, <2>2
  <2> QED
    BY <2>1, <2>3, <2>4
<1> QED
  BY <1>1, <1>2, Invariance, PTL DEF TimeBounded

-----------------------------------------------------------------------------
(* poll_host_reindex() *)

\* The steps that look at the current row.
Bearing == {"poll", "evaluate", "queue", "store"}

CheckTypes ==
    /\ device \in [Sources -> Int]
    /\ assert_value \in [Index -> Int]
    /\ queued \in [{Rows[i].dq : i \in Index} -> Nat]
    /\ phase \in [Checkers -> Bearing \cup {"start", "row", "done"}]
    /\ index \in [Checkers -> Nat \ {0}]
    /\ loaded \in [Checkers -> [Index -> Int]]
    /\ sysUptime \in [Checkers -> Int]
    /\ value \in [Checkers -> Int]
    /\ read_failed \in [Checkers -> BOOLEAN]

\* A partition that polls a row has one, and only the first one queues or stores.
PhaseInv ==
    \A t \in Checkers : /\ phase[t] \in Bearing => index[t] \in Index
                        /\ phase[t] \in {"queue", "store"} => t = 1

\* The first partition is the only one that stores baselines, and each row's once:
\* those it has still to look at are the ones it loaded.
BaselineInv ==
    phase[1] \in Bearing \cup {"row"} =>
        \A i \in Index : i >= index[1] => loaded[1][i] = assert_value[i]

\* A failed assertion gets to the store only with its command queued.
CommandInv ==
    /\ phase[1] = "queue" => Failed(1)
    /\ phase[1] = "store" => value[1] # Undefined
    /\ phase[1] = "store" /\ Failed(1) => queued[Rows[index[1]].dq] > 0

\* What a source that did not answer leaves.
ReadInv ==
    phase[1] \in {"evaluate", "queue", "store"} /\ read_failed[1] =>
        \/ value[1] = Undefined
        \/ Rows[index[1]].action = "count" /\ value[1] = 0
        \/ Rows[index[1]].action = "snmp" /\ value[1] = Empty

ReindexInv == CheckTypes /\ PhaseInv /\ BaselineInv /\ CommandInv /\ ReadInv

\* The device has a first partition.
LEMMA FirstChecks == 1 \in Checkers /\ Checkers \subseteq Nat /\ Len(Rows) \in Nat
  BY ChangesAssumption, RowsAssumption DEF Checkers

\* The rows before any partition has loaded them.
LEMMA ReindexInitially ==
    ASSUME ReindexInit
    PROVE  ReindexInv
<1>0. 1 \in Checkers /\ Len(Rows) \in Nat
  BY FirstChecks, Zenon
<1>1. CheckTypes
  BY <1>0, ChangesAssumption DEF ReindexInit, CheckTypes, Bearing, Values, Undefined
<1>2. \A t \in Checkers : phase[t] = "start"
  BY Zenon DEF ReindexInit
<1>3. PhaseInv /\ BaselineInv /\ CommandInv /\ ReadInv
  BY <1>0, <1>2 DEF PhaseInv, BaselineInv, CommandInv, ReadInv, Bearing
<1> QED
  BY <1>1, <1>3, Zenon DEF ReindexInv

\* What another partition does leaves the first one where it is, and the baselines
\* and commands with it.
LEMMA OthersKeep ==
    ASSUME ReindexInv, CheckTypes', PhaseInv', phase'[1] = phase[1], index'[1] = index[1],
           loaded'[1] = loaded[1], value'[1] = value[1], read_failed'[1] = read_failed[1],
           assert_value' = assert_value, queued' = queued
    PROVE  ReindexInv'
<1>1. Failed(1)' = Failed(1)
  BY Zenon DEF Failed
<1>2. BaselineInv'
  BY Zenon DEF ReindexInv, BaselineInv
<1>3. CommandInv'
  BY <1>1, Zenon DEF ReindexInv, CommandInv
<1>4. ReadInv'
  BY Zenon DEF ReindexInv, ReadInv
<1> QED
  BY <1>2, <1>3, <1>4, Zenon DEF ReindexInv

\* Loading the rows keeps the invariant.
LEMMA LoadKeeps ==
    ASSUME ReindexInv, NEW t \in Checkers, Load(t)
    PROVE  ReindexInv'
<1>0. 1 \in Checkers /\ CheckTypes /\ PhaseInv
  BY FirstChecks, Zenon DEF ReindexInv
<1>1. CheckTypes'
  BY ZenonT(30), <1>0 DEF Load, CheckTypes, StepTo
<1>2. PhaseInv'
  BY <1>0 DEF Load, CheckTypes, StepTo, PhaseInv, Bearing
<1>3. CASE t # 1
  <2>1. /\ phase'[1] = phase[1] /\ index'[1] = index[1] /\ loaded'[1] = loaded[1]
        /\ value' = value /\ read_failed' = read_failed
        /\ assert_value' = assert_value /\ queued' = queued
    BY <1>0, <1>3 DEF Load, CheckTypes, StepTo
  <2> QED
    BY <1>1, <1>2, <2>1, OthersKeep, Zenon
<1>4. CASE t = 1
  <2>1. /\ phase'[1] = "done" \/ (phase'[1] = "row" /\ loaded'[1] = assert_value)
        /\ assert_value' = assert_value
    BY <1>0, <1>4 DEF Load, CheckTypes, StepTo
  <2>2. BaselineInv' /\ CommandInv' /\ ReadInv'
    BY <2>1 DEF BaselineInv, CommandInv, ReadInv, Bearing
  <2> QED
    BY <1>1, <1>2, <2>2, Zenon DEF ReindexInv
<1> QED
  BY <1>3, <1>4, Zenon

\* Skipping a row, or going on to poll it, keeps the invariant.
LEMMA NextRowKeeps ==
    ASSUME ReindexInv, NEW t \in Checkers, NextRow(t)
    PROVE  ReindexInv'
<1>0. 1 \in Checkers /\ CheckTypes /\ PhaseInv /\ BaselineInv /\ Len(Rows) \in Nat
  BY FirstChecks, Zenon DEF ReindexInv
<1>1. /\ index' = index \/ index' = [index EXCEPT ![t] = @ + 1]
      /\ loaded' = loaded /\ value' = value /\ read_failed' = read_failed
      /\ sysUptime' = sysUptime /\ device' = device
      /\ assert_value' = assert_value /\ queued' = queued
      /\ phase[t] = "row"
      /\ \/ phase' = [phase EXCEPT ![t] = "done"]
         \/ phase' = phase
         \/ phase' = [phase EXCEPT ![t] = "poll"] /\ index' = index /\ index[t] \in Index
  BY Zenon DEF NextRow, StepTo, cursor, polled
<1>2. CheckTypes'
  <2>1. phase' \in [Checkers -> Bearing \cup {"start", "row", "done"}]
    BY ZenonT(30), <1>0, <1>1 DEF CheckTypes, Bearing
  <2>2. index' \in [Checkers -> Nat \ {0}]
    BY <1>0, <1>1 DEF CheckTypes
  <2> QED
    BY <1>0, <1>1, <2>1, <2>2, Zenon DEF CheckTypes
<1>3. PhaseInv'
  BY SMTT(30), <1>0, <1>1 DEF CheckTypes, PhaseInv, Bearing
<1>4. CASE t # 1
  <2>1. phase'[1] = phase[1] /\ index'[1] = index[1]
    BY <1>0, <1>1, <1>4 DEF CheckTypes
  <2> QED
    BY <1>1, <1>2, <1>3, <2>1, OthersKeep, Zenon
<1>5. CASE t = 1
  <2>1. /\ phase[1] = "row" /\ phase'[1] \in {"done", "row", "poll"}
        /\ index[1] \in Nat /\ index'[1] \in Nat /\ index'[1] >= index[1]
    BY <1>0, <1>1, <1>5 DEF CheckTypes
  <2>2. CommandInv' /\ ReadInv'
    BY <2>1 DEF CommandInv, ReadInv
  <2>3. BaselineInv'
    BY <1>0, <1>1, <2>1 DEF BaselineInv, Bearing, Index
  <2> QED
    BY <1>2, <1>3, <2>2, <2>3, Zenon DEF ReindexInv
<1> QED
  BY <1>4, <1>5, Zenon

\* A row, as the query returns it.
LEMMA RowTyped ==
    ASSUME NEW i \in Index
    PROVE  Rows[i].action \in Actions /\ Rows[i].op \in {"=", ">", "<"}
<1> DEFINE Record == [dq : Nat \ {0}, op : {"=", ">", "<"}, action : Actions]
<1>1. Rows[i] \in Record
  <2> HIDE DEF Record
  <2>1. Rows \in Seq(Record)
    BY RowsAssumption, Zenon DEF Record
  <2> QED
    BY <2>1 DEF Index
<1> QED
  BY <1>1

\* What a reading can be.
LEMMA ReadingTyped ==
    ASSUME CheckTypes, NEW t \in Checkers, index[t] \in Index, NEW r \in Readings(t)
    PROVE  /\ r.value \in Int /\ r.failed \in BOOLEAN
           /\ r.failed => \/ r.value = Undefined
                          \/ Rows[index[t]].action = "count" /\ r.value = 0
                          \/ Rows[index[t]].action = "snmp" /\ r.value = Empty
<1> DEFINE a == Rows[index[t]].action
<1>a. \A v : /\ Answered(v).value = v /\ Answered(v).failed = FALSE
            /\ NotAnswered(v).value = v /\ NotAnswered(v).failed = TRUE
  BY Zenon DEF Answered, NotAnswered
<1>b. FALSE \in BOOLEAN /\ TRUE \in BOOLEAN /\ 0 \in Int
  OBVIOUS
<1>0. /\ a \in Actions /\ sysUptime[t] \in Int /\ Len(Rows) \in Nat
      /\ Undefined \in Int /\ Empty \in Int
  BY RowTyped, FirstChecks DEF CheckTypes, Undefined, Empty
<1>1. device[Engine] \in Int /\ device[Legacy] \in Int /\ device[index[t]] \in Int
  <2>1. Engine \in Sources /\ Legacy \in Sources /\ index[t] \in Sources
    BY <1>0 DEF Sources, Engine, Legacy, Index
  <2> QED
    BY <2>1, Zenon DEF CheckTypes
<1>2. CASE a = "uptime"
  <2>1. \/ r = Answered(sysUptime[t]) \/ r = Answered(device[Engine])
        \/ r = Answered(device[Legacy]) \/ r = NotAnswered(Undefined)
    BY <1>2 DEF Readings
  <2> QED
    BY <1>a, <1>b, <1>0, <1>1, <2>1, Zenon
<1>3. CASE a = "script"
  <2>1. r = Answered(device[index[t]]) \/ r = NotAnswered(Undefined)
    BY <1>3 DEF Readings
  <2> QED
    BY <1>a, <1>b, <1>0, <1>1, <2>1, Zenon
<1>4. CASE a = "snmp"
  <2>1. \/ r = Answered(device[index[t]]) \/ r = NotAnswered(Undefined)
        \/ r = NotAnswered(Empty)
    BY <1>4 DEF Readings
  <2> QED
    BY <1>a, <1>b, <1>0, <1>1, <1>4, <2>1, Zenon
<1>5. CASE a = "count"
  <2>1. r = Answered(device[index[t]]) \/ r = NotAnswered(0)
    BY <1>5 DEF Readings
  <2> QED
    BY <1>a, <1>b, <1>0, <1>1, <1>5, <2>1, Zenon
<1> QED
  BY <1>0, <1>2, <1>3, <1>4, <1>5 DEF Actions

\* Polling a row keeps the invariant.
LEMMA PollRowKeeps ==
    ASSUME ReindexInv, NEW t \in Checkers, Poll(t)
    PROVE  ReindexInv'
<1>0. 1 \in Checkers /\ CheckTypes /\ PhaseInv /\ BaselineInv
  BY FirstChecks, Zenon DEF ReindexInv
<1>1. phase[t] = "poll" /\ index[t] \in Index
  BY <1>0 DEF Poll, PhaseInv, Bearing
<1>2. PICK r \in Readings(t) :
        /\ value' = [value EXCEPT ![t] = r.value]
        /\ read_failed' = [read_failed EXCEPT ![t] = r.failed]
        /\ sysUptime' = sysUptime \/ sysUptime' = [sysUptime EXCEPT ![t] = r.value]
  BY Zenon DEF Poll
<1>3. /\ phase' = [phase EXCEPT ![t] = "evaluate"] /\ index' = index /\ loaded' = loaded
      /\ device' = device /\ assert_value' = assert_value /\ queued' = queued
  BY Zenon DEF Poll, StepTo, cursor
<1>4. /\ r.value \in Int /\ r.failed \in BOOLEAN
      /\ r.failed => \/ r.value = Undefined
                     \/ Rows[index[t]].action = "count" /\ r.value = 0
                     \/ Rows[index[t]].action = "snmp" /\ r.value = Empty
  BY <1>0, <1>1, ReadingTyped, Zenon
<1>5. CheckTypes'
  BY <1>0, <1>2, <1>3, <1>4 DEF CheckTypes, Bearing
<1>6. PhaseInv'
  BY <1>0, <1>1, <1>3 DEF CheckTypes, PhaseInv, Bearing
<1>7. CASE t # 1
  <2>1. phase'[1] = phase[1] /\ value'[1] = value[1] /\ read_failed'[1] = read_failed[1]
    BY <1>0, <1>2, <1>3, <1>7, Zenon DEF CheckTypes
  <2> QED
    BY <1>3, <1>5, <1>6, <2>1, OthersKeep, Zenon
<1>8. CASE t = 1
  <2>1. phase'[1] = "evaluate" /\ value'[1] = r.value /\ (read_failed'[1] => r.failed)
    BY <1>0, <1>2, <1>3, <1>8, Zenon DEF CheckTypes
  <2>2. CommandInv'
    BY <2>1 DEF CommandInv
  <2>3. BaselineInv'
    BY <1>0, <1>1, <1>3, <1>8, Zenon DEF BaselineInv, Bearing
  <2>4. ReadInv'
    BY <1>3, <1>4, <1>8, <2>1, Zenon DEF ReadInv
  <2> QED
    BY <1>5, <1>6, <2>2, <2>3, <2>4, Zenon DEF ReindexInv
<1> QED
  BY <1>7, <1>8, Zenon

\* A row that is finished with keeps the invariant: its baseline is not looked at
\* again, so it does not matter whether it has moved.
LEMMA FinishRowKeeps ==
    ASSUME ReindexInv, NEW t \in Checkers, phase[t] \in Bearing, FinishRow(t),
           device' = device, assert_value' \in [Index -> Int],
           queued' \in [{Rows[i].dq : i \in Index} -> Nat],
           t # 1 => assert_value' = assert_value /\ queued' = queued,
           \A i \in Index : i # index[1] => assert_value'[i] = assert_value[i]
    PROVE  ReindexInv'
<1>0. 1 \in Checkers /\ CheckTypes /\ PhaseInv /\ BaselineInv /\ Undefined \in Int
  BY FirstChecks DEF ReindexInv, Undefined
<1>1. /\ index' = [index EXCEPT ![t] = @ + 1]
      /\ value' = [value EXCEPT ![t] = Undefined]
      /\ read_failed' = [read_failed EXCEPT ![t] = FALSE]
      /\ phase' = [phase EXCEPT ![t] = "row"]
      /\ loaded' = loaded /\ sysUptime' = sysUptime
  BY Zenon DEF FinishRow, StepTo
<1>2. CheckTypes'
  BY <1>0, <1>1 DEF CheckTypes
<1>3. PhaseInv'
  BY <1>0, <1>1 DEF CheckTypes, PhaseInv, Bearing
<1>4. CASE t # 1
  <2>1. /\ phase'[1] = phase[1] /\ index'[1] = index[1]
        /\ value'[1] = value[1] /\ read_failed'[1] = read_failed[1]
    BY <1>0, <1>1, <1>4, Zenon DEF CheckTypes
  <2> QED
    BY <1>1, <1>2, <1>3, <1>4, <2>1, OthersKeep, Zenon
<1>5. CASE t = 1
  <2>1. /\ phase'[1] = "row" /\ index[1] \in Nat /\ index'[1] = index[1] + 1
    BY <1>0, <1>1, <1>5 DEF CheckTypes
  <2>2. CommandInv' /\ ReadInv'
    BY <2>1 DEF CommandInv, ReadInv
  <2>3. BaselineInv'
    <3>1. \A i \in Index : i >= index[1] => loaded[1][i] = assert_value[i]
      BY <1>0, <1>5, Zenon DEF BaselineInv
    <3>2. \A i \in Index : i >= index[1] + 1 => i >= index[1] /\ i # index[1]
      BY <2>1 DEF Index
    <3> QED
      BY <1>1, <2>1, <3>1, <3>2, Zenon DEF BaselineInv
  <2> QED
    BY <1>2, <1>3, <2>2, <2>3, Zenon DEF ReindexInv
<1> QED
  BY <1>4, <1>5, Zenon

\* The evaluation keeps the invariant: the first partition goes on to queue what has
\* failed, or to store what holds.
LEMMA EvaluateKeeps ==
    ASSUME ReindexInv, NEW t \in Checkers, Evaluate(t)
    PROVE  ReindexInv'
<1>0. 1 \in Checkers /\ CheckTypes /\ PhaseInv /\ BaselineInv /\ ReadInv
  BY FirstChecks, Zenon DEF ReindexInv
<1>1. /\ phase[t] = "evaluate" /\ phase[t] \in Bearing
      /\ device' = device /\ assert_value' = assert_value /\ queued' = queued
  BY DEF Evaluate, Bearing
<1>2. CASE FinishRow(t)
  <2>1. /\ assert_value' \in [Index -> Int]
        /\ queued' \in [{Rows[i].dq : i \in Index} -> Nat]
    BY <1>0, <1>1, Zenon DEF CheckTypes
  <2> QED
    BY <1>1, <1>2, <2>1, FinishRowKeeps, Zenon
<1>3. CASE ~FinishRow(t)
  <2>1. /\ t = 1
        /\ \/ Failed(1) /\ phase' = [phase EXCEPT ![1] = "queue"]
           \/ ~Failed(1) /\ Stores(1) /\ phase' = [phase EXCEPT ![1] = "store"]
        /\ index' = index /\ loaded' = loaded /\ value' = value
        /\ read_failed' = read_failed /\ sysUptime' = sysUptime
    BY <1>3, Zenon DEF Evaluate, StepTo, cursor, polled
  <2>2. /\ phase[1] = "evaluate"
        /\ \/ phase'[1] = "queue" /\ Failed(1)
           \/ phase'[1] = "store" /\ ~Failed(1) /\ value[1] # Undefined
    BY <1>0, <1>1, <2>1, Zenon DEF CheckTypes, Stores
  <2>3. CheckTypes'
    BY <1>0, <1>1, <2>1 DEF CheckTypes, Bearing
  <2>4. PhaseInv'
    BY <1>0, <1>1, <2>1 DEF CheckTypes, PhaseInv, Bearing
  <2>5. Failed(1)' <=> Failed(1)
    BY <2>1, Zenon DEF Failed
  <2>6. CommandInv'
    BY <2>1, <2>2, <2>5 DEF CommandInv
  <2>7. BaselineInv'
    BY <1>0, <1>1, <2>1, <2>2, Zenon DEF BaselineInv, Bearing
  <2>8. ReadInv'
    BY <1>0, <2>1, <2>2, Zenon DEF ReadInv
  <2> QED
    BY <2>3, <2>4, <2>6, <2>7, <2>8, Zenon DEF ReindexInv
<1> QED
  BY <1>2, <1>3, Zenon

\* Queueing the command keeps the invariant, and so does failing to.
LEMMA QueueCommandKeeps ==
    ASSUME ReindexInv, NEW t \in Checkers, Queue(t)
    PROVE  ReindexInv'
<1>0. 1 \in Checkers /\ CheckTypes /\ PhaseInv /\ BaselineInv /\ CommandInv /\ ReadInv
  BY FirstChecks, Zenon DEF ReindexInv
<1>1. /\ phase[t] = "queue" /\ phase[t] \in Bearing /\ t = 1
      /\ device' = device /\ assert_value' = assert_value
      /\ index[t] \in Index
  BY <1>0 DEF Queue, PhaseInv, Bearing
<1>2. CASE FinishRow(t) /\ UNCHANGED queued
  <2>1. /\ assert_value' \in [Index -> Int]
        /\ queued' \in [{Rows[i].dq : i \in Index} -> Nat]
    BY <1>0, <1>1, <1>2, Zenon DEF CheckTypes
  <2> QED
    BY <1>1, <1>2, <2>1, FinishRowKeeps, Zenon
<1>3. CASE ~(FinishRow(t) /\ UNCHANGED queued)
  <2>1. /\ queued' = [queued EXCEPT ![Rows[index[1]].dq] = @ + 1]
        /\ phase' = [phase EXCEPT ![1] = "store"]
        /\ index' = index /\ loaded' = loaded /\ value' = value
        /\ read_failed' = read_failed /\ sysUptime' = sysUptime
    BY <1>1, <1>3, Zenon DEF Queue, StepTo, cursor, polled
  <2>2. /\ phase[1] = "queue" /\ phase'[1] = "store" /\ Failed(1)
        /\ Rows[index[1]].dq \in {Rows[i].dq : i \in Index}
    BY <1>0, <1>1, <2>1, Zenon DEF CheckTypes, CommandInv
  <2>3. /\ queued[Rows[index[1]].dq] \in Nat
        /\ queued'[Rows[index[1]].dq] = queued[Rows[index[1]].dq] + 1
        /\ queued' \in [{Rows[i].dq : i \in Index} -> Nat]
    BY SMTT(30), <1>0, <2>1, <2>2 DEF CheckTypes
  <2>4. CheckTypes'
    BY <1>0, <1>1, <2>1, <2>3 DEF CheckTypes, Bearing
  <2>5. PhaseInv'
    BY <1>0, <1>1, <2>1 DEF CheckTypes, PhaseInv, Bearing
  <2>6. value[1] # Undefined
    BY <2>2, Zenon DEF Failed, AssertionFailed
  <2>7. CommandInv'
    BY <2>1, <2>2, <2>3, <2>6 DEF CommandInv
  <2>8. BaselineInv'
    BY <1>0, <1>1, <2>1, <2>2, Zenon DEF BaselineInv, Bearing
  <2>9. ReadInv'
    BY <1>0, <2>1, <2>2, Zenon DEF ReadInv
  <2> QED
    BY <2>4, <2>5, <2>7, <2>8, <2>9, Zenon DEF ReindexInv
<1> QED
  BY <1>2, <1>3, Zenon

\* Storing the baseline keeps the invariant.
LEMMA StoreBaselineKeeps ==
    ASSUME ReindexInv, NEW t \in Checkers, Store(t)
    PROVE  ReindexInv'
<1>0. 1 \in Checkers /\ CheckTypes /\ PhaseInv
  BY FirstChecks, Zenon DEF ReindexInv
<1>1. /\ phase[t] \in Bearing /\ t = 1 /\ index[1] \in Index
      /\ FinishRow(t) /\ device' = device /\ queued' = queued
      /\ \/ assert_value' = assert_value
         \/ assert_value' = [assert_value EXCEPT ![index[1]] = value[1]]
  BY <1>0 DEF Store, PhaseInv, Bearing
<1>2. /\ assert_value' \in [Index -> Int]
      /\ \A i \in Index : i # index[1] => assert_value'[i] = assert_value[i]
  BY <1>0, <1>1 DEF CheckTypes
<1>3. queued' \in [{Rows[i].dq : i \in Index} -> Nat]
  BY <1>0, <1>1, Zenon DEF CheckTypes
<1> QED
  BY <1>1, <1>2, <1>3, FinishRowKeeps, Zenon

\* The device may change at any time.
LEMMA DeviceChangesKeeps ==
    ASSUME ReindexInv, DeviceChanges
    PROVE  ReindexInv'
<1>1. PICK s \in Sources, v \in Values : device' = [device EXCEPT ![s] = v]
  BY Zenon DEF DeviceChanges
<1>2. UNCHANGED <<assert_value, queued, phase, index, loaded, sysUptime, value, read_failed>>
  BY Zenon DEF DeviceChanges, cursor, polled
<1>3. CheckTypes'
  BY <1>1, <1>2, ChangesAssumption DEF ReindexInv, CheckTypes, Values
<1>4. PhaseInv'
  BY <1>2, Zenon DEF ReindexInv, PhaseInv
<1> QED
  BY <1>2, <1>3, <1>4, OthersKeep, Zenon

\* Every step keeps the invariant.
LEMMA ReindexStepKeeps ==
    ASSUME ReindexInv, [ReindexNext]_reindexVars
    PROVE  ReindexInv'
<1>1. CASE UNCHANGED reindexVars
  <2>1. UNCHANGED <<device, assert_value, queued, phase, index, loaded, sysUptime, value,
                    read_failed>>
    BY <1>1, Zenon DEF reindexVars, cursor, polled
  <2>2. CheckTypes' /\ PhaseInv'
    BY <2>1, Zenon DEF ReindexInv, CheckTypes, PhaseInv
  <2> QED
    BY <2>1, <2>2, OthersKeep, Zenon
<1>2. CASE ReindexNext
  BY <1>1, <1>2, LoadKeeps, NextRowKeeps, PollRowKeeps, EvaluateKeeps, QueueCommandKeeps,
     StoreBaselineKeeps, DeviceChangesKeeps, Zenon DEF ReindexNext, ReindexDone
<1> QED
  BY <1>1, <1>2, Zenon

\* For any table of rows, number of partitions and changes of the device: no baseline
\* moves across a failed assertion without its reindex queued, and a row without an
\* answer keeps its own, but for the failures that are taken for an answer.
THEOREM BaselineMovesWithReindexThm == ReindexSpec => BaselineMovesWithReindex
<1> DEFINE Moved == \A i \in Index : assert_value'[i] # assert_value[i] =>
                      /\ AssertionFailed(Rows[i].op, assert_value[i], assert_value'[i]) =>
                            queued[Rows[i].dq] > 0
                      /\ read_failed[1] =>
                            \/ Rows[i].action = "count" /\ assert_value'[i] = 0
                            \/ Rows[i].action = "snmp" /\ assert_value'[i] = Empty
<1>1. ReindexInv /\ [ReindexNext]_reindexVars => [Moved]_reindexVars
  <2> SUFFICES ASSUME ReindexInv, ReindexNext, NEW i \in Index,
                      assert_value'[i] # assert_value[i]
               PROVE  /\ AssertionFailed(Rows[i].op, assert_value[i], assert_value'[i]) =>
                            queued[Rows[i].dq] > 0
                      /\ read_failed[1] =>
                            \/ Rows[i].action = "count" /\ assert_value'[i] = 0
                            \/ Rows[i].action = "snmp" /\ assert_value'[i] = Empty
    BY Zenon
  <2>1. PICK t \in Checkers : Store(t)
    BY Zenon DEF ReindexNext, Load, NextRow, Poll, Evaluate, Queue, DeviceChanges,
                 ReindexDone, reindexVars
  <2>2. CheckTypes /\ PhaseInv /\ BaselineInv /\ CommandInv /\ ReadInv
    BY Zenon DEF ReindexInv
  <2>3. /\ phase[1] = "store" /\ t = 1 /\ index[1] \in Index
        /\ assert_value' = [assert_value EXCEPT ![index[1]] = value[1]]
    BY <2>1, <2>2 DEF Store, PhaseInv, Bearing
  <2>4. i = index[1] /\ assert_value'[i] = value[1]
    BY <2>2, <2>3 DEF CheckTypes
  <2>5. loaded[1][i] = assert_value[i]
    BY <2>2, <2>3, <2>4 DEF BaselineInv, Bearing, Index
  <2>6. AssertionFailed(Rows[i].op, assert_value[i], assert_value'[i]) => Failed(1)
    BY <2>4, <2>5, Zenon DEF Failed
  <2>7. AssertionFailed(Rows[i].op, assert_value[i], assert_value'[i]) =>
            queued[Rows[i].dq] > 0
    BY <2>2, <2>3, <2>4, <2>6, Zenon DEF CommandInv
  <2>8. read_failed[1] => \/ Rows[i].action = "count" /\ assert_value'[i] = 0
                          \/ Rows[i].action = "snmp" /\ assert_value'[i] = Empty
    BY <2>2, <2>3, <2>4, Zenon DEF ReadInv, CommandInv
  <2> QED
    BY <2>7, <2>8, Zenon
<1>2. ReindexSpec => []ReindexInv
  BY ReindexInitially, ReindexStepKeeps, PTL DEF ReindexSpec
<1>3. ReindexSpec => [][Moved]_reindexVars
  BY <1>1, <1>2, PTL DEF ReindexSpec
<1> QED
  BY <1>3, Zenon DEF BaselineMovesWithReindex
=============================================================================
