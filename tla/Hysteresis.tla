----------------------------- MODULE Hysteresis -----------------------------
(***************************************************************************)
(* What the availability bookkeeping of a device promises: a verdict that  *)
(* only flips after enough consecutive polls that contradict it.           *)
(***************************************************************************)
EXTENDS Naturals

CONSTANTS FailureCount, RecoveryCount

VARIABLES
    verdict,        \* "unknown", "up" or "down"
    against         \* consecutive polls that contradict the verdict

vars == <<verdict, against>>

Init == verdict \in {"unknown", "up"} /\ against = 0

\* A poll that contradicts the verdict.
Contradict(other, threshold) ==
    IF against + 1 >= threshold
    THEN verdict' = other /\ against' = 0
    ELSE against' = against + 1 /\ UNCHANGED verdict

Settle(v) == verdict' = v /\ against' = 0

Answered == \/ verdict = "down" /\ Contradict("up", RecoveryCount)
            \/ verdict # "down" /\ Settle("up")

Unanswered == \/ verdict = "up" /\ Contradict("down", FailureCount)
              \/ verdict # "up" /\ Settle("down")

Next == Answered \/ Unanswered

Spec == Init /\ [][Next]_vars
=============================================================================
