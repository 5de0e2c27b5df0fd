------------------------------ MODULE MCCronRuns ------------------------------
(* Instances of CronRuns for TLC. *)
EXTENDS CronRuns

\* backoff: quadratic, as in the code (the ceiling of 5 minutes is further up).
MCBackoff == [n \in 1 .. MaxRetries |-> n * n]

MCSpent[n \in 0 .. MaxRetries] ==
    IF n = 0 THEN 0 ELSE MCSpent[n - 1] + Timeout + MCBackoff[n]

=============================================================================
