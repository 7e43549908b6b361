-------------------------- MODULE MCLocalActivities --------------------------
(***************************************************************************)
(* Small instances of LocalActivities: one run with the local activities of  *)
(* Las.  Activity a may run into its start-to-close timeout, the others into *)
(* their schedule-to-close timeout.                                          *)
(***************************************************************************)
EXTENDS LocalActivities

CONSTANTS a, r

OneRun == [l \in Las |-> r]

Close == [l \in Las |-> IF l = a THEN {"start"} ELSE {"sched"}]

TwoAttempts ==
    [initial_interval |-> {1}, backoff_coefficient |-> 2, maximum_interval |-> {2},
     maximum_attempts |-> 2, non_retryable_error_types |-> {}]

\* A failure that is retried here, one that is final, and one whose delay is
\* left to a timer of the workflow.
Failure(final, delay) == [non_retryable |-> final, type |-> "error", next_retry_delay |-> delay]

AllFailures == {Failure(FALSE, {}), Failure(TRUE, {}), Failure(FALSE, {5})}
=============================================================================
