----------------------------- MODULE RetryPolicy -----------------------------
(***************************************************************************)
(* ValidatedRetryPolicy (retry_logic.rs): the policy a local activity is     *)
(* retried under.  An optional value is a set with at most one element.     *)
(***************************************************************************)
EXTENDS Integers

CONSTANTS
    MaxDuration,    \* the longest time a Duration holds, in seconds
    MaxProto        \* the longest time a protobuf Duration holds

ASSUME DurationAssumption ==
    /\ MaxProto \in Nat
    /\ MaxDuration \in Nat
    /\ MaxProto <= MaxDuration

Least(a, b) == IF a <= b THEN a ELSE b
Greatest(a, b) == IF a >= b THEN a ELSE b

OrElse(opt, default) == IF opt = {} THEN default ELSE CHOOSE x \in opt : TRUE

\* The durations a field of the message converts to, if it is set at all.
ToDuration(field) == {d \in field : d \in 0..MaxProto}

from_proto_with_defaults(p) ==
    LET initial == OrElse(ToDuration(p.initial_interval), 1)
        hundred == Least(initial * 100, MaxDuration)
    IN  [initial_interval    |-> initial,
         backoff_coefficient |-> IF p.backoff_coefficient >= 1 THEN p.backoff_coefficient ELSE 2,
         maximum_interval    |->
            IF ToDuration(p.maximum_interval) # {}
            THEN Greatest(OrElse(ToDuration(p.maximum_interval), 0), initial)
            ELSE IF hundred <= MaxProto THEN hundred ELSE initial,
         maximum_attempts    |-> IF p.maximum_attempts >= 0 THEN p.maximum_attempts ELSE 0,
         non_retryable_error_types |-> p.non_retryable_error_types]

\* The exponential delay before the attempt after attempt n; one that no
\* Duration holds becomes the maximum.
ExponentialDelay(policy, n) ==
    LET d == policy.backoff_coefficient ^ (n - 1) * policy.initial_interval
    IN  IF d > MaxDuration THEN policy.maximum_interval ELSE Least(d, policy.maximum_interval)

\* The delay before the attempt that follows attempt n, or {} for no retry.
\* failure is the application failure attempt n reported, or {} (a timeout).
should_retry(policy, n, failure) ==
    IF \/ policy.maximum_attempts > 0 /\ n >= policy.maximum_attempts
       \/ \E f \in failure : f.non_retryable
       \/ OrElse({f.type : f \in failure}, "") \in policy.non_retryable_error_types
    THEN {}
    ELSE IF \E f \in failure : ToDuration(f.next_retry_delay) # {}
    THEN UNION {ToDuration(f.next_retry_delay) : f \in failure}
    ELSE IF n = 1 THEN {policy.initial_interval}
    ELSE {ExponentialDelay(policy, n)}
=============================================================================
