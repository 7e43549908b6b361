----------------------------- MODULE ClientRetry -----------------------------
(***************************************************************************)
(* TonicErrorHandler::handle (crates/client/src/retry.rs): what the gRPC    *)
(* client does with an error of a call.  Status codes are grouped by what   *)
(* the handler tells apart.  The two clocks it reads (the retry budget and  *)
(* the grace period of a task poll) are inputs.                             *)
(***************************************************************************)
EXTENDS Integers

RetryableCodes == {"Unavailable", "ResourceExhausted", "TooLarge"}

\* "TooLarge" is ResourceExhausted with one of the messages about the size of
\* the response, "TransportCancelled" is Cancelled caused by the connection.
Codes == RetryableCodes \cup {"Cancelled", "TransportCancelled", "DeadlineExceeded", "Fatal"}

IsExhausted(e) == e \in {"ResourceExhausted", "TooLarge"}

IsCancelled(e) == e \in {"Cancelled", "TransportCancelled"}

\* max_retries of RetryOptions::task_poll_retry_policy: 0 is no limit.
TaskPollMaxRetries == 0

\* The kinds of calls: a task poll retries under its own policy, which has no
\* time limit.
MaxRetries(call, configured) ==
    IF call = "TaskLongPoll" THEN TaskPollMaxRetries ELSE configured

\* poll_scaling_error_matcher: the errors the poller scaler asks to see.
poll_scaling_error_matcher(e) ==
    IsExhausted(e) \/ IsCancelled(e) \/ e = "DeadlineExceeded"

Forward(marked) == [do |-> "forward", short_circuit |-> marked]
WaitRetry == [do |-> "retry", short_circuit |-> FALSE]

\* short_circuits: the call carries NoRetryOnMatching(poll_scaling_error_matcher);
\* in_budget: the backoff has time left; in_grace: the fatal-error grace period
\* of a task poll has not passed.
handle(call, configured, attempt, e, short_circuits, in_budget, in_grace) ==
    LET limit == MaxRetries(call, configured)
        long_poll_allowed == call = "TaskLongPoll" /\ (IsCancelled(e) \/ e = "DeadlineExceeded")
        retryable == e \in RetryableCodes \/ long_poll_allowed \/ e = "TransportCancelled"
        waits == /\ e # "TooLarge"
                 /\ IF retryable THEN in_budget ELSE call = "TaskLongPoll" /\ in_grace
    IN  IF limit > 0 /\ attempt >= limit THEN Forward(FALSE)
        ELSE IF short_circuits /\ poll_scaling_error_matcher(e) THEN Forward(TRUE)
        ELSE IF waits THEN WaitRetry
        ELSE Forward(FALSE)

\* The errors that come out of a task poll, with the marker: its backoff never
\* runs out of time, so only the grace period leaves a choice.
PollErrors(short_circuits) ==
    UNION {{[code |-> e, short_circuit |-> h.short_circuit] :
              h \in {handle("TaskLongPoll", 0, 1, e, short_circuits, TRUE, g) : g \in BOOLEAN}
                        \ {WaitRetry}} : e \in Codes}
=============================================================================
