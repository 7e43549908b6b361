--------------------------- MODULE HeartbeatManager ---------------------------
(***************************************************************************)
(* The ActivityHeartbeatManager (worker/activities/                          *)
(* activity_heartbeat_manager.rs): a task that takes actions from a channel, *)
(* reports the latest heartbeat details of each activity to the server, and  *)
(* throttles the reports.  The manager is a record, its methods are operators*)
(* on it, and the executor of the actions they return (for_each_concurrent)  *)
(* is part of it: the requests in flight and the sleeping throttles.         *)
(* Heartbeat details are numbered in the order lang gave them; 0 is none.    *)
(***************************************************************************)
EXTENDS Naturals, Sequences

CONSTANT Tokens             \* task tokens of activities

\* What is kept for a task token, tracked or not.
Untracked == [tracked |-> FALSE, last_recorded_details |-> 0, is_record_in_flight |-> FALSE,
              throttled |-> FALSE]

NewManager ==
    [tt_to_state |-> [t \in Tokens |-> Untracked],
     tt_needs_flush |-> {},     \* evictions that wait for a report
     incoming_hbs |-> <<>>,
     running |-> TRUE,          \* cancellation_token is not cancelled
     reports |-> {},            \* record_activity_heartbeat requests in flight
     sent |-> [t \in Tokens |-> 0],    \* history: the latest details reported
     sleepers |-> [t \in Tokens |-> 0],
     notified |-> {}]           \* evictions that were notified

Send(hb, action) == IF hb.running THEN [hb EXCEPT !.incoming_hbs = Append(@, action)] ELSE hb

Heartbeat(t, n) == [type |-> "SendHeartbeat", tok |-> t, details |-> n, should_flush |-> FALSE]
Evict(t, flush) == [type |-> "Evict", tok |-> t, details |-> 0, should_flush |-> flush]
CompleteReport(t) ==
    [type |-> "CompleteReport", tok |-> t, details |-> 0, should_flush |-> FALSE]
CompleteThrottle(t) ==
    [type |-> "CompleteThrottle", tok |-> t, details |-> 0, should_flush |-> FALSE]

\* HeartbeatExecutorAction::Report
Report(hb, t, n) ==
    [hb EXCEPT !.reports = @ \cup {[tok |-> t, details |-> n]}, !.sent[t] = n]

Reporting == [Untracked EXCEPT !.tracked = TRUE, !.is_record_in_flight = TRUE]

\* The first heartbeat is reported at once, later ones replace what waits.
record(hb, t, n) ==
    IF hb.tt_to_state[t].tracked
    THEN [hb EXCEPT !.tt_to_state[t].last_recorded_details = n]
    ELSE Report([hb EXCEPT !.tt_to_state[t] = Reporting], t, n)

\* The token's throttle starts to sleep.
Throttle(hb, t) ==
    IF hb.tt_to_state[t].tracked
    THEN [hb EXCEPT !.tt_to_state[t].is_record_in_flight = FALSE,
                    !.tt_to_state[t].throttled = TRUE,
                    !.sleepers[t] = @ + 1]
    ELSE hb

\* A report handler that forgets the eviction waiting for it.
handle_report_completed_unnotified(hb, t) == Throttle(hb, t)

\* Any report of the token releases an eviction that waits.
handle_report_completed(hb, t) ==
    Throttle([hb EXCEPT !.notified = @ \cup (hb.tt_needs_flush \cap {t}),
                        !.tt_needs_flush = @ \ {t}], t)

\* A throttle handler that forgets the token whatever waits.
handle_throttle_completed_forgetting(hb, t) == [hb EXCEPT !.tt_to_state[t] = Untracked]

\* After the throttle the latest details are reported, or the token is
\* forgotten.
handle_throttle_completed(hb, t) ==
    LET state == hb.tt_to_state[t] IN
    CASE ~state.tracked -> hb
      [] state.tracked /\ state.last_recorded_details = 0 ->
            [hb EXCEPT !.tt_to_state[t] = Untracked]
      [] OTHER -> Report([hb EXCEPT !.tt_to_state[t] = Reporting], t, state.last_recorded_details)

\* An eviction that waits only for its own flush.
evict_waiting_for_flush(hb, t, should_flush) ==
    LET state == hb.tt_to_state[t]
        flush == should_flush /\ state.last_recorded_details # 0
        forgotten == [hb EXCEPT !.tt_to_state[t] = Untracked,
                                !.sleepers[t] = IF state.throttled THEN 0 ELSE @,
                                !.tt_needs_flush = @ \cup (IF flush THEN {t} ELSE {}),
                                !.notified = @ \cup (IF flush THEN {} ELSE {t})]
    IN  IF flush THEN Report(forgotten, t, state.last_recorded_details) ELSE forgotten

\* The token is forgotten and its throttle cancelled.  The eviction is over at
\* once unless details are flushed or a report is in flight.
evict(hb, t, should_flush) ==
    LET state == hb.tt_to_state[t]
        flush == should_flush /\ state.last_recorded_details # 0
        waits == flush \/ state.is_record_in_flight
        forgotten == [hb EXCEPT !.tt_to_state[t] = Untracked,
                                !.sleepers[t] = IF state.throttled THEN 0 ELSE @,
                                !.tt_needs_flush = @ \cup (IF waits THEN {t} ELSE {}),
                                !.notified = @ \cup (IF waits THEN {} ELSE {t})]
    IN  IF flush THEN Report(forgotten, t, state.last_recorded_details) ELSE forgotten

\* One turn of the task's loop.
HandleAction(hb) ==
    LET a == Head(hb.incoming_hbs)
        rest == [hb EXCEPT !.incoming_hbs = Tail(@)]
    IN  CASE a.type = "SendHeartbeat"    -> record(rest, a.tok, a.details)
          [] a.type = "CompleteReport"   -> handle_report_completed(rest, a.tok)
          [] a.type = "CompleteThrottle" -> handle_throttle_completed(rest, a.tok)
          [] a.type = "Evict"            -> evict(rest, a.tok, a.should_flush)

\* Cancelling the token ends the loop: the channel goes with its contents, and
\* the throttles, whose tokens are children of this one, end.
Shutdown(hb) ==
    [hb EXCEPT !.running = FALSE, !.incoming_hbs = <<>>, !.sleepers = [t \in Tokens |-> 0]]
=============================================================================
