--------------------------- MODULE ActivityManager ---------------------------
(***************************************************************************)
(* WorkerActivityTasks (worker/activities.rs): lang's poll hands out started *)
(* activities and cancels, lang heartbeats and completes them, completions   *)
(* evict the activity from the heartbeat manager and report to the server,   *)
(* and shutdown waits for all of it before it stops the heartbeat manager.   *)
(*                                                                          *)
(* Time is abstracted: a sleeping throttle, a local timer or the grace period*)
(* may elapse at any moment.  A request and its reply are one step, so two   *)
(* requests in flight reach the server in either order.                      *)
(***************************************************************************)
EXTENDS HeartbeatManager, FiniteSets

CONSTANTS
    MaxHeartbeats,      \* bound: heartbeats of one activity
    Heartbeating,       \* the activities that heartbeat
    Replies,            \* the replies to a heartbeat: "ok" or why the activity must stop
    Timeouts,           \* the activities with a local timeout
    GracePeriod,        \* whether a graceful shutdown period is configured
    Overlap             \* whether lang may complete an activity during its heartbeat call

ASSUME ActivityAssumption ==
    /\ IsFiniteSet(Tokens)
    /\ MaxHeartbeats \in Nat
    /\ Heartbeating \subseteq Tokens
    /\ Replies \subseteq {"ok", "Cancelled", "Reset", "Paused", "NotFound"}
    /\ Timeouts \subseteq Tokens
    /\ {GracePeriod, Overlap} \subseteq BOOLEAN

VARIABLES
    act,            \* RemoteInFlightActInfo, and how far its completion is
    completions_in_flight,  \* activities whose completion is counted
    cancels,        \* the channel of PendingActivityCancels
    hb,             \* the heartbeat manager
    heartbeating,   \* record_heartbeat calls between the map and the channel
    shutdown_initiated,
    starts_complete,        \* start_tasks_stream_complete
    immediate_cancel,       \* should_issue_immediate_cancel
    until,          \* the take_until future of the task stream
    count_changed,  \* the future has not seen the last change of the count
    shutdown_pc,    \* WorkerActivityTasks::shutdown
    panics          \* expectations that failed

life == <<shutdown_initiated, starts_complete, immediate_cancel, until>>
vars == <<act, completions_in_flight, cancels, hb, heartbeating, life, count_changed,
          shutdown_pc, panics>>

Phases == {"new", "outstanding", "counted", "evicting", "reporting", "done"}

Reasons == {"none", "Cancelled", "Reset", "Paused", "NotFound", "TimedOut", "WorkerShutdown"}

\* Cancels with these reasons say that the server has forgotten the activity.
known_not_found(a) == a.cancel \in {"NotFound", "TimedOut"}

\* outstanding_activity_tasks: a completion is counted before it takes its task.
Outstanding == {t \in Tokens : act[t].phase \in {"outstanding", "counted"}}

NewActivity ==
    [phase |-> "new", cancel |-> "none", given |-> 0, timers |-> FALSE, status |-> "none"]

Init ==
    /\ act = [t \in Tokens |-> NewActivity]
    /\ completions_in_flight = {}
    /\ cancels = <<>>
    /\ hb = NewManager
    /\ heartbeating = [t \in Tokens |-> 0]
    /\ shutdown_initiated = FALSE
    /\ starts_complete = FALSE
    /\ immediate_cancel = FALSE
    /\ until = "starts"
    /\ count_changed = FALSE
    /\ shutdown_pc = "no"
    /\ panics = {}

PendingCancel(t, reason) == [tok |-> t, reason |-> reason]

\* The members of S, in an order nobody chooses.
InSomeOrder(S) ==
    CHOOSE q \in [1..Cardinality(S) -> S] : \A x \in S : \E i \in DOMAIN q : q[i] = x

\* cancels_tx.send.  A cancel behind another of the same activity, for one that
\* was cancelled before or for one that is completed would be dropped by
\* PollCancel, and is not sent.
SendCancels(T, reason) ==
    LET needed == {t \in T : /\ act'[t].phase \in {"outstanding", "counted"}
                             /\ act'[t].cancel = "none"
                             /\ \A i \in DOMAIN cancels : cancels[i].tok # t}
    IN  cancels' = cancels \o InSomeOrder({PendingCancel(t, reason) : t \in needed})

-----------------------------------------------------------------------------
(* poll: the activity task stream                                           *)

\* A start, from the server or eager.  Cancels are preferred.  After the grace
\* period it is cancelled at once, before that its local timers start.
PollStart(t) ==
    /\ until # "done"
    /\ ~starts_complete
    /\ cancels = <<>>
    /\ act[t].phase = "new"
    /\ act' = [act EXCEPT ![t].phase = "outstanding",
                          ![t].timers = ~immediate_cancel /\ t \in Timeouts]
    /\ SendCancels(IF immediate_cancel THEN {t} ELSE {}, "WorkerShutdown")
    /\ UNCHANGED <<completions_in_flight, hb, heartbeating, life, count_changed,
                   shutdown_pc, panics>>

\* A cancel goes to lang once, and only while lang has the task.
PollCancel ==
    /\ until # "done"
    /\ cancels # <<>>
    /\ LET c == Head(cancels) IN
       IF c.tok \in Outstanding /\ act[c.tok].cancel = "none"
       THEN act' = [act EXCEPT ![c.tok].cancel = c.reason]
       ELSE UNCHANGED act
    /\ cancels' = Tail(cancels)
    /\ UNCHANGED <<completions_in_flight, hb, heartbeating, life, count_changed,
                   shutdown_pc, panics>>

\* Both start sources ended after shutdown was initiated.
StartsComplete ==
    /\ shutdown_initiated
    /\ ~starts_complete
    /\ starts_complete' = TRUE
    /\ until' = "map"
    /\ UNCHANGED <<act, completions_in_flight, cancels, hb, heartbeating,
                   shutdown_initiated, immediate_cancel, count_changed, shutdown_pc, panics>>

\* A future that looks at the map alone.
UntilLooksAtMapOnly ==
    /\ until = "map"
    /\ until' = IF Outstanding = {} THEN "done" ELSE "waiting"
    /\ UNCHANGED <<act, completions_in_flight, cancels, hb, heartbeating,
                   shutdown_initiated, starts_complete, immediate_cancel, count_changed,
                   shutdown_pc, panics>>

\* take_until looks at the map, then at the count; with both empty the stream
\* ends and poll returns ShutDown.
UntilLooksAtMap ==
    /\ until = "map"
    /\ until' = IF Outstanding = {} THEN "count" ELSE "waiting"
    /\ UNCHANGED <<act, completions_in_flight, cancels, hb, heartbeating,
                   shutdown_initiated, starts_complete, immediate_cancel, count_changed,
                   shutdown_pc, panics>>

UntilLooksAtCount ==
    /\ until = "count"
    /\ until' = IF completions_in_flight = {} THEN "done" ELSE "waiting"
    /\ count_changed' = FALSE
    /\ UNCHANGED <<act, completions_in_flight, cancels, hb, heartbeating,
                   shutdown_initiated, starts_complete, immediate_cancel, shutdown_pc, panics>>

UntilWakes ==
    /\ until = "waiting"
    /\ count_changed
    /\ until' = "map"
    /\ count_changed' = FALSE
    /\ UNCHANGED <<act, completions_in_flight, cancels, hb, heartbeating,
                   shutdown_initiated, starts_complete, immediate_cancel, shutdown_pc, panics>>

\* The grace period ends: everything lang has is cancelled.
GracePeriodElapses ==
    /\ GracePeriod
    /\ shutdown_initiated
    /\ ~immediate_cancel
    /\ until # "done"
    /\ immediate_cancel' = TRUE
    /\ UNCHANGED act
    /\ SendCancels(Outstanding, "WorkerShutdown")
    /\ UNCHANGED <<completions_in_flight, hb, heartbeating, shutdown_initiated,
                   starts_complete, until, count_changed, shutdown_pc, panics>>

\* ActivityLocalTimers::run ends and its task asks for a cancel.
LocalTimeout(t) ==
    /\ act[t].timers
    /\ act' = [act EXCEPT ![t].timers = FALSE]
    /\ SendCancels({t}, "TimedOut")
    /\ UNCHANGED <<completions_in_flight, hb, heartbeating, life, count_changed,
                   shutdown_pc, panics>>

\* cancel_activity_callback
CancelActivity(t) ==
    /\ t \in Outstanding
    /\ UNCHANGED act
    /\ SendCancels({t}, "Cancelled")
    /\ UNCHANGED <<completions_in_flight, hb, heartbeating, life, count_changed,
                   shutdown_pc, panics>>
-----------------------------------------------------------------------------
(* record_heartbeat                                                         *)

\* Under the lock of the map: the details are kept.
RecordHeartbeat(t) ==
    /\ t \in Heartbeating \cap Outstanding
    /\ Overlap \/ act[t].phase = "outstanding"
    /\ heartbeating[t] = 0
    /\ act[t].given < MaxHeartbeats
    /\ act' = [act EXCEPT ![t].given = @ + 1]
    /\ heartbeating' = [heartbeating EXCEPT ![t] = act[t].given + 1]
    /\ UNCHANGED <<completions_in_flight, cancels, hb, life, count_changed, shutdown_pc,
                   panics>>

\* After the lock is released: they are sent to the manager, whose receiver is
\* expected to be alive.
SendHeartbeat(t) ==
    /\ heartbeating[t] # 0
    /\ heartbeating' = [heartbeating EXCEPT ![t] = 0]
    /\ hb' = Send(hb, Heartbeat(t, heartbeating[t]))
    /\ panics' = panics \cup (IF hb.running THEN {} ELSE {"heartbeat_receiver_dropped"})
    /\ UNCHANGED <<act, completions_in_flight, cancels, life, count_changed, shutdown_pc>>

-----------------------------------------------------------------------------
(* The heartbeat manager's task and the requests it makes                   *)

HeartbeatStep ==
    /\ hb.running
    /\ hb.incoming_hbs # <<>>
    /\ hb' = HandleAction(hb)
    /\ UNCHANGED <<act, completions_in_flight, cancels, heartbeating, life, count_changed,
                   shutdown_pc, panics>>

ThrottleElapses(t) ==
    /\ hb.sleepers[t] > 0
    /\ hb' = Send([hb EXCEPT !.sleepers[t] = @ - 1], CompleteThrottle(t))
    /\ UNCHANGED <<act, completions_in_flight, cancels, heartbeating, life, count_changed,
                   shutdown_pc, panics>>

\* record_activity_heartbeat returns.  The reply may ask for a cancel, and so does
\* a request whose details are too large; other errors are only logged.
HeartbeatReply(r, reply) ==
    /\ r \in hb.reports
    /\ hb' = Send([hb EXCEPT !.reports = @ \ {r}], CompleteReport(r.tok))
    /\ UNCHANGED act
    /\ SendCancels(IF reply = "ok" THEN {} ELSE {r.tok}, reply)
    /\ UNCHANGED <<completions_in_flight, heartbeating, life, count_changed, shutdown_pc, panics>>
-----------------------------------------------------------------------------
(* complete                                                                 *)

\* Cancelled, or what needs no flush: completed, failed, or to complete later.
Statuses == {"cancelled", "other"}

\* The watch channel of the count.  A change before the future waits for it only
\* makes it look twice, and is left out.
CountChanges == count_changed' = (until # "starts")

\* The completion is counted while the task is still in the map.
Complete(t, status) ==
    /\ act[t].phase = "outstanding"
    /\ Overlap \/ heartbeating[t] = 0
    /\ act' = [act EXCEPT ![t].phase = "counted", ![t].status = status]
    /\ completions_in_flight' = completions_in_flight \cup {t}
    /\ CountChanges
    /\ UNCHANGED <<cancels, hb, heartbeating, life, shutdown_pc, panics>>

\* Cancelled responses carry no heartbeat details, so these are flushed first,
\* unless the cancel will be reported as a failure.
should_flush(a) ==
    ~known_not_found(a) /\ a.status = "cancelled" /\ a.cancel # "WorkerShutdown"

\* The task leaves the map, its timers are aborted, and the eviction is asked for.
TakeTask(t) ==
    /\ act[t].phase = "counted"
    /\ act' = [act EXCEPT ![t].phase = "evicting", ![t].timers = FALSE]
    /\ hb' = Send(hb, Evict(t, should_flush(act[t])))
    /\ UNCHANGED <<completions_in_flight, cancels, heartbeating, life, count_changed,
                   shutdown_pc, panics>>

\* A guard whose drop is not published.
FinishSilently(t) ==
    /\ act' = [act EXCEPT ![t].phase = "done", ![t].cancel = "none"]
    /\ completions_in_flight' = completions_in_flight \ {t}
    /\ UNCHANGED count_changed

\* What finishes the completion: its act_info and its guard are dropped.
Finish(t) ==
    /\ act' = [act EXCEPT ![t].phase = "done", ![t].cancel = "none"]
    /\ completions_in_flight' = completions_in_flight \ {t}
    /\ CountChanges

\* The eviction is over.  Unless the server is known not to care, the completion
\* takes the read half of completers_lock, behind a shutdown that waits for it.
Evicted(t) ==
    /\ act[t].phase = "evicting"
    /\ t \in hb.notified
    /\ \/ /\ known_not_found(act[t])
          /\ Finish(t)
       \/ /\ ~known_not_found(act[t])
          /\ shutdown_pc # "locking"
          /\ act' = [act EXCEPT ![t].phase = "reporting"]
          /\ UNCHANGED <<completions_in_flight, count_changed>>
    /\ hb' = [hb EXCEPT !.notified = @ \ {t}]
    /\ UNCHANGED <<cancels, heartbeating, life, shutdown_pc, panics>>

\* The report ends: it is answered, or it is lost to an error, which is only
\* logged.  A report that is too large is first replaced by a failure; cancels for
\* a graceful shutdown are failures as well.
Reported(t) ==
    /\ act[t].phase = "reporting"
    /\ Finish(t)
    /\ UNCHANGED <<cancels, hb, heartbeating, life, shutdown_pc, panics>>
-----------------------------------------------------------------------------
(* Shutdown                                                                 *)

InitiateShutdown ==
    /\ ~shutdown_initiated
    /\ shutdown_initiated' = TRUE
    /\ UNCHANGED <<act, completions_in_flight, cancels, hb, heartbeating,
                   starts_complete, immediate_cancel, until, count_changed, shutdown_pc, panics>>

\* shutdown initiates too, then waits for the write half of completers_lock.
Shutdown0 ==
    /\ shutdown_pc = "no"
    /\ shutdown_initiated' = TRUE
    /\ shutdown_pc' = "locking"
    /\ UNCHANGED <<act, completions_in_flight, cancels, hb, heartbeating,
                   starts_complete, immediate_cancel, until, count_changed, panics>>

\* The lock is taken and released at once.
ShutdownLocks ==
    /\ shutdown_pc = "locking"
    /\ \A t \in Tokens : act[t].phase # "reporting"
    /\ shutdown_pc' = "polling"
    /\ UNCHANGED <<act, completions_in_flight, cancels, hb, heartbeating, life,
                   count_changed, panics>>

\* poll returned ShutDown: the heartbeat manager is stopped.
ShutdownStopsHeartbeats ==
    /\ shutdown_pc = "polling"
    /\ until = "done"
    /\ shutdown_pc' = "joining"
    /\ hb' = Shutdown(hb)
    /\ UNCHANGED <<act, completions_in_flight, cancels, heartbeating, life,
                   count_changed, panics>>

\* Its requests in flight are awaited.
ShutdownJoins ==
    /\ shutdown_pc = "joining"
    /\ hb.reports = {}
    /\ shutdown_pc' = "done"
    /\ UNCHANGED <<act, completions_in_flight, cancels, hb, heartbeating, life,
                   count_changed, panics>>

LangCompletes(t) == \E status \in Statuses : Complete(t, status)
RequestReturns(t) == \E r \in hb.reports, reply \in Replies : r.tok = t /\ HeartbeatReply(r, reply)

Next ==
    \/ \E t \in Tokens : PollStart(t) \/ LocalTimeout(t) \/ CancelActivity(t)
    \/ PollCancel
    \/ StartsComplete
    \/ UntilLooksAtMap
    \/ UntilLooksAtCount
    \/ UntilWakes
    \/ GracePeriodElapses
    \/ \E t \in Tokens : RecordHeartbeat(t) \/ SendHeartbeat(t)
    \/ HeartbeatStep
    \/ \E t \in Tokens : ThrottleElapses(t) \/ RequestReturns(t)
    \/ \E t \in Tokens : LangCompletes(t) \/ TakeTask(t) \/ Evicted(t) \/ Reported(t)
    \/ InitiateShutdown
    \/ Shutdown0
    \/ ShutdownLocks
    \/ ShutdownStopsHeartbeats
    \/ ShutdownJoins

\* Lang polls, calls in progress return, throttles elapse and requests are answered
\* or time out.  Lang completes what it was given during a shutdown; before that an
\* activity may run forever.  Nothing makes an activity arrive, heartbeat or be
\* cancelled, or the worker shut down.
Fairness ==
    /\ WF_vars(PollCancel)
    /\ WF_vars(StartsComplete)
    /\ WF_vars(UntilLooksAtMap \/ UntilLooksAtCount \/ UntilWakes)
    /\ WF_vars(HeartbeatStep)
    /\ \A t \in Tokens :
          /\ WF_vars(SendHeartbeat(t))
          /\ WF_vars(ThrottleElapses(t))
          /\ WF_vars(RequestReturns(t))
          /\ WF_vars(shutdown_pc # "no" /\ LangCompletes(t))
          /\ WF_vars(TakeTask(t) \/ Evicted(t) \/ Reported(t))
    /\ WF_vars(ShutdownLocks \/ ShutdownStopsHeartbeats \/ ShutdownJoins)

Spec == Init /\ [][Next]_vars /\ Fairness
-----------------------------------------------------------------------------
TypeOK ==
    /\ act \in [Tokens -> [phase : Phases, cancel : Reasons, given : 0..MaxHeartbeats,
                           timers : BOOLEAN, status : Statuses \cup {"none"}]]
    /\ completions_in_flight \subseteq Tokens
    /\ hb.tt_needs_flush \subseteq Tokens
    /\ hb.notified \subseteq Tokens
    /\ heartbeating \in [Tokens -> 0..MaxHeartbeats]
    /\ until \in {"starts", "map", "count", "waiting", "done"}
    /\ shutdown_pc \in {"no", "locking", "polling", "joining", "done"}

\* "otherwise the heartbeat manager can be torn down out from under an in-flight
\* eviction (stranding it forever) and worker shutdown can proceed while the
\* result was never reported" (activities.rs): the stream that ends, and with it
\* the teardown, waits for every task lang was given to be completed and reported.
TornDownLast ==
    until = "done" => \A t \in Tokens : act[t].phase \in {"new", "done"}

\* A completion is reported after the last heartbeat: the eviction waits for the
\* report in flight, so none reaches the server after the activity is closed.
\* Cancellations with details to flush are left out, see FlushedBeforeReport.
ReportedAfterHeartbeats ==
    \A t \in Tokens, r \in hb.reports :
        r.tok = t => \/ act[t].phase \in {"outstanding", "counted", "evicting"}
                    \/ act[t].status = "cancelled"

\* A completion that lang handed over is worked off: the eviction it awaits is
\* notified, whatever report is in flight, also during a shutdown.
CompletionsEnd == \A t \in Tokens : act[t].phase = "counted" ~> act[t].phase = "done"

\* A shutdown ends once lang has completed its activities: take_until misses no
\* change of the count, and the lock orders it behind every report.
ShutdownEnds == shutdown_pc = "locking" ~> shutdown_pc = "done"

Given == [t \in Tokens |-> act[t].given]
Open == [t \in Tokens |-> act[t].phase \in {"new", "outstanding", "counted"}]

Mailbox == INSTANCE LatestHeartbeat WITH given <- Given, sent <- hb.sent, open <- Open

\* Throttled heartbeating implements the mailbox of the latest heartbeat: no
\* report is older than one before it, and none is left out while the activity
\* runs except for a newer one.
LatestIsReported == Mailbox!Spec

\* "Will return a report action if there are recorded details present, to ensure
\* we flush the latest details before we cease tracking this activity."
\* (activity_heartbeat_manager.rs): a cancellation is reported after the report
\* that flushes the latest details has ended.
FlushedBeforeReport ==
    \A t \in Tokens :
        act[t].phase = "reporting" /\ should_flush(act[t]) =>
            [tok |-> t, details |-> act[t].given] \notin hb.reports

\* "Receive half of the heartbeats event channel must not be dropped"
\* (activity_heartbeat_manager.rs): no heartbeat call that found its activity
\* outlives the manager.
ExpectationsHold == panics = {}

\* "It is important that this function is never called with a task token equal to
\* one given to [Self::evict] after it has been called" (activity_heartbeat_manager.rs).
NoRecordAfterEvict ==
    [][\A t \in Tokens : SendHeartbeat(t) => t \in Outstanding]_vars
=============================================================================
