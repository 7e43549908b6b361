--------------------------- MODULE LocalActivities ---------------------------
(***************************************************************************)
(* The LocalActivityManager (worker/activities/local_activities.rs): the     *)
(* workflow half requests local activities and cancels them, the activity    *)
(* poll starts attempts and hands cancels and timeouts on, lang completes    *)
(* attempts, failed attempts back off and are retried, evicted runs are      *)
(* forgotten, and shutdown waits for what is pending.                        *)
(*                                                                          *)
(* One action is one critical section of the manager's lock.  Timers have no *)
(* duration: a running one may elapse at any moment.  The runs that own the  *)
(* activities are reduced to what ManagedRun asks of the manager.            *)
(***************************************************************************)
EXTENDS RetryPolicy, Sequences, FiniteSets, Bags

CONSTANTS
    Las,                    \* ids of local activities: a run and a sequence number
    Runs,
    RunOf,                  \* [Las -> Runs]
    CloseTimeouts,          \* the close timeouts of each activity that may elapse
    WithSchedToStart,       \* activities with a schedule-to-start timeout
    FirstAttempts,          \* attempt numbers lang may pass in the command
    Policy,                 \* the RetryPolicy message the activities carry
    Failures,               \* application failures lang may report
    LocalRetryThreshold,    \* longer backoffs are left to a workflow timer
    Slots,                  \* local activity slots
    MaxRequested            \* bound: no further activity is requested beyond this token

ASSUME LasAssumption ==
    /\ IsFiniteSet(Las)
    /\ RunOf \in [Las -> Runs]
    /\ CloseTimeouts \in [Las -> SUBSET {"sched", "start"}]
    /\ WithSchedToStart \subseteq Las
    /\ FirstAttempts \subseteq Nat
    /\ {LocalRetryThreshold, Slots, MaxRequested} \subseteq Nat

VARIABLES
    la_info,                    \* LAMData: what is known of each activity
    outstanding_activity_tasks, \* LAMData: attempts lang holds, by task token
    next_tt_num,
    act_req,                    \* channel of new and retried attempts
    cancels_req,                \* channel of cancel tasks and elapsed timeouts
    timers,                     \* sleeping timeout tasks
    detached,                   \* sleeping backoff tasks whose handle was dropped
    complete_notify,            \* the Notify holds a permit
    workflows_have_shut_down,
    shutdown_complete,          \* shutdown_complete_tok is cancelled
    rcvs,                       \* "open", or "empty" once shutdown replaced the stream
    waiter,                     \* Worker::shutdown, in wait_all_outstanding_tasks_finished
    lang,                       \* bag of the attempts lang executes, by token
    wf,                         \* what the workflow knows of each activity
    evicting,                   \* each run's eviction: "no", "withheld" or "issued"
    woken,                      \* runs with a notification or resolution to look at
    dbg_panics                  \* debug assertions that failed

mgr == <<la_info, outstanding_activity_tasks, next_tt_num, timers, detached>>
shut == <<workflows_have_shut_down, shutdown_complete, rcvs, waiter>>
env == <<wf, evicting, woken>>
vars == <<mgr, act_req, cancels_req, complete_notify, shut, lang, env, dbg_panics>>

policy == from_proto_with_defaults(Policy)

With(f, x, v) == [y \in DOMAIN f \cup {x} |-> IF y = x THEN v ELSE f[y]]
Without(f, S) == [x \in DOMAIN f \ S |-> f[x]]

LasOf(r) == {l \in DOMAIN la_info : RunOf[l] = r}

Init ==
    /\ la_info = <<>>
    /\ outstanding_activity_tasks = <<>>
    /\ next_tt_num = 0
    /\ act_req = <<>>
    /\ cancels_req = <<>>
    /\ timers = {}
    /\ detached = {}
    /\ complete_notify = FALSE
    /\ workflows_have_shut_down = FALSE
    /\ shutdown_complete = FALSE
    /\ rcvs = "open"
    /\ waiter = "no"
    /\ lang = EmptyBag
    /\ wf = [l \in Las |-> "new"]
    /\ evicting = [r \in Runs |-> "no"]
    /\ woken = {}
    /\ dbg_panics = {}

-----------------------------------------------------------------------------
(* TimeoutBag                                                               *)

\* TimeoutBag::new spawns the schedule-to-close timer, if there is one.
NewBag(l) ==
    {[kind |-> k, la |-> l, tok |-> 0, held |-> TRUE] : k \in CloseTimeouts[l] \cap {"sched"}}

\* mark_started spawns a start-to-close timer and keeps its handle; the handle
\* of an earlier attempt's timer is overwritten, and that timer sleeps on.
mark_started(l, tok) ==
    IF la_info[l].bag /\ "start" \in CloseTimeouts[l]
    THEN {IF t.la = l /\ t.kind = "start" THEN [t EXCEPT !.held = FALSE] ELSE t : t \in timers}
            \cup {[kind |-> "start", la |-> l, tok |-> tok, held |-> TRUE]}
    ELSE timers

\* Dropping the bags of the activities in S aborts the timers they hold.
DropBags(S) == {t \in timers : ~(t.held /\ t.la \in S)}

-----------------------------------------------------------------------------
(* Shutdown readiness                                                       *)

\* A readiness test that looks only at what lang holds.
NothingDispatched(outstanding, info) == DOMAIN outstanding = {}

NothingPending(outstanding, info) ==
    /\ DOMAIN outstanding = {}
    /\ \A l \in DOMAIN info : ~info[l].queued_for_dispatch

set_shutdown_complete_if_ready(outstanding, info) ==
    shutdown_complete' = (shutdown_complete
        \/ (workflows_have_shut_down /\ NothingPending(outstanding, info)))

\* complete_notify.notify_one.  A permit stored before the shutdown parks would
\* only make it look twice, and is left out.
notify_one == complete_notify' = (waiter = "parked")

has_undelivered_cancels(outstanding, r) ==
    \E t \in DOMAIN outstanding :
        RunOf[outstanding[t].la] = r /\ outstanding[t].cancel = "queued"

\* A resolution reaches the workflow.  An activity that was asked for while a
\* request of its run's previous instance sat in the queue is set apart.
Resolve(S) ==
    /\ wf' = [l \in Las |-> IF l \notin S THEN wf[l]
                            ELSE CASE wf[l] = "owed"     -> "resolved"
                              [] wf[l] = "requeued" -> "requeued"
                              [] OTHER              -> "twice"]
    /\ woken' = woken \cup {RunOf[l] : l \in S}

-----------------------------------------------------------------------------
(* enqueue                                                                  *)

Entry(tok, queued, bag) ==
    [task_token |-> tok, queued_for_dispatch |-> queued, backing_off |-> "no",
     attempt |-> 0, bag |-> bag]

\* A request of the run's previous instance was never taken from the channel,
\* or such a request has left a backoff task behind that will send another.
StillQueued(l) ==
    \/ \E i \in DOMAIN act_req : act_req[i].la = l
    \/ \E s \in detached : s.la = l

\* LocalActRequest::New.  An activity whose schedule-to-close time is already
\* over resolves at once and leaves its entry behind.
New(l, attempt) ==
    LET tok == next_tt_num + 1 IN
    /\ ~workflows_have_shut_down
    /\ wf[l] = "new"
    /\ evicting[RunOf[l]] = "no"
    /\ next_tt_num < MaxRequested
    /\ next_tt_num' = tok
    /\ \/ /\ l \in DOMAIN la_info
          /\ dbg_panics' = dbg_panics \cup {"already_executing"}
          /\ UNCHANGED <<la_info, act_req, timers, wf, woken>>
       \/ /\ l \notin DOMAIN la_info
          /\ la_info' = With(la_info, l, Entry(tok, TRUE, TRUE))
          /\ act_req' = Append(act_req, [la |-> l, attempt |-> Greatest(attempt, 1)])
          /\ timers' = timers \cup NewBag(l)
          /\ wf' = [wf EXCEPT ![l] = IF StillQueued(l) THEN "requeued" ELSE "owed"]
          /\ UNCHANGED <<woken, dbg_panics>>
       \/ /\ l \notin DOMAIN la_info
          /\ "sched" \in CloseTimeouts[l]
          /\ la_info' = With(la_info, l, Entry(tok, FALSE, FALSE))
          /\ wf' = [wf EXCEPT ![l] = IF StillQueued(l) THEN "requeued" ELSE "resolved"]
          /\ woken' = woken \cup {RunOf[l]}
          /\ UNCHANGED <<act_req, timers, dbg_panics>>
    /\ UNCHANGED <<outstanding_activity_tasks, detached, cancels_req, complete_notify, shut, lang,
                   evicting>>

InFlight(l) ==
    la_info[l].backing_off = "no" /\ la_info[l].task_token \in DOMAIN outstanding_activity_tasks

\* A cancel that also answers for the attempts lang holds.
AlwaysCancelledNow(l) == TRUE

\* cancel_one_la answers at once for an activity that backs off or was never
\* dispatched; what resolved before merely loses its entry.
CancelledNow(l) ==
    ~InFlight(l) /\ (la_info[l].backing_off # "no" \/ la_info[l].queued_for_dispatch)

\* The members of S, in an order nobody chooses.
InSomeOrder(S) ==
    CHOOSE q \in [1 .. Cardinality(S) -> S] : \A m \in S : \E i \in DOMAIN q : q[i] = m

\* cancel_one_la, for each of the tracked activities S: the attempts lang holds
\* get one cancel task, the others lose their entries.
CancelLas(S) ==
    LET gone == {l \in S : ~InFlight(l)}
        asked == {la_info[l].task_token : l \in S \ gone}
        first == {t \in asked : outstanding_activity_tasks[t].cancel = "no"}
    IN  /\ la_info' = Without(la_info, gone)
        /\ timers' = DropBags(gone)
        /\ outstanding_activity_tasks' =
              [t \in DOMAIN outstanding_activity_tasks |->
                 IF t \in first THEN [outstanding_activity_tasks[t] EXCEPT !.cancel = "queued"]
                 ELSE outstanding_activity_tasks[t]]
        /\ cancels_req' = cancels_req \o InSomeOrder({[type |-> "cancel", tok |-> t] : t \in first})
        /\ IF gone = {} THEN UNCHANGED <<shutdown_complete, complete_notify>>
           ELSE /\ set_shutdown_complete_if_ready(outstanding_activity_tasks, Without(la_info, gone))
                /\ notify_one

\* LocalActRequest::Cancel, asked for by the workflow.
Cancel(l) ==
    /\ ~workflows_have_shut_down
    /\ wf[l] \in {"owed", "requeued"}
    /\ evicting[RunOf[l]] = "no"
    /\ CancelLas({l} \cap DOMAIN la_info)
    /\ Resolve({k \in {l} \cap DOMAIN la_info : CancelledNow(k)})
    /\ UNCHANGED <<next_tt_num, detached, act_req, workflows_have_shut_down, rcvs, waiter, lang,
                   evicting, dbg_panics>>

\* An eviction that does not wait for queued cancels.
CancelAllThenEvict(r) ==
    /\ ~workflows_have_shut_down
    /\ evicting[r] = "no"
    /\ CancelLas(LasOf(r))
    /\ evicting' = [evicting EXCEPT ![r] = "issued"]
    /\ woken' = woken \ {r}
    /\ UNCHANGED <<next_tt_num, detached, act_req, workflows_have_shut_down, rcvs, waiter, lang,
                   wf, dbg_panics>>

\* LocalActRequest::CancelAllInRun, sunk on every pass of a run that is to be
\* evicted: the eviction is withheld while a cancel of the run is undelivered.
CancelAllInRun(r) ==
    /\ ~workflows_have_shut_down
    /\ evicting[r] = "no" \/ (evicting[r] = "withheld" /\ r \in woken)
    /\ CancelLas(LasOf(r))
    /\ evicting' = [evicting EXCEPT ![r] =
          IF has_undelivered_cancels(outstanding_activity_tasks', r) THEN "withheld" ELSE "issued"]
    /\ woken' = woken \ {r}
    /\ UNCHANGED <<next_tt_num, detached, act_req, workflows_have_shut_down, rcvs, waiter, lang,
                   wf, dbg_panics>>

\* LocalActRequest::InvalidateRun, once lang has answered the eviction: the run
\* is forgotten.  A later workflow task may replay it and ask for its local
\* activities again.
InvalidateRun(r) ==
    LET kept == {t \in DOMAIN outstanding_activity_tasks :
                    RunOf[outstanding_activity_tasks[t].la] # r}
    IN  /\ evicting[r] = "issued"
        /\ dbg_panics' = dbg_panics \cup
              (IF has_undelivered_cancels(outstanding_activity_tasks, r)
               THEN {"invalidated_with_queued_cancel"} ELSE {})
        /\ outstanding_activity_tasks' = [t \in kept |-> outstanding_activity_tasks[t]]
        /\ la_info' = Without(la_info, LasOf(r))
        /\ timers' = DropBags(LasOf(r))
        /\ set_shutdown_complete_if_ready(outstanding_activity_tasks', la_info')
        /\ notify_one
        /\ evicting' = [evicting EXCEPT ![r] = "no"]
        /\ wf' = [l \in Las |-> IF RunOf[l] = r THEN "new" ELSE wf[l]]
        /\ woken' = woken \ {r}
        /\ UNCHANGED <<next_tt_num, detached, act_req, cancels_req, workflows_have_shut_down, rcvs,
                       waiter, lang>>

-----------------------------------------------------------------------------
(* complete                                                                 *)

\* Retrying although a cancel was requested.
FailurePathDespiteCancel(info, status) ==
    status.result = "failed" \/ (status.result = "timed_out" /\ status.kind = "start")

\* Only a failure and a start-to-close timeout take the failure path, and a
\* cancel that was requested stops retries.
FailurePath(info, status) ==
    /\ info.cancel = "no"
    /\ status.result = "failed" \/ (status.result = "timed_out" /\ status.kind = "start")

\* The backoff task of a retried attempt holds the request it will send.
Retried(tok, info) ==
    [task_token |-> tok, queued_for_dispatch |-> FALSE, backing_off |-> "sleeping",
     attempt |-> info.attempt + 1,
     bag |-> info.la \in DOMAIN la_info /\ la_info[info.la].bag]

\* A retry that is not tracked again: its request will be discarded.
RetryUntracked(info) ==
    /\ next_tt_num' = next_tt_num + 1
    /\ la_info' = Without(la_info, {info.la})
    /\ UNCHANGED <<timers, detached, complete_notify, wf, woken>>

\* LACompleteAction::WillBeRetried
RetryLocally(info) ==
    /\ next_tt_num' = next_tt_num + 1
    /\ la_info' = With(la_info, info.la, Retried(next_tt_num', info))
    /\ UNCHANGED <<timers, detached, complete_notify, wf, woken>>

\* LACompleteAction::Report.  Only what is not on the failure path wakes the
\* shutdown that may be waiting.
Report(info, status) ==
    /\ la_info' = Without(la_info, {info.la})
    /\ timers' = DropBags({info.la})
    /\ IF FailurePath(info, status) THEN UNCHANGED complete_notify ELSE notify_one
    /\ Resolve({info.la})
    /\ UNCHANGED <<next_tt_num, detached>>

\* LACompleteAction::Untracked
Untracked == UNCHANGED <<mgr, complete_notify, shutdown_complete, wf, woken, dbg_panics>>

CompleteTracked(tok, info, status) ==
    LET delays == IF FailurePath(info, status)
                  THEN should_retry(policy, info.attempt, status.failure) ELSE {}
        rest == Without(outstanding_activity_tasks, {tok})
    IN  /\ outstanding_activity_tasks' = rest
        /\ set_shutdown_complete_if_ready(rest, la_info)
        /\ dbg_panics' = dbg_panics \cup
              (IF info.la \in DOMAIN la_info /\ la_info[info.la].backing_off # "no"
               THEN {"backoff_of_resolved"} ELSE {})
        /\ IF \E d \in delays : d <= LocalRetryThreshold
           THEN RetryLocally(info)
           ELSE Report(info, status)

complete(tok, status) ==
    IF tok \in DOMAIN outstanding_activity_tasks
    THEN CompleteTracked(tok, outstanding_activity_tasks[tok], status)
    ELSE Untracked

\* Lang's completions; a timed out attempt is completed too, and ignored.
Statuses == [result : {"completed", "cancelled"}, failure : {{}}]
              \cup [result : {"failed"}, failure : {{f} : f \in Failures}]

LangCompletes(tok, status) ==
    /\ BagIn(tok, lang)
    /\ lang' = lang (-) SetToBag({tok})
    /\ complete(tok, status)
    /\ UNCHANGED <<act_req, cancels_req, workflows_have_shut_down, rcvs, waiter, evicting>>

-----------------------------------------------------------------------------
(* Timeout and backoff tasks                                                *)

TimerElapses(t) ==
    /\ t \in timers
    /\ timers' = timers \ {t}
    /\ cancels_req' = Append(cancels_req,
          [type |-> "timeout", la |-> t.la, kind |-> t.kind, tok |-> t.tok])
    /\ UNCHANGED <<la_info, outstanding_activity_tasks, next_tt_num, detached, act_req,
                   complete_notify, shut, lang, env, dbg_panics>>

BackoffElapses(l) ==
    /\ l \in DOMAIN la_info
    /\ la_info[l].backing_off = "sleeping"
    /\ la_info' = [la_info EXCEPT ![l].backing_off = "sent"]
    /\ act_req' = Append(act_req, [la |-> l, attempt |-> la_info[l].attempt])
    /\ UNCHANGED <<outstanding_activity_tasks, next_tt_num, timers, detached, cancels_req,
                   complete_notify, shut, lang, env, dbg_panics>>

\* The same, of a task whose handle next_pending has dropped.
DetachedBackoffElapses(s) ==
    /\ s \in detached
    /\ detached' = detached \ {s}
    /\ act_req' = Append(act_req, [la |-> s.la, attempt |-> s.attempt])
    /\ UNCHANGED <<la_info, outstanding_activity_tasks, next_tt_num, timers, cancels_req,
                   complete_notify, shut, lang, env, dbg_panics>>

-----------------------------------------------------------------------------
(* next_pending, called by lang's activity poll until it yields None        *)

\* The stream yields an item.  It ends, whatever the channels hold, once the
\* shutdown is complete (take_until) or has replaced it.
PollYields == rcvs = "open" /\ ~shutdown_complete

\* A cancel task is handed to lang, and the run is told that it was.
NextCancel ==
    /\ PollYields
    /\ cancels_req # <<>>
    /\ Head(cancels_req).type = "cancel"
    /\ cancels_req' = Tail(cancels_req)
    /\ LET tok == Head(cancels_req).tok IN
       IF tok \in DOMAIN outstanding_activity_tasks
       THEN /\ outstanding_activity_tasks' =
                  [outstanding_activity_tasks EXCEPT ![tok].cancel = "delivered"]
            /\ woken' = woken \cup {RunOf[outstanding_activity_tasks[tok].la]}
       ELSE UNCHANGED <<outstanding_activity_tasks, woken>>
    /\ UNCHANGED <<la_info, next_tt_num, timers, detached, act_req, complete_notify, shut, lang,
                   wf, evicting, dbg_panics>>

\* An elapsed timeout completes whatever attempt the activity is at.
NextTimeout ==
    /\ PollYields
    /\ cancels_req # <<>>
    /\ Head(cancels_req).type = "timeout"
    /\ cancels_req' = Tail(cancels_req)
    /\ LET m == Head(cancels_req) IN
       IF m.la \in DOMAIN la_info
       THEN complete(la_info[m.la].task_token,
                     [result |-> "timed_out", kind |-> m.kind, failure |-> {}])
       ELSE Untracked
    /\ UNCHANGED <<act_req, workflows_have_shut_down, rcvs, waiter, lang, evicting>>

\* backing_off_task.take() drops the handle of a backoff task but does not abort
\* it: one that still sleeps, because another request came first, goes on.
Detached(l) ==
    IF la_info[l].backing_off = "sleeping"
    THEN {[la |-> l, attempt |-> la_info[l].attempt, tok |-> la_info[l].task_token]} ELSE {}

\* A request and a permit are at hand.  The request is dropped if its activity
\* is no longer tracked; it times out if it sat in the queue too long.
NextStart ==
    /\ PollYields
    /\ act_req # <<>>
    /\ Cardinality(DOMAIN outstanding_activity_tasks) < Slots
    /\ act_req' = Tail(act_req)
    /\ LET l == Head(act_req).la
           started == [la_info EXCEPT ![l].queued_for_dispatch = FALSE, ![l].backing_off = "no",
                                       ![l].attempt = 0]
           tok == la_info[l].task_token
       IN
       \/ /\ l \notin DOMAIN la_info
          /\ UNCHANGED <<mgr, complete_notify, shutdown_complete, lang, wf, woken>>
       \/ /\ l \in DOMAIN la_info
          /\ l \in WithSchedToStart
          /\ la_info' = started
          /\ detached' = detached \cup Detached(l)
          /\ set_shutdown_complete_if_ready(outstanding_activity_tasks, started)
          /\ notify_one
          /\ Resolve({l})
          /\ UNCHANGED <<outstanding_activity_tasks, next_tt_num, timers, lang>>
       \/ /\ l \in DOMAIN la_info
          /\ la_info' = started
          /\ detached' = detached \cup Detached(l)
          /\ timers' = mark_started(l, tok)
          /\ outstanding_activity_tasks' =
                With(outstanding_activity_tasks, tok,
                     [la |-> l, attempt |-> Head(act_req).attempt, cancel |-> "no"])
          /\ lang' = lang (+) SetToBag({tok})
          /\ UNCHANGED <<next_tt_num, complete_notify, shutdown_complete, wf, woken>>
    /\ UNCHANGED <<cancels_req, workflows_have_shut_down, rcvs, waiter, evicting, dbg_panics>>

-----------------------------------------------------------------------------
(* Shutdown                                                                 *)

\* The workflow poll returned ShutDown: no run has an eviction to finish, and no
\* request will follow.
workflows_have_shutdown ==
    /\ ~workflows_have_shut_down
    /\ \A r \in Runs : evicting[r] = "no"
    /\ workflows_have_shut_down' = TRUE
    /\ shutdown_complete' = NothingPending(outstanding_activity_tasks, la_info)
    /\ UNCHANGED <<mgr, act_req, cancels_req, complete_notify, rcvs, waiter, lang,
                   env, dbg_panics>>

\* wait_all_outstanding_tasks_finished looks, and parks while work is pending.
WaiterLooks ==
    /\ \/ waiter = "no" /\ UNCHANGED complete_notify
       \/ waiter = "parked" /\ complete_notify /\ complete_notify' = FALSE
    /\ set_shutdown_complete_if_ready(outstanding_activity_tasks, la_info)
    /\ waiter' = IF NothingPending(outstanding_activity_tasks, la_info)
                 THEN "locking" ELSE "parked"
    /\ UNCHANGED <<mgr, act_req, cancels_req, workflows_have_shut_down, rcvs, lang,
                   env, dbg_panics>>

\* Then it replaces the stream, to drop the permit held inside.  The lock it
\* needs is held by a poll in progress and free between two polls.
WaiterReplacesStream ==
    /\ waiter = "locking"
    /\ rcvs' = "empty"
    /\ waiter' = "done"
    /\ UNCHANGED <<mgr, act_req, cancels_req, complete_notify, workflows_have_shut_down,
                   shutdown_complete, lang, env, dbg_panics>>

Request == \E l \in Las, n \in FirstAttempts : New(l, n)
CancelOne == \E l \in Las : Cancel(l)
Complete == \E tok \in DOMAIN lang, s \in Statuses : LangCompletes(tok, s)

Next ==
    \/ Request
    \/ CancelOne
    \/ \E r \in Runs : CancelAllInRun(r) \/ InvalidateRun(r)
    \/ \E t \in timers : TimerElapses(t)
    \/ \E l \in Las : BackoffElapses(l)
    \/ \E s \in detached : DetachedBackoffElapses(s)
    \/ NextCancel
    \/ NextTimeout
    \/ NextStart
    \/ Complete
    \/ workflows_have_shutdown
    \/ WaiterLooks
    \/ WaiterReplacesStream

\* Lang polls and completes every attempt it was given; a woken run is looked at
\* and lang answers its eviction; a backoff ends; a running shutdown proceeds.
\* The merged stream alternates between its channels.  Nothing makes a workflow
\* ask, a timer elapse before its attempt is completed, or a shutdown start.
Fairness ==
    /\ WF_vars(NextCancel \/ NextTimeout)
    /\ WF_vars(NextStart)
    /\ WF_vars(Complete)
    /\ \A l \in Las : WF_vars(BackoffElapses(l))
    /\ WF_vars(\E s \in detached : DetachedBackoffElapses(s))
    /\ \A r \in Runs : /\ WF_vars(evicting[r] = "withheld" /\ CancelAllInRun(r))
                       /\ WF_vars(InvalidateRun(r))
    /\ WF_vars(waiter # "no" /\ WaiterLooks)
    /\ WF_vars(shutdown_complete /\ WaiterReplacesStream)

Spec == Init /\ [][Next]_vars /\ Fairness
-----------------------------------------------------------------------------
TypeOK ==
    /\ DOMAIN la_info \subseteq Las
    /\ \A l \in DOMAIN la_info :
          la_info[l] \in [task_token : Nat, queued_for_dispatch : BOOLEAN,
                          backing_off : {"no", "sleeping", "sent"}, attempt : Nat, bag : BOOLEAN]
    /\ DOMAIN outstanding_activity_tasks \subseteq 1..next_tt_num
    /\ \A t \in DOMAIN outstanding_activity_tasks :
          outstanding_activity_tasks[t] \in
              [la : Las, attempt : Nat, cancel : {"no", "queued", "delivered"}]
    /\ timers \subseteq [kind : {"sched", "start"}, la : Las, tok : Nat, held : BOOLEAN]
    /\ detached \subseteq [la : Las, attempt : Nat, tok : Nat]
    /\ {complete_notify, workflows_have_shut_down, shutdown_complete} \subseteq BOOLEAN
    /\ rcvs \in {"open", "empty"}
    /\ waiter \in {"no", "parked", "locking", "done"}
    /\ wf \in [Las -> {"new", "owed", "requeued", "resolved", "twice"}]
    /\ evicting \in [Runs -> {"no", "withheld", "issued"}]
    /\ woken \subseteq Runs

\* No debug assertion of the manager fails: a run is never invalidated while a
\* cancel for it is still queued, so no cancel lang should have seen is lost, no
\* activity is requested twice by one instance of a run, and an attempt that
\* completes never leaves a backoff of its own behind.
AssertionsHold == dbg_panics = {}

\* The workflow gets at most one resolution for a local activity it asked for,
\* whichever of the completion, a timeout, a retry, a cancel and a schedule-to-
\* start expiry come first, and in whichever order the channels deliver them.
ResolvedOnce == \A l \in Las : wf[l] # "twice"

\* An eviction that was withheld for an undelivered cancel is issued in the end:
\* the delivered cancel, or the completion that overtakes it, wakes the run.
\* complete never retries an attempt whose cancel was requested, because a retry
\* tells the run nothing.
EvictionProceeds ==
    \A r \in Runs : evicting[r] = "withheld" ~> evicting[r] = "issued"

\* Shutdown completes, and with it the poll stream ends, only when lang holds no
\* attempt and no request waits for dispatch; what backs off is abandoned.
ShutdownLosesNothing ==
    shutdown_complete =>
        /\ DOMAIN outstanding_activity_tasks = {}
        /\ \A l \in DOMAIN la_info : ~la_info[l].queued_for_dispatch

\* Until the worker shuts down every local activity a workflow waits for gets a
\* resolution or goes with its run: no order of timeouts, failures, retries and
\* cancels leaves a live run waiting for an attempt that nobody will make.
OwedIsResolved ==
    \A l \in Las : wf[l] = "owed" ~>
        (wf[l] # "owed" \/ workflows_have_shut_down \/ waiter = "done")

\* "so we can enforce idempotency. Prevents two identical LAs ending up in the
\* queue at once." (local_activities.rs:349): lang is never given the same
\* attempt twice.
OneStartPerAttempt == \A t \in DOMAIN lang : lang[t] = 1

\* "Maximum time the local activity is allowed to execute after the task is
\* dispatched." (workflow_commands.proto:136): a start-to-close timeout ends the
\* attempt whose start set its timer.
TimeoutHitsItsAttempt ==
    [][LET m == Head(cancels_req) IN
       NextTimeout /\ m.kind = "start" =>
          \A t \in DOMAIN outstanding_activity_tasks \ DOMAIN outstanding_activity_tasks' :
              t = m.tok]_vars

\* "Prevents shutdown from dropping work already requested by a workflow"
\* (local_activities.rs:214): a request that waits for dispatch is taken up.
QueuedIsStarted ==
    \A l \in Las : l \in DOMAIN la_info /\ la_info[l].queued_for_dispatch ~>
        ~(l \in DOMAIN la_info /\ la_info[l].queued_for_dispatch)

\* "Wakes every time a complete is processed" (local_activities.rs:198): once
\* workflows have shut down, a waiting Worker::shutdown gets past the manager.
ShutdownWakes == waiter = "parked" /\ workflows_have_shut_down ~> waiter = "done"
=============================================================================
