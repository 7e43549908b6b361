--------------------------- MODULE WorkflowManager ---------------------------
(***************************************************************************)
(* WorkflowManager (managed_run.rs) over WorkflowMachines                   *)
(* (workflow_machines.rs), seen from the run that drives them: which calls  *)
(* queue jobs for lang, which advance through history, and when the result  *)
(* of a local activity has to wait.                                         *)
(*                                                                          *)
(* The per-command machines are abstracted.  History is a number of         *)
(* workflow task sequences that are known but not applied (ahead) and       *)
(* whether another page follows (page); what applying a sequence does is an *)
(* input o: whether it queues jobs, whether it fails, whether it contains   *)
(* the workflow's final event.  Applying the first sequence, or one that is *)
(* not the last, always queues jobs; only the history behind a legacy       *)
(* query, the one kind of task a closed workflow still gets, can contain    *)
(* the final event.                                                         *)
(***************************************************************************)
EXTENDS Naturals

NewManager ==
    [jobs |-> FALSE,            \* has_pending_jobs
     laJobs |-> FALSE,          \* has_pending_la_resolutions
     requested |-> 0,           \* local_activity_data.new_requests
     executing |-> 0,           \* local_activity_data.executing
     deferred |-> 0,            \* deferred_local_resolutions
     awaitingCompletion |-> FALSE,
     awaitingWft |-> FALSE,
     ahead |-> 0,
     page |-> FALSE,
     started |-> FALSE,         \* current_started_event_id > 0
     replaying |-> FALSE,
     preparingQuery |-> FALSE,  \* preparing_legacy_query
     terminal |-> FALSE,        \* have_seen_terminal_event
     finished |-> FALSE,        \* workflow_end_time.is_some()
     output |-> FALSE]          \* commands or messages for the server

Ok(m) == [m |-> m, err |-> "none"]
Fails(m, err) == [m |-> m, err |-> err]

\* outstanding_la_count: a terminating workflow no longer waits for any.
OutstandingLas(m) == IF m.finished THEN 0 ELSE m.requested + m.executing

ReadyToApplyNextWft(m) == m.ahead > 0 \/ ~m.page

\* apply_next_wft_from_history
ApplyNextWft(m, o) ==
    IF m.terminal THEN Ok([m EXCEPT !.replaying = m.preparingQuery])
    ELSE IF ~ReadyToApplyNextWft(m) THEN Fails(m, "fatal")
    ELSE IF m.ahead = 0 THEN Ok([m EXCEPT !.replaying = m.preparingQuery])
    ELSE LET more == m.ahead > 1 \/ m.page
         IN  [m |-> [m EXCEPT !.ahead = @ - 1,
                              !.started = TRUE,
                              !.jobs = @ \/ more \/ ~m.started \/ o.jobs,
                              !.replaying = more \/ m.preparingQuery,
                              !.terminal = ~more /\ o.terminal /\ m.preparingQuery],
              err |-> o.err]

\* WorkflowMachines::local_resolution.  A result for an activity this instance
\* never scheduled has no machine to go to; any other is also recorded as a marker
\* command.
LocalResolution(m) ==
    IF m.executing = 0 THEN Fails(m, "nde")
    ELSE Ok([m EXCEPT !.executing = @ - 1, !.jobs = TRUE, !.laJobs = TRUE, !.output = TRUE])

\* notify_of_local_result
NotifyOfLocalResult(m) ==
    IF m.awaitingCompletion \/ m.awaitingWft
    THEN Ok([m EXCEPT !.deferred = @ + 1])
    ELSE LocalResolution(m)

\* apply_deferred_local_resolutions
ApplyDeferred(m) ==
    IF m.awaitingCompletion \/ m.awaitingWft \/ m.deferred = 0 THEN Ok(m)
    ELSE IF m.deferred > m.executing THEN Fails([m EXCEPT !.deferred = 0], "nde")
    ELSE Ok([m EXCEPT !.executing = @ - m.deferred, !.deferred = 0,
                      !.jobs = TRUE, !.laJobs = TRUE, !.output = TRUE])

\* get_wf_activation
DrainJobs(m) == [m EXCEPT !.jobs = FALSE, !.laJobs = FALSE]

\* apply_next_task_if_ready
ApplyNextTaskIfReady(m, o) == IF m.jobs THEN Ok(m) ELSE ApplyNextWft(m, o)

\* get_next_activation; act says whether the activation has jobs.
Activation(applied) ==
    [m |-> [DrainJobs(applied.m) EXCEPT !.awaitingCompletion = applied.m.jobs],
     err |-> applied.err,
     act |-> applied.m.jobs]
GetNextActivation(m, o) == Activation(ApplyNextTaskIfReady(m, o))

\* WorkflowManager::new_work_from_server: apply the task, then the results that
\* waited for it, then see what there is for lang.  The first error ends it.
Resolved(applied) ==
    IF applied.err # "none" THEN applied
    ELSE ApplyDeferred([applied.m EXCEPT !.awaitingWft = FALSE])
Activated(resolved, o) ==
    IF resolved.err # "none" THEN [m |-> resolved.m, err |-> resolved.err, act |-> FALSE]
    ELSE GetNextActivation(resolved.m, o)
NewWorkFromServer(m, task, o) ==
    Activated(Resolved(ApplyNextWft([m EXCEPT !.ahead = task.sequences,
                                              !.page = task.paged,
                                              !.preparingQuery = (task.kind = "legacy"),
                                              !.output = FALSE], o)), o)

\* feed_history_from_new_page: a page that holds the rest of the history.
FeedHistoryFromNewPage(m, o) == ApplyNextWft([m EXCEPT !.ahead = 1, !.page = FALSE], o)

\* push_commands_and_iterate.  The completion c tells whether it has commands,
\* how many local activities it schedules, whether it ends the workflow, and
\* whether the machines reject it.
PushCommandsAndIterate(m, c) ==
    LET pushed == [m EXCEPT !.requested = @ + c.las,
                            !.output = @ \/ c.commands \/ c.terminal,
                            !.finished = @ \/ c.terminal,
                            !.awaitingCompletion = FALSE]
    IN  IF c.err # "none" THEN Fails(m, c.err) ELSE ApplyDeferred(pushed)

\* drain_queued_local_activities
DrainLocalActivities(m) ==
    IF m.finished THEN m ELSE [m EXCEPT !.executing = @ + m.requested, !.requested = 0]

\* wft_completion_reported
WftCompletionReported(m) == [m EXCEPT !.awaitingWft = TRUE]
=============================================================================
