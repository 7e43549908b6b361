----------------------------- MODULE ManagedRun -----------------------------
(***************************************************************************)
(* ManagedRun (managed_run.rs): one cached workflow run, the workflow task  *)
(* it holds, the activation lang or the worker itself has outstanding for   *)
(* it, and the rules that decide what goes out next.                        *)
(*                                                                          *)
(* A run is a record and every method is an operator from a run to a step:  *)
(* the run afterwards, the activations it emits, the replies it sends to    *)
(* waiting completion calls, whether it asks for a history page, and the    *)
(* internal assertions (panic!, dbg_panic!) it trips.  The inputs o and n   *)
(* say what the machines do with the history they are given: o for the      *)
(* handler's own work, n for a buffered task it may go on to apply.         *)
(***************************************************************************)
EXTENDS BufferedTasks, WorkflowManager

CONSTANT FailWorkflowOnNde   \* should_fail_workflow(.., Nondeterminism)
ASSUME FailWorkflowOnNdeAssumption == FailWorkflowOnNde \in BOOLEAN

NoWft == [tok |-> 0, attempt |-> 0, queries |-> "none"]
NoReply == [tok |-> 0, attempt |-> 0]   \* auto_reply_fail: None
NoEvict == [reason |-> "none", reply |-> NoReply]
NoLas == [pending |-> 0, held |-> 0, queued |-> 0, cancelled |-> 0]
NoCompletion == [id |-> 0]

\* waiting is waiting_on_la: "no" (None), else whether the heartbeat timer runs
\* ("armed"), is not running ("quiet"), or heartbeat_timeout_pending ("due").
\* las is what the local activity manager holds for the run.
NewRun ==
    [wft |-> NoWft, act |-> "none", waiting |-> "no", broken |-> FALSE,
     evict |-> NoEvict, buf |-> NoTasks, paginator |-> FALSE,
     onPage |-> NoCompletion, m |-> NewManager, las |-> NoLas]

HasWft(r) == r.wft.tok # 0
Evicting(r) == r.evict.reason # "none"
MorePendingWork(r) == HasWft(r) /\ r.m.jobs
PendingWorkIsLegacyQuery(r) == r.act = "legacy" \/ (HasWft(r) /\ r.wft.queries = "legacy")

HasAnyPendingWork(r, ignoreEvicts, ignoreBuffered) ==
    \/ HasWft(r)
    \/ ~ignoreBuffered /\ HasTasks(r.buf)
    \/ MorePendingWork(r)
    \/ r.act # "none" /\ ~(ignoreEvicts /\ r.act = "evict")
    \/ ~ignoreEvicts /\ Evicting(r)

\* A run that is taken to be free once it has no task.
MustBufferIfTask(r) == HasWft(r)

\* buffer_wft_if_outstanding_work
MustBuffer(r) == r.act # "none" \/ Evicting(r) \/ HasWft(r) \/ MorePendingWork(r)

-----------------------------------------------------------------------------
(* Steps *)

Step(r) == [r |-> r, acts |-> <<>>, replies |-> <<>>, fetch |-> FALSE, tripped |-> {}]
Then(s, t) == [r |-> t.r, acts |-> s.acts \o t.acts, replies |-> s.replies \o t.replies,
               fetch |-> s.fetch \/ t.fetch, tripped |-> s.tripped \cup t.tripped]
Trip(s, what) == [s EXCEPT !.tripped = @ \cup {what}]
TripIf(s, cond, what) == IF cond THEN Trip(s, what) ELSE s
Reply(s, id, out) == [s EXCEPT !.replies = Append(@, [id |-> id, out |-> out])]

\* ActivationCompleteOutcome.  A completion may ask for a new task at once (force)
\* and may end the workflow (final).
Nothing == [k |-> "nothing", tok |-> 0, attempt |-> 0, force |-> FALSE, final |-> FALSE]
Report(k, wft) == [Nothing EXCEPT !.k = k, !.tok = wft.tok, !.attempt = wft.attempt]

-----------------------------------------------------------------------------
(* Emitting activations *)

\* The activations that go to lang; the worker deals with the others itself.
ForLang == {"lang", "queries", "legacy", "evict"}

OutstandingActivation(a) ==
    CASE a = "evict" -> "evict"
      [] a = "legacy" -> "legacy"
      [] a \in {"auto", "autofail", "autofailNde"} -> "auto"
      [] OTHER -> "normal"

\* insert_outstanding_activation
InsertOutstandingActivation(s, a) ==
    TripIf([s EXCEPT !.acts = Append(@, a), !.r.act = OutstandingActivation(a)],
           s.r.act # "none", "second_activation")

\* _check_more_activations; a is "none", "lang", "queries" or "auto".
CheckMore(r) ==
    IF r.act # "none" \/ ~HasWft(r) THEN [r |-> r, a |-> "none"]
    ELSE IF r.m.jobs /\ ~r.broken
         THEN [r |-> [r EXCEPT !.m = [DrainJobs(@) EXCEPT !.awaitingCompletion = TRUE]],
               a |-> "lang"]
    ELSE IF r.waiting # "no" /\ OutstandingLas(r.m) = 0
         THEN [r |-> [r EXCEPT !.waiting = "no"], a |-> "auto"]
    ELSE IF ~r.broken /\ r.wft.queries # "none" THEN [r |-> r, a |-> "queries"]
    ELSE [r |-> r, a |-> IF r.waiting = "due" THEN "auto" ELSE "none"]

\* put_queries_in_act
PutQueries(r) ==
    [r |-> [r EXCEPT !.wft.queries = "none"],
     a |-> IF r.wft.queries = "legacy" THEN "legacy" ELSE "queries"]

\* LocalActRequest::CancelAllInRun: attempts lang holds get a cancel queued, the
\* others are dropped without a result.
CancelAllInRun(las) == [las EXCEPT !.pending = 0, !.held = 0, !.queued = @ + las.held]

\* An eviction that does not wait for queued cancels.
EvictAtOnce(r) ==
    IF Evicting(r) /\ r.act = "none" /\ (r.broken \/ ~MorePendingWork(r))
    THEN [r |-> [r EXCEPT !.waiting = "no", !.las = CancelAllInRun(@)], a |-> "evict"]
    ELSE [r |-> r, a |-> "none"]

\* An eviction that does not wait for lang to complete what it has.
EvictWhileActive(r) ==
    IF Evicting(r) /\ r.act # "evict" /\ (r.broken \/ ~MorePendingWork(r))
    THEN [r |-> [r EXCEPT !.waiting = "no", !.las = CancelAllInRun(@)], a |-> "evict"]
    ELSE [r |-> r, a |-> "none"]

\* The eviction at the end of update_to_acts, withheld while a cancel is queued.
EvictIfIdle(r) ==
    IF Evicting(r) /\ r.act = "none" /\ (r.broken \/ ~MorePendingWork(r))
    THEN LET c == [r EXCEPT !.waiting = "no", !.las = CancelAllInRun(@)]
         IN  [r |-> c, a |-> IF c.las.queued > 0 THEN "none" ELSE "evict"]
    ELSE [r |-> r, a |-> "none"]

-----------------------------------------------------------------------------
(* A new workflow task *)

\* The run with the task, before its machines have seen it.
Holding(r, task) ==
    [r EXCEPT !.paginator = TRUE,
              !.wft = [tok |-> task.tok, attempt |-> task.attempt,
                       queries |-> IF task.kind = "task" THEN "none" ELSE task.kind],
              !.waiting = IF @ = "no" THEN @ ELSE "quiet"]

\* What follows from the machines' answer.  An error has no completion call to fail,
\* so it goes out as an AutoFail that is not recorded.
Incoming(s, new) ==
    LET t == [s EXCEPT !.r.m = new.m]
    IN  IF new.err # "none"
        THEN [t EXCEPT !.r.broken = TRUE,
                       !.acts = <<IF new.err = "nde" THEN "autofailNde" ELSE "autofail">>]
        ELSE IF new.act THEN InsertOutstandingActivation(t, "lang")
        ELSE IF OutstandingLas(new.m) > 0 /\ s.r.waiting # "no"
        THEN [t EXCEPT !.r.waiting = "armed"]
        ELSE InsertOutstandingActivation(t, "auto")

\* _incoming_wft and the update_to_acts that follows it.  The run holds the task
\* from here on, so update_to_acts only records the activation.
IncomingWft(r, task, n) ==
    LET s == TripIf(Step(Holding(r, task)), HasWft(r), "task_overwritten")
    IN  IF task.kind = "legacy" /\ n.expired /\ r.m.started
        THEN InsertOutstandingActivation(s, "autofail")
        ELSE Incoming(s, NewWorkFromServer(s.r.m, task, n))

-----------------------------------------------------------------------------
(* update_to_acts for an Ok outcome with the activation a *)

\* The activation it settles on, and the run after that.
Settled(more) ==
    CASE more.a = "queries" -> PutQueries(more.r)
      [] more.a = "none" -> EvictIfIdle(more.r)
      [] OTHER -> more

\* A run with nothing left to do goes on to a buffered task.
Emitted(s, a, n) ==
    IF a \in {"none", "auto"} /\ ~HasAnyPendingWork(s.r, FALSE, TRUE)
    THEN IF HasTasks(s.r.buf)
         THEN Then(s, IncomingWft([s.r EXCEPT !.buf = WithoutNext(@)], NextTask(s.r.buf), n))
         ELSE s
    ELSE IF a = "none" THEN s
    ELSE InsertOutstandingActivation(s, a)

EmitSettled(s, next, n) == Emitted([s EXCEPT !.r = next.r], next.a, n)

UpdateToActs(s, a, n) ==
    EmitSettled(s, Settled(IF MorePendingWork(s.r) /\ a = "none" THEN CheckMore(s.r)
                           ELSE [r |-> s.r, a |-> a]), n)

CheckMoreActivations(r, n) ==
    LET more == CheckMore(r) IN UpdateToActs(Step(more.r), more.a, n)

-----------------------------------------------------------------------------
(* Evictions *)

KeepsQueries(reason) == reason \in {"CacheFull", "WorkflowExecutionEnding"}

\* An eviction that waits for the run's next update even if the run is idle.
RequestEvictionLater(r, reason, reply, n) ==
    Step([r EXCEPT !.evict = [reason |-> reason, reply |-> reply]])

\* request_eviction, for a run that has no completion waiting on a page.
RequestEvictionOnly(r, reason, reply, n) ==
    LET why == [reason |-> reason, reply |-> reply]
        clear == ~KeepsQueries(reason) /\ ~PendingWorkIsLegacyQuery(r)
        asked == [r EXCEPT !.evict = why, !.wft.queries = IF clear THEN "none" ELSE @]
    IN  IF r.act # "evict" /\ ~Evicting(r)
        THEN CheckMoreActivations(asked, n)
        ELSE Step([r EXCEPT !.evict = why])

-----------------------------------------------------------------------------
(* Completions *)

\* prepare_complete_resp: commands that were not sent yet go out with the reply to
\* an eviction.
EvictionHasOutput(r, c) == c.evict /\ HasWft(r) /\ ~r.broken /\ r.m.output

\* Whether the completion asks the server for another task at once.
ForceOnHeartbeatOnly(r, c, dueToHeartbeat) == dueToHeartbeat
ForceNewWft(r, c, dueToHeartbeat) ==
    \/ dueToHeartbeat
    \/ EvictionHasOutput(r, c) /\ OutstandingLas(r.m) > 0
    \/ c.queries /\ r.m.laJobs

\* Whether the workflow task is complete.
ShouldRespond(r, c) ==
    ~ \/ r.m.jobs
      \/ r.m.replaying /\ ~c.forced
      \/ c.pendingQuery /\ ~c.queries
      \/ c.evict /\ ~EvictionHasOutput(r, c)
      \/ r.m.terminal

PrepareCompleteResp(r, c, dueToHeartbeat) ==
    IF ShouldRespond(r, c) \/ c.queries
    THEN [r |-> [r EXCEPT !.m = WftCompletionReported(@)], err |-> "none",
          out |-> [Report("complete", r.wft) EXCEPT !.tok = c.tok,
                                                    !.force = ForceNewWft(r, c, dueToHeartbeat),
                                                    !.final = r.m.finished]]
    ELSE [r |-> r, err |-> "none", out |-> Nothing]

\* sink_la_requests for what drain_queued_local_activities returned.
SinkLaRequests(r, m) ==
    IF m.finished THEN [r EXCEPT !.m = m, !.las = CancelAllInRun(@)]
    ELSE [r EXCEPT !.m = DrainLocalActivities(m), !.las.pending = @ + m.requested]

\* The machines after the commands of a completion, and after a new page if one
\* came with it (fed).
WithPage(pushed, fed, o) ==
    IF fed /\ pushed.err = "none" THEN FeedHistoryFromNewPage(pushed.m, o) ELSE pushed
Advanced(page, broken, o) ==
    IF page.err # "none" \/ broken THEN page ELSE ApplyNextTaskIfReady(page.m, o)

\* Respond, unless there are local activities to wait for.
RespondOrWait(r, c, heartbeatAuto) ==
    LET heartbeat == heartbeatAuto \/ r.waiting = "due"
        waits == OutstandingLas(r.m) > 0
        now == [r EXCEPT !.waiting = IF ~waits THEN "no"
                                     ELSE IF heartbeat THEN "due"
                                     ELSE IF c.queries THEN "quiet" ELSE "armed"]
    IN  IF ~waits \/ heartbeat \/ c.queries
        THEN PrepareCompleteResp(now, c, heartbeatAuto \/ waits)
        ELSE [r |-> now, err |-> "none", out |-> Nothing]

\* _process_completion
Processed(r, c, done) ==
    IF done.err # "none" THEN [r |-> [r EXCEPT !.m = done.m], err |-> done.err, out |-> Nothing]
    ELSE RespondOrWait(SinkLaRequests(r, done.m), c, r.act = "auto" /\ r.waiting # "no")
ProcessCompletion(r, c, fed, o) ==
    IF c.evict THEN PrepareCompleteResp(r, c, FALSE)
    ELSE Processed(r, c, Advanced(WithPage(PushCommandsAndIterate(r.m, c), fed, o), r.broken, o))

\* What successful_completion makes of a completion before it is processed.
RunActivationCompletion(r, c, forced) ==
    [id |-> c.id, commands |-> c.commands, las |-> c.las, terminal |-> c.terminal,
     err |-> c.err, queries |-> c.queries, tok |-> r.wft.tok, evict |-> r.act = "evict",
     pendingQuery |-> r.wft.queries # "none", forced |-> forced]

FailWorkflow(id) ==
    [id |-> id, commands |-> TRUE, las |-> 0, terminal |-> TRUE, err |-> "none", queries |-> FALSE]

\* successful_completion(FailWorkflow) as failed_completion calls it.  If applying
\* history fails on the way, the run is broken and fails once more.
FailedInstead(r, id, p, n) ==
    IF p.err = "fatal"
    THEN Reply(Step([p.r EXCEPT !.broken = TRUE, !.evict.reason = "Fatal"]), id, Report("fail", r.wft))
    ELSE UpdateToActs(Reply(Step(p.r), id, p.out), "none", n)
OnceMore(p, c, n) ==
    IF p.err = "nde"
    THEN ProcessCompletion([p.r EXCEPT !.broken = TRUE, !.evict.reason = "Nondeterminism"], c, FALSE, n)
    ELSE p
FailWorkflowInstead(r, id, n) ==
    LET evict == r.act = "evict"
        cmd == [FailWorkflow(id) EXCEPT !.commands = ~evict, !.terminal = ~evict]
        c == RunActivationCompletion(r, cmd, TRUE)
    IN  IF ~ReadyToApplyNextWft(r.m)
        THEN Trip(Step([r EXCEPT !.onPage = c, !.paginator = FALSE]), "page_request_when_failing")
        ELSE TripIf(FailedInstead(r, id, OnceMore(ProcessCompletion(r, c, FALSE, n), c, n), n),
                    evict, "eviction_reply_with_commands")

\* failed_completion, after the eviction s has been asked for.
FailedAfter(s, wft, cause, unreported, id, n) ==
    LET kind == IF ~PendingWorkIsLegacyQuery(s.r) THEN "fail"
                ELSE IF unreported THEN "dropQuery" ELSE "failQuery"
    IN  IF kind = "fail" /\ wft.attempt <= 1 /\ cause = "nde" /\ FailWorkflowOnNde
        THEN Then([s EXCEPT !.acts = <<>>], FailWorkflowInstead(s.r, id, n))
        ELSE Reply(s, id, Report(kind, wft))

\* failed_completion.  The eviction goes out before the reply.  When the workflow
\* is failed instead, what the eviction emitted is not returned.
FailedCompletion(r, cause, reason, auto, id, n) ==
    LET unreported == /\ PendingWorkIsLegacyQuery(r)
                      /\ auto
                      /\ reason \in {"Unspecified", "PaginationOrHistoryFetch"}
    IN  IF ~HasWft(r)
        THEN Trip(Reply(Step(r), id, Nothing), "failing_without_a_task")
        ELSE FailedAfter(IF unreported THEN Step(r) ELSE RequestEvictionOnly(r, reason, NoReply, n),
                         r.wft, cause, unreported, id, n)

\* update_to_acts for what ProcessCompletion(r, ..) returned.
FinishCompletion(p, id, n) ==
    IF p.err = "none" THEN UpdateToActs(Reply(Step(p.r), id, p.out), "none", n)
    ELSE FailedCompletion([p.r EXCEPT !.broken = TRUE], p.err,
                          IF p.err = "nde" THEN "Nondeterminism" ELSE "Fatal", TRUE, id, n)

\* successful_completion
SuccessfulCompletion(r, c, o, n) ==
    LET evict == r.act = "evict"
        rac == RunActivationCompletion(r, c, FALSE)
        out == IF r.evict.reply = NoReply THEN Nothing ELSE Report("fail", r.evict.reply)
    IN  IF ~HasWft(r)
        THEN TripIf(Reply(Step([r EXCEPT !.evict.reply = NoReply]), c.id, out),
                    ~evict, "completion_without_a_task")
        ELSE IF c.legacy
        THEN Reply(Step(r), c.id, Report("query", r.wft))
        ELSE IF ~ReadyToApplyNextWft(r.m) /\ r.paginator
        THEN [Step([r EXCEPT !.onPage = rac, !.paginator = FALSE]) EXCEPT !.fetch = TRUE]
        ELSE FinishCompletion(IF ReadyToApplyNextWft(r.m) THEN ProcessCompletion(r, rac, FALSE, o)
                              ELSE [r |-> r, err |-> "fatal", out |-> Nothing], c.id, n)

\* fetched_page_completion
FetchedPageCompletion(r, o, n) ==
    LET run == [r EXCEPT !.paginator = TRUE, !.onPage = NoCompletion]
    IN  IF r.onPage.id # 0
        THEN FinishCompletion(ProcessCompletion(run, r.onPage, TRUE, o), r.onPage.id, n)
        ELSE Trip([Step(run) EXCEPT !.r.broken = TRUE, !.acts = <<"autofail">>],
                  "page_for_no_completion")

\* request_eviction
RequestEviction(r, reason, reply, n) ==
    IF r.onPage.id # 0 /\ reason = "PaginationOrHistoryFetch"
    THEN FailedCompletion([r EXCEPT !.onPage = NoCompletion], "unhandled", reason, TRUE,
                          r.onPage.id, n)
    ELSE RequestEvictionOnly(r, reason, reply, n)

-----------------------------------------------------------------------------
(* Local activities *)

\* Whether _local_resolution throws the result away.
DiscardsResolution(r) ==
    r.act = "evict" \/ (Evicting(r) /\ r.act = "none" /\ ~MorePendingWork(r))

\* local_resolution.  A result that cannot be applied breaks the run; after any
\* other the run looks for its next activation.
ResolveLocally(r, n) ==
    LET noted == IF DiscardsResolution(r) THEN Ok(r.m) ELSE NotifyOfLocalResult(r.m)
        run == [r EXCEPT !.m = noted.m]
    IN  IF noted.err # "none"
        THEN [Step(run) EXCEPT !.r.broken = TRUE, !.acts = <<"autofailNde">>]
        ELSE CheckMoreActivations(run, n)

\* heartbeat_timeout
HeartbeatTimeout(r, n) ==
    LET waits == r.waiting # "no"
    IN  UpdateToActs(Step(IF waits THEN [r EXCEPT !.waiting = "due"] ELSE r),
                     IF waits /\ r.act = "none" THEN "auto" ELSE "none", n)

-----------------------------------------------------------------------------
(* After a completion has been reported *)

\* mark_wft_complete
MarkWftComplete(r) == [r EXCEPT !.wft = NoWft]

\* A report that leaves the task with a run that is about to be evicted.
CompletesUnlessEvicting(r, status) ==
    HasWft(r) /\ status # "not" /\ ~Evicting(r) /\ r.wft.queries = "none"

\* A report that always ends the task.
CompletesAlways(r, status) == HasWft(r)

\* WFStream::complete_wft: whether the report ends the task the run holds.
CompletesWft(r, status) ==
    /\ HasWft(r)
    /\ status # "not" \/ r.m.terminal
    /\ r.wft.queries = "none"

\* finish_activation removes the activation: for any report from lang, for the
\* worker's own reports only if the outstanding activation is the worker's own.
FinishesActivation(r, isAuto) == r.act # "none" /\ (isAuto => r.act = "auto")
=============================================================================
