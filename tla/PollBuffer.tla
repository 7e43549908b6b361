------------------------------ MODULE PollBuffer ------------------------------
(***************************************************************************)
(* The pollers: LongPollBuffer and its PollScaler (pollers/poll_buffer.rs), *)
(* the sticky and the normal buffer that share one permit dealer            *)
(* (pollers/sticky.rs), and the two streams that read them: the workflow    *)
(* task stream (worker/workflow/wft_poller.rs) and the activity and nexus   *)
(* one (TaskPollerStream, pollers/mod.rs).                                  *)
(*                                                                          *)
(* Each buffer runs a loop that waits its turn, takes a permit of the       *)
(* dealer (the actions of MeteredPermitDealer), waits until the scaler      *)
(* allows another poll and spawns it.  A poll that has returned reports to  *)
(* the scaler, backs off, drops its guard and forwards its result over the  *)
(* buffer's channel.  Every such step can interleave with every other one.  *)
(*                                                                          *)
(* A permit belongs to the loop, then to the poll, then to the buffered     *)
(* response and then to the task; fresh counts the first three.             *)
(***************************************************************************)
EXTENDS MeteredPermitDealer, ClientRetry, Sequences

CONSTANTS
    Configs,        \* the configurations a run starts from
    MaxBuffered     \* bound: results buffered when another error comes back

ASSUME PollBoundsAssumption == MaxBuffered \in Nat

\* What PollerBehavior::validate accepts, for buffers that are there.
ASSUME ConfigsAssumption ==
    /\ {"normal", "sticky"} \subseteq Acquirers
    /\ \A c \in Configs :
          /\ {c.minimum, c.initial, c.maximum, c.ratio, c.tasks} \subseteq Nat
          /\ 1 <= c.minimum /\ c.minimum <= c.initial /\ c.initial <= c.maximum
          /\ c.ratio <= 100
          /\ c.kinds \in {{"normal"}, {"normal", "sticky"}}
          /\ {c.auto, c.graceful, c.task_stream, c.server_autoscales} \subseteq BOOLEAN

VARIABLES
    config,         \* one of Configs, constant; config.tasks bounds what the server hands out
    at,             \* where the loop of each buffer stands
    polls,          \* of each buffer, the number of spawned polls in each phase
    active,         \* the watch channel ActiveCounter keeps
    target,         \* PollScalerReportHandle::target
    saw_decision,   \* ever_saw_scaling_decision
    ingested,       \* ingested_this_period, ingested_last_period, scale_up_allowed
    backlog,        \* last_seen_sticky_backlog
    channel,        \* the results each buffer has sent and the stream has not taken
    cancelled,      \* the shutdown token
    noticed,        \* poller_was_shutdown of TaskPollerStream
    ended,          \* the stream: "no", "ending" (in shutdown_box) or "yes"
    given,          \* tasks the server has handed to a poll
    lost            \* tasks that were received and dropped undelivered

dealer == <<pc, available, extant, unused, fresh, used, releasing>>
scaler == <<target, saw_decision, ingested, backlog>>
stream == <<cancelled, noticed, ended>>
pollvars == <<config, at, polls, active, scaler, channel, stream, given, lost, dealer>>

\* Phases of a spawned poll: waiting for the server; returned, with a result to
\* forward; backing off, with an error to forward or with one to swallow.
Results == {"task", "empty", "error"}
Backoffs == {"backoff_error", "backoff_swallow"}
Phases == {"polling"} \cup Results \cup Backoffs

Kinds == config.kinds

-----------------------------------------------------------------------------
(* PollScaler and sticky_poller_behavior                                    *)

\* calc_max_nonsticky and the split of SimpleMaximum between the two buffers.
\* The ratio is config.ratio hundredths.
MaxNonSticky == IF (config.maximum * config.ratio) \div 100 > 1
                  THEN (config.maximum * config.ratio) \div 100 ELSE 1

StickyShare == IF config.maximum - MaxNonSticky > 1 THEN config.maximum - MaxNonSticky ELSE 1

\* The most pollers of a buffer (PollScaler::new).  The split applies to every
\* workflow task buffer, also where there is no sticky one.
Maximum(k) == IF config.auto \/ config.task_stream THEN config.maximum
              ELSE IF k = "sticky" THEN StickyShare ELSE MaxNonSticky

Minimum == IF config.auto THEN config.minimum ELSE 1

Initial(k) == IF config.auto THEN config.initial ELSE Maximum(k)

Clamp(n, k) == IF n < Minimum THEN Minimum ELSE IF n > Maximum(k) THEN Maximum(k) ELSE n

can_scale_down(k) == saw_decision[k] \/ config.server_autoscales

\* poll_result's effect on the target.  r.decision holds the server's
\* suggestion, if the response carries one.
NewTarget(k, r) ==
    IF ~config.auto THEN target[k]
    ELSE IF r.kind = "error"
           THEN IF can_scale_down(k) /\ IsExhausted(r.code)
                  THEN Clamp(target[k] \div 2, k) ELSE target[k]
    ELSE IF r.decision = <<>>
           THEN IF can_scale_down(k) /\ r.kind = "empty"
                  THEN Clamp(target[k] - 1, k) ELSE target[k]
    ELSE IF r.decision[1] > 0 /\ ~ingested[k].scale_up_allowed THEN target[k]
    ELSE Clamp(target[k] + r.decision[1], k)

\* The phase a poll that returned r goes to: poll_result's should_forward and
\* backoff_duration.
PhaseAfter(r) ==
    IF r.kind # "error" \/ ~config.auto THEN r.kind
    ELSE IF r.short_circuit THEN "backoff_swallow" ELSE "backoff_error"

\* The condition of wait_until_allowed.
ScalerAllows(k) == active[k] < Maximum(k) /\ active[k] < target[k]

-----------------------------------------------------------------------------
(* StickyPollerShared::wait_if_needed                                       *)

\* The limit the two buffers balance on; without both buffers there is no
\* StickyPollerShared and without a limit it lets every caller pass.
MaxSlots == IF MaxPermits > 0 /\ MaxPermits < Slots THEN MaxPermits ELSE Slots

StickyShouldBeChosen ==
    /\ backlog > 1
    /\ backlog > active["sticky"]
    /\ active["sticky"] < target["sticky"]

\* A normal buffer whose first poll has no precedence.
NonStickyYields ==
    /\ ~(active["sticky"] = 0 /\ active["normal"] + 1 >= MaxSlots)
    /\ ~StickyShouldBeChosen
    /\ active["sticky"] + active["normal"] < MaxSlots

NonStickyMayGo ==
    \/ active["normal"] = 0
    \/ /\ ~(active["sticky"] = 0 /\ active["normal"] + 1 >= MaxSlots)
       /\ ~StickyShouldBeChosen
       /\ active["sticky"] + active["normal"] < MaxSlots

StickyMayGo ==
    \/ active["sticky"] = 0
    \/ /\ active["sticky"] < target["sticky"]
       /\ ~(active["normal"] = 0 /\ active["sticky"] + 1 >= MaxSlots)
       /\ StickyShouldBeChosen \/ active["sticky"] + active["normal"] < MaxSlots

wait_if_needed(k) ==
    Kinds = {"normal"} \/ (IF k = "sticky" THEN StickyMayGo ELSE NonStickyMayGo)

-----------------------------------------------------------------------------
(* The loop of LongPollBuffer::new                                          *)

PollInit ==
    /\ Init
    /\ config \in Configs
    /\ at = [k \in Acquirers |-> IF k \in Kinds THEN "unstarted" ELSE "absent"]
    /\ polls = [k \in Acquirers |-> [p \in Phases |-> 0]]
    /\ active = [k \in Acquirers |-> 0]
    /\ target = [k \in Acquirers |-> Initial(k)]
    /\ saw_decision = [k \in Acquirers |-> FALSE]
    /\ ingested = [k \in Acquirers |-> [this |-> 0, last |-> 0, scale_up_allowed |-> TRUE]]
    /\ backlog = 0
    /\ channel = [k \in Acquirers |-> <<>>]
    /\ cancelled = FALSE
    /\ noticed = FALSE
    /\ ended = "no"
    /\ given = 0
    /\ lost = 0

\* The stream's first Poller::poll sends on the starter of each buffer.
Start ==
    /\ ended = "no"
    /\ \E k \in Kinds : at[k] = "unstarted"
    /\ at' = [k \in Acquirers |-> IF at[k] = "unstarted" THEN "waiting" ELSE at[k]]
    /\ UNCHANGED <<config, polls, active, scaler, channel, stream, given, lost, dealer>>

\* pre_permit_delay is over: the balance of the workflow task buffers lets the
\* loop through, or the rate limit of the activity buffer, a delay, has passed.
TurnComes(k) ==
    /\ at[k] = "waiting"
    /\ ~cancelled
    /\ wait_if_needed(k)
    /\ at' = [at EXCEPT ![k] = "acquiring"]
    /\ UNCHANGED <<config, polls, active, scaler, channel, stream, given, lost, dealer>>

\* acquire_owned, in the two steps of the dealer.
LimitPassed(k) ==
    /\ at[k] = "acquiring"
    /\ PassLimit(k)
    /\ UNCHANGED <<config, at, polls, active, scaler, channel, stream, given, lost>>

PermitAcquired(k) ==
    /\ at[k] = "acquiring"
    /\ BuildOwned(k)
    /\ at' = [at EXCEPT ![k] = "at_scaler"]
    /\ UNCHANGED <<config, polls, active, scaler, channel, stream, given, lost>>

\* wait_until_allowed finds the condition false and sleeps until the active
\* count changes: a change of the target alone does not wake it.
ScalerSleeps(k) ==
    /\ at[k] = "at_scaler"
    /\ ~ScalerAllows(k)
    /\ at' = [at EXCEPT ![k] = "asleep"]
    /\ UNCHANGED <<config, polls, active, scaler, channel, stream, given, lost, dealer>>

\* It finds the condition true, counts the poll and the loop spawns it.
SpawnPoll(k) ==
    /\ at[k] = "at_scaler"
    /\ ScalerAllows(k)
    /\ active' = [active EXCEPT ![k] = @ + 1]
    /\ polls' = [polls EXCEPT ![k].polling = @ + 1]
    /\ at' = [at EXCEPT ![k] = "waiting"]
    /\ UNCHANGED <<config, scaler, channel, stream, given, lost, dealer>>

\* A break out of wait_until_allowed that leaks the permit.
BreakKeepsPermit(k) ==
    /\ cancelled
    /\ \/ at[k] \in {"waiting", "at_scaler", "asleep"} /\ UNCHANGED dealer
       \/ at[k] = "acquiring" /\ Abandon(k)
    /\ at' = [at EXCEPT ![k] = "stopping"]
    /\ UNCHANGED <<config, polls, active, scaler, channel, stream, given, lost>>

\* A loop whose wait for a permit does not heed the shutdown.
BreakUnlessAcquiring(k) ==
    /\ cancelled
    /\ \/ at[k] = "waiting" /\ UNCHANGED dealer
       \/ at[k] \in {"at_scaler", "asleep"} /\ DropFresh
    /\ at' = [at EXCEPT ![k] = "stopping"]
    /\ UNCHANGED <<config, polls, active, scaler, channel, stream, given, lost>>

\* The loop breaks at the select it stands in, or at the check on top, and drops
\* what it holds: the acquire future or the permit.
Break(k) ==
    /\ cancelled
    /\ \/ /\ at[k] = "waiting"
          /\ UNCHANGED dealer
       \/ /\ at[k] = "acquiring"
          /\ Abandon(k)
       \/ /\ at[k] \in {"at_scaler", "asleep"}
          /\ DropFresh
    /\ at' = [at EXCEPT ![k] = "stopping"]
    /\ UNCHANGED <<config, polls, active, scaler, channel, stream, given, lost>>

\* A loop that does not await its polls.
LoopEndsEarly(k) ==
    /\ cancelled
    /\ at[k] \in {"unstarted", "stopping"}
    /\ at' = [at EXCEPT ![k] = "done"]
    /\ UNCHANGED <<config, polls, active, scaler, channel, stream, given, lost, dealer>>

\* All spawned polls are done (poll_task_awaiter) and the loop's sender is
\* dropped; a loop that never started ends at once.
LoopEnds(k) ==
    /\ cancelled
    /\ \/ at[k] = "unstarted"
       \/ at[k] = "stopping" /\ \A p \in Phases : polls[k][p] = 0
    /\ at' = [at EXCEPT ![k] = "done"]
    /\ UNCHANGED <<config, polls, active, scaler, channel, stream, given, lost, dealer>>

-----------------------------------------------------------------------------
(* A spawned poll                                                           *)

\* What a poll can return: a response, with or without a scaling decision and
\* with a backlog hint, or an error the client forwards.
Responses ==
    [kind : {"task", "empty"}, decision : IF config.auto THEN {<<>>, <<-1>>, <<0>>, <<1>>} ELSE {<<>>},
     hint : IF "sticky" \in Kinds THEN {0, 2} ELSE {0}]

Errors == {[kind |-> "error", code |-> e.code, short_circuit |-> e.short_circuit] :
              e \in PollErrors(config.auto)}

\* A drop of the counter that does not notify the watch channel.
GuardDroppedSilently(k, p) ==
    /\ polls' = [polls EXCEPT ![k][p] = @ - 1]
    /\ active' = [active EXCEPT ![k] = @ - 1]
    /\ UNCHANGED at

\* A poll leaves its phase p, and its ActiveCounter is dropped: a loop that
\* sleeps in wait_until_allowed looks again.
GuardDropped(k, p) ==
    /\ polls' = [polls EXCEPT ![k][p] = @ - 1]
    /\ active' = [active EXCEPT ![k] = @ - 1]
    /\ at' = [at EXCEPT ![k] = IF @ = "asleep" THEN "at_scaler" ELSE @]

\* The response arrives: post_poll_fn records the sticky backlog and poll_result
\* adjusts the scaler.
PollResponds(k, r) ==
    /\ polls[k].polling > 0
    /\ r.kind = "task" => given < config.tasks
    /\ polls' = [polls EXCEPT ![k].polling = @ - 1, ![k][PhaseAfter(r)] = @ + 1]
    /\ backlog' = IF k = "sticky" THEN r.hint ELSE backlog
    /\ target' = [target EXCEPT ![k] = NewTarget(k, r)]
    /\ saw_decision' = [saw_decision EXCEPT ![k] = @ \/ r.decision # <<>>]
    /\ ingested' = [ingested EXCEPT ![k].this =
                        IF config.auto /\ r.kind = "task" THEN @ + 1 ELSE @]
    /\ given' = IF r.kind = "task" THEN given + 1 ELSE given
    /\ UNCHANGED <<config, at, active, channel, stream, lost, dealer>>

\* The poll fails for good: poll_result may scale down, and backs off when
\* autoscaling.
PollFails(k, r) ==
    /\ polls[k].polling > 0
    /\ Len(channel[k]) < MaxBuffered
    /\ polls' = [polls EXCEPT ![k].polling = @ - 1, ![k][PhaseAfter(r)] = @ + 1]
    /\ target' = [target EXCEPT ![k] = NewTarget(k, r)]
    /\ UNCHANGED <<config, at, active, saw_decision, ingested, backlog, channel, stream,
                   given, lost, dealer>>

\* Without graceful poll shutdown the token interrupts the call.
PollInterrupted(k) ==
    /\ cancelled
    /\ ~config.graceful
    /\ polls[k].polling > 0
    /\ GuardDropped(k, "polling")
    /\ DropFresh
    /\ UNCHANGED <<config, scaler, channel, stream, given, lost>>

\* The backoff is over: the task returns and drops all it holds, the error too.
BackoffElapses(k, p) ==
    /\ polls[k][p] > 0
    /\ GuardDropped(k, p)
    /\ DropFresh
    /\ UNCHANGED <<config, scaler, channel, stream, given, lost>>

\* The shutdown token ends the backoff: the error is forwarded if it should be,
\* and either way the permit is dropped.
BackoffInterrupted(k, p) ==
    /\ cancelled
    /\ polls[k][p] > 0
    /\ GuardDropped(k, p)
    /\ channel' = IF p = "backoff_error" /\ ended # "yes"
                    THEN [channel EXCEPT ![k] = Append(@, "error")] ELSE channel
    /\ DropFresh
    /\ UNCHANGED <<config, scaler, stream, given, lost>>

\* A poll without backoff drops its guard and sends its result.  A response goes
\* with its permit, an error without; the send fails when the receiver is gone.
ForwardResult(k, p) ==
    /\ polls[k][p] > 0
    /\ GuardDropped(k, p)
    /\ channel' = IF ended # "yes" THEN [channel EXCEPT ![k] = Append(@, p)] ELSE channel
    /\ lost' = IF ended = "yes" /\ p = "task" THEN lost + 1 ELSE lost
    /\ IF p = "error" \/ ended = "yes" THEN DropFresh ELSE UNCHANGED dealer
    /\ UNCHANGED <<config, scaler, stream, given>>

\* The periodic task of PollScaler::new compares two periods; a period ends with
\* more ingested tasks than 1.1 times the last one, rounded down, or it does not.
PeriodEnds(k) ==
    /\ config.auto
    /\ ~cancelled
    /\ ingested' = [ingested EXCEPT ![k] =
          [this |-> 0, last |-> @.this, scale_up_allowed |-> @.this >= (@.last * 11) \div 10]]
    /\ UNCHANGED <<config, at, polls, active, target, saw_decision, backlog, channel, stream,
                   given, lost, dealer>>

-----------------------------------------------------------------------------
(* The stream                                                               *)

\* The stream takes the next result of one of the buffers (StickyTaskPoller::poll
\* selects) and handles it: a task goes on with its permit unless it does not
\* validate, a timed-out poll is dropped and an error is passed on.  After
\* TaskPollerStream noticed the shutdown an empty response ends it.
StreamTakes(k) ==
    /\ ended = "no"
    /\ channel[k] # <<>>
    /\ channel' = [channel EXCEPT ![k] = Tail(@)]
    /\ LET r == Head(channel[k])
       IN  /\ \/ r = "task" /\ (IntoUsed \/ DropFresh)
              \/ r = "empty" /\ DropFresh
              \/ r = "error" /\ UNCHANGED dealer
           /\ ended' = IF noticed /\ r = "empty" THEN "yes" ELSE "no"
    /\ UNCHANGED <<config, at, polls, active, scaler, cancelled, noticed, given, lost>>

\* A buffer's channel is closed and empty: the stream ends.  The workflow task
\* stream first awaits the loops in shutdown_box.
StreamSeesNone(k) ==
    /\ ended = "no"
    /\ at[k] = "done"
    /\ channel[k] = <<>>
    /\ ended' = IF config.task_stream THEN "yes" ELSE "ending"
    /\ cancelled' = TRUE
    /\ UNCHANGED <<config, at, polls, active, scaler, channel, noticed, given, lost, dealer>>

ShutdownBoxReturns ==
    /\ ended = "ending"
    /\ \A k \in Kinds : at[k] = "done"
    /\ ended' = "yes"
    /\ UNCHANGED <<config, at, polls, active, scaler, channel, cancelled, noticed, given, lost, dealer>>

\* The receiver is dropped with what it holds.
DropBuffered(k) ==
    /\ ended = "yes"
    /\ channel[k] # <<>>
    /\ channel' = [channel EXCEPT ![k] = Tail(@)]
    /\ lost' = IF Head(channel[k]) = "task" THEN lost + 1 ELSE lost
    /\ IF Head(channel[k]) = "error" THEN UNCHANGED dealer ELSE DropFresh
    /\ UNCHANGED <<config, at, polls, active, scaler, stream, given>>

InitiateShutdown ==
    /\ ~cancelled
    /\ cancelled' = TRUE
    /\ UNCHANGED <<config, at, polls, active, scaler, channel, noticed, ended, given, lost, dealer>>

\* The biased select of TaskPollerStream.
NoticeShutdown ==
    /\ config.task_stream
    /\ cancelled
    /\ ~noticed
    /\ ended = "no"
    /\ noticed' = TRUE
    /\ UNCHANGED <<config, at, polls, active, scaler, channel, cancelled, ended, given, lost, dealer>>

\* The worker finishes a task and drops its permit, in the dealer's two steps.
TaskFinishes == DropUsed /\ UNCHANGED <<config, at, polls, active, scaler, channel, stream, given, lost>>

SlotFreed == ReleaseSlot /\ UNCHANGED <<config, at, polls, active, scaler, channel, stream, given, lost>>

Loop(k) ==
    \/ TurnComes(k) \/ LimitPassed(k) \/ PermitAcquired(k)
    \/ ScalerSleeps(k) \/ SpawnPoll(k) \/ Break(k) \/ LoopEnds(k)

PollAnswered(k) == \/ \E r \in Responses : PollResponds(k, r)
                   \/ \E r \in Errors : PollFails(k, r)

PollSteps(k) ==
    \/ PollInterrupted(k)
    \/ \E p \in Backoffs : BackoffElapses(k, p) \/ BackoffInterrupted(k, p)
    \/ \E p \in Results : ForwardResult(k, p)

Streaming ==
    \/ Start
    \/ \E k \in Kinds : StreamTakes(k) \/ StreamSeesNone(k) \/ DropBuffered(k)
    \/ ShutdownBoxReturns
    \/ NoticeShutdown

PollNext ==
    \/ \E k \in Kinds : Loop(k) \/ PollAnswered(k) \/ PollSteps(k) \/ PeriodEnds(k)
    \/ Streaming
    \/ InitiateShutdown
    \/ TaskFinishes
    \/ SlotFreed

\* Weak fairness of the runtime's tasks, of the stream (lang polls until the
\* shutdown error) and of the server, which answers every long poll.  Strong
\* fairness of a loop that waits for a permit: the supplier's semaphore serves its
\* waiters in order, and the count below max_permits lasts as long as a poll.
PollSpec ==
    /\ PollInit
    /\ [][PollNext]_pollvars
    /\ \A k \in Acquirers : /\ WF_pollvars(k \in Kinds /\ Loop(k))
                            /\ SF_pollvars(k \in Kinds /\ (LimitPassed(k) \/ PermitAcquired(k)))
                            /\ WF_pollvars(k \in Kinds /\ PollAnswered(k))
                            /\ WF_pollvars(k \in Kinds /\ PollSteps(k))
    /\ WF_pollvars(Streaming)
    /\ WF_pollvars(SlotFreed)

-----------------------------------------------------------------------------
\* The permits that are out and unused.
Count(k) == LET n(p) == polls[k][p]
            IN  n("polling") + n("task") + n("empty") + n("error") + n("backoff_error")
                  + n("backoff_swallow")

HeldByLoop(k) == IF at[k] \in {"at_scaler", "asleep"} THEN 1 ELSE 0

\* The places of the responses in a channel; an error was sent without a permit.
Responded(s) == {i \in DOMAIN s : s[i] # "error"}

Buffered(k) == Cardinality(Responded(channel[k]))

Both(f(_)) == f("normal") + f("sticky")

\* A permit that is out and not in use belongs to a loop, to a poll or to a
\* buffered response: none leaks on a break, a backoff, an error or an end of the
\* stream, and none is counted out twice (the active count is the polls').
PermitsAccountedFor ==
    /\ fresh = Both(HeldByLoop) + Both(Count) + Both(Buffered)
    /\ \A k \in Kinds : active[k] = Count(k)

\* A loop asleep in wait_until_allowed wakes only when the active count changes.
\* It never sleeps past a raised target: while the condition holds, a poll that
\* has reported is still to drop its guard (poll_result comes before the drop).
NoSleepPastTarget ==
    \A k \in Kinds : at[k] = "asleep" /\ ScalerAllows(k) =>
        \E p \in Results : polls[k][p] > 0

\* A task that was received is delivered unless the worker shuts down; and a
\* workflow task buffer without a sticky one delivers even then.
LostOnlyAtShutdown ==
    lost > 0 => cancelled /\ (config.task_stream \/ "sticky" \in Kinds)

\* The comment in LongPollBuffer::new (poll_buffer.rs:374): "This is needed to
\* ensure we don't exit this task before all received polls have been sent out
\* for processing."
ReceivedAreDelivered == lost = 0

\* poll_result's doc (poll_buffer.rs:635): "should_forward: true if the response
\* should be passed on, false if it should be swallowed".
ForwardedErrorsArrive ==
    [][\A k \in Kinds : polls'[k]["backoff_error"] < polls[k]["backoff_error"] =>
          Len(channel'[k]) > Len(channel[k])]_pollvars

\* wait_if_needed (sticky.rs): there is "at least one poller of both kinds
\* available".  While no task holds a slot, each buffer polls again and again
\* until the shutdown.
BothKindsPolled ==
    <>[](used = 0 /\ ~cancelled) => \A k \in Acquirers : []<>(k \in Kinds => active[k] > 0)

\* wait_if_needed's comment (sticky.rs:117): "we check that we won't end up using
\* every available permit with one kind of poller."
NeitherKindTakesAll ==
    "sticky" \in Kinds => \A k \in Kinds : active[k] < MaxSlots

\* After the shutdown token is cancelled every loop ends, the stream ends, and
\* only the tasks that were delivered keep their permits.
PollersStop ==
    cancelled ~> /\ ended = "yes"
                 /\ \A k \in Kinds : at[k] = "done"
                 /\ fresh = 0
=============================================================================
