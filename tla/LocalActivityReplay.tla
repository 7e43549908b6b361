------------------------- MODULE LocalActivityReplay -------------------------
(***************************************************************************)
(* Local activities leave nothing in history but the marker of their       *)
(* result.  An instance of the workflow that was evicted, or lost with its *)
(* worker, is rebuilt by replaying history, and must show lang the         *)
(* activations it saw before.  This module has the local activity machine  *)
(* (local_activity_state_machine.rs), the bookkeeping around it            *)
(* (local_acts.rs), the driver that applies history and looks ahead for    *)
(* markers (workflow_machines.rs), the way events are cut into workflow    *)
(* task sequences (history_update.rs) and the part of ManagedRun and       *)
(* WorkflowManager that decides when lang is activated and when a task is  *)
(* completed.                                                              *)
(*                                                                         *)
(* Lang is any deterministic workflow: it answers an activation it has not *)
(* seen as it likes, and one it has seen as it did before.  `log` holds    *)
(* the activations of the tasks that were completed, with lang's answers;  *)
(* `recent` those of the task that is open.  An event's id is its position *)
(* in history.  Events that were processed but not started never occur     *)
(* here (they need a rejected update), so that last_processed_event is     *)
(* current_started_event_id.                                               *)
(***************************************************************************)
EXTENDS Integers, FiniteSetsExt, SequencesExt

CONSTANTS MaxLas,          \* local activities the workflow may start
          Types,           \* their cancellation types
          MaxSignals,      \* signals sent to the workflow
          MaxHeartbeats,   \* heartbeat timers that fire
          MaxLosses,       \* evictions and crashes
          MaxCommands      \* commands in one answer of lang

ASSUME /\ MaxLas \in Nat /\ MaxSignals \in Nat /\ MaxHeartbeats \in Nat
       /\ MaxLosses \in Nat /\ MaxCommands \in Nat
       /\ Types \subseteq {"TryCancel", "Abandon", "WaitCancellationCompleted"}

VARIABLES type,                      \* the cancellation type of each local activity
          history, buffered,         \* server: events; signals held back by an open task
          m,                         \* the cached instance
          phase, act, waiting,       \* managed run
          running, told,             \* local activity manager
          log, recent, pos, matches, \* lang
          bounds                     \* what is left of the bounds

vars == <<type, history, buffered, m, phase, act, waiting, running, told,
          log, recent, pos, matches, bounds>>

Las == 1..MaxLas

---------------------------------------------------------------------------
(* History                                                                 *)

Event(t) == [type |-> t, la |-> 0, index |-> 0, result |-> "none"]
Marker(la, index, result) ==
    [type |-> "Marker", la |-> la, index |-> index, result |-> result]

(* find_end_index_of_next_wft_seq with has_last_wft: a sequence ends at a  *)
(* started event, unless the task did not complete or was a heartbeat.     *)
ConcludesSequence(events, ix) ==
    LET SawCommand == \E i \in 1..ix : events[i].type = "Marker"
        SawCommandOrStarted == SawCommand \/ \E i \in 1..ix : events[i].type = "Exec"
        Next(k) == IF ix + k <= Len(events) THEN events[ix + k].type ELSE "none"
    IN  /\ events[ix].type = "Started"
        /\ Next(1) # "TimedOut"
        /\ IF Next(1) = "Completed" /\ Next(2) # "none"
           THEN SawCommand \/ Next(2) # "Scheduled"
           ELSE SawCommandOrStarted

find_end_index_of_next_wft_seq(events) ==
    LET ends == { ix \in 1..Len(events) : ConcludesSequence(events, ix) }
    IN  IF ends = {} THEN Len(events) ELSE Min(ends)

---------------------------------------------------------------------------
(* An instance: WorkflowMachines, LocalActivityData and WorkflowManager.   *)

(* previous_wft_started_id: the last task that was completed.              *)
PreviousStarted(h) ==
    Max({0} \cup { k \in 1..(Len(h) - 1) : h[k].type = "Started" /\ h[k + 1].type = "Completed" })

NewInstance(h) ==
    [history   |-> h,                 \* last_history_from_server, with what was taken from it
     started   |-> 0,                 \* current_started_event_id
     replaying |-> PreviousStarted(h) > 0,
     state     |-> [la \in Las |-> "None"],
     invokedReplaying |-> {},         \* replaying_when_invoked
     requests  |-> <<>>,              \* new_requests
     cancels   |-> {},                \* cancel_requests
     executing |-> {},
     preres    |-> <<>>,              \* preresolutions
     index     |-> 0,                 \* activation_index
     jobs      |-> <<>>,
     new       |-> <<>>,              \* current_wf_task_commands
     commands  |-> <<>>,
     awaitingCompletion |-> FALSE,
     awaitingWft |-> FALSE,
     deferred  |-> <<>>,              \* deferred_local_resolutions
     released  |-> FALSE,             \* a held resolution was let go because nothing was pending
     error     |-> "none"]

NoInstance == NewInstance(<<>>)
Cached == m.history # <<>>

Failed(i, e) == [i EXCEPT !.error = IF @ = "none" THEN e ELSE @]
IsPermutation(s, t) == Len(s) = Len(t) /\ ToSet(s) = ToSet(t)
Job(kind, la, result) == [kind |-> kind, la |-> la, result |-> result]

outstanding_la_count(i) == Cardinality(i.executing) + Len(i.requests)

done_executing(i, la) ==
    [i EXCEPT !.executing = @ \ {la}, !.requests = SelectSeq(@, LAMBDA r : r # la)]

(* adapt_response of Resolved                                              *)
Resolved(i, la, result, index) ==
    LET told1 == [i EXCEPT !.jobs = Append(@, Job("la", la, result))]
        gone  == IF result = "cancelled" /\ type[la] = "Abandon"
                 THEN done_executing(told1, la) ELSE told1
    IN  IF la \in i.invokedReplaying THEN gone
        ELSE [gone EXCEPT !.new = Append(@, Marker(la, index, result))]

(* A result that comes after a cancellation is told once more.             *)
try_resolve_again(i, la, result, index) ==
    IF i.state[la] \in {"RequestSent", "MarkerCommandCreated", "ResultNotified"}
    THEN Resolved([i EXCEPT !.state[la] = "MarkerCommandCreated"], la, result, index)
    ELSE i

(* try_resolve: the machine's HandleResult                                 *)
try_resolve(i, la, result, index) ==
    IF i.state[la] = "RequestSent"
    THEN Resolved([i EXCEPT !.state[la] = "MarkerCommandCreated"], la, result, index)
    ELSE IF i.state[la] \in {"MarkerCommandCreated", "ResultNotified", "MarkerCommandRecorded"}
    THEN i
    ELSE Failed(i, "InvalidTransition")

(* try_resolve_with_dat: the machine's HandleKnownResult                   *)
try_resolve_with_dat(i, dat) ==
    IF i.state[dat.la] = "WaitingResolveFromMarkerLookAhead"
    THEN Resolved([i EXCEPT !.state[dat.la] =
                                "ResolvedFromMarkerLookAheadWaitingMarkerEvent"],
                  dat.la, dat.result, dat.index)
    ELSE Failed(i, "InvalidTransition")

(* local_resolution                                                        *)
local_resolution(i, r) ==
    IF i.state[r.la] = "None" THEN Failed(i, "NoMachine")
    ELSE done_executing(try_resolve(i, r.la, r.result, i.index), r.la)

(* A result that comes between tasks is applied at once.                   *)
notify_between_tasks(i, r) ==
    IF i.awaitingCompletion
    THEN [i EXCEPT !.deferred = Append(@, r)] ELSE local_resolution(i, r)

(* notify_of_local_result                                                  *)
notify_of_local_result(i, r) ==
    IF i.awaitingCompletion \/ i.awaitingWft
    THEN [i EXCEPT !.deferred = Append(@, r)] ELSE local_resolution(i, r)

apply_deferred_local_resolutions(i) ==
    IF i.awaitingCompletion \/ i.awaitingWft THEN i
    ELSE FoldLeft(local_resolution, [i EXCEPT !.deferred = <<>>], i.deferred)

---------------------------------------------------------------------------
(* Resolutions found by looking ahead.                                     *)

is_held(i, item) == item.index > i.index

(* apply_local_activity_peeked_resolutions: the front items whose activity *)
(* is scheduled and, unless include_held, whose activation has come.       *)
apply_peeked(i, include_held) ==
    LET Applies(k) == /\ i.state[i.preres[k].la] # "None"
                      /\ include_held \/ ~is_held(i, i.preres[k])
        ResolveFirst(n) ==
            FoldLeft(try_resolve_with_dat,
                     [i EXCEPT !.preres = SubSeq(@, n + 1, Len(@)),
                               !.released = @ \/ \E k \in 1..n : is_held(i, i.preres[k])],
                     SubSeq(i.preres, 1, n))
    IN  ResolveFirst(Max({0} \cup { k \in 1..Len(i.preres) : \A j \in 1..k : Applies(j) }))

release_held_if_idle(i) == IF i.jobs = <<>> THEN apply_peeked(i, TRUE) ELSE i

(* A look-ahead that only serves the activities lang has already started.  *)
PeekScheduled(i, marker) ==
    IF i.state[marker.la] = "WaitingResolveFromMarkerLookAhead"
    THEN apply_peeked([i EXCEPT !.preres = Append(@, marker)], FALSE)
    ELSE i

(* The look-ahead's treatment of one marker.                               *)
Peek(i, marker) ==
    IF i.state[marker.la] \in {"None", "WaitingResolveFromMarkerLookAhead"}
    THEN apply_peeked([i EXCEPT !.preres = Append(@, marker)], FALSE)
    ELSE i

(* process_machine_responses of RequestCancelLocalActivity                 *)
RequestCancel(i, la) ==
    LET known == { k \in 1..Len(i.preres) : i.preres[k].la = la }
    IN  IF \E k \in known : is_held(i, i.preres[k]) THEN i
        ELSE IF known # {}
        THEN try_resolve_with_dat([i EXCEPT !.preres = RemoveAt(@, Min(known))],
                                  i.preres[Min(known)])
        ELSE IF Contains(i.requests, la)
        THEN try_resolve([i EXCEPT !.requests = Remove(@, la)], la, "cancelled", i.index)
        ELSE [i EXCEPT !.cancels = @ \cup {la}]

(* A machine that waits for its marker cannot be cancelled.                *)
CancelUnlessWaiting(i, la) ==
    IF i.state[la] \in {"RequestSent", "MarkerCommandRecorded"} THEN RequestCancel(i, la)
    ELSE Failed(i, "InvalidTransition")

(* LocalActivityMachine::cancel                                            *)
Cancel(i, la) ==
    LET s == i.state[la]
        NoWait == type[la] \in {"TryCancel", "Abandon"}
    IN  IF s \in {"MarkerCommandCreated", "ResultNotified", "None"} THEN Failed(i, "InvalidTransition")
        ELSE IF s = "RequestSent" /\ NoWait
        THEN LET moved == [i EXCEPT !.state[la] = "MarkerCommandCreated"]
             IN  Resolved(IF type[la] = "TryCancel" THEN RequestCancel(moved, la) ELSE moved,
                          la, "cancelled", i.index)
        ELSE IF s = "MarkerCommandRecorded" /\ type[la] = "Abandon" THEN i
        ELSE RequestCancel(i, la)

(* new_local_activity                                                      *)
Schedule(i, la) ==
    IF i.replaying
    THEN [i EXCEPT !.state[la] = "WaitingResolveFromMarkerLookAhead",
                   !.invokedReplaying = @ \cup {la}]
    ELSE [i EXCEPT !.state[la] = "RequestSent", !.requests = Append(@, la)]

(* encountered_non_replay_wft                                              *)
encountered_non_replay_wft(i, la) ==
    IF i.state[la] = "WaitingResolveFromMarkerLookAhead"
    THEN [i EXCEPT !.state[la] = "RequestSent",
                   !.invokedReplaying = @ \ {la},
                   !.requests = Append(@, la)]
    ELSE i

---------------------------------------------------------------------------
(* Applying history.                                                       *)

(* handle_command_event for a local activity's marker                      *)
MarkerRecorded(i, marker) ==
    LET s == i.state[marker.la]
    IN  IF s = "ResolvedFromMarkerLookAheadWaitingMarkerEvent"
        THEN [i EXCEPT !.state[marker.la] = "MarkerCommandRecorded"]
        ELSE IF s # "ResultNotified" THEN Failed(i, "MarkerInWrongState")
        ELSE IF i.commands = <<>> THEN Failed(i, "NoCommandForEvent")
        ELSE IF Head(i.commands).la # marker.la \/ Head(i.commands).result # marker.result
        THEN Failed(i, "MarkerDoesNotMatch")
        ELSE [i EXCEPT !.state[marker.la] = "MarkerCommandRecorded", !.commands = Tail(@)]

(* The loop body of apply_next_wft_from_history, with handle_event and     *)
(* handle_non_stateful_event.                                              *)
HandleEvent(i, id, has_final_event) ==
    LET e    == i.history[id]
        live == /\ has_final_event
                /\ id > PreviousStarted(i.history)
                /\ e.type \notin {"Completed", "Marker"}
        r    == [i EXCEPT !.replaying = @ /\ ~live]
    IN  CASE e.type = "Exec"   -> [r EXCEPT !.jobs = Append(@, Job("init", 0, "none"))]
          [] e.type = "Signal" -> [r EXCEPT !.jobs = Append(@, Job("signal", 0, "none"))]
          [] e.type = "Marker" -> MarkerRecorded(r, e)
          [] OTHER             -> r

(* The last event of the sequence that follows the ones already taken.     *)
NextSequenceEnd(i) ==
    i.started + find_end_index_of_next_wft_seq(SubSeq(i.history, i.started + 1, Len(i.history)))

(* The events up to end; a sequence that is not empty resets the index     *)
(* (wft_applied).                                                          *)
ApplySequence(i, end) ==
    LET begun == IF end = i.started THEN [i EXCEPT !.replaying = FALSE]
                 ELSE [i EXCEPT !.index = 0, !.started = end]
        Apply(j, id) == HandleEvent(j, id, end = Len(i.history))
    IN  FoldLeft(Apply, begun, [k \in 1..(end - i.started) |-> i.started + k])

(* peek_next_wft_sequence: the markers of the sequence after this one.     *)
LookAhead(i) ==
    FoldLeft(Peek, i, SelectSeq(SubSeq(i.history, i.started + 1, NextSequenceEnd(i)),
                                LAMBDA e : e.type = "Marker"))

StartUnlessReplaying(i) ==
    IF i.replaying THEN i
    ELSE FoldLeft(encountered_non_replay_wft, i, [la \in Las |-> la])

apply_next_wft_from_history(i) ==
    StartUnlessReplaying(release_held_if_idle(LookAhead(ApplySequence(i, NextSequenceEnd(i)))))

RECURSIVE apply_next_task_if_ready(_)
apply_next_task_if_ready(i) ==
    IF i.jobs # <<>> THEN i
    ELSE LET GoOn(next) == IF next.started = i.started \/ ~next.replaying THEN next
                           ELSE apply_next_task_if_ready(next)
         IN  GoOn(apply_next_wft_from_history(i))

(* get_next_activation, before the jobs are drained                        *)
get_next_activation(i) == IF i.jobs = <<>> THEN apply_next_wft_from_history(i) ELSE i

(* WorkflowManager::new_work_from_server                                   *)
new_work_from_server(i, h) ==
    LET applied == apply_next_wft_from_history(
                       [i EXCEPT !.history = h, !.replaying = PreviousStarted(h) > 0])
    IN  get_next_activation(
            apply_deferred_local_resolutions([applied EXCEPT !.awaitingWft = FALSE]))

---------------------------------------------------------------------------
(* Completing an activation.                                               *)

(* handle_driven_results for one command of lang                           *)
HandleCommand(i, c) == IF c.op = "schedule" THEN Schedule(i, c.la) ELSE Cancel(i, c.la)

prepare_commands(i) ==
    [i EXCEPT !.commands = @ \o i.new,
              !.new = <<>>,
              !.state = [la \in Las |-> IF \E k \in 1..Len(i.new) : i.new[k].la = la
                                       THEN "ResultNotified" ELSE @[la]]]

iterate_machines(i, cmds) ==
    prepare_commands(release_held_if_idle(
        apply_peeked(FoldLeft(HandleCommand, i, cmds), FALSE)))

(* push_commands_and_iterate and apply_next_task_if_ready                  *)
Completed(i, cmds) ==
    apply_next_task_if_ready(apply_deferred_local_resolutions(
        [iterate_machines(i, cmds) EXCEPT !.awaitingCompletion = FALSE]))

(* drain_queued_local_activities                                           *)
Drained(i) ==
    [i EXCEPT !.cancels = {}, !.requests = <<>>, !.executing = @ \cup ToSet(i.requests)]

Sink(i) ==
    /\ told' = told \cup (i.cancels \cap running)
    /\ running' = running \cup ToSet(i.requests)

---------------------------------------------------------------------------
(* Lang                                                                    *)

Op(op, la) == [op |-> op, la |-> la]

(* What lang has done, and been told, before it answers the activation it  *)
(* holds.                                                                  *)
Story == log \o recent
Asked(op) == { la \in Las : \E k \in 1..(pos - 1) : Contains(Story[k].cmds, Op(op, la)) }
Told(jobs) == { jobs[k].la : k \in 1..Len(jobs) }
Informed == Told(act) \cup UNION { Told(Story[k].jobs) : k \in 1..(pos - 1) }

(* Lang numbers its local activities in the order it starts them, and      *)
(* cancels one at most once, before it has heard of its result.            *)
Answers ==
    LET ops == { Op(op, la) : op \in {"schedule", "cancel"}, la \in Las }
        Before(cmds, k, op) == Asked(op) \cup { la \in Las : \E j \in 1..(k - 1) : cmds[j] = Op(op, la) }
        Sound(cmds, k) ==
            LET c == cmds[k]
            IN  IF c.op = "schedule" THEN c.la = Cardinality(Before(cmds, k, "schedule")) + 1
                ELSE c.la \in Before(cmds, k, "schedule") \ (Informed \cup Before(cmds, k, "cancel"))
    IN  { cmds \in UNION { [1..n -> ops] : n \in 0..MaxCommands } :
            \A k \in 1..Len(cmds) : Sound(cmds, k) }

---------------------------------------------------------------------------
(* The run and the server.                                                 *)

(* get_wf_activation.  Once replay is over lang may see something new      *)
(* where tasks that recorded no command had shown it something else; what  *)
(* it did then is forgotten.                                               *)
Activate(i) ==
    LET same == pos < Len(log) /\ i.jobs = log[pos + 1].jobs
    IN  /\ phase' = "lang"
        /\ act' = i.jobs
        /\ m' = [i EXCEPT !.jobs = <<>>, !.index = @ + 1, !.awaitingCompletion = TRUE]
        /\ pos' = pos + 1
        /\ matches' = IF same \/ ~i.replaying THEN "same"
                      ELSE IF pos < Len(log) /\ IsPermutation(i.jobs, log[pos + 1].jobs)
                      THEN "reordered" ELSE "different"
        /\ log' = IF same \/ i.replaying \/ pos >= Len(log) THEN log ELSE SubSeq(log, 1, pos)

Signals(n) == [k \in 1..n |-> Event("Signal")]

(* The server's part of a completed task.  The next task, if there is one, *)
(* starts at once and is returned (return_new_workflow_task).              *)
Record(commands, force_new_wft) ==
    /\ history' = history \o <<Event("Completed")>> \o commands \o Signals(buffered)
                  \o (IF force_new_wft \/ buffered > 0
                      THEN <<Event("Scheduled"), Event("Started")>> ELSE <<>>)
    /\ buffered' = 0

(* ReportWFTSuccess; answered is lang's part in the task.                  *)
Report(i, force_new_wft, answered) ==
    /\ Record(i.commands, force_new_wft)
    /\ phase' = "idle"
    /\ act' = <<>>
    /\ m' = [i EXCEPT !.awaitingWft = TRUE]
    /\ log' = log \o answered
    /\ recent' = <<>>
    /\ UNCHANGED <<pos, matches>>

(* What becomes of the task once the machines are done; d is drained.      *)
Settle(d, auto, answered) ==
    LET heartbeat == (auto /\ waiting # "no") \/ waiting = "pending"
        KeepsTask == /\ recent' = answered
                     /\ UNCHANGED <<history, buffered>>
    IN  /\ waiting' = IF outstanding_la_count(d) = 0 THEN "no"
                      ELSE IF heartbeat THEN "pending" ELSE "yes"
        /\ IF d.jobs # <<>> THEN Activate(d) /\ KeepsTask
           ELSE IF outstanding_la_count(d) = 0
           THEN Report(d, auto /\ waiting # "no", answered)
           ELSE IF heartbeat THEN Report(d, TRUE, answered)
           ELSE /\ phase' = "waiting"
                /\ act' = <<>>
                /\ m' = d
                /\ KeepsTask
                /\ UNCHANGED <<log, pos, matches>>

(* _process_completion, of lang's completion or of an autocompletion       *)
ProcessCompletion(i, cmds, auto, answered) ==
    LET Finish(done) == Sink(done) /\ Settle(Drained(done), auto, answered)
    IN  Finish(Completed(i, cmds))

Stays(i) ==
    /\ m' = i
    /\ UNCHANGED <<history, buffered, phase, act, told, log, recent, pos, matches>>

---------------------------------------------------------------------------
(* Actions                                                                 *)

Init ==
    /\ type \in [Las -> Types]
    /\ history = <<Event("Exec"), Event("Scheduled")>>
    /\ buffered = 0
    /\ m = NoInstance
    /\ phase = "idle" /\ act = <<>> /\ waiting = "no"
    /\ running = {} /\ told = {}
    /\ log = <<>> /\ recent = <<>> /\ pos = 0 /\ matches = "same"
    /\ bounds = [signals |-> MaxSignals, heartbeats |-> MaxHeartbeats, losses |-> MaxLosses]

TaskStarted == Last(history).type = "Started"
TaskScheduled ==
    \E k \in 1..Len(history) : /\ history[k].type = "Scheduled"
                               /\ \A j \in (k + 1)..Len(history) : history[j].type = "Signal"

(* _incoming_wft: the task goes to the cached instance, or to a new one.   *)
IncomingWft ==
    LET h == IF TaskStarted THEN history ELSE Append(history, Event("Started"))
        i == IF Cached THEN new_work_from_server(m, h) ELSE get_next_activation(NewInstance(h))
        w == IF waiting = "pending" THEN "yes" ELSE waiting
    IN  /\ phase = "idle"
        /\ TaskStarted \/ TaskScheduled
        /\ UNCHANGED <<type, bounds>>
        /\ IF i.jobs # <<>>
           THEN /\ Activate(i)
                /\ history' = h
                /\ waiting' = w
                /\ UNCHANGED <<buffered, running, told, recent>>
           ELSE /\ history' = h
                /\ waiting' = w
                /\ phase' = IF outstanding_la_count(i) > 0 /\ w = "yes" THEN "waiting" ELSE "auto"
                /\ m' = i
                /\ UNCHANGED <<buffered, running, told, act, log, recent, pos, matches>>

(* An autocompletion, which lang never sees.                               *)
Autocomplete ==
    /\ phase = "auto"
    /\ ProcessCompletion(m, <<>>, TRUE, recent)
    /\ UNCHANGED <<type, bounds>>

LangCompletes ==
    /\ phase = "lang"
    /\ IF pos <= Len(log)
       THEN ProcessCompletion(m, log[pos].cmds, FALSE, recent)
       ELSE \E cmds \in Answers :
              ProcessCompletion(m, cmds, FALSE,
                                Append(recent, [jobs |-> act, cmds |-> cmds]))
    /\ UNCHANGED <<type, bounds>>

(* _local_resolution: the result of a local activity arrives.              *)
LocalResult(la, result) ==
    LET i == notify_of_local_result(m, [la |-> la, result |-> result])
    IN  /\ la \in running
        /\ result = "cancelled" => la \in told
        /\ running' = running \ {la}
        /\ IF phase # "waiting" \/ (i.jobs = <<>> /\ outstanding_la_count(i) > 0)
           THEN Stays(i) /\ UNCHANGED waiting
           ELSE IF i.jobs # <<>>
           THEN Activate(i) /\ UNCHANGED <<history, buffered, told, recent, waiting>>
           ELSE /\ phase' = "auto"
                /\ waiting' = "no"
                /\ m' = i
                /\ UNCHANGED <<history, buffered, act, told, log, recent, pos, matches>>
        /\ UNCHANGED <<type, bounds>>

(* heartbeat_timeout                                                       *)
Heartbeat ==
    /\ waiting = "yes" /\ phase \in {"lang", "waiting"}
    /\ bounds.heartbeats > 0
    /\ bounds' = [bounds EXCEPT !.heartbeats = @ - 1]
    /\ waiting' = "pending"
    /\ phase' = IF phase = "waiting" THEN "auto" ELSE phase
    /\ UNCHANGED <<type, history, buffered, m, act, running, told, log, recent, pos, matches>>

(* The server records a signal, after the commands of a task that is open. *)
Signal ==
    /\ bounds.signals > 0
    /\ bounds' = [bounds EXCEPT !.signals = @ - 1]
    /\ IF TaskStarted THEN buffered' = buffered + 1 /\ UNCHANGED history
       ELSE /\ history' = history \o Signals(1)
                          \o (IF TaskScheduled THEN <<>> ELSE <<Event("Scheduled")>>)
            /\ UNCHANGED buffered
    /\ UNCHANGED <<type, m, phase, act, waiting, running, told, log, recent, pos, matches>>

InstanceGone ==
    /\ Cached
    /\ bounds.losses > 0
    /\ bounds' = [bounds EXCEPT !.losses = @ - 1]
    /\ m' = NoInstance
    /\ phase' = "idle" /\ act' = <<>> /\ waiting' = "no"
    /\ running' = {} /\ told' = {}
    /\ recent' = <<>> /\ pos' = 0
    /\ UNCHANGED <<type, matches>>

(* The worker dies, or evicts a run that has nothing to report: a task     *)
(* that was open times out.                                                *)
Lose ==
    /\ InstanceGone
    /\ IF ~TaskStarted THEN UNCHANGED <<history, buffered>>
       ELSE /\ history' = history \o <<Event("TimedOut")>> \o Signals(buffered)
                          \o <<Event("Scheduled")>>
            /\ buffered' = 0
    /\ UNCHANGED log

(* A run that waits for local activities is evicted and reports what its   *)
(* earlier activations produced.                                           *)
Evict ==
    /\ InstanceGone
    /\ phase = "waiting" /\ m.commands # <<>>
    /\ Record(m.commands, TRUE)
    /\ log' = log \o recent

(* Nothing is said of a run whose replay has gone astray.                  *)
Next ==
    /\ matches = "same" /\ m.error = "none"
    /\ \/ IncomingWft \/ Autocomplete \/ LangCompletes \/ Heartbeat \/ Signal \/ Lose \/ Evict
       \/ \E la \in Las, result \in {"ok", "cancelled"} : LocalResult(la, result)

Spec == Init /\ [][Next]_vars

---------------------------------------------------------------------------
(* Properties                                                              *)

(* Replay shows lang the activations it saw, job by job, in their order.   *)
ReplayMatches == matches = "same"

(* The jobs of an activation are in the order in which they were shown.    *)
OrderKept == matches # "reordered"

(* The tasks being replayed as one include one that recorded nothing and   *)
(* was followed at once by another: a heartbeat.                           *)
MergedHeartbeat ==
    \E k \in 1..(m.started - 3) :
        /\ history[k].type = "Started"
        /\ history[k + 1].type = "Completed"
        /\ history[k + 2].type = "Scheduled"
        /\ \A j \in (k + 3)..m.started : history[j].type \notin {"Completed", "Marker"}

(* Replay puts every result into the activation that had it, except after  *)
(* a heartbeat that recorded nothing, and only a cancellation in lang's    *)
(* answer before changes the order of the jobs within one.                 *)
OnlyKnownDivergences ==
    /\ matches = "different" => MergedHeartbeat
    /\ matches = "reordered" => \E la \in Las : Contains(log[pos - 1].cmds, Op("cancel", la))

(* No machine is driven out of its table, and every marker finds its       *)
(* machine and its command.                                                *)
ReplayAccepted == m.error = "none"

(* History has one marker for every result that completed tasks have shown *)
(* lang, with that result, and no other marker.                            *)
RecordedAsDelivered ==
    \A la \in Las :
        LET markers == SelectSeq(history, LAMBDA e : e.type = "Marker" /\ e.la = la)
            shown   == SelectSeq(FlattenSeq([k \in 1..Len(log) |-> log[k].jobs]),
                                 LAMBDA j : j.la = la)
        IN  /\ Len(markers) = Len(shown) /\ Len(shown) <= 1
            /\ \A k \in 1..Len(shown) : markers[k].result = shown[k].result

(* A local activity whose result is in history is never executed again.    *)
NotExecutedAgain ==
    [][\A la \in running' \ running :
          ~\E k \in 1..Len(history') : history'[k].type = "Marker" /\ history'[k].la = la]_vars

(* While the run waits, every local activity that lang has cancelled and   *)
(* that still runs was told so.                                            *)
CancelReachesLa ==
    phase = "waiting" =>
        \A la \in running : (\E k \in 1..pos : Contains(Story[k].cmds, Op("cancel", la)))
                               /\ type[la] = "WaitCancellationCompleted" => la \in told
=============================================================================
