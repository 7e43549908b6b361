--------------------------- MODULE CommandMachines ---------------------------
(***************************************************************************)
(* The state machines behind a workflow's commands (timers, activities,    *)
(* child workflows, nexus operations, external signals and cancellations,  *)
(* updates) and the driver of workflow_machines.rs that feeds them lang's  *)
(* commands and the server's events.  A machine is a record: its kind and  *)
(* cancellation type, the state of its fsm, the booleans of its shared     *)
(* state (`flags`), the sequence number lang knows its operation by, and   *)
(* whether core made it (the cancellation of a child).  The fsm! tables    *)
(* are sets of transitions [from, on, to, does].                           *)
(*                                                                         *)
(* Lang is the Rust SDK's workflow context: it registers an unblocker for  *)
(* each thing it waits for and cancels an operation at most once.  The     *)
(* server is external: it records the events of the commands it is sent,   *)
(* in their order, ahead of what it buffered during the task.              *)
(***************************************************************************)
EXTENDS Integers, FiniteSets, FiniteSetsExt, SequencesExt

CONSTANTS Programs,    \* the sequences of operations a workflow may run
          MaxSignals   \* how often the workflow is signalled

ASSUME MaxSignals \in Nat

VARIABLES program, machines, commands, by_event, jobs, error,  \* core
          pending, cancelled, updates, answer, issued,         \* lang
          entities, events, signals, phase                     \* server, task

core == <<machines, commands, by_event, jobs, error>>
lang == <<pending, cancelled, updates, answer, issued>>
server == <<entities, events, signals>>
vars == <<program, core, lang, server, phase>>

---------------------------------------------------------------------------
(* The fsm! tables.                                                        *)

T(from, on, to, does) == [from |-> from, on |-> on, to |-> to, does |-> does]

Timer ==
    { T("StartCommandCreated", "Command", "StartCommandCreated", <<>>),
      T("StartCommandCreated", "Started", "StartCommandRecorded", <<>>),
      T("StartCommandCreated", "Cancel", "Canceled", <<"cancelled_before_sent">>),
      T("StartCommandRecorded", "Fired", "Fired", <<"resolve">>),
      T("StartCommandRecorded", "Cancel", "CancelTimerCommandCreated", <<"issue_cancel">>),
      T("CancelTimerCommandCreated", "Cancel", "CancelTimerCommandCreated", <<>>),
      T("CancelTimerCommandCreated", "CommandCancel", "CancelTimerCommandSent", <<>>),
      T("CancelTimerCommandSent", "Canceled", "Canceled", <<>>),
      T("Canceled", "Cancel", "Canceled", <<>>),
      T("Fired", "Cancel", "Fired", <<>>) }

notify_never(type) == <<>>

(* What a machine tells lang once the activity it asked to cancel closes.  *)
notify_if_not_already_cancelled(type) ==
    IF type = "TryCancel" THEN <<>> ELSE <<"resolve">>

cancel_without_asking(type) ==
    IF type = "WaitCancellationCompleted" THEN <<"issue_cancel">> ELSE <<"resolve">>

machine_responses_from_cancel_request(type) ==
    IF type = "WaitCancellationCompleted" THEN <<"issue_cancel">>
    ELSE <<"issue_cancel", "resolve">>

Activity(type) ==
    LET late == notify_if_not_already_cancelled(type)
        ask  == machine_responses_from_cancel_request(type)
    IN  { T("ScheduleCommandCreated", "Command", "ScheduleCommandCreated", <<>>),
          T("ScheduleCommandCreated", "Scheduled", "ScheduledEventRecorded", <<>>),
          T("ScheduleCommandCreated", "Cancel", "Canceled",
            <<"cancelled_before_sent", "resolve">>),
          T("ScheduledEventRecorded", "Started", "Started", <<>>),
          T("ScheduledEventRecorded", "TimedOut", "TimedOut", <<"resolve">>),
          T("Started", "Completed", "Completed", <<"resolve">>),
          T("Started", "Failed", "Failed", <<"resolve">>),
          T("Started", "TimedOut", "TimedOut", <<"resolve">>),
          T("ScheduledActivityCancelCommandCreated", "CommandCancel",
            "ScheduledActivityCancelCommandCreated", <<>>),
          T("ScheduledActivityCancelCommandCreated", "CancelRequested",
            "ScheduledActivityCancelEventRecorded", <<>>),
          T("ScheduledActivityCancelEventRecorded", "Canceled", "Canceled", late),
          T("ScheduledActivityCancelEventRecorded", "Started",
            "StartedActivityCancelEventRecorded", <<>>),
          T("ScheduledActivityCancelEventRecorded", "TimedOut", "TimedOut", late),
          T("StartedActivityCancelCommandCreated", "CommandCancel",
            "StartedActivityCancelCommandCreated", <<>>),
          T("StartedActivityCancelCommandCreated", "CancelRequested",
            "StartedActivityCancelEventRecorded", <<>>) }
        \cup { T("StartedActivityCancelEventRecorded", e, e, late) :
                 e \in {"Completed", "Failed", "TimedOut", "Canceled"} }
        \cup (IF type = "Abandon"
              THEN { T(s, "Cancel", "Canceled", <<"resolve">>) :
                       s \in {"ScheduledEventRecorded", "Started"} }
                   \cup { T("Canceled", e, "Canceled", <<>>) :
                            e \in {"Started", "Completed"} }
              ELSE { T("ScheduledEventRecorded", "Cancel",
                       "ScheduledActivityCancelCommandCreated", ask),
                     T("Started", "Cancel", "StartedActivityCancelCommandCreated", ask) })

resolves_immediately_on_cancel(type) == type \in {"Abandon", "TryCancel"}

IssueCancelAfterStarted(type) ==
    (IF type = "Abandon" THEN <<>> ELSE <<"cancel_external">>)
    \o (IF resolves_immediately_on_cancel(type) THEN <<"resolve">> ELSE <<>>)

ChildWorkflow(type, flags) ==
    LET ask     == IssueCancelAfterStarted(type)
        Gone(s) == IF resolves_immediately_on_cancel(type) THEN "Cancelled" ELSE s
    IN  { T("StartCommandCreated", "Command", "StartCommandCreated", <<>>),
          T("StartCommandCreated", "Initiated", "StartEventRecorded", <<>>),
          T("StartCommandCreated", "Cancel", "Cancelled",
            <<"cancelled_before_sent", "start_failed">>),
          T("StartEventRecorded", "Started", "Started", <<"started">>),
          T("StartEventRecorded", "StartFailed", "StartFailed", <<"start_failed">>),
          T("StartEventRecorded", "Cancel", Gone("StartEventRecorded"), ask),
          T("Started", "Completed", "Completed", <<"resolve">>),
          T("Started", "Failed", "Failed", <<"resolve">>),
          T("Started", "TimedOut", "TimedOut", <<"resolve">>),
          T("Started", "Canceled", "Cancelled", <<"seen_cancelled_event", "resolve">>),
          T("Started", "Terminated", "Terminated", <<"resolve">>),
          T("Started", "Cancel", Gone("Started"), ask) }
        \cup { T("Cancelled", e, "Cancelled", <<>>) :
                 e \in {"Cancel", "Started", "StartFailed"} }
        \cup { T("Cancelled", "Canceled", "Cancelled", <<"seen_cancelled_event">>) :
                 x \in {"seen_cancelled_event"} \ flags }
        \cup { T("Cancelled", e, "Cancelled", <<>>) :
                 e \in IF resolves_immediately_on_cancel(type)
                       THEN {"Completed", "Failed", "TimedOut", "Terminated"} ELSE {} }
        \cup { T(s, "Cancel", s, <<>>) :
                 s \in {"Failed", "StartFailed", "TimedOut", "Completed"} }

IssueCancel(type) ==
    (IF type = "Abandon" THEN <<>> ELSE <<"issue_cancel">>)
    \o (IF resolves_immediately_on_cancel(type) THEN <<"resolve">> ELSE <<>>)

on_issue_cancel(s, to, type, flags) ==
    IF "cancel_sent" \in flags THEN T(s, "Cancel", s, <<>>)
    ELSE T(s, "Cancel", to, <<"cancel_sent">> \o IssueCancel(type))

NexusOperation(type, flags) ==
    LET Requested == type = "WaitCancellationRequested"
    IN  { T("ScheduleCommandCreated", "Command", "ScheduleCommandCreated", <<>>),
          T("ScheduleCommandCreated", "Scheduled", "ScheduledEventRecorded", <<>>),
          T("ScheduleCommandCreated", "Cancel", "Cancelled",
            <<"cancelled_before_sent", "start_failed">>),
          on_issue_cancel("ScheduledEventRecorded", "ScheduledEventRecorded", type, flags),
          T("ScheduledEventRecorded", "Completed", "Completed", <<"started", "resolve">>),
          T("ScheduledEventRecorded", "Failed", "Failed", <<"start_failed">>),
          T("ScheduledEventRecorded", "Canceled", "Cancelled", <<"start_failed">>),
          T("ScheduledEventRecorded", "TimedOut", "TimedOut", <<"start_failed">>),
          T("ScheduledEventRecorded", "Started", "Started", <<"started">>),
          on_issue_cancel("Started",
            IF resolves_immediately_on_cancel(type) THEN "Cancelled" ELSE "Started",
            type, flags),
          T("Started", "Completed", "Completed", <<"resolve">>),
          T("Started", "Failed", "Failed", <<"resolve">>),
          T("Started", "Canceled", "Cancelled", <<"resolve">>),
          T("Started", "TimedOut", "TimedOut", <<"resolve">>),
          T("Started", "CancelRequestCompleted",
            IF Requested THEN "Cancelled" ELSE "Started",
            IF Requested THEN <<"resolve">> ELSE <<>>),
          T("Started", "CancelRequestFailed", "Started",
            IF Requested THEN <<"resolve">> ELSE <<>>) }
        \cup { T(s, e, s, <<>>) : s \in {"ScheduledEventRecorded", "Started", "Cancelled"},
                                  e \in {"CommandCancel", "CancelRequested"} }
        \cup { T("Cancelled", e, "Cancelled", <<>>) :
                 e \in {"Cancel", "Canceled", "CancelRequestCompleted",
                        "CancelRequestFailed"} }
        \cup { T("Cancelled", e, "Cancelled", <<>>) :
                 e \in IF type = "Abandon" THEN {} ELSE {"Completed", "Failed", "TimedOut"} }
        \cup { T(s, e, s, <<>>) : s \in {"Completed", "Failed", "TimedOut"},
                 e \in {"Cancel", "CancelRequestCompleted", "CancelRequestFailed"} }

SignalExternal ==
    { T("CommandCreated", "Command", "CommandCreated", <<>>),
      T("CommandCreated", "Cancel", "Cancelled", <<"cancelled_before_sent", "resolve">>),
      T("CommandCreated", "Initiated", "CommandRecorded", <<>>),
      T("CommandRecorded", "Cancel", "CommandRecorded", <<>>),
      T("CommandRecorded", "Signaled", "Signaled", <<"resolve">>),
      T("CommandRecorded", "Failed", "Failed", <<"resolve">>),
      T("Cancelled", "Cancel", "Cancelled", <<>>),
      T("Signaled", "Cancel", "Signaled", <<>>) }

CancelExternal ==
    { T("CommandCreated", "Command", "CommandCreated", <<>>),
      T("CommandCreated", "Initiated", "CommandRecorded", <<>>),
      T("CommandRecorded", "CancelRequested", "CancelRequested", <<"resolve">>),
      T("CommandRecorded", "Failed", "RequestCancelFailed", <<"resolve">>) }

Update ==
    { T("RequestInitiated", "Accept", "Accepted", <<"accept">>),
      T("RequestInitiated", "Reject", "Rejected", <<>>),
      T("Accepted", "Complete", "CompletedImmediately", <<"complete">>),
      T("Accepted", "Message", "AcceptCommandCreated", <<>>),
      T("AcceptCommandCreated", "UpdateAccepted", "AcceptCommandRecorded", <<>>),
      T("AcceptCommandCreated", "Complete", "CompletedImmediatelyAcceptCreated", <<"complete">>),
      T("AcceptCommandRecorded", "Complete", "Completed", <<"complete">>),
      T("Completed", "Message", "CompletedCommandCreated", <<>>),
      T("CompletedCommandCreated", "UpdateCompleted", "CompletedCommandRecorded", <<>>),
      T("CompletedImmediately", "Message", "CompletedImmediatelyAcceptCreated", <<>>),
      T("CompletedImmediatelyAcceptCreated", "Message",
        "CompletedImmediatelyCompleteCreated", <<>>),
      T("CompletedImmediatelyCompleteCreated", "UpdateAccepted",
        "CompletedCommandCreated", <<>>) }

(* Upserts of search attributes and changes of properties, which lang does *)
(* not wait for.                                                           *)
UpsertSearchAttributes ==
    { T("Created", "Command", "CommandIssued", <<>>),
      T("CommandIssued", "Recorded", "Done", <<>>) }

Transitions(m) ==
    CASE m.kind = "timer" -> Timer
      [] m.kind = "activity" -> Activity(m.type)
      [] m.kind = "child" -> ChildWorkflow(m.type, m.flags)
      [] m.kind = "nexus" -> NexusOperation(m.type, m.flags)
      [] m.kind = "signal" -> SignalExternal
      [] m.kind = "cancel_external" -> CancelExternal
      [] m.kind = "update" -> Update
      [] m.kind = "upsert" -> UpsertSearchAttributes

(* A new machine's state, past the Schedule its constructor feeds it.      *)
NewState == [timer |-> "StartCommandCreated", activity |-> "ScheduleCommandCreated",
             child |-> "StartCommandCreated", nexus |-> "ScheduleCommandCreated",
             signal |-> "CommandCreated", cancel_external |-> "CommandCreated",
             update |-> "RequestInitiated", upsert |-> "Created"]

(* The event the server records for a machine's first command.             *)
FirstEvent == [timer |-> "Started", activity |-> "Scheduled", child |-> "Initiated",
               nexus |-> "Scheduled", signal |-> "Initiated",
               cancel_external |-> "Initiated", upsert |-> "Recorded"]

(* The states no transition of the fsm! leaves, whatever it answers there. *)
FinalStates ==
    [timer |-> {}, activity |-> {"Completed", "Failed", "TimedOut"}, child |-> {"Terminated"},
     nexus |-> {}, signal |-> {"Failed"},
     cancel_external |-> {"CancelRequested", "RequestCancelFailed"},
     update |-> {"Rejected", "CompletedCommandRecorded"}, upsert |-> {"Done"}]

is_final_state(m) == m.state \in FinalStates[m.kind]

was_cancelled_before_sent_to_server(m) == "cancelled_before_sent" \in m.flags

---------------------------------------------------------------------------
(* The driver.  `d` is a WorkflowMachines: core's variables, and the       *)
(* commands of the workflow task that prepare_commands has yet to move.    *)

WorkflowMachines == [machines |-> machines, commands |-> commands, by_event |-> by_event,
                     jobs |-> jobs, error |-> error, current_wf_task_commands |-> <<>>]

Becomes(d) == /\ machines' = d.machines
              /\ commands' = d.commands
              /\ by_event' = d.by_event
              /\ jobs' = d.jobs
              /\ error' = d.error

Fail(d, m, on) ==
    [d EXCEPT !.error = <<[kind |-> m.kind, type |-> m.type, state |-> m.state, on |-> on]>>]

IssueNewCommand(d, i, command, event) ==
    [d EXCEPT !.current_wf_task_commands =
        Append(@, [machine |-> i, command |-> command, event |-> event])]

NewMachine(kind, type, seq, core_created) ==
    [kind |-> kind, type |-> type, seq |-> seq, core |-> core_created,
     state |-> NewState[kind], flags |-> {}, event |-> 0]

add_cmd_to_wf_task(d, m) ==
    IssueNewCommand([d EXCEPT !.machines = Append(@, m)], Len(d.machines) + 1, "Command",
                    FirstEvent[m.kind])

MachineResponse(d, i, response) ==
    CASE response \in {"cancelled_before_sent", "cancel_sent", "seen_cancelled_event"} ->
           [d EXCEPT !.machines[i].flags = @ \cup {response}]
      [] response \in {"started", "start_failed", "resolve", "update"} ->
           IF d.machines[i].core THEN d
           ELSE [d EXCEPT !.jobs = Append(@, [job |-> response, seq |-> d.machines[i].seq])]
      [] response = "issue_cancel" ->
           IssueNewCommand(d, i, "CommandCancel",
             IF d.machines[i].kind = "timer" THEN "Canceled" ELSE "CancelRequested")
      [] response = "accept" -> IssueNewCommand(d, i, "Message", "UpdateAccepted")
      [] response = "complete" -> IssueNewCommand(d, i, "Message", "UpdateCompleted")
      [] response = "cancel_external" ->
           add_cmd_to_wf_task(d, NewMachine("cancel_external", "none", d.machines[i].seq, TRUE))

process_machine_responses(d, i, responses) ==
    FoldLeft(LAMBDA acc, response : MachineResponse(acc, i, response), d, responses)

(* on_event_mut, then what the machine's answer makes the driver do.  An   *)
(* input the machine has no transition for is an error.                    *)
Feed(d, i, on) ==
    LET m  == d.machines[i]
        ts == {t \in Transitions(m) : t.from = m.state /\ t.on = on}
    IN  IF d.error # <<>> THEN d
        ELSE IF ts = {} THEN Fail(d, m, on)
        ELSE LET t == CHOOSE t \in ts : TRUE
             IN  process_machine_responses([d EXCEPT !.machines[i].state = t.to], i, t.does)

get_machine_key(d, seq) ==
    CHOOSE i \in DOMAIN d.machines : d.machines[i].seq = seq /\ ~d.machines[i].core

cancel_closed_too(d, i) == Feed(d, i, "Cancel")

(* cancel_machine!; an activity ignores it in its terminal states.         *)
cancel(d, i) ==
    LET m == d.machines[i]
    IN  IF m.kind = "activity" /\ m.state \in {"Completed", "Canceled", "Failed", "TimedOut"}
        THEN d
        ELSE Feed(d, i, "Cancel")

(* One command of lang's answer.                                           *)
DrivenResult(d, c) ==
    IF d.error # <<>> THEN d
    ELSE CASE c.do = "Start" -> add_cmd_to_wf_task(d, NewMachine(program[c.seq].kind,
                                   program[c.seq].type, c.seq, FALSE))
           [] c.do = "Cancel" -> cancel(d, get_machine_key(d, c.seq))
           [] c.do \in {"Accept", "Reject", "Complete"} ->
                Feed(d, get_machine_key(d, c.seq), c.do)

handle_driven_results(d, results) == FoldLeft(DrivenResult, d, results)

retain_all(d) == d

retain(d) ==
    [d EXCEPT !.commands = SelectSeq(@, LAMBDA c :
        ~was_cancelled_before_sent_to_server(d.machines[c.machine]))]

PrepareCommand(d, c) ==
    IF was_cancelled_before_sent_to_server(d.machines[c.machine]) THEN d
    ELSE LET fed == Feed(d, c.machine, c.command)
         IN  IF fed.error # <<>> THEN fed
             ELSE [fed EXCEPT !.commands = Append(@, c)]

prepare_commands(d) ==
    IF d.error # <<>> THEN d
    ELSE [FoldLeft(PrepareCommand, retain(d), d.current_wf_task_commands)
            EXCEPT !.current_wf_task_commands = <<>>]

iterate_machines(d, results) == prepare_commands(handle_driven_results(d, results))

get_commands == SelectSeq(commands, LAMBDA c : ~is_final_state(machines[c.machine]))

(* The ids a machine compares with those of the event it is fed.           *)
SameName(m, event) ==
    \/ m.seq = event.seq
    \/ <<m.kind, event.type>> \notin {<<"timer", "Fired">>, <<"activity", "Scheduled">>,
                                      <<"child", "Initiated">>}

submachine_handle_event(d, i, event) ==
    IF SameName(d.machines[i], event) THEN Feed(d, i, event.type)
    ELSE Fail(d, d.machines[i], "another")

Uncancelled(d) ==
    {k \in DOMAIN d.commands :
       ~was_cancelled_before_sent_to_server(d.machines[d.commands[k].machine])}

LastCommand(d) == Max(Uncancelled(d))

(* The command an event answers is the first one not cancelled meanwhile.  *)
ConsumedCommand(d) == Min(Uncancelled(d))

handle_command_event(d, event) ==
    IF Uncancelled(d) = {} THEN [d EXCEPT !.error = <<[on |-> event.type]>>]
    ELSE LET k   == ConsumedCommand(d)
             i   == d.commands[k].machine
             fed == submachine_handle_event(
                      [d EXCEPT !.commands = SubSeq(@, k + 1, Len(@))], i, event)
         IN  IF fed.error # <<>> \/ event.id = 0 THEN fed
             ELSE [fed EXCEPT !.machines[i].event = event.id,
                              !.by_event =
                                 IF is_final_state(fed.machines[i]) THEN @
                                 ELSE (event.id :> i) @@ @]

handle_event(d, event) ==
    IF d.error # <<>> THEN d
    ELSE IF event.command THEN handle_command_event(d, event)
    ELSE IF event.id \notin DOMAIN d.by_event
         THEN [d EXCEPT !.error = <<[on |-> event.type]>>]
    ELSE submachine_handle_event(d, d.by_event[event.id], event)

---------------------------------------------------------------------------
(* The server: for each operation it started, an entity with the stage it  *)
(* is in; `cancel` says whether its cancellation was requested or answered.*)

FirstStage == [timer |-> "open", activity |-> "scheduled", child |-> "initiated",
               nexus |-> "scheduled", signal |-> "open", cancel_external |-> "open",
               upsert |-> "closed"]

Event(type, id, seq, command) ==
    [type |-> type, id |-> id, seq |-> seq, command |-> command]

(* What one command of a completed task changes at the server: `s` holds   *)
(* the entities, the events recorded so far and the buffered ones.         *)
Recorded(s, c) ==
    LET m == machines[c.machine]
    IN  CASE c.command = "Command" ->
               [s EXCEPT !.entities = Append(@, [kind |-> m.kind, seq |-> m.seq,
                                                 stage |-> FirstStage[m.kind], cancel |-> "no"]),
                         !.recorded = Append(@, Event(c.event, Len(s.entities) + 1, m.seq, TRUE))]
          [] c.command = "CommandCancel" ->
               [s EXCEPT !.entities[m.event].cancel = "requested",
                         !.entities[m.event].stage = IF m.kind = "timer" THEN "closed" ELSE @,
                         !.buffered = SelectSeq(@, LAMBDA e :
                                        e.id # m.event \/ m.kind # "timer"),
                         !.recorded = Append(@, Event(c.event, 0, m.seq, TRUE))]
          [] c.command = "Message" ->
               [s EXCEPT !.recorded = Append(@, Event(c.event, 0, m.seq, TRUE))]

(* The events an entity may produce next, with the stage they lead to.     *)
Closings(kind) ==
    CASE kind = "activity" -> {"Completed", "Failed", "TimedOut"}
      [] kind = "child" -> {"Completed", "Failed", "TimedOut", "Canceled", "Terminated"}
      [] kind = "nexus" -> {"Completed", "Failed", "TimedOut", "Canceled"}

Outcomes(e) ==
    CASE e.stage = "open" ->
           {<<o, "closed">> : o \in CASE e.kind = "timer" -> {"Fired"}
                                      [] e.kind = "signal" -> {"Signaled", "Failed"}
                                      [] e.kind = "cancel_external" -> {"CancelRequested", "Failed"}}
      [] e.stage = "initiated" -> {<<"Started", "started">>, <<"StartFailed", "closed">>}
      [] e.stage = "scheduled" ->
           {<<"Started", "started">>}
           \cup {<<o, "closed">> : o \in IF e.kind = "nexus" THEN Closings("nexus")
                                         ELSE {"TimedOut"}}
           \cup {<<o, "closed">> : o \in IF e.cancel = "no" THEN {} ELSE {"Canceled"}}
      [] e.stage = "started" ->
           {<<o, "closed">> : o \in Closings(e.kind)}
           \cup {<<o, "closed">> : o \in IF e.cancel = "no" THEN {} ELSE {"Canceled"}}
      [] e.stage = "closed" -> {}

ServerEvent(id) ==
    /\ \E o \in Outcomes(entities[id]) :
          /\ entities' = [entities EXCEPT ![id].stage = o[2]]
          /\ events' = Append(events, Event(o[1], id, entities[id].seq, FALSE))
    /\ UNCHANGED <<program, core, lang, signals, phase>>

(* A nexus handler answers the cancellation of an operation that started.  *)
CancelAnswered(id) ==
    /\ entities[id].kind = "nexus"
    /\ entities[id].cancel = "requested"
    /\ entities[id].stage # "scheduled"
    /\ entities' = [entities EXCEPT ![id].cancel = "answered"]
    /\ \E type \in {"CancelRequestCompleted", "CancelRequestFailed"} :
          events' = Append(events, Event(type, id, entities[id].seq, FALSE))
    /\ UNCHANGED <<program, core, lang, signals, phase>>

---------------------------------------------------------------------------
(* Lang.                                                                   *)

Waits(op) == CASE op.kind \in {"child", "nexus"} -> {"start", "result"}
               [] op.kind = "upsert" -> {}
               [] OTHER -> {"result"}

Push(do, seq) == answer' = Append(answer, [do |-> do, seq |-> seq])

LangStarts ==
    /\ phase = "lang"
    /\ issued < Len(program)
    /\ program[issued + 1].kind # "update"
    /\ issued' = issued + 1
    /\ Push("Start", issued + 1)
    /\ pending' = pending \cup ({issued + 1} \X Waits(program[issued + 1]))
    /\ UNCHANGED <<program, core, cancelled, updates, server, phase>>

(* BaseWorkflowContext::cancel: once for each operation; a timer unblocks  *)
(* itself and is cancelled only while it has not fired.                    *)
LangCancels(seq) ==
    /\ phase = "lang"
    /\ seq <= issued
    /\ program[seq].kind \in {"timer", "activity", "child", "nexus", "signal"}
    /\ seq \notin cancelled
    /\ cancelled' = cancelled \cup {seq}
    /\ IF program[seq].kind = "timer"
       THEN /\ pending' = pending \ {<<seq, "result">>}
            /\ IF <<seq, "result">> \in pending THEN Push("Cancel", seq)
               ELSE UNCHANGED answer
       ELSE /\ Push("Cancel", seq)
            /\ UNCHANGED pending
    /\ UNCHANGED <<program, core, updates, issued, server, phase>>

(* An update's validator accepts or rejects it, then its handler finishes. *)
LangUpdates(seq, do) ==
    /\ phase = "lang"
    /\ updates[seq] = (IF do = "Complete" THEN "running" ELSE "asked")
    /\ updates' = [updates EXCEPT ![seq] = IF do = "Accept" THEN "running" ELSE "done"]
    /\ Push(do, seq)
    /\ UNCHANGED <<program, core, pending, cancelled, issued, server, phase>>

LangAnswers ==
    /\ phase = "lang"
    /\ \A seq \in DOMAIN updates : updates[seq] # "asked"
    /\ LET d == iterate_machines(WorkflowMachines, answer)
       IN  /\ Becomes(d)
           /\ phase' = IF d.error = <<>> THEN "task" ELSE "failed"
    /\ answer' = <<>>
    /\ UNCHANGED <<program, pending, cancelled, updates, issued, server>>

(* What lang's unblockers become as it applies a job: a failed start drops *)
(* the future of the result, whose unblocker stays registered.  Without an *)
(* unblocker apply_resolution panics.                                      *)
Unblocked(waiting, job) ==
    CASE job.job = "started" -> waiting \ {<<job.seq, "start">>}
      [] job.job = "start_failed" ->
           (waiting \ {<<job.seq, "start">>, <<job.seq, "result">>})
           \cup {<<job.seq, "dropped">>}
      [] job.job = "resolve" -> waiting \ {<<job.seq, "result">>, <<job.seq, "dropped">>}
      [] job.job \in {"signal", "update"} -> waiting

apply_resolution(l, job) ==
    [pending |-> Unblocked(l.pending, job),
     panics  |-> IF job.job \in {"signal", "update"} \/ Unblocked(l.pending, job) # l.pending
                 THEN l.panics ELSE Append(l.panics, job.seq)]

(* get_wf_activation drains the jobs into an activation lang applies.      *)
Activate ==
    /\ phase = "task"
    /\ jobs # <<>>
    /\ LET l == FoldLeft(apply_resolution, [pending |-> pending, panics |-> <<>>], jobs)
       IN  /\ pending' = l.pending
           /\ error' = [k \in DOMAIN l.panics |->
                          [kind |-> program[l.panics[k]].kind, type |-> program[l.panics[k]].type,
                           on |-> "unblock"]]
           /\ phase' = IF l.panics = <<>> THEN "lang" ELSE "failed"
    /\ jobs' = <<>>
    /\ updates' = [seq \in DOMAIN updates |->
                     IF \E k \in DOMAIN jobs : jobs[k] = [job |-> "update", seq |-> seq]
                     THEN "asked" ELSE updates[seq]]
    /\ UNCHANGED <<program, machines, commands, by_event, cancelled, answer, issued, server>>

CompleteTask ==
    /\ phase = "task"
    /\ jobs = <<>>
    /\ LET s == FoldLeft(Recorded,
                  [entities |-> entities, recorded |-> <<>>, buffered |-> events], get_commands)
       IN  /\ entities' = s.entities
           /\ events' = s.recorded \o s.buffered
    /\ phase' = "server"
    /\ UNCHANGED <<program, core, lang, signals>>

handle_protocol_message(d, seq) ==
    LET i == Len(d.machines) + 1
    IN  MachineResponse([d EXCEPT !.machines = Append(@, NewMachine("update", "none", seq, FALSE))],
                        i, "update")

(* apply_next_wft_from_history: the events of the task, an update request  *)
(* that comes with it, and a signal, each enough to start the task.        *)
TaskStarts(signalled, update) ==
    /\ phase = "server"
    /\ signalled \/ update \/ \E k \in DOMAIN events : ~events[k].command
    /\ signalled => signals < MaxSignals
    /\ update => issued < Len(program) /\ program[issued + 1].kind = "update"
    /\ LET applied == FoldLeft(handle_event, WorkflowMachines, events)
           asked   == IF update /\ applied.error = <<>>
                      THEN handle_protocol_message(applied, issued + 1) ELSE applied
           d       == IF signalled
                      THEN [asked EXCEPT !.jobs = Append(@, [job |-> "signal", seq |-> 0])]
                      ELSE asked
       IN  /\ Becomes(d)
           /\ phase' = IF d.error = <<>> THEN "task" ELSE "failed"
    /\ events' = <<>>
    /\ signals' = IF signalled THEN signals + 1 ELSE signals
    /\ issued' = IF update THEN issued + 1 ELSE issued
    /\ UNCHANGED <<program, pending, cancelled, updates, answer, entities>>

---------------------------------------------------------------------------
(* A workflow starts with the activation of its first task.                *)
Init ==
    /\ program \in Programs
    /\ machines = <<>>
    /\ commands = <<>>
    /\ by_event = <<>>
    /\ jobs = <<[job |-> "signal", seq |-> 0]>>
    /\ error = <<>>
    /\ pending = {}
    /\ cancelled = {}
    /\ updates = [seq \in DOMAIN program |-> "none"]
    /\ answer = <<>>
    /\ issued = 0
    /\ entities = <<>>
    /\ events = <<>>
    /\ signals = 0
    /\ phase = "task"

Server(id) == phase # "failed" /\ (ServerEvent(id) \/ CancelAnswered(id))

Next ==
    \/ LangStarts
    \/ \E seq \in DOMAIN program : LangCancels(seq)
    \/ \E seq \in DOMAIN program, do \in {"Accept", "Reject", "Complete"} : LangUpdates(seq, do)
    \/ LangAnswers
    \/ Activate
    \/ CompleteTask
    \/ \E signalled, update \in BOOLEAN : TaskStarts(signalled, update)
    \/ \E id \in DOMAIN entities : Server(id)

(* The workflow moves on: lang answers its activation, gets the jobs there *)
(* are, its task is completed, the server starts a task for its events.    *)
(* (Each phase has one action that leaves it.)                             *)
MovesOn ==
    \/ phase = "lang" /\ (\A seq \in DOMAIN updates : updates[seq] # "asked")
                      /\ phase' \in {"task", "failed"}
    \/ phase = "task" /\ phase' = IF jobs = <<>> THEN "server" ELSE "lang"
    \/ phase = "task" /\ jobs # <<>> /\ phase' = "failed"
    \/ phase = "server" /\ (\E k \in DOMAIN events : ~events[k].command)
                        /\ phase' \in {"task", "failed"}

Operations == UNION {DOMAIN p : p \in Programs}
MaxEntities == 2 * Cardinality(Operations)  \* a child and its cancellation

(* Lang answers every activation and validates the updates it is asked     *)
(* for; whatever the server runs ends (timers fire, the rest has timeouts).*)
Fairness ==
    /\ WF_phase(MovesOn)
    /\ \A seq \in Operations : WF_vars(seq \in DOMAIN program /\ LangUpdates(seq, "Accept"))
    /\ \A id \in 1..MaxEntities : WF_vars(id \in DOMAIN entities /\ phase # "failed"
                                          /\ ServerEvent(id))

Spec == Init /\ [][Next]_vars /\ Fairness

---------------------------------------------------------------------------
(* Properties.                                                             *)

(* The inputs some machine refuses although lang and the server may give   *)
(* them: an abandoned activity that fails or times out, an abandoned nexus *)
(* operation that closes, the cancellation of a child that was terminated  *)
(* and of a signal that failed.                                            *)
Refusals ==
    {[kind |-> "activity", type |-> "Abandon", state |-> "Canceled", on |-> e] :
        e \in {"Failed", "TimedOut"}}
    \cup {[kind |-> "nexus", type |-> "Abandon", state |-> "Cancelled", on |-> e] :
             e \in {"Completed", "Failed", "TimedOut"}}
    \cup {[kind |-> "child", type |-> t, state |-> "Terminated", on |-> "Cancel"] :
             t \in {"Abandon", "TryCancel", "WaitCancellationCompleted",
                    "WaitCancellationRequested"}}
    \cup {[kind |-> "signal", type |-> "none", state |-> "Failed", on |-> "Cancel"]}

(* The nexus operations whose result may reach lang twice.                 *)
SecondResolutions ==
    {[kind |-> "nexus", type |-> t, on |-> "unblock"] :
        t \in {"Abandon", "TryCancel", "WaitCancellationRequested"}}

(* Whatever the order in which lang starts and cancels operations, tasks   *)
(* complete and the server closes what it runs: no machine refuses a       *)
(* command, a cancellation or an event, no event lacks its command, and no *)
(* job reaches lang without an unblocker, but for the cases listed above.  *)
OnlyListedErrors ==
    \A k \in DOMAIN error : error[k] \in Refusals \cup SecondResolutions

(* An operation lang cancels before its command was sent (also in a later  *)
(* activation of the same workflow task, when the command had already been *)
(* prepared) is never started by the server.                               *)
CancelledNeverSent ==
    \A i \in DOMAIN machines :
        was_cancelled_before_sent_to_server(machines[i]) =>
            ~\E id \in DOMAIN entities : /\ entities[id].kind = machines[i].kind
                                         /\ entities[id].seq = machines[i].seq

(* Events are matched to machines by the order of the commands alone: the  *)
(* machine that took the initiating event of an operation is the one that  *)
(* issued its command.                                                     *)
EventsReachTheirMachine ==
    \A id \in DOMAIN by_event :
        /\ machines[by_event[id]].kind = entities[id].kind
        /\ machines[by_event[id]].seq = entities[id].seq

(* A result lang waits for arrives, whatever cancellation type it chose    *)
(* and whenever it cancelled.                                              *)
ResultsArrive ==
    \A seq \in Operations :
        <<seq, "result">> \in pending ~> (<<seq, "result">> \notin pending \/ phase = "failed")

(* What became of lang's cancellation of an operation: its command was not *)
(* sent, the operation is over, or the server got the request (for a child *)
(* as the cancellation of an external workflow).                           *)
CancelSettled(seq) ==
    \/ \E i \in DOMAIN machines : /\ machines[i].seq = seq
                                  /\ was_cancelled_before_sent_to_server(machines[i])
    \/ \E id \in DOMAIN entities :
          /\ entities[id].seq = seq
          /\ \/ entities[id].stage = "closed"
             \/ entities[id].cancel # "no"
             \/ entities[id].kind = "cancel_external"

(* Once the workflow task is completed, every cancellation lang made in it *)
(* has got to the server, though the machine may have resolved the         *)
(* operation for lang at once; an abandonment is not sent, and a signal    *)
(* can only be cancelled before it is sent.                                *)
CancelsReachServer ==
    phase = "server" =>
        \A seq \in cancelled :
            \/ program[seq].type = "Abandon"
            \/ program[seq].kind = "signal"
            \/ CancelSettled(seq)

(* A start lang waits for is answered: ResolveChildWorkflowExecutionStart  *)
(* "Notify a workflow that a start child workflow execution request has    *)
(* succeeded, failed or was cancelled".  Violated when a child is          *)
(* cancelled between its initiated and started events.                     *)
StartsArrive ==
    \A seq \in Operations :
        <<seq, "start">> \in pending ~> (<<seq, "start">> \notin pending \/ phase = "failed")

(* An operation that was abandoned may still close: "Nexus operation which *)
(* don't have the ABANDON cancellation type cannot complete after being    *)
(* cancelled" and "Abandoned activities might complete anyway".  Violated. *)
AbandonedMayClose ==
    \A k \in DOMAIN error : error[k].type = "Abandon" => error[k].on \in {"Cancel", "unblock"}

(* "Ignore any spurious cancellations after resolution".  Violated by a    *)
(* child that was terminated and by a signal that failed.                  *)
SpuriousCancelsIgnored == \A k \in DOMAIN error : error[k].on # "Cancel"

(* "resolution must have a registered unblocker": violated by a nexus      *)
(* operation cancelled before it started.                                  *)
UnblockerRegistered == \A k \in DOMAIN error : error[k].on # "unblock"
==============================================================================
