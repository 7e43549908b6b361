--------------------------- MODULE EagerActivities ---------------------------
(***************************************************************************)
(* The path of an eagerly dispatched activity: a workflow task completion   *)
(* reserves an activity slot from the ClosableMeteredPermitDealer, sends    *)
(* the completion, and either queues the activity task the server returned  *)
(* (ActivitiesFromWFTsHandle::add_tasks) or drops the slot.  The activity   *)
(* task stream takes queued tasks until the dealer's close has completed,   *)
(* closes the channel, drains it and ends.                                  *)
(*                                                                          *)
(* The dealer's counter, flag and token are separate atomics, so every load *)
(* and store is a step of its own.                                          *)
(***************************************************************************)
EXTENDS Integers, FiniteSets

CONSTANTS
    Completions,    \* concurrent workflow task completions
    Stream,         \* the task stream, as an actor that drops permits
    Slots           \* activity slots of the inner dealer

ASSUME CompletionsAssumption == IsFiniteSet(Completions) /\ Stream \notin Completions
ASSUME EagerSlotsAssumption == Slots \in Nat

VARIABLES
    pc,                     \* where each completion, and the stream, stands
    close_requested,
    outstanding_permits,
    close_complete,         \* close_complete_token is cancelled
    closer,                 \* the thread in initiate_shutdown: close()'s two steps
    available,              \* free slots of the inner dealer
    queue,                  \* tasks in the eager channel, each holding its tracked permit
    rx_closed,              \* the channel's receiving half was closed
    running,                \* dispatched eager activities, holding a bare permit
    send_failed             \* add_tasks hit its expect: the task could not be queued

vars == <<pc, close_requested, outstanding_permits, close_complete, closer,
          available, queue, rx_closed, running, send_failed>>

dealer == <<close_requested, outstanding_permits, close_complete>>
channel == <<queue, rx_closed, running, send_failed>>

Actors == Completions \cup {Stream}

Init ==
    /\ pc = [c \in Actors |-> "idle"]
    /\ close_requested = FALSE
    /\ outstanding_permits = 0
    /\ close_complete = FALSE
    /\ closer = "idle"
    /\ available = Slots
    /\ queue = 0
    /\ rx_closed = FALSE
    /\ running = 0
    /\ send_failed = FALSE

-----------------------------------------------------------------------------
(* ClosableMeteredPermitDealer::try_acquire_owned                           *)

\* The flag is read before the permit is counted.
CheckOpen(c) ==
    /\ pc[c] = "idle"
    /\ ~close_requested
    /\ pc' = [pc EXCEPT ![c] = "checked"]
    /\ UNCHANGED <<dealer, closer, available, channel>>

CountPermit(c) ==
    /\ pc[c] = "checked"
    /\ outstanding_permits' = outstanding_permits + 1
    /\ pc' = [pc EXCEPT ![c] = "counted"]
    /\ UNCHANGED <<close_requested, close_complete, closer, available, channel>>

InnerGrants(c) ==
    /\ pc[c] = "counted"
    /\ available > 0
    /\ available' = available - 1
    /\ pc' = [pc EXCEPT ![c] = "holding"]
    /\ UNCHANGED <<dealer, closer, channel>>

\* The inner dealer has no slot: the count is taken back and Err is returned.
\* The step passes through "refused" so that properties can speak of it.
InnerRefuses(c) ==
    /\ pc[c] = "counted"
    /\ available = 0
    /\ outstanding_permits' = outstanding_permits - 1
    /\ pc' = [pc EXCEPT ![c] = "refused"]
    /\ UNCHANGED <<close_requested, close_complete, closer, available, channel>>

ReturnErr(c) ==
    /\ pc[c] = "refused"
    /\ pc' = [pc EXCEPT ![c] = "idle"]
    /\ UNCHANGED <<dealer, closer, available, channel>>

-----------------------------------------------------------------------------
(* on_permit_dropped, run by whoever drops the tracked permit               *)

\* The inner permit is dropped after on_drop ran.  The stream's tracked permits
\* are empty: their inner permit went to the task.
Freed(c) == IF c = Stream THEN 0 ELSE 1

DropTracked(c) ==
    /\ pc[c] = "dropping"
    /\ outstanding_permits' = outstanding_permits - 1
    /\ pc' = [pc EXCEPT ![c] = "dropped"]
    /\ UNCHANGED <<close_requested, close_complete, closer, available, channel>>

\* The drop that never looks at the flag.
DropForgetsClose(c) ==
    /\ pc[c] = "dropped"
    /\ available' = available + Freed(c)
    /\ pc' = [pc EXCEPT ![c] = "idle"]
    /\ UNCHANGED <<dealer, closer, channel>>

DropReadsFlag(c) ==
    /\ pc[c] = "dropped"
    /\ pc' = [pc EXCEPT ![c] = IF close_requested THEN "closing" ELSE "idle"]
    /\ available' = IF close_requested THEN available ELSE available + Freed(c)
    /\ UNCHANGED <<dealer, closer, channel>>

DropReadsCount(c) ==
    /\ pc[c] = "closing"
    /\ close_complete' = (close_complete \/ outstanding_permits = 0)
    /\ available' = available + Freed(c)
    /\ pc' = [pc EXCEPT ![c] = "idle"]
    /\ UNCHANGED <<close_requested, outstanding_permits, closer, channel>>

-----------------------------------------------------------------------------
(* The completion's response                                                *)

\* handle_eager_activities: the server returned the activity and add_tasks
\* queues it with its permit.  A closed channel refuses it: the expect fails,
\* and the permit goes with the unwound task.
AddTask(c) ==
    /\ pc[c] = "holding"
    /\ IF rx_closed
       THEN /\ send_failed' = TRUE
            /\ pc' = [pc EXCEPT ![c] = "dropping"]
            /\ UNCHANGED queue
       ELSE /\ queue' = queue + 1
            /\ pc' = [pc EXCEPT ![c] = "idle"]
            /\ UNCHANGED send_failed
    /\ UNCHANGED <<dealer, closer, available, rx_closed, running>>

\* The server did not return the activity, or the completion failed: the
\* reservation is dropped.
DropReservation(c) ==
    /\ pc[c] = "holding"
    /\ pc' = [pc EXCEPT ![c] = "dropping"]
    /\ UNCHANGED <<dealer, closer, available, channel>>

-----------------------------------------------------------------------------
(* initiate_shutdown: ClosableMeteredPermitDealer::close                    *)

CloseRequest ==
    /\ closer = "idle"
    /\ close_requested' = TRUE
    /\ closer' = "requested"
    /\ UNCHANGED <<pc, outstanding_permits, close_complete, available, channel>>

CloseReadsCount ==
    /\ closer = "requested"
    /\ close_complete' = (close_complete \/ outstanding_permits = 0)
    /\ closer' = "done"
    /\ UNCHANGED <<pc, close_requested, outstanding_permits, available, channel>>

-----------------------------------------------------------------------------
(* merge_start_task_sources: the eager half of the task stream              *)

\* The stream takes a queued task; converting its permit drops the tracked one.
Receive ==
    /\ pc[Stream] = "idle"
    /\ queue > 0
    /\ queue' = queue - 1
    /\ running' = running + 1
    /\ pc' = [pc EXCEPT ![Stream] = "dropping"]
    /\ UNCHANGED <<dealer, closer, available, rx_closed, send_failed>>

\* The stream stops at the close without looking at the channel first.
StopUnbiased ==
    /\ pc[Stream] = "idle"
    /\ close_complete
    /\ rx_closed' = TRUE
    /\ pc' = [pc EXCEPT ![Stream] = "ended"]
    /\ UNCHANGED <<dealer, closer, available, queue, running, send_failed>>

\* biased select: only with the channel empty does the completed close stop it.
StopAccepting ==
    /\ pc[Stream] = "idle"
    /\ queue = 0
    /\ close_complete
    /\ ~rx_closed
    /\ rx_closed' = TRUE
    /\ UNCHANGED <<pc, dealer, closer, available, queue, running, send_failed>>

\* A closed and empty channel yields None and the eager half of the stream ends.
StreamEnds ==
    /\ pc[Stream] = "idle"
    /\ rx_closed
    /\ queue = 0
    /\ pc' = [pc EXCEPT ![Stream] = "ended"]
    /\ UNCHANGED <<dealer, closer, available, channel>>

\* An eager activity completes and its slot is free again.
ActivityDone ==
    /\ running > 0
    /\ running' = running - 1
    /\ available' = available + 1
    /\ UNCHANGED <<pc, dealer, closer, queue, rx_closed, send_failed>>

Acquire(c) ==
    \/ CheckOpen(c)
    \/ CountPermit(c)
    \/ InnerGrants(c)
    \/ InnerRefuses(c)
    \/ ReturnErr(c)

Drop(c) ==
    \/ DropTracked(c)
    \/ DropReadsFlag(c)
    \/ DropReadsCount(c)

Respond(c) == AddTask(c) \/ DropReservation(c)

Next ==
    \/ \E c \in Completions : Acquire(c) \/ Respond(c)
    \/ \E c \in Actors : Drop(c)
    \/ CloseRequest
    \/ CloseReadsCount
    \/ Receive
    \/ StopAccepting
    \/ StreamEnds
    \/ ActivityDone

\* A running thread takes its next instruction, an RPC returns, lang polls the
\* stream and finishes its activities; nothing makes a new completion start.
Fairness ==
    /\ \A c \in Completions : /\ WF_vars(CountPermit(c))
                              /\ WF_vars(InnerGrants(c) \/ InnerRefuses(c))
                              /\ WF_vars(ReturnErr(c))
                              /\ WF_vars(Respond(c))
    /\ \A c \in Actors : WF_vars(Drop(c))
    /\ WF_vars(CloseReadsCount)
    /\ WF_vars(Receive)
    /\ WF_vars(StopAccepting)
    /\ WF_vars(StreamEnds)
    /\ WF_vars(ActivityDone)

Spec == Init /\ [][Next]_vars /\ Fairness
-----------------------------------------------------------------------------
TypeOK ==
    /\ pc \in [Actors -> {"idle", "checked", "counted", "refused", "holding",
                          "dropping", "dropped", "closing", "ended"}]
    /\ {close_requested, close_complete, rx_closed, send_failed} \subseteq BOOLEAN
    /\ outstanding_permits \in Nat
    /\ closer \in {"idle", "requested", "done"}
    /\ {available, queue, running} \subseteq 0..Slots

Counted == {c \in Actors : pc[c] \in {"counted", "holding", "dropping"}}

\* outstanding_permits is exactly the number of reservations and queued tasks
\* that have not been dropped: a refused reservation, a converted permit and a
\* dropped one are each taken off once.  An undercount wraps the usize around
\* and close never completes.
CountExact == outstanding_permits = queue + Cardinality(Counted)

\* merge_start_task_sources: the eager stream ends with nothing left in the
\* channel, so no activity the server already handed to this worker is dropped
\* unheard of.
NothingLeftInChannel == pc[Stream] = "ended" => queue = 0

\* The only reservations granted after the close was requested are those whose
\* flag check came before it: with the flag set, a call that has not passed its
\* check yet never gets to count a permit.
NoNewReservation ==
    [][\A c \in Completions :
         close_requested /\ pc[c] = "idle" => pc'[c] = "idle"]_vars

\* If every reservation attempt finds a slot, a requested close completes and
\* the eager stream ends.
ClosesUnlessRefused ==
    [](\A c \in Completions : pc[c] # "refused") =>
        (close_requested ~> pc[Stream] = "ended")

\* "Close completes when all permits have been returned." (abstractions.rs:280)
CloseCompletesAfterReturn == close_complete => Counted = {} /\ queue = 0

\* "Receive half cannot be dropped" (activities.rs:878): an eagerly returned
\* task can always be queued.
ReceiverAlive == ~send_failed

\* "Returns after close has been requested and all outstanding permits have
\* been returned." (abstractions.rs:319)
CloseCompletes == close_requested ~> close_complete
=============================================================================
