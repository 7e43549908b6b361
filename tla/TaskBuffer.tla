----------------------------- MODULE TaskBuffer -----------------------------
(***************************************************************************)
(* The buffer of one run in use: tasks arrive in any order, are handed out, *)
(* and, when the run is evicted, are moved into the buffer of the run's     *)
(* next instance the way process_post_activation (workflow_stream.rs) does. *)
(*                                                                          *)
(* A task is numbered by its arrival; "task" is a real workflow task and    *)
(* "legacy" a query-only one.                                               *)
(***************************************************************************)
EXTENDS BufferedTasks, SequencesExt

CONSTANT MaxArrivals   \* bound: tasks that arrive

VARIABLES
    buf,       \* task_buffer
    arrivals,  \* the kinds of the tasks that have arrived
    taken      \* the tasks handed out

vars == <<buf, arrivals, taken>>

Init == buf = NoTasks /\ arrivals = <<>> /\ taken = <<>>

Arrive(kind) ==
    /\ Len(arrivals) < MaxArrivals
    /\ arrivals' = Append(arrivals, kind)
    /\ buf' = Buffer(buf, [tok |-> Len(arrivals) + 1, kind |-> kind])
    /\ UNCHANGED taken

\* update_to_acts takes the next task once the run is done with the last one.
Take ==
    /\ HasTasks(buf)
    /\ taken' = Append(taken, NextTask(buf))
    /\ buf' = WithoutNext(buf)
    /\ UNCHANGED arrivals

Rebuffered(b) == FoldLeft(Buffer, NoTasks, IntoBufferOrder(b))

\* The run is evicted: its next instance starts with the next task and buffers
\* the rest.
Evict ==
    /\ HasTasks(buf)
    /\ taken' = Append(taken, NextTask(buf))
    /\ buf' = Rebuffered(WithoutNext(buf))
    /\ UNCHANGED arrivals

Next == (\E kind \in {"task", "legacy"} : Arrive(kind)) \/ Take \/ Evict
Spec == Init /\ [][Next]_vars

-----------------------------------------------------------------------------
Buffered == ToSet(IntoBufferOrder(buf))
Known == Buffered \cup ToSet(taken)
Lost(t) == \A k \in Known : k.tok # t

\* The real task that arrived last before task t, if any.
Preceding(t) == {u \in 1 .. t - 1 : arrivals[u] = "task" /\
                                    \A v \in u + 1 .. t - 1 : arrivals[v] = "legacy"}

\* The buffer holds arrived tasks, of the right kind for each queue.
TypeOK ==
    /\ Len(buf.wft) <= 1
    /\ \A k \in Known : k.tok \in DOMAIN arrivals /\ k.kind = arrivals[k.tok]
    /\ \A k \in ToSet(buf.wft) : ~IsQueryOnly(k)
    /\ \A k \in ToSet(buf.query_only_tasks \o buf.query_only_tasks_for_buffered) : IsQueryOnly(k)

\* Queries kept for a buffered real task never outlive it: has_tasks and get_next_wft
\* look at that queue only while a real task is buffered, so they would be stuck.
NoOrphanQueries == buf.query_only_tasks_for_buffered # <<>> => buf.wft # <<>>

\* A task disappears unhandled only when a real task that arrived later superseded it.
OnlySupersededAreLost ==
    \A t \in DOMAIN arrivals : Lost(t) =>
        \E u \in DOMAIN arrivals : u > t /\ arrivals[u] = "task"

\* A query that waits behind a real task goes when that task is superseded; it never
\* waits on to be answered from the history of another one.
QueriesGoWithTheirTask ==
    \A k \in Buffered : IsQueryOnly(k) => \A p \in Preceding(k.tok) : ~Lost(p)

\* Tasks of one kind are handed out in the order in which they arrived, across
\* evictions too.
HandedOutInOrder ==
    \A i, j \in DOMAIN taken :
        i < j /\ taken[i].kind = taken[j].kind => taken[i].tok < taken[j].tok

\* get_next_wft is documented to return queries first only "for the current workflow
\* task" and then "the next WFT": a query that arrived behind a buffered real task
\* is not handed out while that task is still in the buffer.
TaskBeforeItsQueries ==
    \A k \in ToSet(taken), b \in ToSet(buf.wft) :
        IsQueryOnly(k) => b.tok \notin Preceding(k.tok)
=============================================================================
