---------------------------- MODULE BufferedTasks ----------------------------
(***************************************************************************)
(* BufferedTasks (workflow/mod.rs): the workflow tasks a run has received   *)
(* while it was busy.  At most one real task is kept, the newest; query     *)
(* tasks are kept in two queues, by whether they arrived before or after    *)
(* that real task.                                                          *)
(*                                                                          *)
(* A task here is any record with a field kind; "legacy" marks a query-only *)
(* task.  Options are sequences of length at most one.                      *)
(***************************************************************************)
EXTENDS Sequences

NoTasks == [wft |-> <<>>, query_only_tasks |-> <<>>, query_only_tasks_for_buffered |-> <<>>]

IsQueryOnly(task) == task.kind = "legacy"

\* A new real task supersedes the buffered one, and the queries that came after
\* the buffered one go with it.
Buffer(buf, task) ==
    IF IsQueryOnly(task)
    THEN IF buf.wft = <<>>
         THEN [buf EXCEPT !.query_only_tasks = Append(@, task)]
         ELSE [buf EXCEPT !.query_only_tasks_for_buffered = Append(@, task)]
    ELSE [buf EXCEPT !.wft = <<task>>,
                     !.query_only_tasks_for_buffered = IF buf.wft = <<>> THEN @ ELSE <<>>]

HasTasks(buf) == buf.wft # <<>> \/ buf.query_only_tasks # <<>>

\* The queue the next task is taken from.
NextFrom(buf) ==
    CASE buf.query_only_tasks # <<>> -> "query_only_tasks"
      [] buf.query_only_tasks = <<>> /\ buf.wft # <<>> ->
            IF buf.query_only_tasks_for_buffered # <<>>
            THEN "query_only_tasks_for_buffered"
            ELSE "wft"
      [] OTHER -> "none"

\* The next task, and the buffer without it (get_next_wft).
NextTask(buf) == Head(buf[NextFrom(buf)])
WithoutNext(buf) ==
    IF NextFrom(buf) = "none" THEN buf ELSE [buf EXCEPT ![NextFrom(buf)] = Tail(@)]

\* The order in which an evicted run's tasks are offered to its successor.
IntoBufferOrder(buf) ==
    buf.query_only_tasks \o buf.wft \o buf.query_only_tasks_for_buffered
=============================================================================
