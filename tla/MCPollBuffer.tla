---------------------------- MODULE MCPollBuffer ----------------------------
EXTENDS PollBuffer

Base == [kinds |-> {"normal", "sticky"}, auto |-> TRUE, graceful |-> TRUE, task_stream |-> FALSE,
         server_autoscales |-> FALSE, minimum |-> 1, maximum |-> 2, initial |-> 1, ratio |-> 50,
         tasks |-> 1]

\* Workflow tasks with both queues, autoscaling and fixed; without a cache; an
\* activity or nexus buffer.
MCConfigs ==
    {[Base EXCEPT !.tasks = 0],
     [Base EXCEPT !.auto = FALSE, !.graceful = FALSE],
     [Base EXCEPT !.auto = FALSE, !.kinds = {"normal"}],
     [Base EXCEPT !.task_stream = TRUE, !.kinds = {"normal"}, !.server_autoscales = TRUE]}
=============================================================================
