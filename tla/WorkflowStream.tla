--------------------------- MODULE WorkflowStream ---------------------------
(***************************************************************************)
(* The workflow half of a worker: the WFStream (workflow_stream.rs) that    *)
(* owns the cached runs and handles one input at a time, the completion     *)
(* calls of workflow/mod.rs that wait for its replies and talk to the       *)
(* server, and the history fetches of wft_extraction.rs.                    *)
(*                                                                          *)
(* The server, lang and the local activity manager are the environment,     *)
(* restricted to what the code here can see of them.                        *)
(***************************************************************************)
EXTENDS ManagedRun, FiniteSets, Functions

CONSTANTS
    Runs,             \* run ids
    CacheSize,        \* max_cached_workflows
    IgnoreEvicts,     \* ignore_evicts_on_shutdown
    MaxTasks,         \* bound: workflow tasks the server hands out
    MaxCalls,         \* bound: completion calls in progress at once
    MaxEvicts,        \* bound: evictions asked for by lang
    MaxLas,           \* bound: local activities of a run at once
    MaxSequences,     \* bound: workflow task sequences in a full history
    Attempts,         \* attempt numbers a task may carry
    Kinds,            \* kinds of task: "task", "query", "legacy"
    MachineErrors,    \* how applying history may fail: "nde", "fatal"
    LangErrors,       \* how lang's replies may fail: "fail", "nde"
    Paged,            \* whether histories come in pages
    FetchErrors,      \* which history fetches may fail: "poll", "full", "page"
    RpcErrors,        \* whether calls to the server can fail
    MayShutDown       \* whether the worker is shut down

ASSUME StreamAssumption ==
    /\ CacheSize \in Nat /\ MaxTasks \in Nat /\ MaxCalls \in Nat /\ MaxEvicts \in Nat
    /\ MaxLas \in Nat /\ MaxSequences \in Nat \ {0}
    /\ IsFiniteSet(Runs) /\ "none" \notin Runs
    /\ Attempts \subseteq Nat \ {0}
    /\ Kinds \subseteq {"task", "query", "legacy"}
    /\ MachineErrors \subseteq {"nde", "fatal"}
    /\ LangErrors \subseteq {"fail", "nde"}
    /\ FetchErrors \subseteq {"poll", "full", "page"}
    /\ {IgnoreEvicts, Paged, RpcErrors, MayShutDown} \subseteq BOOLEAN

VARIABLES
    runs,      \* RunCache: the cached runs
    lru,       \* their ids, least recently used first
    slotq,     \* buffered_polls_need_cache_slot
    fetches,   \* history fetches in progress
    failures,  \* failed fetches not yet handled
    actions,   \* WorkflowStreamActions emitted and not yet polled
    out,       \* activations lang has polled and not yet completed, by run
    calls,     \* activation_completed calls in progress
    local,     \* the channel of local inputs
    notify,    \* the channel of local activity notifications
    todo,      \* tasks process_post_activation still has to offer to their run
    post,      \* the report whose tasks are in todo
    stream,    \* "open", or "ended" once shutdown is done
    shutdown,  \* the shutdown token
    issued,    \* tasks the server has handed out
    latest,    \* the newest task of each run that is not a legacy query
    closed,    \* runs whose workflow has ended
    answers,   \* answers given for each task
    evicts,    \* evictions lang has asked for
    tripped    \* internal assertions that have failed

cache == <<runs, lru, slotq, fetches, actions, calls, tripped, stream>>
server == <<issued, latest, closed, answers>>
environment == <<shutdown, server, evicts>>
vars == <<cache, out, failures, local, notify, todo, post, environment>>

Capacity == IF CacheSize = 0 THEN 1 ELSE CacheSize
Tokens == 1 .. MaxTasks
CallIds == 1 .. MaxCalls

Free == [st |-> "free", run |-> "none", auto |-> FALSE, out |-> Nothing, empty |-> FALSE]
NoPost == [run |-> "none", reported |-> FALSE, emitted |-> FALSE]

\* What the machines may do with history: see WorkflowManager.
Calm == [jobs |-> TRUE, err |-> "none", terminal |-> FALSE, expired |-> FALSE]
Outcomes ==
    [jobs : BOOLEAN, err : {"none"} \cup MachineErrors,
     terminal : {FALSE} \cup {k = "legacy" : k \in Kinds},
     expired : {FALSE} \cup {k = "legacy" : k \in Kinds}]

\* The outcomes of applying a buffered task of a run, if it has one.
BufferedOutcomes(x) ==
    IF x \in DOMAIN runs /\ HasTasks(runs[x].buf) THEN Outcomes ELSE {Calm}

Init ==
    /\ runs = <<>> /\ lru = <<>> /\ slotq = <<>>
    /\ fetches = {} /\ failures = {}
    /\ actions = <<>> /\ out = [x \in Runs |-> <<>>]
    /\ calls = [i \in CallIds |-> Free]
    /\ local = <<>> /\ notify = <<>>
    /\ todo = <<>> /\ post = NoPost
    /\ stream = "open" /\ shutdown = FALSE
    /\ issued = 0 /\ latest = [x \in Runs |-> 0] /\ closed = {}
    /\ answers = [t \in Tokens |-> 0] /\ evicts = 0
    /\ tripped = {}

-----------------------------------------------------------------------------
(* The state of the stream as a value: handlers map it to the next one *)

Now == [runs |-> runs, lru |-> lru, slotq |-> slotq, fetches |-> fetches,
        actions |-> actions, calls |-> calls, tripped |-> tripped, emitted |-> FALSE]

\* The activations of a run, as actions of the stream.
Activations(x, acts) == [i \in DOMAIN acts |-> [run |-> x, a |-> acts[i], reply |-> NoReply]]

Cached(st) == DOMAIN st.runs
IsFullLate(st) == Cardinality(Cached(st)) = Capacity + 1   \* a fault: one run too many
IsFull(st) == Cardinality(Cached(st)) = Capacity

\* The sequences in qs one after the other, and the sequence q without the members
\* of S.
Joined(qs) ==
    LET upto[i \in 0 .. Len(qs)] == IF i = 0 THEN <<>> ELSE upto[i - 1] \o qs[i]
    IN  upto[Len(qs)]
Without(q, S) == Joined([i \in DOMAIN q |-> IF q[i] \in S THEN <<>> ELSE <<q[i]>>])

\* get and get_mut make a run the most recently used one.
Touch(st, x) == [st EXCEPT !.lru = IF x \in Cached(st) THEN Append(Without(@, {x}), x) ELSE @]

Answered(cs, replies) ==
    [i \in CallIds |->
        IF \E k \in DOMAIN replies : replies[k].id = i
        THEN [cs[i] EXCEPT !.st = "reply",
                           !.out = replies[CHOOSE k \in DOMAIN replies : replies[k].id = i].out]
        ELSE cs[i]]

\* The effects of a step s of run x.
Apply(st, x, s) ==
    [st EXCEPT !.runs = [y \in Cached(st) \cup {x} |-> IF y = x THEN s.r ELSE st.runs[y]],
               !.actions = @ \o Activations(x, s.acts),
               !.calls = Answered(@, s.replies),
               !.fetches = IF s.fetch THEN @ \cup {[k |-> "page", run |-> x]} ELSE @,
               !.tripped = @ \cup s.tripped,
               !.emitted = @ \/ s.acts # <<>>]

\* A waiting run whose newer task is forgotten.
BufferOnFullCacheOnce(q, task) ==
    IF \E i \in DOMAIN q : q[i][1].run = task.run THEN q ELSE Append(q, <<task>>)

\* buffer_resp_on_full_cache
BufferOnFullCache(q, task) ==
    IF \E i \in DOMAIN q : q[i][1].run = task.run
    THEN LET i == CHOOSE i \in DOMAIN q : q[i][1].run = task.run
         IN  [q EXCEPT ![i] = Append(@, task)]
    ELSE Append(q, <<task>>)

\* instantiate_or_update, of the stream and of the cache.
InstantiateOrUpdate(st, task, n) ==
    LET x == task.run
        t == Touch(st, x)
        known == x \in Cached(st)
    IN  IF known /\ MustBuffer(st.runs[x]) THEN [t EXCEPT !.runs[x].buf = Buffer(@, task)]
        ELSE IF ~known /\ IsFull(st) THEN [st EXCEPT !.slotq = BufferOnFullCache(@, task)]
        ELSE IF ~known /\ task.incremental
        THEN [st EXCEPT !.fetches = @ \cup {[k |-> "full", task |-> task]}]
        ELSE Apply(IF known THEN t ELSE [st EXCEPT !.lru = Append(@, x)], x,
                   IncomingWft(IF known THEN st.runs[x] ELSE NewRun, task, n))

\* reconcile_buffered: the runs to evict, least recently used first.  Runs that are
\* already evicting are counted and may still be asked again.
ToEvict(st) ==
    LET evicting == Cardinality({x \in Cached(st) : Evicting(st.runs[x])})
        needed == IF Len(st.slotq) > evicting THEN Len(st.slotq) - evicting ELSE 0
        idle == Without(st.lru, {x \in Cached(st) : HasTasks(st.runs[x].buf)})
    IN  SubSeq(idle, 1, IF needed < Len(idle) THEN needed ELSE Len(idle))

\* What the runs in these emit, asked being their steps.
EvictionActivations(these, asked) ==
    Joined([i \in DOMAIN these |-> Activations(these[i], asked[these[i]].acts)])

\* The state after the runs in these were asked.
AfterEvictionRequests(st, these, asked) ==
    [st EXCEPT !.runs = [x \in Cached(st) |-> IF x \in DOMAIN asked THEN asked[x].r ELSE @[x]],
               !.lru = Without(@, Range(these)) \o these,
               !.actions = @ \o EvictionActivations(these, asked),
               !.tripped = @ \cup UNION {asked[x].tripped : x \in DOMAIN asked}]

\* The runs asked for have no buffered task, so the requests are independent; the
\* reason is not one for which request_eviction fails a waiting completion.
EvictThese(st, these) ==
    IF these = <<>> THEN st
    ELSE AfterEvictionRequests(st, these,
            [x \in Cached(st) \cap Range(these) |->
                RequestEvictionOnly(st.runs[x], "CacheFull", NoReply, Calm)])
Reconcile(st) == EvictThese(st, ToEvict(st))

\* A shutdown that does not wait for history fetches.
ShutdownIgnoresFetches(st, f) ==
    shutdown /\ \A x \in Cached(st) : ~HasAnyPendingWork(st.runs[x], IgnoreEvicts, FALSE)

\* shutdown_done, f being the fetches whose reference counts are still held.
ShutdownDone(st, f) ==
    /\ shutdown
    /\ f = {}
    /\ \A x \in Cached(st) : ~HasAnyPendingWork(st.runs[x], IgnoreEvicts, FALSE)

\* The end of the stream's closure.  What the last input emitted is not delivered.
EndInput(st, ends) ==
    /\ runs' = st.runs /\ lru' = st.lru /\ slotq' = st.slotq /\ calls' = st.calls
    /\ tripped' = st.tripped
    /\ fetches' = st.fetches
    /\ actions' = IF ends THEN actions ELSE st.actions
    /\ stream' = IF ends THEN "ended" ELSE "open"
ReconciledEnd(st) == EndInput(st, ShutdownDone(st, st.fetches))
Finish(st) == ReconciledEnd(Reconcile(st))

\* The stream takes local activity notifications first, then local inputs, then
\* what the extractor delivers.
Between == todo = <<>> /\ post = NoPost
Idle == stream = "open" /\ Between
TakesNotify == Idle /\ notify # <<>>
TakesLocal == Idle /\ notify = <<>> /\ local # <<>>
TakesExternal == Idle /\ notify = <<>> /\ local = <<>>

-----------------------------------------------------------------------------
(* Tasks and fetches *)

Tasks(tok) ==
    {t \in [run : Runs, tok : {tok}, kind : Kinds, attempt : Attempts, incremental : BOOLEAN,
            sequences : 0 .. MaxSequences, paged : BOOLEAN] :
        /\ t.incremental => t.sequences = (IF t.kind = "legacy" THEN 0 ELSE 1)
        /\ ~t.incremental => t.sequences > 0
        /\ t.paged => ~t.incremental /\ Paged}

\* The server hands out the task t of the run x.  A workflow that has ended only
\* gets legacy queries; a newer task of an open one supersedes the task before it.
Issues(x, t, kind) ==
    /\ kind = "legacy" \/ x \notin closed
    /\ issued < MaxTasks /\ t = issued + 1
    /\ issued' = t
    /\ latest' = IF kind = "legacy" THEN latest ELSE [latest EXCEPT ![x] = t]
    /\ UNCHANGED <<closed, answers>>

\* A workflow task arrives from the poller; polls in flight outlive a shutdown.
NewWft ==
    /\ TakesExternal
    /\ \E task \in Tasks(issued + 1), n \in Outcomes :
          /\ Issues(task.run, task.tok, task.kind)
          /\ Finish(InstantiateOrUpdate(Now, task, n))
    /\ UNCHANGED <<out, failures, local, notify, todo, post, shutdown, evicts>>

\* Its first page could not be read (HistoryPaginator::from_poll).
NewWftFails ==
    /\ Idle
    /\ "poll" \in FetchErrors
    /\ \E x \in Runs, k \in Kinds, a \in Attempts :
          /\ Issues(x, issued + 1, k)
          /\ failures' = failures \cup {[run |-> x, reply |-> [tok |-> issued + 1, attempt |-> a]]}
    /\ UNCHANGED <<cache, out, local, notify, todo, post, shutdown, evicts>>

\* A fetch of a whole history succeeds: the task is offered again.
FetchResult ==
    /\ TakesExternal
    /\ \E f \in fetches, n \in Outcomes, s \in 1 .. MaxSequences, p \in {FALSE, Paged} :
          /\ f.k = "full"
          /\ Finish(InstantiateOrUpdate(
                        [Now EXCEPT !.fetches = @ \ {f}],
                        [f.task EXCEPT !.incremental = FALSE, !.sequences = s, !.paged = p], n))
    /\ UNCHANGED <<out, failures, local, notify, todo, post, environment>>

\* process_completion after the run's own step.  Without a cache, the least recently
\* used run is evicted as soon as the completed run waits for nothing.
EvictWithoutCache(done, r, n) ==
    LET y == done.lru[1]
    IN  IF CacheSize = 0 /\ r.waiting = "no" /\ ~MorePendingWork(r) /\ y \in Cached(done)
        THEN Apply(Touch(done, y), y, RequestEviction(done.runs[y], "CacheFull", NoReply, n))
        ELSE done
Stepped(st, x, s, n) == EvictWithoutCache(Apply(st, x, s), s.r, n)
ProcessedCompletion(st, x, s, n) == Finish(Stepped(st, x, s, n))

\* The next page of a history arrives.
NextPage ==
    /\ TakesExternal
    /\ \E f \in fetches, o \in Outcomes :
          /\ f.k = "page"
          /\ \E n \in BufferedOutcomes(f.run) :
                LET st == [Touch(Now, f.run) EXCEPT !.fetches = @ \ {f}]
                IN  IF f.run \in Cached(st)
                    THEN ProcessedCompletion(st, f.run, FetchedPageCompletion(runs[f.run], o, n), n)
                    ELSE Finish([st EXCEPT !.tripped = @ \cup {"run_missing"}])
    /\ UNCHANGED <<out, failures, local, notify, todo, post, environment>>

\* A fetch fails; its reference count is dropped at once.
FetchFails ==
    /\ Idle
    /\ \E f \in fetches :
          /\ f.k \in FetchErrors
          /\ fetches' = fetches \ {f}
          /\ failures' = failures \cup
                {IF f.k = "full"
                 THEN [run |-> f.task.run,
                       reply |-> [tok |-> f.task.tok, attempt |-> f.task.attempt]]
                 ELSE [run |-> f.run, reply |-> NoReply]}
    /\ UNCHANGED <<runs, lru, slotq, actions, calls, tripped, stream, out,
                   local, notify, todo, post, environment>>

\* The stream handles a failed fetch.
FailedFetch ==
    /\ TakesExternal
    /\ \E f \in failures :
          /\ failures' = failures \ {f}
          /\ \E n \in BufferedOutcomes(f.run) :
                Finish(IF f.run \in DOMAIN runs
                       THEN Apply(Touch(Now, f.run), f.run,
                                  RequestEviction(runs[f.run], "PaginationOrHistoryFetch", f.reply, n))
                       ELSE IF f.reply = NoReply THEN Now
                       ELSE [Now EXCEPT !.actions =
                                Append(@, [run |-> f.run, a |-> "unstored", reply |-> f.reply])])
    /\ UNCHANGED <<out, local, notify, todo, post, environment>>

-----------------------------------------------------------------------------
(* Completion calls *)

Empty == [id |-> 0, commands |-> FALSE, las |-> 0, terminal |-> FALSE, err |-> "none",
          queries |-> FALSE, legacy |-> FALSE]

\* How many local activities the run may still schedule.
LaRoom(x) == MaxLas - (runs[x].m.requested + runs[x].m.executing)

\* What lang, or the worker itself, may reply to the activation a of run x; fail
\* is the failure reported instead of commands.
Replies(x, a) ==
    LET m == runs[x].m
        new == IF m.replaying THEN 0 ELSE LaRoom(x)
        ends == IF m.replaying /\ ~m.terminal THEN {FALSE} ELSE BOOLEAN
        lang == [id : {0}, commands : BOOLEAN, las : 0 .. new, terminal : ends,
                 err : {"none"} \cup (LangErrors \cap {"nde"}), queries : {FALSE}, legacy : {FALSE}]
        fails == {[c |-> Empty, fail |-> f] :
                     f \in IF "fail" \in LangErrors THEN {"lang", "langNde"} ELSE {}}
    IN  CASE a = "lang" -> {[c |-> c, fail |-> "none"] : c \in lang} \cup fails
          [] a = "queries" -> {[c |-> [Empty EXCEPT !.queries = TRUE], fail |-> "none"]} \cup fails
          [] a = "legacy" -> {[c |-> [Empty EXCEPT !.legacy = TRUE], fail |-> "none"]} \cup fails
          [] a \in {"evict", "auto"} -> {[c |-> Empty, fail |-> "none"]}
          [] a = "autofail" -> {[c |-> Empty, fail |-> "auto"]}
          [] a = "autofailNde" -> {[c |-> Empty, fail |-> "autoNde"]}

\* activation_completed, up to the point where it waits for the stream's reply.
\* Once the stream has ended an empty completion is ignored.
SendCompletion(x, a, auto) ==
    IF stream = "open"
    THEN \E i \in CallIds :
           /\ calls[i] = Free
           /\ \A j \in 1 .. i - 1 : calls[j] # Free
           /\ \E p \in IF x \in DOMAIN runs THEN Replies(x, a) ELSE {[c |-> Empty, fail |-> "none"]} :
                /\ local' = Append(local, [k |-> "completion", run |-> x,
                                           c |-> [p.c EXCEPT !.id = i], fail |-> p.fail])
                /\ calls' = [calls EXCEPT ![i] = [Free EXCEPT !.st = "sent", !.run = x, !.auto = auto,
                                                              !.empty = p = [c |-> Empty, fail |-> "none"]]]
           /\ UNCHANGED tripped
    ELSE /\ tripped' = tripped \cup IF a \in {"evict", "auto"} THEN {} ELSE {"completion_not_processed"}
         /\ UNCHANGED <<local, calls>>

\* Lang polls one activation at a time.  What the worker can answer by itself is
\* answered inside that poll, which goes on only when the answer is complete.
Polls == Between /\ actions # <<>> /\ \A i \in CallIds : ~calls[i].auto

IsAuto(a) == a \in {"auto", "autofail", "autofailNde"}

\* next_workflow_activation returns an activation to lang.
PollReturns ==
    /\ Polls
    /\ LET next == Head(actions)
       IN  /\ next.a \in ForLang
           /\ out' = [out EXCEPT ![next.run] = Append(@, next.a)]
    /\ actions' = Tail(actions)
    /\ UNCHANGED <<runs, lru, slotq, fetches, calls, tripped, stream, failures, local, notify,
                   todo, post, environment>>

\* It completes or fails an activation by itself.
PollCompletes ==
    /\ Polls
    /\ LET next == Head(actions) IN IsAuto(next.a) /\ SendCompletion(next.run, next.a, TRUE)
    /\ actions' = Tail(actions)
    /\ UNCHANGED <<runs, lru, slotq, fetches, stream, out, failures, notify, todo, post, environment>>

\* It fails a task that no run holds (handle_activation_failed).
FailUnstoredWft ==
    /\ Polls
    /\ LET next == Head(actions)
           report == next.reply.attempt = 1
       IN  /\ next.a = "unstored"
           /\ answers' = IF report THEN [answers EXCEPT ![next.reply.tok] = @ + 1] ELSE answers
           /\ \/ UNCHANGED local
              \/ /\ report
                 /\ RpcErrors \/ next.reply.tok # latest[next.run]
                 /\ local' = Append(local, [k |-> "evict", run |-> next.run, reason |-> "Fatal"])
    /\ actions' = Tail(actions)
    /\ UNCHANGED <<runs, lru, slotq, fetches, calls, tripped, stream, out, failures, notify,
                   todo, post, shutdown, issued, latest, closed, evicts>>

\* Lang completes an activation.
CompleteActivation ==
    /\ Between
    /\ \E x \in Runs :
          /\ out[x] # <<>>
          /\ out' = [out EXCEPT ![x] = Tail(@)]
          /\ SendCompletion(x, Head(out[x]), FALSE)
    /\ UNCHANGED <<runs, lru, slotq, fetches, actions, stream, failures, notify, todo, post,
                   environment>>

\* The stream handles a completion (process_completion).
Completion ==
    /\ TakesLocal
    /\ LET msg == Head(local)
           x == msg.run
           st == Touch(Now, x)
       IN  /\ msg.k = "completion"
           /\ IF x \notin DOMAIN runs
              THEN Finish([Now EXCEPT !.tripped = @ \cup {"run_missing"},
                                      !.calls[msg.c.id] = Free])
              ELSE \E o \in Outcomes, n \in BufferedOutcomes(x) :
                     ProcessedCompletion(st, x,
                         IF msg.fail = "none" THEN SuccessfulCompletion(runs[x], msg.c, o, n)
                         ELSE FailedCompletion(runs[x],
                                  IF msg.fail \in {"langNde", "autoNde"} THEN "nde" ELSE "unhandled",
                                  IF msg.fail \in {"lang", "langNde"} THEN "LangFail" ELSE "Unspecified",
                                  msg.fail \in {"auto", "autoNde"}, msg.c.id, n), n)
    /\ local' = Tail(local)
    /\ UNCHANGED <<out, failures, notify, todo, post, environment>>

\* The report to the server (handle_activation_completed_result) and what it does
\* when the call fails: ask for the run's eviction, then send the post activation
\* all the same.
Reporting(i) == calls[i].st = "reply"
PostMsg(i, status, wft) ==
    [k |-> "post", run |-> calls[i].run, status |-> status, wft |-> wft, auto |-> calls[i].auto]

\* Nothing is sent to the server.
ReportNothing ==
    /\ Between
    /\ \E i \in CallIds :
          /\ Reporting(i)
          /\ LET o == calls[i].out
             IN  \/ o.k = "nothing" /\ local' = Append(local, PostMsg(i, "not", <<>>))
                 \/ /\ o.k = "dropQuery" \/ (o.k = "fail" /\ o.attempt > 1)
                    /\ local' = Append(local, PostMsg(i, "drop", <<>>))
          /\ calls' = [calls EXCEPT ![i] = Free]
    /\ UNCHANGED <<runs, lru, slotq, fetches, actions, tripped, stream, out, failures, notify,
                   todo, post, environment>>

SendsReport(o) == o.k \in {"complete", "query", "failQuery"} \/ (o.k = "fail" /\ o.attempt = 1)

\* The server knows only the newest task of a run; queries are apart from it.
Current(x, o) == o.k \in {"query", "failQuery"} \/ o.tok = latest[x]

\* The server accepts the report.  Completing a task may hand out the next one.
ReportSucceeds ==
    /\ Between
    /\ \E i \in CallIds :
          LET o == calls[i].out
              x == calls[i].run
          IN  /\ Reporting(i)
              /\ SendsReport(o)
              /\ Current(x, o)
              /\ answers' = [answers EXCEPT ![o.tok] = @ + 1]
              /\ closed' = IF o.final THEN closed \cup {x} ELSE closed
              /\ calls' = [calls EXCEPT ![i] = Free]
              /\ \/ local' = Append(local, PostMsg(i, "reported", <<>>)) /\ UNCHANGED <<issued, latest>>
                 \/ /\ o.k = "complete" /\ ~o.final /\ CacheSize > 0 /\ issued < MaxTasks
                    /\ issued' = issued + 1
                    /\ latest' = [latest EXCEPT ![x] = issued + 1]
                    /\ \E t \in Tasks(issued + 1) :
                          /\ t.run = x /\ t.kind # "legacy" /\ t.incremental
                          /\ local' = Append(local, PostMsg(i, "reported", <<t>>))
    /\ UNCHANGED <<runs, lru, slotq, fetches, actions, tripped, stream, out, failures, notify,
                   todo, post, shutdown, evicts>>

\* The report fails, or the task it returned cannot be read.
ReportFails ==
    /\ Between
    /\ \E i \in CallIds :
          LET o == calls[i].out
          IN  /\ Reporting(i)
              /\ o.k = "complete" \/ (o.k = "fail" /\ o.attempt = 1)
              /\ RpcErrors \/ ~Current(calls[i].run, o)
              /\ local' = Append(local, [k |-> "evict", run |-> calls[i].run, reason |-> "Fatal"])
              /\ answers' = [answers EXCEPT ![o.tok] = @ + 1]
              /\ calls' = [calls EXCEPT ![i].st = "failed"]
    /\ UNCHANGED <<runs, lru, slotq, fetches, actions, tripped, stream, out, failures, notify,
                   todo, post, shutdown, issued, latest, closed, evicts>>

PostAfterFailure ==
    /\ Between
    /\ \E i \in CallIds :
          /\ calls[i].st = "failed"
          /\ local' = Append(local, PostMsg(i, "reported", <<>>))
          /\ calls' = [calls EXCEPT ![i] = Free]
    /\ UNCHANGED <<runs, lru, slotq, fetches, actions, tripped, stream, out, failures, notify,
                   todo, post, environment>>

\* The stream ended with the call's completion unhandled, or before its reply.
CallAbandoned ==
    /\ stream = "ended"
    /\ \E i \in CallIds :
          /\ calls[i].st = "sent"
          /\ calls' = [calls EXCEPT ![i] = Free]
          /\ tripped' = tripped \cup
                IF calls[i].empty THEN {} ELSE {"response_channel_missing"}
    /\ UNCHANGED <<runs, lru, slotq, fetches, actions, stream, out, failures, local, notify,
                   todo, post, environment>>

-----------------------------------------------------------------------------
(* process_post_activation *)

\* A result sent before its run was evicted belongs to no later instance of it.
Disown(msg) == IF msg.k = "resolution" THEN [msg EXCEPT !.own = FALSE] ELSE msg

\* The first part: end the task, finish the activation, evict the run if that was
\* its eviction, and collect the tasks that may now be tried.  Everything else
\* waits until PostActivationTask and PostActivationEnd have dealt with them.
PostActivation ==
    /\ TakesLocal
    /\ LET msg == Head(local)
           x == msg.run
           r == runs[x]
           ends == x \in DOMAIN runs /\ CompletesWft(r, msg.status)
           r1 == IF ends THEN MarkWftComplete(r) ELSE r
           finish == FinishesActivation(r1, msg.auto)
           evict == x \in DOMAIN runs /\ finish /\ r1.act = "evict"
           r2 == IF finish THEN [r1 EXCEPT !.act = "none"] ELSE r1
           buffered == IF evict THEN r1.buf ELSE NoTasks
           next == IF HasTasks(buffered) THEN <<NextTask(buffered)>>
                   ELSE IF ends THEN msg.wft ELSE <<>>
           other == IF next = <<>> /\ evict /\ slotq # <<>> THEN Head(slotq) ELSE <<>>
           group == next \o other
       IN  /\ msg.k = "post"
           /\ post' = [run |-> x, reported |-> msg.status = "reported", emitted |-> FALSE]
           /\ IF x \in DOMAIN runs
              THEN /\ runs' = IF evict THEN [y \in DOMAIN runs \ {x} |-> runs[y]]
                              ELSE [runs EXCEPT ![x] = r2]
                   /\ lru' = IF evict THEN Without(lru, {x}) ELSE Touch(Now, x).lru
                   /\ slotq' = IF other # <<>> THEN Tail(slotq) ELSE slotq
                   /\ todo' = [i \in DOMAIN group |-> group[IF i = 1 THEN Len(group) ELSE i - 1]]
                              \o IntoBufferOrder(WithoutNext(buffered))
              ELSE UNCHANGED <<runs, lru, slotq, todo>>
           /\ local' = [i \in 1 .. Len(local) - 1 |->
                          IF evict /\ local[i + 1].run = x THEN Disown(local[i + 1])
                          ELSE local[i + 1]]
           /\ tripped' = tripped \cup
                IF evict /\ r1.las.queued > 0 THEN {"cancel_lost"} ELSE {}
    /\ UNCHANGED <<fetches, actions, calls, stream, out, failures, notify, environment>>

\* One round of its loop over those tasks.
Offered(st) ==
    /\ runs' = st.runs /\ lru' = st.lru /\ slotq' = st.slotq /\ calls' = st.calls
    /\ fetches' = st.fetches /\ actions' = st.actions
    /\ tripped' = st.tripped \cup
          IF st.emitted /\ post.emitted THEN {"extra_buffered_activation"} ELSE {}
    /\ post' = [post EXCEPT !.emitted = @ \/ st.emitted]
PostActivationTask ==
    /\ stream = "open"
    /\ todo # <<>>
    /\ \E n \in Outcomes : Offered(InstantiateOrUpdate(Now, Head(todo), n))
    /\ todo' = Tail(todo)
    /\ UNCHANGED <<stream, out, failures, local, notify, environment>>

\* The last part: the run's next activation, or the eviction of a finished run.
EvictFinished(s, n) ==
    IF s.acts = <<>> /\ s.r.m.finished /\ post.reported
    THEN Then(s, RequestEviction(s.r, "WorkflowExecutionEnding", NoReply, n))
    ELSE s
PostActivationEnd ==
    /\ stream = "open"
    /\ post # NoPost /\ todo = <<>>
    /\ LET x == post.run
       IN  \E n \in BufferedOutcomes(x) :
              Finish(IF post.emitted \/ x \notin DOMAIN runs THEN Now
                     ELSE Apply(Touch(Now, x), x,
                                EvictFinished(CheckMoreActivations(runs[x], n), n)))
    /\ post' = NoPost
    /\ UNCHANGED <<out, failures, local, notify, todo, environment>>

-----------------------------------------------------------------------------
(* Evictions, local activities, shutdown *)

\* An eviction lang asks for (request_workflow_eviction).
RequestWorkflowEviction ==
    /\ Between
    /\ evicts < MaxEvicts
    /\ evicts' = evicts + 1
    /\ \E x \in Runs :
          local' = Append(local, [k |-> "evict", run |-> x, reason |-> "LangRequested"])
    /\ UNCHANGED <<cache, out, failures, notify, todo, post, shutdown, server>>

EvictionRequest ==
    /\ TakesLocal
    /\ LET msg == Head(local)
           x == msg.run
       IN  /\ msg.k = "evict"
           /\ \E n \in BufferedOutcomes(x) :
                 Finish(IF x \notin DOMAIN runs THEN Now
                        ELSE Apply(Touch(Now, x), x, RequestEviction(runs[x], msg.reason, NoReply, n)))
    /\ local' = Tail(local)
    /\ UNCHANGED <<out, failures, notify, todo, post, environment>>

\* The local activity manager hands an attempt to lang, takes back a failed one that
\* nobody has cancelled to try it again, hands lang a queued cancel (and wakes the
\* run), or passes on a result: lang's, or a timeout of an attempt not yet started.
LaMoves(x, from, to) ==
    /\ runs[x].las[from] > 0
    /\ runs' = [runs EXCEPT ![x].las = [@ EXCEPT ![from] = @ - 1, ![to] = @ + 1]]

LaStarts ==
    /\ Idle
    /\ \E x \in DOMAIN runs : LaMoves(x, "pending", "held")
    /\ UNCHANGED <<lru, slotq, fetches, actions, calls, tripped, stream, out, failures, local,
                   notify, todo, post, environment>>

LaRetries ==
    /\ Idle
    /\ \E x \in DOMAIN runs : LaMoves(x, "held", "pending")
    /\ UNCHANGED <<lru, slotq, fetches, actions, calls, tripped, stream, out, failures, local,
                   notify, todo, post, environment>>

LaCancelDelivered ==
    /\ Idle
    /\ \E x \in DOMAIN runs :
          /\ LaMoves(x, "queued", "cancelled")
          /\ notify' = Append(notify, [k |-> "cancelled", run |-> x])
    /\ UNCHANGED <<lru, slotq, fetches, actions, calls, tripped, stream, out, failures, local,
                   todo, post, environment>>

LaResolves ==
    /\ Idle
    /\ \E x \in DOMAIN runs, f \in DOMAIN NoLas :
          /\ runs[x].las[f] > 0
          /\ runs' = [runs EXCEPT ![x].las[f] = @ - 1]
          /\ local' = Append(local, [k |-> "resolution", run |-> x, own |-> TRUE])
    /\ UNCHANGED <<lru, slotq, fetches, actions, calls, tripped, stream, out, failures, notify,
                   todo, post, environment>>

\* The stream handles a result.  Applying one that a former instance of the run
\* asked for is not an assertion of the code; the model records it.
Resolution ==
    /\ TakesLocal
    /\ LET msg == Head(local)
           x == msg.run
       IN  /\ msg.k = "resolution"
           /\ \E n \in BufferedOutcomes(x) :
                 Finish(IF x \notin DOMAIN runs THEN Now
                        ELSE Apply([Touch(Now, x) EXCEPT !.tripped =
                                        IF msg.own \/ DiscardsResolution(runs[x]) THEN @
                                        ELSE @ \cup {"stale_result"}],
                                   x, ResolveLocally(runs[x], n)))
    /\ local' = Tail(local)
    /\ UNCHANGED <<out, failures, notify, todo, post, environment>>

\* The timer behind waiting_on_la fires; the stream handles it later.
HeartbeatFires ==
    /\ Idle
    /\ \E x \in DOMAIN runs :
          /\ runs[x].waiting = "armed"
          /\ runs' = [runs EXCEPT ![x].waiting = "quiet"]
          /\ notify' = Append(notify, [k |-> "heartbeat", run |-> x])
    /\ UNCHANGED <<lru, slotq, fetches, actions, calls, tripped, stream, out, failures, local,
                   todo, post, environment>>

\* The stream handles a notification of the local activity manager.
Notification ==
    /\ TakesNotify
    /\ LET msg == Head(notify)
           x == msg.run
       IN  \E n \in BufferedOutcomes(x) :
              Finish(IF x \notin DOMAIN runs THEN Now
                     ELSE Apply(Touch(Now, x), x,
                                IF msg.k = "heartbeat" THEN HeartbeatTimeout(runs[x], n)
                                ELSE CheckMoreActivations(runs[x], n)))
    /\ notify' = Tail(notify)
    /\ UNCHANGED <<out, failures, local, todo, post, environment>>

\* Worker shutdown: the token is cancelled and the poller stops.
InitiateShutdown ==
    /\ Idle
    /\ MayShutDown /\ ~shutdown
    /\ shutdown' = TRUE
    /\ UNCHANGED <<cache, out, failures, local, notify, todo, post, server, evicts>>

\* The periodic BumpStream of Workflows::shutdown.
BumpStream ==
    /\ TakesExternal
    /\ shutdown
    /\ Finish(Now)
    /\ UNCHANGED <<out, failures, local, notify, todo, post, environment>>

Next ==
    \/ NewWft \/ NewWftFails \/ FetchResult \/ NextPage \/ FetchFails \/ FailedFetch
    \/ PollReturns \/ PollCompletes \/ FailUnstoredWft
    \/ CompleteActivation \/ Completion \/ CallAbandoned
    \/ ReportNothing \/ ReportSucceeds \/ ReportFails \/ PostAfterFailure
    \/ PostActivation \/ PostActivationTask \/ PostActivationEnd
    \/ RequestWorkflowEviction \/ EvictionRequest
    \/ LaStarts \/ LaRetries \/ LaCancelDelivered \/ LaResolves \/ Resolution
    \/ HeartbeatFires \/ Notification
    \/ InitiateShutdown \/ BumpStream

Spec == Init /\ [][Next]_vars

\* Fairness.  Lang polls and completes what it is given, calls and fetches return,
\* each local activity ends (they have timeouts), heartbeat timers fire, the stream's
\* thread handles its inputs, and shutdown bumps the stream every 10 ms.  Nothing
\* makes the server hand out a task, or lang ask for an eviction or a shutdown.
Progress ==
    \/ PollReturns \/ PollCompletes \/ FailUnstoredWft \/ CompleteActivation
    \/ ReportNothing \/ ReportSucceeds \/ ReportFails \/ PostAfterFailure \/ CallAbandoned
    \/ LaStarts \/ LaCancelDelivered \/ LaResolves \/ HeartbeatFires
    \/ PostActivation \/ PostActivationTask \/ PostActivationEnd
    \/ Completion \/ EvictionRequest \/ Resolution \/ Notification
    \/ FetchResult \/ NextPage \/ FailedFetch

\* When some step of Progress is enabled.
Busy ==
    \/ ~Between \/ actions # <<>> \/ \E x \in Runs : out[x] # <<>>
    \/ \E i \in CallIds : calls[i] # Free
    \/ /\ stream = "open"
       /\ \/ local # <<>> \/ notify # <<>> \/ fetches # {} \/ failures # {}
          \/ \E x \in DOMAIN runs : runs[x].las # NoLas \/ runs[x].waiting = "armed"

\* A workflow does not schedule local activities forever, nor is one retried forever.
LasEnd ==
    /\ <>[]\A i \in DOMAIN local : local[i].k = "completion" => local[i].c.las = 0
    /\ <>[][~LaRetries]_vars

\* WF_vars(Progress) and WF_vars(BumpStream), with what enables them spelled out.
FairSpec ==
    /\ Spec
    /\ []<>~Busy \/ []<><<Progress>>_vars
    /\ []<>~(TakesExternal /\ ShutdownDone(Now, fetches)) \/ []<><<BumpStream>>_vars
    /\ LasEnd

-----------------------------------------------------------------------------
(* Properties *)

\* Everything is what it is declared to be, and the LRU order lists each cached run
\* once.
TypeOK ==
    /\ DOMAIN runs \subseteq Runs
    /\ Range(lru) = DOMAIN runs /\ Len(lru) = Cardinality(DOMAIN runs)
    /\ \A x \in DOMAIN runs :
          /\ runs[x].wft.tok \in 0 .. MaxTasks
          /\ runs[x].act \in {"none", "normal", "legacy", "evict", "auto"}
          /\ runs[x].waiting \in {"no", "armed", "quiet", "due"}
          /\ runs[x].onPage.id \in 0 .. MaxCalls
          /\ runs[x].m.executing \in 0 .. MaxLas
          /\ \A f \in DOMAIN runs[x].las : runs[x].las[f] \in 0 .. MaxLas
    /\ \A i \in CallIds : calls[i].st \in {"free", "sent", "reply", "failed"}
    /\ stream \in {"open", "ended"}
    /\ issued \in 0 .. MaxTasks

\* The handlers never reach a panic! or dbg_panic!: a run is never given a second
\* activation or a second task, no completion finds its run or its task gone, no
\* page arrives for a completion nobody waits for, no eviction forgets a cancel lang
\* has not seen, no completion is left unhandled at shutdown.
AssertionsHold == tripped \subseteq {"stale_result"}

\* A local activity result never reaches an instance of its run that did not ask for
\* it: managed_run.rs:881 says a result that arrives during the eviction "would be
\* thrown away with the run".
ResultsDieWithRun == "stale_result" \notin tripped

\* "Shouldn't be possible to be applying a next-page-fetch update when doing
\* anything other than completing an activation" (managed_run.rs:590).
PageHasCompletion == "page_for_no_completion" \notin tripped

\* Failing the workflow instead of the task is never taken for the reply to an
\* eviction ("Reply to an eviction included commands", managed_run.rs:432).
EvictionReplyEmpty == "eviction_reply_with_commands" \notin tripped

\* Failing the workflow instead of the task never needs another page ("Got next page
\* request when auto-failing workflow", managed_run.rs:679).
FailsWithoutPage == "page_request_when_failing" \notin tripped

\* RunCache::instantiate_or_update never pushes a run into a full cache
\* (run_cache.rs panics if it does).
CacheNeverOverflows == Cardinality(DOMAIN runs) <= Capacity

\* No handler gives a run an activation while another one is outstanding
\* (insert_outstanding_activation panics), or a task while it holds one
\* (_incoming_wft: "Trying to send a new WFT for a run which already has one!").
NoCollision == tripped \cap {"second_activation", "task_overwritten"} = {}

\* The activations of run x on their way to lang, and what it has in hand of them.
Queued(x) == {i \in DOMAIN actions : actions[i].run = x /\ actions[i].a \in ForLang}
InHand(x) == {actions[i].a : i \in Queued(x)} \cup Range(out[x])

\* Lang is never given a second activation of a run before it has completed the
\* first, and what it has in hand is what the run has recorded as outstanding.
OneActivationAtATime ==
    stream = "open" => \A x \in Runs :
        /\ Cardinality(Queued(x)) + Len(out[x]) <= 1
        /\ \A a \in InHand(x) : x \in DOMAIN runs /\ runs[x].act = OutstandingActivation(a)

\* Where the sequence of tasks q has the task t.
At(q, t) == {i \in DOMAIN q : q[i].tok = t}

\* The places where the stream keeps the task t.
Places(t) ==
    {<<"held", x>> : x \in {y \in DOMAIN runs : runs[y].wft.tok = t}}
    \cup UNION {{<<"buffered", x, i>> : i \in At(IntoBufferOrder(runs[x].buf), t)} : x \in DOMAIN runs}
    \cup UNION {{<<"slot", i, j>> : j \in At(slotq[i], t)} : i \in DOMAIN slotq}
    \cup {<<"fetch", f>> : f \in {g \in fetches : g.k = "full" /\ g.task.tok = t}}
    \cup {<<"todo", i>> : i \in At(todo, t)}
    \cup {<<"failed", f>> : f \in {g \in failures : g.reply.tok = t}}
    \cup {<<"unstored", i>> : i \in {j \in DOMAIN actions : actions[j].reply.tok = t}}

\* A workflow task, and the slot permit it carries, is in one place at a time.
TaskInOnePlace == \A t \in 1 .. issued : Cardinality(Places(t)) <= 1

\* The server gets at most one answer for a task.
AnsweredOnce == \A t \in Tokens : answers[t] <= 1

\* Nothing is in progress anywhere: no input waits, lang has nothing in hand, no
\* call or fetch is running, no local activity or heartbeat timer is.
Quiet == stream = "open" /\ ~Busy

\* When nothing is in progress, no run is left holding a task or an eviction, and
\* no task is left waiting for its run or for a cache slot.
NoStrandedWork ==
    Quiet => /\ slotq = <<>>
             /\ \A x \in DOMAIN runs : ~HasAnyPendingWork(runs[x], FALSE, FALSE)

\* reconcile_buffered sees to it that every task waiting for a cache slot gets one.
SlotWaitersServed == Quiet => slotq = <<>>

\* The stream ends with no task held, buffered, waiting for a slot or being fetched.
ShutdownDrains ==
    stream = "ended" =>
        /\ slotq = <<>>
        /\ \A x \in DOMAIN runs : ~HasWft(runs[x]) /\ ~HasTasks(runs[x].buf)
        /\ \A f \in fetches : f.k # "full"

\* While an activation is with lang, the task it is for stays with the run.
TaskStaysWithActivation ==
    [][\A x \in DOMAIN runs \cap DOMAIN runs' :
          InHand(x) \notin {{}, {"evict"}} /\ InHand(x)' = InHand(x)
             => runs'[x].wft.tok = runs[x].wft.tok]_vars

\* A run lets go of its task without an answer to the server only if it has nothing
\* to say: the task is a retry of one already reported as failed, the workflow has
\* ended, or the run is evicted with no commands to send.
TaskAnsweredFirst ==
    [][\A x \in DOMAIN runs :
          LET r == runs[x]
          IN  HasWft(r) /\ (x \in DOMAIN runs' => runs'[x].wft.tok # r.wft.tok)
                 => \/ answers[r.wft.tok] > 0
                    \/ r.wft.attempt > 1 \/ r.m.terminal
                    \/ r.act = "evict" /\ ~r.m.output]_vars

\* Whether the worker has the task t, in the stream or in a message to it.
Kept(t) ==
    Places(t) # {} \/ \E i \in DOMAIN local : local[i].k = "post" /\ At(local[i].wft, t) # {}

\* The step does not lose the newest task of run x on its way to the run: it stays
\* with the worker until it is answered, unless it is a failed retry, which is left
\* to time out.
KeepsNewestTask(x) ==
    LET t == latest[x]
        retry == actions # <<>> /\ Head(actions).reply.tok = t /\ Head(actions).reply.attempt > 1
    IN  (/\ t # 0 /\ latest'[x] = t
         /\ Kept(t)
         /\ x \in DOMAIN runs => runs[x].wft.tok # t
         /\ stream' = "open")
        => Kept(t)' \/ answers'[t] > 0 \/ retry

\* Another task takes the place of the one run x has buffered.
Superseded(x) ==
    /\ x \in DOMAIN runs \cap DOMAIN runs'
    /\ runs[x].buf.wft # <<>>
    /\ runs'[x].buf.wft \notin {<<>>, runs[x].buf.wft}

\* Through the buffers, cache slots, fetches and evictions on its way, the newest
\* task of a run is lost only if another one takes its place in the run's buffer.
NewestTaskKeptUnlessSuperseded == [][\A x \in Runs : KeepsNewestTask(x) \/ Superseded(x)]_vars

\* Only an old task is superseded: "any new one will immediately supersede any old
\* one" (workflow/mod.rs:1358).
NewestTaskKept == [][\A x \in Runs : KeepsNewestTask(x)]_vars

\* The task a completion returned is tried once the run is free: finish_activation
\* says it "will supersede any real WFTs in the buffer" (managed_run.rs:703).
ReturnedTaskTried ==
    [][post = NoPost /\ post' # NoPost /\ Head(local).wft # <<>>
          => At(todo', Head(local).wft[1].tok) # {}]_vars

\* A task that is dropped unanswered leaves the run: "We didn't report, but we want
\* to clear the outstanding workflow task anyway" (workflow/mod.rs:1339).
DroppedTaskCleared ==
    [][post = NoPost /\ post' # NoPost /\ Head(local).status = "drop" /\ Head(local).run \in DOMAIN runs'
          => ~HasWft(runs'[Head(local).run])]_vars

\* The failure of a task that could not be fetched is kept with the eviction until
\* it is reported: "so we can reply with a failure to server after the evict goes
\* through" (workflow/mod.rs:1285).
AutoReplySent ==
    [][\A x \in DOMAIN runs :
          LET reply == runs[x].evict.reply
          IN  reply # NoReply
              => \/ x \in DOMAIN runs' /\ runs'[x].evict.reply = reply
                 \/ \E i \in CallIds : calls'[i].out.k = "fail" /\ calls'[i].out.tok = reply.tok]_vars

\* A task that is completed while local activities of the run are still to be
\* executed asks the server for another one, since their results have no other way
\* into history.
LasGetAnotherTask ==
    \A i \in CallIds :
        LET x == calls[i].run
        IN  (/\ Reporting(i) /\ calls[i].out.k = "complete"
             /\ x \in DOMAIN runs /\ OutstandingLas(runs[x].m) > 0)
            => calls[i].out.force

\* Once the worker is shut down the stream ends.
ShutdownCompletes == shutdown ~> stream = "ended"

\* Every task the server hands out is dealt with: the worker does not keep it.
TasksSettle == \A t \in Tokens : issued >= t ~> ~Kept(t) \/ stream = "ended"

\* A run that is to be evicted leaves the cache.
EvictionsComplete ==
    \A x \in Runs : (x \in DOMAIN runs /\ Evicting(runs[x]))
                       ~> (x \notin DOMAIN runs \/ ~Evicting(runs[x]) \/ stream = "ended")
=============================================================================
