------------------------- MODULE WorkflowStreamProofs -------------------------
(***************************************************************************)
(* For every set of runs, cache size and bound: the stream never puts a run *)
(* into a full cache, none of its handlers gives a run a second activation  *)
(* or a second task, the LRU order lists each cached run once, and lang     *)
(* never has two activations of a run.                                      *)
(***************************************************************************)
EXTENDS WorkflowStreamStates

-----------------------------------------------------------------------------
(* Steps of the stream *)

\* The state before a handler.
LEMMA NowGood ==
    ASSUME IInv, stream = "open"
    PROVE  Good(Now) /\ Now.runs = runs
BY DEF IInv, Good, Now

\* Every input but a report leaves the other inputs and lang as they are.
Passes ==
    /\ out' = out
    /\ \/ local' = local
       \/ local # <<>> /\ Head(local).k # "post" /\ local' = Tail(local)

\* Local inputs that keep the reports.
LEMMA HeldLocal ==
    ASSUME NEW x, NEW rs, NEW qs, NEW o, NEW cs, NEW loc, Held(x, rs, qs, o, cs, loc), NEW new,
           NonePosted(x, loc) => NonePosted(x, new), OnePosted(x, loc) => OnePosted(x, new)
    PROVE  Held(x, rs, qs, o, cs, new)
BY ZenonT(30) DEF Held

\* What is left of the local inputs.
LEMMA LocalTail ==
    ASSUME NEW loc, IsSeq(loc), loc # <<>>, \A i \in DOMAIN loc : "k" \in DOMAIN loc[i]
    PROVE  /\ IsSeq(Tail(loc)) /\ \A i \in DOMAIN Tail(loc) : "k" \in DOMAIN Tail(loc)[i]
           /\ Head(loc).k # "post" => \A x :
                 /\ NonePosted(x, loc) => NonePosted(x, Tail(loc))
                 /\ OnePosted(x, loc) => OnePosted(x, Tail(loc))
<1> DEFINE new == Tail(loc)
<1>1. /\ Len(loc) \in Nat /\ DOMAIN loc = 1 .. Len(loc)
      /\ IsSeq(new) /\ Len(new) = Len(loc) - 1
      /\ \A i \in 1 .. Len(loc) - 1 : new[i] = loc[i + 1]
    BY SeqFacts, TailFacts
<1>2. DOMAIN new = 1 .. Len(loc) - 1
    BY <1>1, SeqFacts
<1> HIDE DEF new
<1>3. \A i \in DOMAIN new : i + 1 \in DOMAIN loc
    BY <1>1, <1>2
<1>4. \A i \in DOMAIN new : new[i] = loc[i + 1]
    BY <1>1, <1>2, Zenon
<1>5. ASSUME Head(loc).k # "post", NEW x
      PROVE  /\ NonePosted(x, loc) => NonePosted(x, new)
             /\ OnePosted(x, loc) => OnePosted(x, new)
    <2>1. ~PostFor(Head(loc), x)
        BY <1>5 DEF PostFor
    <2> QED
        BY <1>2, <1>4, <2>1, PostedTail
<1> QED
    BY <1>1, <1>3, <1>4, <1>5, ZenonT(30) DEF new

\* The activations are accounted for after such an input.
LEMMA Carried ==
    ASSUME Received, Passes, NEW rs, NEW qs, NEW cs, Tracked(rs, qs, cs)
    PROVE  Received' /\ \A x \in Runs : Held(x, rs, qs, out', cs, local')
<1>1. CASE local' = local
    BY <1>1 DEF Received, Passes, Tracked
<1>2. CASE local # <<>> /\ Head(local).k # "post" /\ local' = Tail(local)
    <2>1. /\ IsSeq(local') /\ \A i \in DOMAIN local' : "k" \in DOMAIN local'[i]
          /\ \A x : /\ NonePosted(x, local) => NonePosted(x, local')
                    /\ OnePosted(x, local) => OnePosted(x, local')
        BY <1>2, LocalTail, SMTT(30) DEF Received
    <2>2. \A x \in Runs : Held(x, rs, qs, out, cs, local')
        BY <2>1, HeldLocal DEF Tracked
    <2> QED
        BY <2>1, <2>2, SMTT(30) DEF Received, Passes
<1> QED
    BY <1>1, <1>2 DEF Passes

\* Every handler ends in Finish, which reconciles the tasks that wait for a slot.
LEMMA FinishSound ==
    ASSUME IInv, Passes, NEW st, Good(st), Finish(st)
    PROVE  IInv'
<1> DEFINE t == Reconcile(st)
<1>1. Good(t)
    BY ReconcileGood
<1>2. EndInput(t, ShutdownDone(t, t.fetches))
    BY DEF Finish, ReconciledEnd
<1> HIDE DEF t
<1>3. /\ runs' = t.runs /\ lru' = t.lru /\ slotq' = t.slotq /\ calls' = t.calls
      /\ tripped' = t.tripped
      /\ \/ stream' = "open" /\ actions' = t.actions
         \/ stream' = "ended" /\ actions' = actions
    BY <1>2 DEF EndInput
<1>4. Received' /\ \A x \in Runs : Held(x, t.runs, t.actions, out', t.calls, local')
    BY <1>1, Carried DEF IInv, Good
<1>5. Sound(runs, tripped)' /\ Ordered(lru, runs)' /\ Listed(actions, calls)' /\ IsSeq(slotq)'
    BY <1>1, <1>3, ZenonT(30) DEF Good, IInv, Listed, Ordered, Sound
<1>6. stream' = "open" => Tracked(runs, actions, calls)'
    BY <1>3, <1>4 DEF Tracked
<1> QED
    BY <1>4, <1>5, <1>6, SMTT(30) DEF IInv

\* A handler that is one step of a cached run, and nothing else for any other.
LEMMA HandlerGood ==
    ASSUME IInv, stream = "open", NEW x, x \in DOMAIN runs, NEW s, Clean(runs[x].act, s)
    PROVE  Good(Apply(Touch(Now, x), x, s))
<1>1. Good(Touch(Now, x)) /\ Touch(Now, x).runs = runs /\ x \in Cached(Touch(Now, x))
    BY NowGood, TouchGood DEF Cached
<1> QED
    BY <1>1, ApplyGood

\* Every cached run is well-formed.
LEMMA CachedRun ==
    ASSUME IInv, NEW x, x \in DOMAIN runs
    PROVE  IsRun(runs[x])
BY DEF IInv, Sound

\* A call that is given up.
LEMMA HeldFreed ==
    ASSUME NEW x \in Runs, NEW rs, NEW qs, NEW o, NEW cs, NEW loc, Held(x, rs, qs, o, cs, loc),
           DOMAIN cs = CallIds, NEW i
    PROVE  Held(x, rs, qs, o, [cs EXCEPT ![i] = Free], loc)
<1>1. ~CallFor(Free, x)
    BY StreamAssumption DEF CallFor, Free
<1>2. /\ NoCall(x, cs) => NoCall(x, [cs EXCEPT ![i] = Free])
      /\ OneCall(x, cs) => \/ NoCall(x, [cs EXCEPT ![i] = Free])
                           \/ OneCall(x, [cs EXCEPT ![i] = Free])
    BY <1>1, CallsChange, ZenonT(30)
<1> QED
    BY <1>2, ZenonT(30) DEF Held

\* An action that is not for lang.
LEMMA OthersQueued ==
    ASSUME NEW rs, NEW qs, NEW cs, Listed(qs, cs), Tracked(rs, qs, cs), NEW act, act.a \notin ForLang
    PROVE  Listed(Append(qs, act), cs) /\ Tracked(rs, Append(qs, act), cs)
<1>1. IsSeq(qs) /\ IsSeq(<<act>>) /\ Append(qs, act) = qs \o <<act>>
    <2>1. IsSeq(qs) /\ IsSeq(<<act>>)
        BY SmallSeqs, Zenon DEF Listed
    <2>2. PICK S : qs \in Seq(S)
        BY <2>1 DEF IsSeq
    <2>3. qs \in Seq(S \cup {act}) /\ act \in S \cup {act}
        BY <2>2
    <2>4. Append(qs, act) = qs \o <<act>>
        BY <2>3
    <2> QED
        BY <2>1, <2>4, ZenonT(30)
<1>2. \A x : NoneQueued(x, <<act>>)
    BY DEF NoneQueued, ForRun
<1>3. \A x \in Runs : Held(x, rs, qs \o <<act>>, out, cs, local)
    BY <1>1, <1>2, HeldOther DEF Tracked
<1> QED
    BY <1>1, <1>3, ConcatFacts, SMTT(30) DEF Listed, Tracked

\* NewWft, FetchResult and the loop of process_post_activation offer tasks.
LEMMA OffersSound ==
    ASSUME IInv, NewWft \/ FetchResult \/ PostActivationTask
    PROVE  IInv'
<1>0. stream = "open" /\ Passes
    BY Zenon DEF NewWft, FetchResult, PostActivationTask, TakesExternal, Idle, Passes
<1>1. CASE NewWft
    <2>1. PICK task \in Tasks(issued + 1), n \in Outcomes : Finish(InstantiateOrUpdate(Now, task, n))
        BY <1>1 DEF NewWft
    <2> QED
        BY <1>0, <2>1, NowGood, InstantiateOrUpdateGood, FinishSound, SMTT(30)
<1>2. CASE FetchResult
    <2>1. PICK f \in fetches, n \in Outcomes, q \in 1 .. MaxSequences, p \in {FALSE, Paged} :
              Finish(InstantiateOrUpdate(
                  [Now EXCEPT !.fetches = @ \ {f}],
                  [f.task EXCEPT !.incremental = FALSE, !.sequences = q, !.paged = p], n))
        BY <1>2, ZenonT(30) DEF FetchResult
    <2>2. Good([Now EXCEPT !.fetches = @ \ {f}])
        BY <1>0, NowGood, SMTT(30) DEF Good
    <2> QED
        BY <1>0, <2>1, <2>2, InstantiateOrUpdateGood, FinishSound, SMTT(30)
<1>3. CASE PostActivationTask
    <2>1. PICK n \in Outcomes : Offered(InstantiateOrUpdate(Now, Head(todo), n))
        BY <1>3 DEF PostActivationTask
    <2> DEFINE t == InstantiateOrUpdate(Now, Head(todo), n)
    <2>2. Good(t)
        BY <1>0, NowGood, InstantiateOrUpdateGood, SMTT(30)
    <2>3. {"extra_buffered_activation"} \cap Collisions = {}
        BY DEF Collisions
    <2> HIDE DEF t
    <2>4. /\ runs' = t.runs /\ lru' = t.lru /\ slotq' = t.slotq /\ calls' = t.calls
          /\ actions' = t.actions /\ tripped' \subseteq t.tripped \cup {"extra_buffered_activation"}
        BY <2>1 DEF Offered, t
    <2>5. Received' /\ \A x \in Runs : Held(x, t.runs, t.actions, out', t.calls, local')
        BY <1>0, <2>2, Carried, SMTT(30) DEF IInv, Good
    <2>6. Sound(runs, tripped)'
        BY <2>2, <2>3, <2>4, SMTT(30) DEF Good, Sound
    <2>7. Ordered(lru, runs)' /\ Listed(actions, calls)' /\ IsSeq(slotq)'
        BY <2>2, <2>4, SMTT(30) DEF Good, Ordered, Listed
    <2>8. Tracked(runs, actions, calls)'
        BY <2>4, <2>5 DEF Tracked
    <2> QED
        BY <2>5, <2>6, <2>7, <2>8, SMTT(30) DEF IInv
<1> QED
    BY <1>1, <1>2, <1>3

\* NextPage and Completion, the two inputs process_completion handles.
LEMMA CompletionsSound ==
    ASSUME IInv, NextPage \/ Completion
    PROVE  IInv'
<1> DEFINE miss == {"run_missing"}
<1>0. stream = "open" /\ Passes
    BY Zenon DEF NextPage, Completion, TakesExternal, TakesLocal, Idle, Passes
<1>1. miss \cap Collisions = {}
    BY DEF Collisions
<1>2. ASSUME NEW st, Good(st), st.runs = runs, NEW x, x \in DOMAIN runs, NEW s,
             Clean(runs[x].act, s), NEW n, ProcessedCompletion(st, x, s, n)
      PROVE  IInv'
    <2>1. Good(Stepped(st, x, s, n))
        BY <1>2, SteppedGood DEF Cached
    <2> QED
        BY <1>0, <1>2, <2>1, FinishSound, SMTT(30) DEF ProcessedCompletion
<1>3. CASE NextPage
    <2>1. PICK f \in fetches, o \in Outcomes : \E n \in BufferedOutcomes(f.run) :
              LET st == [Touch(Now, f.run) EXCEPT !.fetches = @ \ {f}]
              IN  IF f.run \in Cached(st)
                  THEN ProcessedCompletion(st, f.run, FetchedPageCompletion(runs[f.run], o, n), n)
                  ELSE Finish([st EXCEPT !.tripped = @ \cup miss])
        BY <1>3, Zenon DEF NextPage
    <2> DEFINE st == [Touch(Now, f.run) EXCEPT !.fetches = @ \ {f}]
    <2>2. PICK n : IF f.run \in Cached(st)
                   THEN ProcessedCompletion(st, f.run, FetchedPageCompletion(runs[f.run], o, n), n)
                   ELSE Finish([st EXCEPT !.tripped = @ \cup miss])
        BY <2>1
    <2>3. Good(st) /\ st.runs = runs
        <3>1. Good(Touch(Now, f.run)) /\ Touch(Now, f.run).runs = runs
            BY <1>0, NowGood, TouchGood, SMTT(30)
        <3> QED
            BY <3>1 DEF Good
    <2> HIDE DEF st
    <2>4. Good([st EXCEPT !.tripped = @ \cup miss])
        BY <1>1, <2>3, SMTT(30) DEF Good, Sound
    <2>5. CASE f.run \in DOMAIN runs
        <3>1. Clean(runs[f.run].act, FetchedPageCompletion(runs[f.run], o, n))
            BY <2>5, CachedRun, FetchedPageCompletionClean, SMTT(30)
        <3>2. ProcessedCompletion(st, f.run, FetchedPageCompletion(runs[f.run], o, n), n)
            BY <2>2, <2>3, <2>5, SMTT(30) DEF Cached
        <3> QED
            BY <1>2, <2>3, <2>5, <3>1, <3>2, SMTT(30)
    <2>6. CASE f.run \notin DOMAIN runs
        BY <1>0, <2>2, <2>3, <2>4, <2>6, FinishSound, SMTT(30) DEF Cached
    <2> QED
        BY <2>5, <2>6
<1>4. CASE Completion
    <2> DEFINE msg == Head(local)
               x == msg.run
    <2>1. CASE x \notin DOMAIN runs
        <3>1. Finish([Now EXCEPT !.tripped = @ \cup miss, !.calls[msg.c.id] = Free])
            BY <1>4, <2>1, SMTT(30) DEF Completion
        <3> HIDE DEF msg
        <3>2. Good(Now) /\ Now.runs = runs /\ Now.calls = calls /\ Now.actions = actions
            BY <1>0, NowGood DEF Now
        <3> DEFINE t == [Now EXCEPT !.tripped = @ \cup miss, !.calls[msg.c.id] = Free]
        <3>3. /\ DOMAIN t = DOMAIN Now /\ t.runs = Now.runs /\ t.lru = Now.lru
              /\ t.actions = Now.actions /\ t.slotq = Now.slotq /\ t.tripped = Now.tripped \cup miss
              /\ t.calls = [calls EXCEPT ![msg.c.id] = Free]
            BY <3>2, SMTT(30) DEF Good
        <3> HIDE DEF t
        <3>4. Listed(actions, calls) /\ Listed(t.actions, t.calls)
            BY <3>2, <3>3 DEF Good, Listed
        <3>5. Tracked(t.runs, t.actions, t.calls)
            <4>1. \A z \in Runs : Held(z, t.runs, t.actions, out, calls, local)
                BY <3>2, <3>3, ZenonT(30) DEF Good, Tracked
            <4>2. DOMAIN calls = CallIds
                BY <3>4, ZenonT(30) DEF Listed
            <4>3. \A z \in Runs :
                    Held(z, t.runs, t.actions, out, [calls EXCEPT ![msg.c.id] = Free], local)
                BY <4>1, <4>2, HeldFreed, ZenonT(30)
            <4> QED
                BY <3>3, <4>3, ZenonT(30) DEF Tracked
        <3>6. Good(t)
            BY <1>1, <3>2, <3>3, <3>4, <3>5, ZenonT(30) DEF Good, Sound
        <3> QED
            BY <1>0, <3>1, <3>6, FinishSound, SMTT(30) DEF t
    <2>2. CASE x \in DOMAIN runs
        <3>1. PICK o \in Outcomes, n \in BufferedOutcomes(x) :
                ProcessedCompletion(Touch(Now, x), x,
                    IF msg.fail = "none" THEN SuccessfulCompletion(runs[x], msg.c, o, n)
                    ELSE FailedCompletion(runs[x],
                             IF msg.fail \in {"langNde", "autoNde"} THEN "nde" ELSE "unhandled",
                             IF msg.fail \in {"lang", "langNde"} THEN "LangFail" ELSE "Unspecified",
                             msg.fail \in {"auto", "autoNde"}, msg.c.id, n), n)
            BY <1>4, <2>2, SMTT(30) DEF Completion
        <3>2. \A cause, reason, auto :
                 Clean(runs[x].act, FailedCompletion(runs[x], cause, reason, auto, msg.c.id, n))
            BY <2>2, CachedRun, FailedCompletionClean, SMTT(30)
        <3>3. Clean(runs[x].act, SuccessfulCompletion(runs[x], msg.c, o, n))
            BY <2>2, CachedRun, SuccessfulCompletionClean, SMTT(30)
        <3>4. Good(Touch(Now, x)) /\ Touch(Now, x).runs = runs
            BY <1>0, NowGood, TouchGood, SMTT(30)
        <3> HIDE DEF msg
        <3> QED
            BY <1>2, <2>2, <3>1, <3>2, <3>3, <3>4, ZenonT(30)
    <2> QED
        BY <2>1, <2>2
<1> QED
    BY <1>3, <1>4

\* FailedFetch and EvictionRequest ask a cached run to go.
LEMMA EvictionsSound ==
    ASSUME IInv, FailedFetch \/ EvictionRequest
    PROVE  IInv'
<1>0. stream = "open" /\ Passes
    BY DEF FailedFetch, EvictionRequest, TakesExternal, TakesLocal, Idle, Passes
<1>1. ASSUME NEW x, x \in DOMAIN runs, NEW reason, NEW reply, NEW n
      PROVE  Good(Apply(Touch(Now, x), x, RequestEviction(runs[x], reason, reply, n)))
    BY <1>0, <1>1, CachedRun, RequestEvictionClean, HandlerGood, SMTT(30)
<1>2. CASE FailedFetch
    <2>1. PICK f \in failures : \E n \in BufferedOutcomes(f.run) :
              Finish(IF f.run \in DOMAIN runs
                     THEN Apply(Touch(Now, f.run), f.run,
                                RequestEviction(runs[f.run], "PaginationOrHistoryFetch", f.reply, n))
                     ELSE IF f.reply = NoReply THEN Now
                     ELSE [Now EXCEPT !.actions =
                              Append(@, [run |-> f.run, a |-> "unstored", reply |-> f.reply])])
        BY <1>2, ZenonT(30) DEF FailedFetch
    <2>2. Good([Now EXCEPT !.actions =
                   Append(@, [run |-> f.run, a |-> "unstored", reply |-> f.reply])])
        <3> DEFINE a == [run |-> f.run, a |-> "unstored", reply |-> f.reply]
                   t == [Now EXCEPT !.actions = Append(@, a)]
        <3>1. Good(Now) /\ ForRun(a, f.run) = FALSE /\ a.a \notin ForLang
            BY <1>0, NowGood, SMTT(30) DEF ForRun, ForLang
        <3> HIDE DEF a
        <3>2. /\ DOMAIN t = DOMAIN Now /\ t.runs = Now.runs /\ t.lru = Now.lru /\ t.slotq = Now.slotq
              /\ t.calls = Now.calls /\ t.tripped = Now.tripped
              /\ t.actions = Append(Now.actions, a)
            BY <3>1, SMTT(30) DEF Good
        <3> HIDE DEF t
        <3>3. Listed(t.actions, t.calls) /\ Tracked(t.runs, t.actions, t.calls)
            BY <3>1, <3>2, OthersQueued, SMTT(30) DEF Good
        <3>4. Good(t)
            BY <3>1, <3>2, <3>3, SMTT(30) DEF Good
        <3> QED
            BY <3>4 DEF t, a
    <2> QED
        BY <1>0, <1>1, <2>1, <2>2, NowGood, FinishSound, SMTT(30)
<1>3. CASE EvictionRequest
    <2> DEFINE msg == Head(local)
               x == msg.run
    <2>1. PICK n \in BufferedOutcomes(x) :
              Finish(IF x \notin DOMAIN runs THEN Now
                     ELSE Apply(Touch(Now, x), x, RequestEviction(runs[x], msg.reason, NoReply, n)))
        BY <1>3, ZenonT(30) DEF EvictionRequest
    <2> HIDE DEF msg
    <2> QED
        BY <1>0, <1>1, <2>1, NowGood, FinishSound, SMTT(30)
<1> QED
    BY <1>2, <1>3

\* Local activity results, heartbeats, and the end of process_post_activation make
\* a cached run look for its next activation.
LEMMA UpdatesSound ==
    ASSUME IInv, Resolution \/ Notification \/ PostActivationEnd
    PROVE  IInv'
<1>0. stream = "open" /\ Passes
    BY DEF Resolution, Notification, PostActivationEnd, TakesNotify, TakesLocal, Idle, Passes
<1>1. CASE Resolution
    <2> DEFINE msg == Head(local)
               x == msg.run
               st == [Touch(Now, x) EXCEPT !.tripped =
                         IF msg.own \/ DiscardsResolution(runs[x]) THEN @
                         ELSE @ \cup {"stale_result"}]
    <2>1. PICK n \in BufferedOutcomes(x) :
              Finish(IF x \notin DOMAIN runs THEN Now ELSE Apply(st, x, ResolveLocally(runs[x], n)))
        BY <1>1 DEF Resolution
    <2>2. Good(Touch(Now, x)) /\ Touch(Now, x).runs = runs
        BY <1>0, NowGood, TouchGood, SMTT(30)
    <2>3. {"stale_result"} \cap Collisions = {}
        BY SMTT(30) DEF Collisions
    <2>4. Good(st) /\ st.runs = runs
        BY <2>2, <2>3, SMTT(30) DEF Good, Sound
    <2> HIDE DEF st, msg
    <2>5. x \in DOMAIN runs => Good(Apply(st, x, ResolveLocally(runs[x], n)))
        BY <2>4, CachedRun, ResolveLocallyClean, ApplyGood, SMTT(30) DEF Cached
    <2> QED
        BY <1>0, <2>1, <2>5, NowGood, FinishSound, SMTT(30)
<1>2. CASE Notification
    <2> DEFINE msg == Head(notify)
               x == msg.run
    <2>1. PICK n \in BufferedOutcomes(x) :
              Finish(IF x \notin DOMAIN runs THEN Now
                     ELSE Apply(Touch(Now, x), x,
                                IF msg.k = "heartbeat" THEN HeartbeatTimeout(runs[x], n)
                                ELSE CheckMoreActivations(runs[x], n)))
        BY <1>2 DEF Notification
    <2> HIDE DEF msg
    <2>2. x \in DOMAIN runs =>
             /\ Clean(runs[x].act, HeartbeatTimeout(runs[x], n))
             /\ Clean(runs[x].act, CheckMoreActivations(runs[x], n))
        BY CachedRun, HeartbeatTimeoutClean, CheckMoreActivationsClean, SMTT(30)
    <2> QED
        BY <1>0, <2>1, <2>2, NowGood, HandlerGood, FinishSound, SMTT(30)
<1>3. CASE PostActivationEnd
    <2> DEFINE x == post.run
    <2>1. PICK n \in BufferedOutcomes(x) :
              Finish(IF post.emitted \/ x \notin DOMAIN runs THEN Now
                     ELSE Apply(Touch(Now, x), x, EvictFinished(CheckMoreActivations(runs[x], n), n)))
        BY <1>3, ZenonT(30) DEF PostActivationEnd
    <2>2. ASSUME NEW before, NEW s, Clean(before, s)
          PROVE  Clean(before, EvictFinished(s, n))
        <3>1. Clean(s.r.act, RequestEviction(s.r, "WorkflowExecutionEnding", NoReply, n))
            BY <2>2, RequestEvictionClean, ZenonT(30) DEF Clean
        <3> QED
            BY <2>2, <3>1, ThenClean, SMTT(30) DEF EvictFinished
    <2>3. x \in DOMAIN runs =>
             Clean(runs[x].act, EvictFinished(CheckMoreActivations(runs[x], n), n))
        BY <2>2, CachedRun, CheckMoreActivationsClean, ZenonT(30)
    <2> QED
        BY <1>0, <2>1, <2>3, NowGood, HandlerGood, FinishSound, SMTT(30)
<1> QED
    BY <1>1, <1>2, <1>3

\* The inputs left when a report is taken and results of its run are disowned.
LEMMA LocalDisowned ==
    ASSUME NEW loc, IsSeq(loc), loc # <<>>, \A i \in DOMAIN loc : "k" \in DOMAIN loc[i], NEW new,
           new = [i \in 1 .. Len(loc) - 1 |-> new[i]],
           \A i \in DOMAIN new : new[i] \in {loc[i + 1], Disown(loc[i + 1])}
    PROVE  /\ IsSeq(new) /\ \A i \in DOMAIN new : "k" \in DOMAIN new[i]
           /\ \A x : /\ NonePosted(x, loc) => NonePosted(x, new) /\ ~PostFor(Head(loc), x)
                     /\ OnePosted(x, loc) =>
                           IF PostFor(Head(loc), x) THEN NonePosted(x, new) ELSE OnePosted(x, new)
<1> DEFINE n == Len(loc)
<1>1. n \in Nat /\ n > 0 /\ DOMAIN loc = 1 .. n
    BY SeqFacts, TailFacts, SMTT(30)
<1>2. DOMAIN new = 1 .. n - 1 /\ IsSeq(new)
    <2>1. n - 1 \in Nat
        BY <1>1
    <2> HIDE DEF n
    <2>2. new = [i \in 1 .. n - 1 |-> new[i]]
        BY DEF n
    <2> QED
        BY <2>1, <2>2, FunctionSeq, SMTT(30)
<1>3. ASSUME NEW msg, "k" \in DOMAIN msg
      PROVE  /\ "k" \in DOMAIN Disown(msg)
             /\ \A x : PostFor(Disown(msg), x) <=> PostFor(msg, x)
    <2>1. CASE msg.k = "resolution"
        <3>1. Disown(msg).k = "resolution" /\ "k" \in DOMAIN Disown(msg)
            BY <1>3, <2>1, SMTT(30) DEF Disown
        <3> QED
            BY <2>1, <3>1 DEF PostFor
    <2>2. CASE msg.k # "resolution"
        BY <1>3, <2>2, SMTT(30) DEF Disown
    <2> QED
        BY <2>1, <2>2, SMTT(30)
<1>4. \A i \in DOMAIN new : i + 1 \in DOMAIN loc
    BY <1>1, <1>2, SMTT(30)
<1>5. \A i \in DOMAIN new : /\ "k" \in DOMAIN new[i]
                           /\ \A x : PostFor(new[i], x) <=> PostFor(loc[i + 1], x)
    BY <1>3, <1>4
<1> QED
    BY <1>2, <1>5, PostedTail, SMTT(30)

\* The first part of process_post_activation changes one run, or takes it out.  The
\* report of an activation of lang finishes it, one of the worker's own activations
\* leaves the activations of lang alone.
LEMMA PostActivationSound ==
    ASSUME IInv, PostActivation
    PROVE  IInv'
<1> DEFINE msg == Head(local)
           x == msg.run
           one(r) == [runs EXCEPT ![x] = r]
           rest == [y \in DOMAIN runs \ {x} |-> runs[y]]
<1>0. /\ stream = "open" /\ stream' = stream /\ local # <<>> /\ msg.k = "post"
      /\ actions' = actions /\ calls' = calls /\ out' = out
    BY Zenon DEF PostActivation, TakesLocal, Idle
<1>1. {"cancel_lost"} \cap Collisions = {}
    BY DEF Collisions
<1>2. tripped' \cap Collisions = {}
    BY <1>1, ZenonT(30) DEF PostActivation, IInv, Sound
<1>3. /\ local' = [i \in 1 .. Len(local) - 1 |-> local'[i]]
      /\ \A i \in DOMAIN local' : local'[i] \in {local[i + 1], Disown(local[i + 1])}
    BY ZenonT(30) DEF PostActivation
<1>4. /\ IsSeq(local') /\ \A i \in DOMAIN local' : "k" \in DOMAIN local'[i]
      /\ \A y : /\ NonePosted(y, local) => NonePosted(y, local') /\ ~PostFor(msg, y)
                /\ OnePosted(y, local) =>
                      IF PostFor(msg, y) THEN NonePosted(y, local') ELSE OnePosted(y, local')
    BY <1>0, <1>3, LocalDisowned, SMTT(30) DEF IInv, Received
<1>5. Received' /\ Listed(actions, calls)'
    BY <1>0, <1>4, ZenonT(30) DEF IInv, Received, Listed
<1>6. slotq' = slotq \/ (slotq # <<>> /\ slotq' = Tail(slotq))
    BY ZenonT(30) DEF PostActivation
<1>7. IsSeq(slotq')
    BY <1>6, TailFacts, ZenonT(30) DEF IInv
<1>8. \/ runs' = runs /\ lru' = lru /\ x \notin DOMAIN runs
      \/ x \in DOMAIN runs /\ runs' = rest /\ lru' = Without(lru, {x}) /\ ~msg.auto
      \/ /\ x \in DOMAIN runs /\ lru' = Append(Without(lru, {x}), x)
         /\ \E r : /\ IsRun(r) /\ runs' = one(r)
                   /\ msg.auto => r.act = runs[x].act \/ runs[x].act = "auto"
    <2>1. CASE x \notin DOMAIN runs
        BY <2>1, ZenonT(30) DEF PostActivation
    <2>2. CASE x \in DOMAIN runs
        <3>1. Touch(Now, x).lru = Append(Without(lru, {x}), x)
            BY <2>2 DEF Touch, Now, Cached
        <3>2. \A r : IsRun(r) => /\ IsRun(MarkWftComplete(r)) /\ MarkWftComplete(r).act = r.act
                                /\ IsRun([r EXCEPT !.act = "none"]) /\ [r EXCEPT !.act = "none"].act = "none"
            BY DEF MarkWftComplete, IsRun, NewRun
        <3> DEFINE r1 == IF x \in DOMAIN runs /\ CompletesWft(runs[x], msg.status)
                         THEN MarkWftComplete(runs[x]) ELSE runs[x]
                   finish == FinishesActivation(r1, msg.auto)
                   evict == x \in DOMAIN runs /\ finish /\ r1.act = "evict"
                   r2 == IF finish THEN [r1 EXCEPT !.act = "none"] ELSE r1
        <3>3. /\ runs' = IF evict THEN rest ELSE one(r2)
              /\ lru' = IF evict THEN Without(lru, {x}) ELSE Touch(Now, x).lru
            BY <2>2, ZenonT(30) DEF PostActivation
        <3>4. IsRun(r1) /\ r1.act = runs[x].act
            BY <2>2, <3>2, CachedRun, ZenonT(30)
        <3> HIDE DEF r1
        <3>5. IsRun(r2) /\ (msg.auto => r2.act = runs[x].act \/ runs[x].act = "auto")
            BY <3>2, <3>4, SMTT(30) DEF FinishesActivation
        <3>6. evict => ~msg.auto
            BY <3>4, SMTT(30) DEF FinishesActivation
        <3> HIDE DEF r2, evict, one, rest
        <3> QED
            BY <2>2, <3>1, <3>3, <3>5, <3>6, ZenonT(30)
    <2> QED
        BY <2>1, <2>2, ZenonT(30)
<1>9. \A y \in DOMAIN runs : y # x => y \in DOMAIN runs' /\ runs'[y] = runs[y]
    BY <1>8
<1>10. Tracked(runs, actions, calls)'
    <2> SUFFICES ASSUME NEW y \in Runs
                 PROVE  Held(y, runs', actions, out, calls, local')
        BY <1>0 DEF Tracked
    <2>1. Held(y, runs, actions, out, calls, local)
        BY <1>0 DEF IInv, Tracked
    <2>2. CASE PostFor(msg, y)
        <3>1. OnePosted(y, local)
              /\ NoneQueued(y, actions) /\ out[y] = <<>> /\ NoCall(y, calls)
            BY <1>4, <2>1, <2>2, ZenonT(30) DEF Held
        <3>2. NonePosted(y, local')
            BY <1>4, <2>2, <3>1, ZenonT(30)
        <3> QED
            BY <3>1, <3>2, ZenonT(30) DEF Held
    <2>3. CASE ~PostFor(msg, y)
        <3>1. Held(y, runs, actions, out, calls, local')
            BY <1>4, <2>1, <2>3, HeldLocal, ZenonT(30)
        <3>2. CASE y # x \/ x \notin DOMAIN runs
            <4>1. y \in DOMAIN runs => y \in DOMAIN runs' /\ runs'[y].act = runs[y].act
                BY <1>9, <3>2, SMTT(30)
            <4> QED
                BY <3>1, <4>1, HeldSame, SMTT(30)
        <3>3. CASE y = x /\ x \in DOMAIN runs
            <4>1. msg.auto
                BY <1>0, <2>3, <3>3, SMTT(30) DEF PostFor
            <4>2. x \in DOMAIN runs' /\ (runs'[x].act = runs[x].act \/ runs[x].act = "auto")
                BY <1>8, <3>3, <4>1, SMTT(30)
            <4>3. CASE runs'[x].act = runs[x].act
                BY <3>1, <3>3, <4>2, <4>3, HeldSame, SMTT(30)
            <4>4. CASE runs[x].act = "auto"
                <5>1. ~LangHolds(runs, y)
                    BY <3>3, <4>4, SMTT(30) DEF LangHolds
                <5> QED
                    BY <3>1, <5>1, HeldNothing, ZenonT(30) DEF Held
            <4> QED
                BY <4>2, <4>3, <4>4, SMTT(30)
        <3> QED
            BY <3>2, <3>3, SMTT(30)
    <2> QED
        BY <2>2, <2>3, SMTT(30)
<1>11. CASE runs' = runs /\ lru' = lru
    BY <1>2, <1>5, <1>7, <1>10, <1>11, SMTT(30) DEF IInv, Sound, Ordered
<1>12. CASE x \in DOMAIN runs /\ runs' = rest /\ lru' = Without(lru, {x})
    <2>1. DOMAIN runs' = DOMAIN runs \ {x} /\ \A y \in DOMAIN runs' : runs'[y] = runs[y]
        BY <1>12
    <2>2. /\ IsFiniteSet(DOMAIN runs \ {x})
          /\ Cardinality(DOMAIN runs \ {x}) = Cardinality(DOMAIN runs) - 1
        BY <1>12, FS_RemoveElement, ZenonT(30) DEF IInv, Sound
    <2>3. Cardinality(DOMAIN runs) \in Nat /\ Capacity \in Nat
        BY FS_CardinalityType, StreamAssumption, SMTT(30) DEF IInv, Sound, Capacity
    <2>4. Cardinality(DOMAIN runs') <= Capacity
        BY <2>1, <2>2, <2>3, SMTT(30) DEF IInv, Sound
    <2>5. Sound(runs, tripped)'
        BY <1>2, <2>1, <2>2, <2>4, SMTT(30) DEF IInv, Sound
    <2>6. Ordered(lru, runs)'
        BY <1>12, <2>1, WithoutFacts, ZenonT(30) DEF IInv, Ordered
    <2> QED
        BY <1>5, <1>7, <1>10, <2>5, <2>6, SMTT(30) DEF IInv
<1>13. ASSUME x \in DOMAIN runs, lru' = Append(Without(lru, {x}), x),
              NEW r, IsRun(r), runs' = one(r)
       PROVE  IInv'
    <2>1. DOMAIN runs' = DOMAIN runs /\ \A y \in DOMAIN runs : IsRun(runs'[y])
        BY <1>13, SMTT(30) DEF IInv, Sound
    <2>2. Ordered(lru, runs)'
        <3>1. Ordered(lru', runs)
            BY <1>13, Renewed, ZenonT(30) DEF IInv
        <3> QED
            BY <2>1, <3>1 DEF Ordered
    <2> QED
        BY <1>2, <1>5, <1>7, <1>10, <2>1, <2>2, SMTT(30) DEF IInv, Sound
<1> QED
    BY <1>8, <1>11, <1>12, <1>13, ZenonT(30)

\* A local input that is added.
LEMMA LocalAppend ==
    ASSUME NEW loc, IsSeq(loc), \A i \in DOMAIN loc : "k" \in DOMAIN loc[i],
           NEW msg, "k" \in DOMAIN msg
    PROVE  IsSeq(Append(loc, msg)) /\ \A i \in DOMAIN Append(loc, msg) : "k" \in DOMAIN Append(loc, msg)[i]
<1> DEFINE n == Len(loc)
           new == Append(loc, msg)
<1>1. /\ n \in Nat /\ DOMAIN loc = 1 .. n
      /\ IsSeq(new) /\ Len(new) = n + 1 /\ new[n + 1] = msg
      /\ \A i \in 1 .. n : new[i] = loc[i]
    BY SeqFacts, AppendFacts, SMTT(30)
<1>2. DOMAIN new = 1 .. n + 1
    BY <1>1, SeqFacts, SMTT(30)
<1>3. \A i \in DOMAIN new : i \in 1 .. n \/ i = n + 1
    BY <1>1, <1>2, SMTT(30)
<1> HIDE DEF n, new
<1>4. \A i \in DOMAIN new : "k" \in DOMAIN new[i]
    BY <1>1, <1>3, SMTT(30)
<1> QED
    BY <1>1, <1>4, SMTT(30) DEF new

\* An input that is no report leaves the reports as they are.
LEMMA HeldAppend ==
    ASSUME NEW x, NEW rs, NEW qs, NEW o, NEW cs, NEW loc, Held(x, rs, qs, o, cs, loc), IsSeq(loc),
           NEW msg, msg.k # "post"
    PROVE  Held(x, rs, qs, o, cs, Append(loc, msg))
<1>1. ~PostFor(msg, x)
    BY DEF PostFor
<1>2. /\ NonePosted(x, loc) => NonePosted(x, Append(loc, msg))
      /\ OnePosted(x, loc) => OnePosted(x, Append(loc, msg))
    BY <1>1, PostedAppend, SMTT(30)
<1> QED
    BY <1>2, HeldLocal, SMTT(30)

\* The local activity manager and the heartbeat timer change one field of a run.
LEMMA ManagerSound ==
    ASSUME IInv, LaStarts \/ LaRetries \/ LaCancelDelivered \/ LaResolves \/ HeartbeatFires
    PROVE  IInv'
<1>1. ASSUME NEW x, x \in DOMAIN runs, NEW las
      PROVE  LET r == [runs[x] EXCEPT !.las = las] IN IsRun(r) /\ r.act = runs[x].act
    BY <1>1, CachedRun, SMTT(30) DEF IsRun, NewRun
<1>2. ASSUME NEW x, x \in DOMAIN runs
      PROVE  LET r == [runs[x] EXCEPT !.waiting = "quiet"] IN IsRun(r) /\ r.act = runs[x].act
    BY <1>2, CachedRun, SMTT(30) DEF IsRun, NewRun
<1>3. \E x \in DOMAIN runs : \E r : IsRun(r) /\ r.act = runs[x].act /\ runs' = [runs EXCEPT ![x] = r]
    <2>1. CASE LaStarts
        BY <1>1, <2>1, ZenonT(30) DEF LaStarts, LaMoves
    <2>2. CASE LaRetries
        BY <1>1, <2>2, ZenonT(30) DEF LaRetries, LaMoves
    <2>3. CASE LaCancelDelivered
        BY <1>1, <2>3, ZenonT(30) DEF LaCancelDelivered, LaMoves
    <2>4. CASE LaResolves
        BY <1>1, <2>4, ZenonT(30) DEF LaResolves
    <2>5. CASE HeartbeatFires
        BY <1>2, <2>5, ZenonT(30) DEF HeartbeatFires
    <2> QED
        BY <2>1, <2>2, <2>3, <2>4, <2>5, SMTT(30)
<1>4. PICK x \in DOMAIN runs :
        \E r : IsRun(r) /\ r.act = runs[x].act /\ runs' = [runs EXCEPT ![x] = r]
    BY <1>3, ZenonT(30)
<1>5. /\ DOMAIN runs' = DOMAIN runs
      /\ \A y \in DOMAIN runs : IsRun(runs'[y]) /\ runs'[y].act = runs[y].act
    BY <1>4, SMTT(30) DEF IInv, Sound
<1>6. /\ tripped' = tripped /\ lru' = lru /\ slotq' = slotq /\ actions' = actions
      /\ calls' = calls /\ out' = out /\ stream' = stream
    BY DEF LaStarts, LaRetries, LaCancelDelivered, LaResolves, HeartbeatFires
<1>7. local' = local \/ \E y \in DOMAIN runs :
          local' = Append(local, [k |-> "resolution", run |-> y, own |-> TRUE])
    BY Zenon DEF LaStarts, LaRetries, LaCancelDelivered, LaResolves, HeartbeatFires
<1>8. Received'
    BY <1>6, <1>7, LocalAppend, ZenonT(30) DEF IInv, Received
<1>9. ASSUME stream = "open", NEW y \in Runs
      PROVE  Held(y, runs', actions, out, calls, local')
    <2>1. Held(y, runs', actions, out, calls, local)
        BY <1>5, <1>9, HeldSame, SMTT(30) DEF IInv, Tracked
    <2>2. \A z : [k |-> "resolution", run |-> z, own |-> TRUE].k # "post"
        OBVIOUS
    <2> QED
        BY <1>7, <2>1, <2>2, HeldAppend, ZenonT(30) DEF IInv, Received
<1>10. stream' = "open" => Tracked(runs, actions, calls)'
    BY <1>6, <1>9, SMTT(30) DEF Tracked
<1>11. Sound(runs, tripped)' /\ Ordered(lru, runs)' /\ Listed(actions, calls)' /\ IsSeq(slotq)'
    BY <1>5, <1>6, ZenonT(30) DEF IInv, Sound, Ordered, Listed
<1> QED
    BY <1>8, <1>10, <1>11, SMTT(30) DEF IInv

\* A step that leaves the cache alone.
LEMMA RunsKept ==
    ASSUME IInv, runs' = runs, lru' = lru, slotq' = slotq, stream' = stream,
           tripped' \cap Collisions = {}, Listed(actions, calls)', Received',
           stream = "open" => \A x \in Runs : Held(x, runs, actions', out', calls', local')
    PROVE  IInv'
<1>1. stream' = "open" => Tracked(runs, actions, calls)'
    BY DEF Tracked
<1>2. Sound(runs, tripped)' /\ Ordered(lru, runs)' /\ IsSeq(slotq)'
    BY DEF IInv, Sound, Ordered
<1> QED
    BY <1>1, <1>2, SMTT(30) DEF IInv

\* An action that is not for run x is polled.
LEMMA HeldTail ==
    ASSUME NEW x, NEW rs, NEW qs, NEW o, NEW cs, NEW loc, Held(x, rs, qs, o, cs, loc),
           IsSeq(qs), qs # <<>>, ~ForRun(Head(qs), x)
    PROVE  Held(x, rs, Tail(qs), o, cs, loc)
<1>1. /\ NoneQueued(x, qs) => NoneQueued(x, Tail(qs))
      /\ \A a : OneQueued(x, qs, a) => OneQueued(x, Tail(qs), a)
    BY QueuedTail
<1> QED
    BY <1>1, ZenonT(30) DEF Held

\* A completion that is sent: one input that is no report, and one call, unless the
\* stream has ended.
LEMMA Sent ==
    ASSUME IInv, NEW x, NEW a, NEW auto \in BOOLEAN, SendCompletion(x, a, auto)
    PROVE  /\ tripped' \cap Collisions = {}
           /\ IsSeq(local') /\ \A i \in DOMAIN local' : "k" \in DOMAIN local'[i]
           /\ DOMAIN calls' = CallIds /\ \A i \in CallIds : DOMAIN calls'[i] = DOMAIN Free
           /\ stream = "open" => \A y \in Runs :
                 /\ NonePosted(y, local) => NonePosted(y, local')
                 /\ OnePosted(y, local) => OnePosted(y, local')
                 /\ NoCall(y, calls) => IF y = x /\ ~auto THEN OneCall(y, calls') ELSE NoCall(y, calls')
                 /\ OneCall(y, calls) /\ ~(y = x /\ ~auto) => OneCall(y, calls')
<1>1. {"completion_not_processed"} \cap Collisions = {}
    BY DEF Collisions
<1>2. CASE stream # "open"
    <2>1. /\ tripped' \subseteq tripped \cup {"completion_not_processed"}
          /\ local' = local /\ calls' = calls
        BY <1>2 DEF SendCompletion
    <2> QED
        BY <1>1, <1>2, <2>1, ZenonT(30) DEF IInv, Sound, Received, Listed
<1>3. CASE stream = "open"
    <2> DEFINE input(i, p) == [k |-> "completion", run |-> x, c |-> [p.c EXCEPT !.id = i],
                               fail |-> p.fail]
               call(p) == [Free EXCEPT !.st = "sent", !.run = x, !.auto = auto,
                                       !.empty = p = [c |-> Empty, fail |-> "none"]]
               replies == IF x \in DOMAIN runs THEN Replies(x, a) ELSE {[c |-> Empty, fail |-> "none"]}
    <2>0. \E i \in CallIds :
             /\ calls[i] = Free
             /\ \A j \in 1 .. i - 1 : calls[j] # Free
             /\ \E p \in replies : /\ local' = Append(local, input(i, p))
                                  /\ calls' = [calls EXCEPT ![i] = call(p)]
             /\ UNCHANGED tripped
        BY <1>3, ZenonT(30) DEF SendCompletion
    <2> HIDE DEF input, call, replies
    <2>a. PICK i \in CallIds : /\ calls[i] = Free /\ tripped' = tripped
                               /\ \E p : /\ local' = Append(local, input(i, p))
                                        /\ calls' = [calls EXCEPT ![i] = call(p)]
        BY <2>0, ZenonT(30)
    <2>b. PICK p : local' = Append(local, input(i, p)) /\ calls' = [calls EXCEPT ![i] = call(p)]
        BY <2>a, ZenonT(30)
    <2>1. /\ calls[i] = Free /\ tripped' = tripped
          /\ \E c, m : /\ DOMAIN c = DOMAIN Free /\ c.run = x /\ c.auto = auto
                      /\ "k" \in DOMAIN m /\ m.k = "completion"
                      /\ local' = Append(local, m)
                      /\ calls' = [calls EXCEPT ![i] = c]
        <3>1. DOMAIN call(p) = DOMAIN Free /\ call(p).run = x /\ call(p).auto = auto
            BY DEF Free, call
        <3>2. "k" \in DOMAIN input(i, p) /\ input(i, p).k = "completion"
            BY DEF input
        <3> QED
            BY <2>a, <2>b, <3>1, <3>2, ZenonT(30)
    <2>2. PICK c, m : /\ DOMAIN c = DOMAIN Free /\ c.run = x /\ c.auto = auto
                      /\ "k" \in DOMAIN m /\ m.k = "completion"
                      /\ local' = Append(local, m)
                      /\ calls' = [calls EXCEPT ![i] = c]
        BY <2>1, ZenonT(30)
    <2>3. /\ DOMAIN calls = CallIds /\ IsSeq(local)
          /\ DOMAIN calls' = CallIds /\ \A j \in CallIds : DOMAIN calls'[j] = DOMAIN Free
        BY <2>2, SMTT(30) DEF IInv, Listed, Received
    <2>4. IsSeq(local') /\ \A j \in DOMAIN local' : "k" \in DOMAIN local'[j]
        BY <2>2, LocalAppend, SMTT(30) DEF IInv, Received
    <2>5. ASSUME NEW y \in Runs
          PROVE  /\ NonePosted(y, local) => NonePosted(y, local')
                 /\ OnePosted(y, local) => OnePosted(y, local')
        <3>1. ~PostFor(m, y)
            BY <2>2 DEF PostFor
        <3> QED
            BY <2>2, <2>3, <3>1, PostedAppend, SMTT(30)
    <2>6. ASSUME NEW y \in Runs
          PROVE  /\ NoCall(y, calls) => IF y = x /\ ~auto THEN OneCall(y, calls') ELSE NoCall(y, calls')
                 /\ OneCall(y, calls) /\ ~(y = x /\ ~auto) => OneCall(y, calls')
        <3>1. ~CallFor(calls[i], y)
            BY <2>1, StreamAssumption, SMTT(30) DEF CallFor, Free
        <3>2. CallFor(c, y) <=> y = x /\ ~auto
            BY <2>2, SMTT(30) DEF CallFor
        <3> QED
            BY <2>2, <2>3, <3>1, <3>2, CallsChange, ZenonT(30)
    <2>7. tripped' \cap Collisions = {}
        BY <2>1 DEF IInv, Sound
    <2> QED
        BY <2>3, <2>4, <2>5, <2>6, <2>7, ZenonT(30)
<1> QED
    BY <1>2, <1>3, ZenonT(30)

\* Polls and completion calls change no run; a call the stream cannot answer trips
\* assertions of its own.
LEMMA CallsSound ==
    ASSUME IInv, \/ PollReturns \/ PollCompletes \/ FailUnstoredWft \/ CompleteActivation
                 \/ CallAbandoned
    PROVE  IInv'
<1>1. {"response_channel_missing"} \cap Collisions = {} /\ tripped \cap Collisions = {}
    BY DEF Collisions, IInv, Sound
<1>2. runs' = runs /\ lru' = lru /\ slotq' = slotq /\ stream' = stream
    BY ZenonT(30) DEF PollReturns, PollCompletes, FailUnstoredWft, CompleteActivation, CallAbandoned
<1>3. IsSeq(actions) /\ (actions # <<>> => IsSeq(Tail(actions)))
    BY TailFacts, ZenonT(30) DEF IInv, Listed
<1>4. stream = "open" => \A y \in Runs : Held(y, runs, actions, out, calls, local)
    BY DEF IInv, Tracked
<1>5. CASE PollReturns
    <2> DEFINE next == Head(actions)
    <2>1. /\ actions # <<>> /\ actions' = Tail(actions) /\ next.a \in ForLang
          /\ out' = [out EXCEPT ![next.run] = Append(@, next.a)]
          /\ calls' = calls /\ local' = local /\ tripped' = tripped
        BY <1>5, SMTT(30) DEF PollReturns, Polls
    <2> HIDE DEF next
    <2>2. DOMAIN out = Runs /\ DOMAIN out' = Runs
        BY <2>1 DEF IInv, Received
    <2>3. ASSUME stream = "open", NEW y \in Runs
          PROVE  Held(y, runs, actions', out', calls, local)
        <3>1. CASE y = next.run
            <4>1. ForRun(Head(actions), y)
                BY <2>1, <3>1, SMTT(30) DEF ForRun, next
            <4>2. ~NoneQueued(y, actions)
                BY <1>3, <2>1, <4>1, QueuedTail, SMTT(30)
            <4>3. PICK b \in ForLang :
                    /\ OneQueued(y, actions, b) /\ out[y] = <<>> /\ NoCall(y, calls)
                    /\ NonePosted(y, local) /\ Records(runs, y, b)
                BY <1>4, <2>3, <4>2, ZenonT(30) DEF Held
            <4>4. b = next.a /\ NoneQueued(y, actions')
                BY <1>3, <2>1, <4>1, <4>3, QueuedTail, ZenonT(30) DEF next
            <4>5. out'[y] = <<b>>
                BY <2>1, <2>2, <3>1, <4>3, <4>4, SMTT(30)
            <4> QED
                BY <4>3, <4>4, <4>5, ZenonT(30) DEF Held
        <3>2. CASE y # next.run
            <4>1. ~ForRun(Head(actions), y) /\ out'[y] = out[y]
                BY <2>1, <2>2, <3>2, ZenonT(30) DEF ForRun, next
            <4>2. Held(y, runs, actions', out, calls, local)
                BY <1>3, <1>4, <2>1, <2>3, <4>1, HeldTail, SMTT(30)
            <4> QED
                BY <4>1, <4>2, ZenonT(30) DEF Held
        <3> QED
            BY <3>1, <3>2, SMTT(30)
    <2>4. Listed(actions, calls)' /\ Received' /\ tripped' \cap Collisions = {}
        BY <1>1, <1>3, <2>1, <2>2, ZenonT(30) DEF IInv, Listed, Received
    <2>5. stream = "open" => \A y \in Runs : Held(y, runs, actions', out', calls', local')
        BY <2>1, <2>3, ZenonT(30)
    <2> QED
        BY <1>2, <2>4, <2>5, RunsKept, SMTT(30)
<1>6. CASE PollCompletes
    <2>1. /\ actions # <<>> /\ actions' = Tail(actions) /\ out' = out
          /\ Head(actions).a \notin ForLang
          /\ SendCompletion(Head(actions).run, Head(actions).a, TRUE)
        BY <1>6, ZenonT(30) DEF PollCompletes, Polls, IsAuto, ForLang
    <2>2. /\ tripped' \cap Collisions = {}
          /\ IsSeq(local') /\ \A i \in DOMAIN local' : "k" \in DOMAIN local'[i]
          /\ DOMAIN calls' = CallIds /\ \A i \in CallIds : DOMAIN calls'[i] = DOMAIN Free
          /\ stream = "open" => \A y \in Runs :
                 /\ NonePosted(y, local) => NonePosted(y, local')
                 /\ OnePosted(y, local) => OnePosted(y, local')
                 /\ NoCall(y, calls) => NoCall(y, calls')
                 /\ OneCall(y, calls) => OneCall(y, calls')
        BY <2>1, Sent, ZenonT(30)
    <2>3. ASSUME stream = "open", NEW y \in Runs
          PROVE  Held(y, runs, actions', out', calls', local')
        <3>1. ~ForRun(Head(actions), y)
            BY <2>1, SMTT(30) DEF ForRun
        <3>2. Held(y, runs, actions', out', calls, local)
            BY <1>3, <1>4, <2>1, <2>3, <3>1, HeldTail, SMTT(30)
        <3> QED
            BY <2>2, <2>3, <3>2, ZenonT(30) DEF Held
    <2>4. Listed(actions, calls)' /\ Received'
        BY <1>3, <2>1, <2>2, ZenonT(30) DEF IInv, Listed, Received
    <2> QED
        BY <1>2, <2>2, <2>3, <2>4, RunsKept, ZenonT(30)
<1>7. CASE FailUnstoredWft
    <2>1. /\ actions # <<>> /\ actions' = Tail(actions) /\ out' = out /\ calls' = calls
          /\ tripped' = tripped /\ Head(actions).a \notin ForLang
          /\ \/ local' = local
             \/ local' = Append(local, [k |-> "evict", run |-> Head(actions).run, reason |-> "Fatal"])
        BY <1>7, ZenonT(30) DEF FailUnstoredWft, Polls, ForLang
    <2>2. ASSUME stream = "open", NEW y \in Runs
          PROVE  Held(y, runs, actions', out', calls', local')
        <3>1. ~ForRun(Head(actions), y)
            BY <2>1, ZenonT(30) DEF ForRun
        <3>2. Held(y, runs, actions', out', calls', local)
            BY <1>3, <1>4, <2>1, <2>2, <3>1, HeldTail, SMTT(30)
        <3>3. \A z : [k |-> "evict", run |-> z, reason |-> "Fatal"].k # "post"
            OBVIOUS
        <3> QED
            BY <2>1, <3>2, <3>3, HeldAppend, ZenonT(30) DEF IInv, Received
    <2>3. Received'
        BY <2>1, LocalAppend, ZenonT(30) DEF IInv, Received
    <2>4. Listed(actions, calls)' /\ tripped' \cap Collisions = {}
        BY <1>1, <1>3, <2>1, ZenonT(30) DEF IInv, Listed
    <2> QED
        BY <1>2, <2>2, <2>3, <2>4, RunsKept, SMTT(30)
<1>8. CASE CompleteActivation
    <2>1. PICK x \in Runs : /\ out[x] # <<>> /\ out' = [out EXCEPT ![x] = Tail(@)]
                            /\ SendCompletion(x, Head(out[x]), FALSE)
        BY <1>8, ZenonT(30) DEF CompleteActivation
    <2>2. actions' = actions
        BY <1>8, SMTT(30) DEF CompleteActivation
    <2>3. /\ tripped' \cap Collisions = {}
          /\ IsSeq(local') /\ \A i \in DOMAIN local' : "k" \in DOMAIN local'[i]
          /\ DOMAIN calls' = CallIds /\ \A i \in CallIds : DOMAIN calls'[i] = DOMAIN Free
          /\ stream = "open" => \A y \in Runs :
                 /\ NonePosted(y, local) => NonePosted(y, local')
                 /\ OnePosted(y, local) => OnePosted(y, local')
                 /\ NoCall(y, calls) => IF y = x THEN OneCall(y, calls') ELSE NoCall(y, calls')
                 /\ OneCall(y, calls) /\ y # x => OneCall(y, calls')
        BY <2>1, Sent, ZenonT(30)
    <2>4. DOMAIN out = Runs /\ DOMAIN out' = Runs
        BY <2>1, SMTT(30) DEF IInv, Received
    <2>5. ASSUME stream = "open", NEW y \in Runs
          PROVE  Held(y, runs, actions, out', calls', local')
        <3>1. CASE y = x
            <4>1. PICK b \in ForLang :
                    /\ NoneQueued(y, actions) /\ out[y] = <<b>> /\ NoCall(y, calls)
                    /\ NonePosted(y, local) /\ Records(runs, y, b)
                BY <1>4, <2>1, <2>5, <3>1, SMTT(30) DEF Held
            <4>2. out'[y] = <<>>
                BY <2>1, <2>4, <3>1, <4>1, SMTT(30)
            <4>3. LangHolds(runs, y)
                BY <4>1 DEF Records, LangHolds, ForLang, OutstandingActivation
            <4>4. OneCall(y, calls') /\ NonePosted(y, local')
                BY <2>3, <2>5, <3>1, <4>1, ZenonT(30)
            <4> QED
                BY <4>1, <4>2, <4>3, <4>4, ZenonT(30) DEF Held
        <3>2. CASE y # x
            <4>1. out'[y] = out[y]
                BY <2>1, <2>4, <3>2, SMTT(30)
            <4>2. /\ NonePosted(y, local) => NonePosted(y, local')
                  /\ OnePosted(y, local) => OnePosted(y, local')
                  /\ NoCall(y, calls) => NoCall(y, calls')
                  /\ OneCall(y, calls) => OneCall(y, calls')
                BY <2>3, <2>5, <3>2, ZenonT(30)
            <4>3. Held(y, runs, actions, out, calls, local)
                BY <1>4, <2>5, SMTT(30)
            <4> QED
                BY <4>1, <4>2, <4>3, ZenonT(30) DEF Held
        <3> QED
            BY <3>1, <3>2, SMTT(30)
    <2>6. Listed(actions, calls)' /\ Received'
        BY <1>3, <2>2, <2>3, <2>4, ZenonT(30) DEF IInv, Listed, Received
    <2> QED
        BY <1>2, <2>2, <2>3, <2>5, <2>6, RunsKept, ZenonT(30)
<1>9. CASE CallAbandoned
    <2>1. PICK i \in CallIds : calls' = [calls EXCEPT ![i] = Free]
        BY <1>9, ZenonT(30) DEF CallAbandoned
    <2>2. /\ tripped' \subseteq tripped \cup {"response_channel_missing"} /\ stream # "open"
          /\ actions' = actions /\ out' = out /\ local' = local
        BY <1>9, SMTT(30) DEF CallAbandoned
    <2>3. Listed(actions, calls)' /\ Received' /\ tripped' \cap Collisions = {}
        BY <1>1, <2>1, <2>2, SMTT(30) DEF IInv, Listed, Received
    <2> QED
        BY <1>2, <2>2, <2>3, RunsKept, SMTT(30)
<1> QED
    BY <1>5, <1>6, <1>7, <1>8, <1>9, SMTT(30)

\* The report of a call takes its place.
LEMMA HeldReported ==
    ASSUME NEW y \in Runs, NEW rs, NEW qs, NEW o, NEW cs, NEW loc, Held(y, rs, qs, o, cs, loc),
           DOMAIN cs = CallIds, IsSeq(loc), NEW i \in CallIds,
           NEW msg, PostFor(msg, y) <=> CallFor(cs[i], y)
    PROVE  Held(y, rs, qs, o, [cs EXCEPT ![i] = Free], Append(loc, msg))
<1>1. ~CallFor(Free, y)
    BY StreamAssumption, ZenonT(30) DEF CallFor, Free
<1>2. CASE CallFor(cs[i], y)
    <2>1. ~NoCall(y, cs)
        BY <1>2, SMTT(30) DEF NoCall
    <2>2. /\ NoneQueued(y, qs) /\ o[y] = <<>> /\ OneCall(y, cs)
          /\ NonePosted(y, loc) /\ LangHolds(rs, y)
        BY <2>1, ZenonT(30) DEF Held
    <2>3. NoCall(y, [cs EXCEPT ![i] = Free])
        BY <1>1, <1>2, <2>2, CallsChange, ZenonT(30)
    <2>4. OnePosted(y, Append(loc, msg))
        BY <1>2, <2>2, PostedAppend, ZenonT(30)
    <2> QED
        BY <2>2, <2>3, <2>4, SMTT(30) DEF Held
<1>3. CASE ~CallFor(cs[i], y)
    <2>1. Held(y, rs, qs, o, [cs EXCEPT ![i] = Free], loc)
        BY HeldFreed, ZenonT(30)
    <2>2. /\ NonePosted(y, loc) => NonePosted(y, Append(loc, msg))
          /\ OnePosted(y, loc) => OnePosted(y, Append(loc, msg))
        BY <1>3, PostedAppend, SMTT(30)
    <2> QED
        BY <2>1, <2>2, HeldLocal, SMTT(30)
<1> QED
    BY <1>2, <1>3, SMTT(30)

\* Every other step leaves the runs and the assertions alone: calls turn into
\* reports, and inputs arrive.
LEMMA OthersSound ==
    ASSUME IInv, \/ NewWftFails \/ FetchFails \/ ReportNothing \/ ReportSucceeds \/ ReportFails
                 \/ PostAfterFailure \/ RequestWorkflowEviction \/ InitiateShutdown
                 \/ UNCHANGED vars
    PROVE  IInv'
<1>1. /\ runs' = runs /\ lru' = lru /\ slotq' = slotq /\ stream' = stream
      /\ tripped' = tripped /\ actions' = actions /\ out' = out
    BY ZenonT(30) DEF NewWftFails, FetchFails, ReportNothing, ReportSucceeds, ReportFails, PostAfterFailure,
           RequestWorkflowEviction, InitiateShutdown, vars, cache
<1>2. tripped' \cap Collisions = {}
    BY <1>1, SMTT(30) DEF IInv, Sound
<1>3. stream = "open" => \A y \in Runs : Held(y, runs, actions, out, calls, local)
    BY SMTT(30) DEF IInv, Tracked
<1>4. /\ DOMAIN calls = CallIds /\ \A i \in CallIds : DOMAIN calls[i] = DOMAIN Free
      /\ IsSeq(local)
    BY DEF IInv, Listed, Received
<1>5. CASE NewWftFails \/ FetchFails \/ InitiateShutdown \/ UNCHANGED vars
    <2>1. calls' = calls /\ local' = local
        BY <1>5, ZenonT(30) DEF NewWftFails, FetchFails, InitiateShutdown, vars, cache
    <2>2. Listed(actions, calls)' /\ Received'
        BY <1>1, <2>1, ZenonT(30) DEF IInv, Listed, Received
    <2> QED
        BY <1>1, <1>2, <1>3, <2>1, <2>2, RunsKept, SMTT(30)
<1>6. CASE ReportNothing \/ ReportSucceeds \/ PostAfterFailure
    <2>1. \E i \in CallIds : \E status, wft : /\ calls' = [calls EXCEPT ![i] = Free]
                                            /\ local' = Append(local, PostMsg(i, status, wft))
        <3>1. CASE ReportNothing
            BY <3>1, ZenonT(30) DEF ReportNothing
        <3>2. CASE ReportSucceeds
            <4>1. PICK i \in CallIds :
                    /\ calls' = [calls EXCEPT ![i] = Free]
                    /\ \/ local' = Append(local, PostMsg(i, "reported", <<>>))
                       \/ \E t \in Tasks(issued + 1) : local' = Append(local, PostMsg(i, "reported", <<t>>))
                BY <3>2, ZenonT(30) DEF ReportSucceeds
            <4> QED
                BY <4>1, ZenonT(30)
        <3>3. CASE PostAfterFailure
            BY <3>3, ZenonT(30) DEF PostAfterFailure
        <3> QED
            BY <1>6, <3>1, <3>2, <3>3, SMTT(30)
    <2>2. PICK i \in CallIds : \E status, wft : /\ calls' = [calls EXCEPT ![i] = Free]
                                             /\ local' = Append(local, PostMsg(i, status, wft))
        BY <2>1, ZenonT(30)
    <2>3. PICK msg : /\ "k" \in DOMAIN msg /\ msg.k = "post" /\ msg.run = calls[i].run
                     /\ msg.auto = calls[i].auto
                     /\ calls' = [calls EXCEPT ![i] = Free] /\ local' = Append(local, msg)
        BY <2>2, ZenonT(30) DEF PostMsg
    <2>4. \A y : PostFor(msg, y) <=> CallFor(calls[i], y)
        BY <2>3, SMTT(30) DEF PostFor, CallFor
    <2>5. stream = "open" => \A y \in Runs : Held(y, runs, actions, out, calls', local')
        BY <1>3, <1>4, <2>3, <2>4, HeldReported, ZenonT(30)
    <2>6. Listed(actions, calls)'
        BY <1>1, <1>4, <2>3, SMTT(30) DEF IInv, Listed
    <2>7. Received'
        BY <1>1, <2>3, LocalAppend, SMTT(30) DEF IInv, Received
    <2> QED
        BY <1>1, <1>2, <2>5, <2>6, <2>7, RunsKept, SMTT(30)
<1>7. CASE ReportFails \/ RequestWorkflowEviction
    <2>1. \E x, reason : local' = Append(local, [k |-> "evict", run |-> x, reason |-> reason])
        BY <1>7, ZenonT(30) DEF ReportFails, RequestWorkflowEviction
    <2>2. PICK x, reason : local' = Append(local, [k |-> "evict", run |-> x, reason |-> reason])
        BY <2>1, ZenonT(30)
    <2>3. calls' = calls \/ \E i \in CallIds : calls' = [calls EXCEPT ![i].st = "failed"]
        BY <1>7, ZenonT(30) DEF ReportFails, RequestWorkflowEviction, cache
    <2>4. /\ DOMAIN calls' = CallIds /\ \A i \in CallIds : DOMAIN calls'[i] = DOMAIN Free
          /\ \A i \in CallIds : calls'[i].run = calls[i].run /\ calls'[i].auto = calls[i].auto
        <3>1. CASE calls' = calls
            BY <1>4, <3>1, SMTT(30)
        <3>2. CASE \E i \in CallIds : calls' = [calls EXCEPT ![i].st = "failed"]
            BY <1>4, <3>2, SMTT(30) DEF Free
        <3> QED
            BY <2>3, <3>1, <3>2, SMTT(30)
    <2>5. ASSUME stream = "open", NEW y \in Runs
          PROVE  Held(y, runs, actions, out, calls', local')
        <3>1. Held(y, runs, actions, out, calls', local)
            BY <1>3, <2>4, <2>5, HeldCalls, ZenonT(30) DEF CallFor
        <3>2. [k |-> "evict", run |-> x, reason |-> reason].k # "post"
            BY SMTT(30)
        <3> QED
            BY <1>4, <2>2, <3>1, <3>2, HeldAppend, ZenonT(30)
    <2>6. Listed(actions, calls)'
        BY <1>1, <2>4, SMTT(30) DEF IInv, Listed
    <2>7. Received'
        BY <1>1, <2>2, LocalAppend, SMTT(30) DEF IInv, Received
    <2> QED
        BY <1>1, <1>2, <2>5, <2>6, <2>7, RunsKept, SMTT(30)
<1> QED
    BY <1>5, <1>6, <1>7, SMTT(30)

-----------------------------------------------------------------------------
(* The theorems *)

\* The invariant holds initially, when nothing is cached, and every action keeps it.
LEMMA Invariant == Spec => []IInv
<1>1. Init => IInv
    <2> SUFFICES ASSUME Init PROVE IInv
        OBVIOUS
    <2>1. /\ DOMAIN runs = {} /\ tripped = {} /\ lru = <<>> /\ slotq = <<>> /\ actions = <<>>
          /\ local = <<>> /\ out = [x \in Runs |-> <<>>] /\ calls = [i \in CallIds |-> Free]
        BY DEF Init
    <2>2. IsFiniteSet({}) /\ Cardinality({}) = 0
        BY FS_EmptySet, SMTT(30)
    <2>3. Sound(runs, tripped)
        BY <2>1, <2>2, StreamAssumption, SMTT(30) DEF Sound, Capacity
    <2>4. IsSeq(<<>>) /\ DOMAIN <<>> = {}
        <3>1. DOMAIN <<>> = {}
            OBVIOUS
        <3> QED
            BY <3>1, SmallSeqs, ZenonT(30)
    <2>5. Ordered(lru, runs) /\ Listed(actions, calls) /\ IsSeq(slotq) /\ Received
        BY <2>1, <2>4, SMTT(30) DEF Ordered, Distinct, Range, Listed, Received
    <2>6. ASSUME NEW x \in Runs
          PROVE  Held(x, runs, actions, out, calls, local)
        <3>1. NoneQueued(x, actions) /\ NonePosted(x, local) /\ out[x] = <<>>
            BY <2>1, <2>4, SMTT(30) DEF NoneQueued, NonePosted
        <3>2. NoCall(x, calls)
            BY <2>1, StreamAssumption, SMTT(30) DEF NoCall, CallFor, Free
        <3> QED
            BY <3>1, <3>2, ZenonT(30) DEF Held
    <2> QED
        BY <2>3, <2>5, <2>6, SMTT(30) DEF IInv, Tracked
<1>2. IInv /\ [Next]_vars => IInv'
    <2> SUFFICES ASSUME IInv, [Next]_vars
                 PROVE  IInv'
        OBVIOUS
    <2>1. CASE BumpStream
        <3>1. stream = "open" /\ Passes /\ Finish(Now)
            BY <2>1 DEF BumpStream, TakesExternal, Idle, Passes
        <3> QED
            BY <3>1, NowGood, FinishSound, SMTT(30)
    <2> QED
        BY <2>1, OffersSound, CompletionsSound, EvictionsSound, UpdatesSound, PostActivationSound,
           ManagerSound, CallsSound, OthersSound, SMTT(30) DEF Next
<1> QED
    BY <1>1, <1>2, PTL DEF Spec

\* RunCache::instantiate_or_update: whatever the cache size, the runs and the order
\* in which tasks, fetched histories, completions and evictions are handled, no run
\* is pushed into a full cache.
THEOREM CacheBounded == Spec => []CacheNeverOverflows
<1>1. IInv => CacheNeverOverflows
    BY SMTT(30) DEF IInv, Sound, CacheNeverOverflows
<1> QED
    BY <1>1, Invariant, PTL

\* insert_outstanding_activation and _incoming_wft: no handler ever gives a run a
\* second activation or a second task, whatever history, lang and the server do.
THEOREM ActivationsNeverCollide == Spec => []NoCollision
<1>1. IInv => NoCollision
    BY DEF IInv, Sound, NoCollision, Collisions
<1> QED
    BY <1>1, Invariant, PTL

\* WFStream and the completion calls of Workflows: while the stream runs, lang never
\* has, or is about to be given, two activations of a run, and the one it has is the
\* one that insert_outstanding_activation recorded with the run.
THEOREM OneActivation == Spec => []OneActivationAtATime
<1>1. IInv => OneActivationAtATime
    <2> SUFFICES ASSUME IInv, stream = "open", NEW x \in Runs
                 PROVE  /\ Cardinality(Queued(x)) + Len(out[x]) <= 1
                        /\ \A a \in InHand(x) : x \in DOMAIN runs /\ runs[x].act = OutstandingActivation(a)
        BY DEF OneActivationAtATime
    <2>1. Held(x, runs, actions, out, calls, local)
        BY DEF IInv, Tracked
    <2>2. Cardinality({}) = 0 /\ \A i : Cardinality({i}) = 1
        BY FS_EmptySet, FS_Singleton, SMTT(30)
    <2>3. Len(<<>>) = 0 /\ Range(<<>>) = {} /\ \A a : Len(<<a>>) = 1 /\ Range(<<a>>) = {a}
        BY DEF Range
    <2>4. ASSUME NoneQueued(x, actions)
          PROVE  Queued(x) = {} /\ {actions[i].a : i \in Queued(x)} = {}
        BY <2>4, SMTT(30) DEF NoneQueued, ForRun, Queued
    <2>5. CASE \E a \in ForLang : OneQueued(x, actions, a) /\ out[x] = <<>> /\ Records(runs, x, a)
        <3>1. PICK a \in ForLang : OneQueued(x, actions, a) /\ out[x] = <<>> /\ Records(runs, x, a)
            BY <2>5, SMTT(30)
        <3>2. PICK i \in DOMAIN actions :
                /\ ForRun(actions[i], x) /\ actions[i].a = a
                /\ \A j \in DOMAIN actions : ForRun(actions[j], x) => j = i
            BY <3>1 DEF OneQueued
        <3>3. Queued(x) = {i}
            BY <3>2, SMTT(30) DEF Queued, ForRun
        <3>4. {actions[j].a : j \in Queued(x)} = {a}
            BY <3>2, <3>3, SMTT(30)
        <3>6. InHand(x) = {a}
            BY <2>3, <3>1, <3>4, ZenonT(30) DEF InHand
        <3>5. Cardinality(Queued(x)) = 1 /\ Len(out[x]) = 0
            BY <2>2, <2>3, <3>1, <3>3, ZenonT(30)
        <3> QED
            BY <3>1, <3>6, <3>5, SMTT(30) DEF Records
    <2>6. CASE \E a \in ForLang : NoneQueued(x, actions) /\ out[x] = <<a>> /\ Records(runs, x, a)
        <3>1. PICK a \in ForLang : NoneQueued(x, actions) /\ out[x] = <<a>> /\ Records(runs, x, a)
            BY <2>6, SMTT(30)
        <3>2. InHand(x) = {a}
            BY <2>3, <2>4, <3>1, SMTT(30) DEF InHand
        <3>3. Cardinality(Queued(x)) = 0 /\ Len(out[x]) = 1
            BY <2>2, <2>3, <2>4, <3>1, SMTT(30)
        <3> QED
            BY <3>1, <3>2, <3>3, SMTT(30) DEF Records
    <2>7. CASE NoneQueued(x, actions) /\ out[x] = <<>>
        <3>1. InHand(x) = {} /\ Cardinality(Queued(x)) = 0 /\ Len(out[x]) = 0
            BY <2>2, <2>3, <2>4, <2>7, SMTT(30) DEF InHand
        <3> QED
            BY <3>1, SMTT(30)
    <2> QED
        BY <2>1, <2>5, <2>6, <2>7, ZenonT(30) DEF Held
<1> QED
    BY <1>1, Invariant, PTL

\* The LRU order of RunCache: it lists every cached run, and none twice, whatever
\* handlers use, add and evict runs.
THEOREM LruListsCachedRuns == Spec => []Ordered(lru, runs)
<1>1. IInv => Ordered(lru, runs)
    BY DEF IInv
<1> QED
    BY <1>1, Invariant, PTL
===============================================================================
