--------------------------- MODULE ManagedRunProofs ---------------------------
(***************************************************************************)
(* For any run, task, completion and outcome of the machines: no method of  *)
(* ManagedRun answers a completion call by completing the workflow task     *)
(* without asking for another one while the machines still wait for local   *)
(* activities.  The facts go up the call graph: what the machines do with   *)
(* the counts of local activities, then the steps that schedule none and    *)
(* answer nothing, then the completions.                                    *)
(***************************************************************************)
EXTENDS ManagedRun, TLAPS

IsRun(r) == DOMAIN r = DOMAIN NewRun
IsStep(s) == DOMAIN s = DOMAIN Step(NewRun)

-----------------------------------------------------------------------------
(* Local activities the machines still wait for *)

IsManager(m) ==
    /\ DOMAIN m = DOMAIN NewManager
    /\ m.requested \in Nat /\ m.executing \in Nat /\ m.deferred \in Nat

\* The machines wait for no local activity: there is none, or the workflow is over.
NoLasLeft(m) == m.finished \/ (m.requested = 0 /\ m.executing = 0)

\* The machines go from m to q and neither schedule an activity nor reopen the workflow.
Tame(m, q) ==
    /\ IsManager(q)
    /\ m.finished => q.finished
    /\ NoLasLeft(m) => NoLasLeft(q)

\* outstanding_la_count
LEMMA NoneOutstanding ==
    ASSUME NEW m, IsManager(m)
    PROVE  /\ OutstandingLas(m) \in Nat
           /\ NoLasLeft(m) <=> OutstandingLas(m) = 0
BY DEF IsManager, NoLasLeft, OutstandingLas

\* Two tame changes of the machines, and none at all.
LEMMA TameThen ==
    ASSUME NEW m, NEW q, Tame(m, q)
    PROVE  /\ IsManager(m) => Tame(m, m)
           /\ \A p : Tame(q, p) => Tame(m, p)
BY DEF Tame

\* A change that leaves the counts and the end of the workflow alone.
LEMMA TameSame ==
    ASSUME NEW m, IsManager(m), NEW q, DOMAIN q = DOMAIN m, q.requested = m.requested,
           q.executing = m.executing, q.deferred = m.deferred, q.finished = m.finished
    PROVE  Tame(m, q)
BY DEF Tame, IsManager, NoLasLeft

\* apply_next_wft_from_history
LEMMA ApplyNextWftTame ==
    ASSUME NEW m, IsManager(m), NEW o
    PROVE  Tame(m, ApplyNextWft(m, o).m)
<1> DEFINE more == m.ahead > 1 \/ m.page
           q == [m EXCEPT !.ahead = @ - 1,
                          !.started = TRUE,
                          !.jobs = @ \/ more \/ ~m.started \/ o.jobs,
                          !.replaying = more \/ m.preparingQuery,
                          !.terminal = ~more /\ o.terminal /\ m.preparingQuery]
<1>1. Tame(m, m) /\ Tame(m, [m EXCEPT !.replaying = m.preparingQuery])
    BY TameSame DEF IsManager, NewManager
<1>2. Tame(m, q)
    <2>1. /\ DOMAIN q = DOMAIN m /\ q.requested = m.requested /\ q.executing = m.executing
          /\ q.deferred = m.deferred /\ q.finished = m.finished
        BY DEF IsManager, NewManager
    <2> QED
        BY <2>1, TameSame, Zenon
<1> HIDE DEF q
<1> QED
    BY <1>1, <1>2 DEF ApplyNextWft, Ok, Fails, q, more

\* notify_of_local_result
LEMMA NotifyOfLocalResultTame ==
    ASSUME NEW m, IsManager(m)
    PROVE  Tame(m, NotifyOfLocalResult(m).m)
<1>1. Tame(m, LocalResolution(m).m)
    BY DEF LocalResolution, Ok, Fails, Tame, IsManager, NoLasLeft, NewManager
<1>2. Tame(m, [m EXCEPT !.deferred = @ + 1])
    BY DEF Tame, IsManager, NoLasLeft, NewManager
<1> QED
    BY <1>1, <1>2 DEF NotifyOfLocalResult, Ok

\* apply_deferred_local_resolutions
LEMMA ApplyDeferredTame ==
    ASSUME NEW m, IsManager(m)
    PROVE  Tame(m, ApplyDeferred(m).m)
<1>1. Tame(m, m) /\ Tame(m, [m EXCEPT !.deferred = 0])
    BY DEF Tame, IsManager, NoLasLeft, NewManager
<1>2. ASSUME ~(m.deferred > m.executing)
      PROVE  Tame(m, [m EXCEPT !.executing = @ - m.deferred, !.deferred = 0,
                               !.jobs = TRUE, !.laJobs = TRUE, !.output = TRUE])
    BY <1>2 DEF Tame, IsManager, NoLasLeft, NewManager
<1> QED
    BY <1>1, <1>2 DEF ApplyDeferred, Ok, Fails

\* get_next_activation
LEMMA GetNextActivationTame ==
    ASSUME NEW m, IsManager(m), NEW o
    PROVE  /\ Tame(m, ApplyNextTaskIfReady(m, o).m)
           /\ Tame(m, GetNextActivation(m, o).m)
<1> DEFINE applied == ApplyNextTaskIfReady(m, o)
<1>1. Tame(m, applied.m)
    BY ApplyNextWftTame, TameSame DEF ApplyNextTaskIfReady, Ok
<1> HIDE DEF applied
<1>2. Tame(applied.m, [DrainJobs(applied.m) EXCEPT !.awaitingCompletion = applied.m.jobs])
    BY <1>1, TameSame DEF Tame, IsManager, DrainJobs, NewManager
<1> QED
    BY <1>1, <1>2, TameThen DEF GetNextActivation, Activation, applied

\* new_work_from_server
LEMMA NewWorkFromServerTame ==
    ASSUME NEW m, IsManager(m), NEW task, NEW o
    PROVE  Tame(m, NewWorkFromServer(m, task, o).m)
<1> DEFINE fed == [m EXCEPT !.ahead = task.sequences, !.page = task.paged,
                            !.preparingQuery = (task.kind = "legacy"), !.output = FALSE]
           applied == ApplyNextWft(fed, o)
           ready == [applied.m EXCEPT !.awaitingWft = FALSE]
           resolved == Resolved(applied)
<1>1. Tame(m, fed)
    <2>1. /\ DOMAIN fed = DOMAIN m /\ fed.requested = m.requested
          /\ fed.executing = m.executing /\ fed.deferred = m.deferred
          /\ fed.finished = m.finished
        BY DEF IsManager, NewManager
    <2> QED
        BY <2>1, TameSame, Zenon
<1> HIDE DEF fed
<1>2. Tame(m, applied.m)
    BY <1>1, ApplyNextWftTame, TameThen DEF Tame
<1> HIDE DEF applied
<1>3. Tame(m, ready)
    <2>1. Tame(applied.m, ready)
        BY <1>2, TameSame DEF Tame, IsManager, NewManager
    <2> QED
        BY <1>2, <2>1, TameThen
<1> HIDE DEF ready
<1>4. Tame(m, ApplyDeferred(ready).m)
    BY <1>3, ApplyDeferredTame, TameThen DEF Tame
<1>5. Tame(m, resolved.m)
    BY <1>2, <1>4, Zenon DEF Resolved, ready
<1> HIDE DEF resolved
<1>6. Tame(m, GetNextActivation(resolved.m, o).m)
    BY <1>5, GetNextActivationTame, TameThen DEF Tame
<1>7. Tame(m, Activated(resolved, o).m)
    BY <1>5, <1>6 DEF Activated
<1> QED
    BY <1>7, Zenon DEF NewWorkFromServer, fed, applied, resolved

\* push_commands_and_iterate counts the activities the completion schedules.
LEMMA PushCommandsFacts ==
    ASSUME NEW m, IsManager(m), NEW c, c.las \in Nat
    PROVE  LET q == PushCommandsAndIterate(m, c).m
           IN  /\ IsManager(q)
               /\ m.finished => q.finished
               /\ c.las = 0 => Tame(m, q)
<1> DEFINE pushed == [m EXCEPT !.requested = @ + c.las,
                               !.output = @ \/ c.commands \/ c.terminal,
                               !.finished = @ \/ c.terminal,
                               !.awaitingCompletion = FALSE]
<1>1. /\ IsManager(pushed) /\ (m.finished => pushed.finished)
      /\ (c.las = 0 => Tame(m, pushed))
    <2>1. /\ DOMAIN pushed = DOMAIN m /\ pushed.requested = m.requested + c.las
          /\ pushed.executing = m.executing /\ pushed.deferred = m.deferred
          /\ (m.finished => pushed.finished)
        BY DEF IsManager, NewManager
    <2> HIDE DEF pushed
    <2> QED
        BY <2>1 DEF IsManager, Tame, NoLasLeft
<1> HIDE DEF pushed
<1>2. Tame(pushed, ApplyDeferred(pushed).m)
    BY <1>1, ApplyDeferredTame
<1>3. c.las = 0 => Tame(m, ApplyDeferred(pushed).m)
    BY <1>1, <1>2, TameThen
<1>4. CASE c.err # "none"
    BY <1>4, TameSame DEF PushCommandsAndIterate, Fails
<1>5. CASE c.err = "none"
    <2>1. PushCommandsAndIterate(m, c) = ApplyDeferred(pushed)
        BY <1>5, Zenon DEF PushCommandsAndIterate, pushed
    <2> QED
        BY <1>1, <1>2, <1>3, <2>1 DEF Tame
<1> QED
    BY <1>4, <1>5

\* drain_queued_local_activities, wft_completion_reported
LEMMA DrainTame ==
    ASSUME NEW m, IsManager(m)
    PROVE  Tame(m, DrainLocalActivities(m)) /\ Tame(m, WftCompletionReported(m))
BY DEF DrainLocalActivities, WftCompletionReported, Tame, IsManager, NoLasLeft, NewManager

-----------------------------------------------------------------------------
(* Steps that schedule no local activity *)

IsReplies(q) == q = <<>> \/ \E p : q = <<p>>
Sane(s) == IsStep(s) /\ IsRun(s.r) /\ IsManager(s.r.m) /\ IsReplies(s.replies)

\* The run goes from r to q, its waiting completion untouched.
Calms(r, q) == IsRun(q) /\ Tame(r.m, q.m) /\ q.onPage = r.onPage

\* A step s goes on to t without a further reply.
GoesOn(s, t) == Sane(t) /\ Calms(s.r, t.r) /\ t.replies = s.replies

\* Two changes of a run, and none at all.
LEMMA CalmsThen ==
    ASSUME NEW r, NEW q, Calms(r, q)
    PROVE  IsManager(q.m) /\ \A p : Calms(q, p) => Calms(r, p)
BY TameThen DEF Calms, Tame

\* A run whose machines stay as they are.
LEMMA CalmsSame ==
    ASSUME NEW r, IsManager(r.m), NEW q, IsRun(q), q.m = r.m, q.onPage = r.onPage
    PROVE  Calms(r, q)
BY TameSame DEF Calms

\* Two continuations of a step, and none at all.
LEMMA GoesOnThen ==
    ASSUME NEW s, NEW t, GoesOn(s, t)
    PROVE  \A u : GoesOn(t, u) => GoesOn(s, u)
BY CalmsThen DEF GoesOn

\* A step of a sane run has no reply yet.
LEMMA StepSane ==
    ASSUME NEW r, IsRun(r), IsManager(r.m)
    PROVE  Sane(Step(r)) /\ Step(r).r = r /\ Step(r).replies = <<>>
BY DEF Sane, IsReplies, IsStep, IsRun, Step, NewRun

\* Replacing the run of a step.
LEMMA ExceptRunGoesOn ==
    ASSUME NEW s, Sane(s), NEW q, Calms(s.r, q)
    PROVE  GoesOn(s, [s EXCEPT !.r = q]) /\ [s EXCEPT !.r = q].r = q
BY DEF GoesOn, Sane, IsStep, Step, Calms, Tame

\* insert_outstanding_activation, and an assertion
LEMMA InsertGoesOn ==
    ASSUME NEW s, Sane(s), NEW a, NEW cond, NEW what
    PROVE  /\ GoesOn(s, InsertOutstandingActivation(s, a))
           /\ GoesOn(s, TripIf(s, cond, what)) /\ GoesOn(s, Trip(s, what))
<1>1. Tame(s.r.m, s.r.m)
    BY TameSame DEF Sane
<1> HIDE DEF OutstandingActivation
<1>2. GoesOn(s, s) /\ GoesOn(s, Trip(s, what))
    BY <1>1 DEF GoesOn, Calms, Sane, IsStep, IsRun, Step, NewRun, Trip
<1>3. GoesOn(s, InsertOutstandingActivation(s, a))
    BY <1>1 DEF GoesOn, Calms, Sane, IsStep, IsRun, Step, NewRun, InsertOutstandingActivation, TripIf, Trip
<1> QED
    BY <1>2, <1>3 DEF TripIf

\* One step after another.
LEMMA ThenGoesOn ==
    ASSUME NEW s, Sane(s), NEW q, Calms(s.r, q), NEW t, GoesOn(Step(q), t)
    PROVE  GoesOn(s, Then(s, t))
<1>1. s.replies \o <<>> = s.replies
    BY DEF Sane, IsReplies
<1>2. Step(q).replies = <<>> /\ Step(q).r = q
    BY DEF Step
<1>3. Calms(s.r, t.r)
    BY <1>2, CalmsThen DEF GoesOn
<1> QED
    BY <1>1, <1>2, <1>3 DEF GoesOn, Then, Sane, IsStep, Step

\* _incoming_wft
LEMMA IncomingWftGoesOn ==
    ASSUME NEW r, IsRun(r), IsManager(r.m), NEW task, NEW n
    PROVE  GoesOn(Step(r), IncomingWft(r, task, n))
<1> DEFINE h == Holding(r, task)
           s == TripIf(Step(h), HasWft(r), "task_overwritten")
           new == NewWorkFromServer(s.r.m, task, n)
           t == [s EXCEPT !.r.m = new.m]
<1>1. Calms(r, h) /\ IsManager(h.m)
    BY TameSame DEF Calms, Tame, Holding, IsRun, NewRun
<1> HIDE DEF h
<1>2. GoesOn(Step(r), s)
    <2>1. Sane(Step(h)) /\ Step(h).r = h /\ Step(h).replies = <<>>
        BY <1>1, StepSane DEF Calms
    <2>2. GoesOn(Step(h), s)
        BY <2>1, InsertGoesOn
    <2>3. GoesOn(Step(r), Step(h))
        BY <1>1, <2>1 DEF GoesOn, Step
    <2> QED
        BY <2>2, <2>3, GoesOnThen
<1> HIDE DEF s
<1>3. Tame(s.r.m, new.m)
    BY <1>2, NewWorkFromServerTame DEF GoesOn, Sane
<1> HIDE DEF new
<1>4. GoesOn(s, t)
    BY <1>2, <1>3 DEF GoesOn, Sane, Calms, Tame, IsStep, IsRun, Step, NewRun
<1>5. \A a : GoesOn(t, InsertOutstandingActivation(t, a)) /\ GoesOn(s, InsertOutstandingActivation(s, a))
    <2>1. Sane(s) /\ Sane(t)
        BY <1>2, <1>4 DEF GoesOn
    <2> HIDE DEF t
    <2> QED
        BY <2>1, InsertGoesOn, Zenon
<1>6. ASSUME NEW v, NEW w
      PROVE  GoesOn(s, [t EXCEPT !.r.broken = v, !.acts = w]) /\ GoesOn(s, [t EXCEPT !.r.waiting = v])
    BY <1>4 DEF GoesOn, Sane, Calms, IsStep, IsRun, Step, NewRun
<1>7. GoesOn(s, Incoming(s, new))
    <2> DEFINE acts == <<IF new.err = "nde" THEN "autofailNde" ELSE "autofail">>
    <2>1. /\ GoesOn(s, InsertOutstandingActivation(t, "lang"))
          /\ GoesOn(s, InsertOutstandingActivation(t, "auto"))
        BY <1>4, <1>5, GoesOnThen
    <2>2. /\ GoesOn(s, [t EXCEPT !.r.broken = TRUE, !.acts = acts])
          /\ GoesOn(s, [t EXCEPT !.r.waiting = "armed"])
        <3> HIDE DEF acts, t
        <3> QED
            BY <1>6, Zenon
    <2>3. CASE new.err # "none"
        <3>1. Incoming(s, new) = [t EXCEPT !.r.broken = TRUE, !.acts = acts]
            BY <2>3, Zenon DEF Incoming
        <3> QED
            BY <2>2, <3>1, Zenon
    <2>4. CASE new.err = "none"
        BY <2>1, <2>2, <2>4, Zenon DEF Incoming
    <2> QED
        BY <2>3, <2>4
<1>8. GoesOn(Step(r), InsertOutstandingActivation(s, "autofail")) /\ GoesOn(Step(r), Incoming(s, new))
    BY <1>2, <1>5, <1>7, GoesOnThen
<1> QED
    BY <1>8, Zenon DEF IncomingWft, s, h, new

\* _check_more_activations
LEMMA CheckMoreCalms ==
    ASSUME NEW r, IsRun(r), IsManager(r.m)
    PROVE  Calms(r, CheckMore(r).r)
<1> DEFINE m == [DrainJobs(r.m) EXCEPT !.awaitingCompletion = TRUE]
<1>1. Tame(r.m, m)
    <2>1. /\ DOMAIN m = DOMAIN r.m /\ m.requested = r.m.requested
          /\ m.executing = r.m.executing /\ m.deferred = r.m.deferred
          /\ m.finished = r.m.finished
        BY DEF DrainJobs, IsManager, NewManager
    <2> QED
        BY <2>1, TameSame, Zenon
<1> HIDE DEF m
<1>2. Calms(r, [r EXCEPT !.m = m])
    BY <1>1 DEF Calms, IsRun, NewRun
<1>3. Calms(r, r) /\ Calms(r, [r EXCEPT !.waiting = "no"])
    BY CalmsSame DEF IsRun, NewRun
<1> QED
    BY <1>2, <1>3 DEF CheckMore, m

\* What update_to_acts settles on.
LEMMA SettledCalms ==
    ASSUME NEW more, IsRun(more.r), IsManager(more.r.m)
    PROVE  Calms(more.r, Settled(more).r)
<1> DEFINE r == more.r
<1>1. Calms(r, r) /\ Calms(r, [r EXCEPT !.wft.queries = "none"])
    <2> DEFINE q == [r EXCEPT !.wft.queries = "none"]
    <2>1. IsRun(r) /\ IsRun(q) /\ q.m = r.m /\ q.onPage = r.onPage
        BY DEF IsRun, NewRun
    <2> HIDE DEF q
    <2>2. Calms(r, r) /\ Calms(r, q)
        BY <2>1, CalmsSame
    <2> QED
        BY <2>2 DEF q
<1>2. Calms(r, [r EXCEPT !.waiting = "no", !.las = CancelAllInRun(@)])
    <2> DEFINE q == [r EXCEPT !.waiting = "no", !.las = CancelAllInRun(@)]
    <2>1. IsRun(q) /\ q.m = r.m /\ q.onPage = r.onPage
        BY DEF IsRun, NewRun
    <2> QED
        BY <2>1, CalmsSame, Zenon
<1> QED
    BY <1>1, <1>2 DEF Settled, PutQueries, EvictIfIdle

\* A run with nothing left to do goes on to a buffered task.
LEMMA EmittedGoesOn ==
    ASSUME NEW s, Sane(s), NEW a, NEW n
    PROVE  GoesOn(s, Emitted(s, a, n))
<1> DEFINE q == [s.r EXCEPT !.buf = WithoutNext(@)]
           t == IncomingWft(q, NextTask(s.r.buf), n)
<1>1. Calms(s.r, q) /\ IsManager(q.m)
    BY CalmsSame DEF Sane, IsRun, NewRun
<1> HIDE DEF q
<1>2. GoesOn(Step(q), t)
    BY <1>1, IncomingWftGoesOn DEF Calms
<1> HIDE DEF t
<1>3. GoesOn(s, Then(s, t))
    BY <1>1, <1>2, ThenGoesOn
<1>4. GoesOn(s, s)
    BY CalmsSame DEF GoesOn, Sane
<1>5. GoesOn(s, InsertOutstandingActivation(s, a))
    BY InsertGoesOn
<1> QED
    BY <1>3, <1>4, <1>5 DEF Emitted, t, q

\* update_to_acts
LEMMA UpdateToActsGoesOn ==
    ASSUME NEW s, Sane(s), NEW a, NEW n
    PROVE  GoesOn(s, UpdateToActs(s, a, n))
<1> DEFINE more == IF MorePendingWork(s.r) /\ a = "none" THEN CheckMore(s.r)
                   ELSE [r |-> s.r, a |-> a]
           next == Settled(more)
           t == [s EXCEPT !.r = next.r]
<1>1. Calms(s.r, more.r)
    BY CheckMoreCalms, CalmsSame DEF Sane
<1> HIDE DEF more
<1>2. Calms(s.r, next.r)
    BY <1>1, SettledCalms, CalmsThen DEF Calms
<1> HIDE DEF next
<1>3. GoesOn(s, t)
    BY <1>2, ExceptRunGoesOn
<1> HIDE DEF t
<1>4. GoesOn(s, Emitted(t, next.a, n))
    BY <1>3, EmittedGoesOn, GoesOnThen DEF GoesOn
<1> QED
    BY <1>4 DEF UpdateToActs, EmitSettled, t, next, more

\* A step from a changed run.
LEMMA StepGoesOn ==
    ASSUME NEW r, NEW q, Calms(r, q), NEW t, GoesOn(Step(q), t)
    PROVE  GoesOn(Step(r), t)
<1>1. Step(q).r = q /\ Step(r).r = r /\ Step(q).replies = <<>> /\ Step(r).replies = <<>>
    BY DEF Step
<1> QED
    BY <1>1, CalmsThen DEF GoesOn

\* check_more_activations
LEMMA CheckMoreActivationsGoesOn ==
    ASSUME NEW r, IsRun(r), IsManager(r.m), NEW n
    PROVE  GoesOn(Step(r), CheckMoreActivations(r, n))
<1> DEFINE more == CheckMore(r)
<1>1. Calms(r, more.r)
    BY CheckMoreCalms
<1> HIDE DEF more
<1>2. GoesOn(Step(more.r), UpdateToActs(Step(more.r), more.a, n))
    BY <1>1, CalmsThen, StepSane, UpdateToActsGoesOn DEF Calms
<1> QED
    BY <1>1, <1>2, StepGoesOn DEF CheckMoreActivations, more

\* request_eviction, for a run that has no completion waiting on a page
LEMMA RequestEvictionOnlyGoesOn ==
    ASSUME NEW r, IsRun(r), IsManager(r.m), NEW reason, NEW reply, NEW n
    PROVE  GoesOn(Step(r), RequestEvictionOnly(r, reason, reply, n))
<1> DEFINE why == [reason |-> reason, reply |-> reply]
           clear == ~KeepsQueries(reason) /\ ~PendingWorkIsLegacyQuery(r)
           asked == [r EXCEPT !.evict = why, !.wft.queries = IF clear THEN "none" ELSE @]
           told == [r EXCEPT !.evict = why]
<1>1. Calms(r, told) /\ Calms(r, asked)
    <2>1. /\ IsRun(told) /\ told.m = r.m /\ told.onPage = r.onPage
          /\ IsRun(asked) /\ asked.m = r.m /\ asked.onPage = r.onPage
        BY DEF IsRun, NewRun
    <2> QED
        BY <2>1, CalmsSame, Zenon
<1> HIDE DEF asked, told
<1>2. GoesOn(Step(asked), CheckMoreActivations(asked, n))
    BY <1>1, CalmsThen, CheckMoreActivationsGoesOn DEF Calms
<1>3. GoesOn(Step(told), Step(told))
    BY <1>1, CalmsThen, StepSane, CalmsSame DEF GoesOn, Calms
<1> QED
    BY <1>1, <1>2, <1>3, StepGoesOn DEF RequestEvictionOnly, asked, told

\* local_resolution
LEMMA ResolveLocallyGoesOn ==
    ASSUME NEW r, IsRun(r), IsManager(r.m), NEW n
    PROVE  GoesOn(Step(r), ResolveLocally(r, n))
<1> DEFINE noted == IF DiscardsResolution(r) THEN Ok(r.m) ELSE NotifyOfLocalResult(r.m)
           run == [r EXCEPT !.m = noted.m]
           failed == [Step(run) EXCEPT !.r.broken = TRUE, !.acts = <<"autofailNde">>]
<1>1. Tame(r.m, noted.m)
    BY NotifyOfLocalResultTame, TameSame DEF Ok
<1> HIDE DEF noted
<1>2. Calms(r, run)
    BY <1>1 DEF Calms, IsRun, NewRun
<1> HIDE DEF run
<1>3. GoesOn(Step(run), CheckMoreActivations(run, n))
    BY <1>2, CalmsThen, CheckMoreActivationsGoesOn DEF Calms
<1>4. GoesOn(Step(run), failed)
    <2>1. Sane(Step(run)) /\ Tame(run.m, run.m)
        BY <1>2, CalmsThen, StepSane, TameSame DEF Calms
    <2> QED
        BY <1>2, <2>1 DEF GoesOn, Calms, Sane, IsStep, IsRun, Step, NewRun
<1>5. GoesOn(Step(r), CheckMoreActivations(run, n)) /\ GoesOn(Step(r), failed)
    BY <1>2, <1>3, <1>4, StepGoesOn
<1> QED
    BY <1>5, Zenon DEF ResolveLocally, failed, run, noted

\* heartbeat_timeout
LEMMA HeartbeatTimeoutGoesOn ==
    ASSUME NEW r, IsRun(r), IsManager(r.m), NEW n
    PROVE  GoesOn(Step(r), HeartbeatTimeout(r, n))
<1> DEFINE waits == r.waiting # "no"
           due == IF waits THEN [r EXCEPT !.waiting = "due"] ELSE r
           a == IF waits /\ r.act = "none" THEN "auto" ELSE "none"
<1>1. Calms(r, due)
    BY CalmsSame DEF IsRun, NewRun
<1> HIDE DEF due, a
<1>2. GoesOn(Step(due), UpdateToActs(Step(due), a, n))
    BY <1>1, CalmsThen, StepSane, UpdateToActsGoesOn DEF Calms
<1> QED
    BY <1>1, <1>2, StepGoesOn DEF HeartbeatTimeout, due, a

-----------------------------------------------------------------------------
(* Completions, and the local activities left when they are answered *)

\* A reply that completes the task and does not ask for another one.
EndsTask(out) == out.k = "complete" /\ ~out.force

\* The step s answers at most once, and does not end the task while there are local
\* activities to wait for.
Answers(s) ==
    /\ IsStep(s) /\ IsReplies(s.replies)
    /\ \A k \in DOMAIN s.replies : EndsTask(s.replies[k].out) => NoLasLeft(s.r.m)

\* A completion that waits for a page, if there is one, could have come from lang:
\* that of an eviction has no query answers.
PageOk(c) == c.id # 0 => c.las \in Nat /\ ~(c.evict /\ c.queries)

\* prepare_complete_resp does not end a task while the machines wait.
LEMMA PrepareCompleteRespEnds ==
    ASSUME NEW r, IsRun(r), IsManager(r.m), NEW c, NEW due, ~(c.evict /\ c.queries),
           c.evict \/ due \/ NoLasLeft(r.m)
    PROVE  LET p == PrepareCompleteResp(r, c, due)
           IN  /\ Calms(r, p.r) /\ p.err = "none"
               /\ EndsTask(p.out) => NoLasLeft(p.r.m)
<1> DEFINE told == [r EXCEPT !.m = WftCompletionReported(@)]
           answer == [Report("complete", r.wft) EXCEPT !.tok = c.tok,
                                                       !.force = ForceNewWft(r, c, due),
                                                       !.final = r.m.finished]
<1>1. Calms(r, told) /\ (NoLasLeft(r.m) => NoLasLeft(told.m))
    BY DrainTame DEF Calms, Tame, IsRun, NewRun
<1>2. Calms(r, r)
    BY CalmsSame
<1>3. ~EndsTask(Nothing)
    BY DEF EndsTask, Nothing
<1>4. EndsTask(answer) => ~ForceNewWft(r, c, due)
    BY DEF EndsTask, Report, Nothing
<1>5. ASSUME ShouldRespond(r, c) \/ c.queries, ~ForceNewWft(r, c, due)
      PROVE  NoLasLeft(r.m)
    <2>1. OutstandingLas(r.m) \in Nat /\ (NoLasLeft(r.m) <=> OutstandingLas(r.m) = 0)
        BY NoneOutstanding
    <2>2. ~due
        BY <1>5 DEF ForceNewWft
    <2>3. CASE c.evict
        <3>1. EvictionHasOutput(r, c)
            BY <1>5, <2>3 DEF ShouldRespond
        <3> QED
            BY <1>5, <2>1, <3>1 DEF ForceNewWft
    <2> QED
        BY <2>2, <2>3
<1> HIDE DEF told, answer
<1> QED
    BY <1>1, <1>2, <1>3, <1>4, <1>5 DEF PrepareCompleteResp, told, answer

\* The end of _process_completion: a task is not ended while the machines wait.
LEMMA RespondOrWaitEnds ==
    ASSUME NEW r, IsRun(r), IsManager(r.m), NEW c, NEW auto, ~c.evict
    PROVE  LET p == RespondOrWait(r, c, auto)
           IN  /\ Calms(r, p.r) /\ p.err = "none"
               /\ EndsTask(p.out) => NoLasLeft(p.r.m)
<1> DEFINE waits == OutstandingLas(r.m) > 0
<1>1. ASSUME NEW w
      PROVE  LET now == [r EXCEPT !.waiting = w]
                 p == PrepareCompleteResp(now, c, auto \/ waits)
             IN  /\ Calms(r, now)
                 /\ Calms(r, p.r) /\ p.err = "none"
                 /\ EndsTask(p.out) => NoLasLeft(p.r.m)
    <2> DEFINE now == [r EXCEPT !.waiting = w]
    <2>1. Calms(r, now) /\ IsManager(now.m) /\ now.m = r.m
        BY CalmsSame DEF IsRun, NewRun
    <2> HIDE DEF now
    <2>2. (auto \/ waits) \/ NoLasLeft(now.m)
        BY <2>1, NoneOutstanding
    <2> HIDE DEF waits
    <2>3. PICK due : due = (auto \/ waits)
        OBVIOUS
    <2>4. LET p == PrepareCompleteResp(now, c, due)
          IN  /\ Calms(now, p.r) /\ p.err = "none"
              /\ EndsTask(p.out) => NoLasLeft(p.r.m)
        <3>1. IsRun(now) /\ IsManager(now.m) /\ (due \/ NoLasLeft(now.m))
            BY <2>1, <2>2, <2>3 DEF Calms
        <3> QED
            BY <3>1, PrepareCompleteRespEnds, Zenon
    <2>5. LET p == PrepareCompleteResp(now, c, due)
          IN  /\ Calms(r, now) /\ Calms(r, p.r) /\ p.err = "none"
              /\ EndsTask(p.out) => NoLasLeft(p.r.m)
        BY <2>1, <2>4, CalmsThen
    <2> QED
        BY <2>3, <2>5 DEF now
<1>2. ~EndsTask(Nothing)
    BY DEF EndsTask, Nothing
<1> QED
    BY <1>1, <1>2 DEF RespondOrWait

\* sink_la_requests
LEMMA SinkLaRequestsTame ==
    ASSUME NEW r, IsRun(r), NEW m, IsManager(m)
    PROVE  LET q == SinkLaRequests(r, m)
           IN  IsRun(q) /\ Tame(m, q.m) /\ q.onPage = r.onPage
<1>1. Tame(m, m) /\ Tame(m, DrainLocalActivities(m))
    BY DrainTame, TameSame
<1> HIDE DEF DrainLocalActivities
<1> QED
    BY <1>1 DEF SinkLaRequests, IsRun, NewRun

\* _process_completion
LEMMA ProcessCompletionEnds ==
    ASSUME NEW r, IsRun(r), IsManager(r.m), NEW c, c.las \in Nat, ~(c.evict /\ c.queries),
           NEW fed, NEW o
    PROVE  LET p == ProcessCompletion(r, c, fed, o)
           IN  /\ IsRun(p.r) /\ IsManager(p.r.m) /\ p.r.onPage = r.onPage
               /\ r.m.finished => p.r.m.finished
               /\ c.las = 0 => Tame(r.m, p.r.m)
               /\ EndsTask(p.out) => NoLasLeft(p.r.m)
<1>1. CASE c.evict
    <2>1. LET p == PrepareCompleteResp(r, c, FALSE)
          IN  Calms(r, p.r) /\ (EndsTask(p.out) => NoLasLeft(p.r.m))
        BY <1>1, PrepareCompleteRespEnds
    <2> QED
        BY <1>1, <2>1, Zenon DEF ProcessCompletion, Calms, Tame
<1>2. CASE ~c.evict
    <2> DEFINE pushed == PushCommandsAndIterate(r.m, c)
               page == WithPage(pushed, fed, o)
               done == Advanced(page, r.broken, o)
    <2>1. /\ IsManager(pushed.m) /\ (r.m.finished => pushed.m.finished)
          /\ (c.las = 0 => Tame(r.m, pushed.m))
        BY PushCommandsFacts
    <2> HIDE DEF pushed
    <2>2. Tame(pushed.m, page.m)
        <3> DEFINE fresh == [pushed.m EXCEPT !.ahead = 1, !.page = FALSE]
        <3>1. Tame(pushed.m, fresh) /\ Tame(pushed.m, pushed.m)
            BY <2>1, TameSame DEF IsManager, NewManager
        <3> HIDE DEF fresh
        <3>2. Tame(pushed.m, ApplyNextWft(fresh, o).m)
            BY <3>1, ApplyNextWftTame, TameThen DEF Tame
        <3> QED
            BY <3>1, <3>2, Zenon DEF WithPage, FeedHistoryFromNewPage, fresh
    <2> HIDE DEF page
    <2>3. Tame(pushed.m, done.m)
        <3>1. Tame(page.m, ApplyNextTaskIfReady(page.m, o).m)
            BY <2>2, GetNextActivationTame DEF Tame
        <3> QED
            BY <2>2, <3>1, TameThen DEF Advanced
    <2> HIDE DEF done
    <2>4. /\ IsManager(done.m) /\ (r.m.finished => done.m.finished)
          /\ (c.las = 0 => Tame(r.m, done.m))
        BY <2>1, <2>3, TameThen DEF Tame
    <2>5. CASE done.err # "none"
        <3> DEFINE q == [r EXCEPT !.m = done.m]
        <3>1. IsRun(q) /\ q.m = done.m /\ q.onPage = r.onPage
            BY DEF IsRun, NewRun
        <3> HIDE DEF q
        <3>2. ProcessCompletion(r, c, fed, o) = [r |-> q, err |-> done.err, out |-> Nothing]
            BY <1>2, <2>5, Zenon DEF ProcessCompletion, Processed, q, done, page, pushed
        <3> QED
            BY <2>4, <3>1, <3>2 DEF EndsTask, Nothing
    <2>6. CASE done.err = "none"
        <3> DEFINE q == SinkLaRequests(r, done.m)
                   auto == r.act = "auto" /\ r.waiting # "no"
                   p == RespondOrWait(q, c, auto)
        <3>1. IsRun(q) /\ Tame(done.m, q.m) /\ q.onPage = r.onPage /\ IsManager(q.m)
            BY <2>4, SinkLaRequestsTame DEF Tame
        <3>2. ProcessCompletion(r, c, fed, o) = p
            BY <1>2, <2>6, Zenon DEF ProcessCompletion, Processed, done, page, pushed
        <3> HIDE DEF q, auto
        <3>3. Calms(q, p.r) /\ (EndsTask(p.out) => NoLasLeft(p.r.m))
            BY <1>2, <3>1, RespondOrWaitEnds
        <3> HIDE DEF p
        <3>4. Tame(done.m, p.r.m) /\ IsRun(p.r) /\ p.r.onPage = r.onPage
            BY <3>1, <3>3, TameThen DEF Calms
        <3>5. c.las = 0 => Tame(r.m, p.r.m)
            BY <2>4, <3>4, TameThen
        <3> QED
            BY <2>4, <3>2, <3>3, <3>4, <3>5 DEF Tame
    <2> QED
        BY <2>5, <2>6
<1> QED
    BY <1>1, <1>2

\* A step that schedules no local activity.
Closes(r, s) ==
    /\ Answers(s) /\ IsRun(s.r) /\ Tame(r.m, s.r.m)
    /\ PageOk(r.onPage) => PageOk(s.r.onPage)

\* A call is answered, then the run looks for its next activation.
LEMMA RepliesClose ==
    ASSUME NEW r, IsRun(r), IsManager(r.m), NEW id, NEW out, EndsTask(out) => NoLasLeft(r.m), NEW n
    PROVE  Closes(r, UpdateToActs(Reply(Step(r), id, out), "none", n))
<1> DEFINE t == Reply(Step(r), id, out)
           s == UpdateToActs(t, "none", n)
<1>1. t.replies = <<[id |-> id, out |-> out]>> /\ t.r = r /\ IsStep(t)
    BY DEF Reply, Step, IsStep
<1>2. Sane(t)
    BY <1>1, Zenon DEF Sane, IsReplies
<1> HIDE DEF t
<1>3. GoesOn(t, s)
    BY <1>2, UpdateToActsGoesOn
<1> HIDE DEF s
<1>4. /\ s.replies = <<[id |-> id, out |-> out]>> /\ Tame(r.m, s.r.m) /\ s.r.onPage = r.onPage
      /\ IsReplies(s.replies) /\ IsStep(s) /\ IsRun(s.r)
    BY <1>1, <1>3 DEF GoesOn, Calms, Sane
<1>5. \A k \in DOMAIN s.replies : s.replies[k].out = out
    BY <1>4
<1>6. Closes(r, s)
    BY <1>4, <1>5 DEF Closes, Answers, Tame
<1> QED
    BY <1>6, Zenon DEF s, t

\* An answer that leaves the task open.
LEMMA RefusalCloses ==
    ASSUME NEW s, NEW r, Calms(r, s.r), s.replies = <<>>, IsStep(s),
           NEW id, NEW out, ~EndsTask(out)
    PROVE  Closes(r, Reply(s, id, out))
<1> DEFINE t == Reply(s, id, out)
<1>1. t.replies = <<[id |-> id, out |-> out]>> /\ t.r = s.r /\ IsStep(t)
    BY DEF Reply, IsStep, Step
<1> HIDE DEF t
<1>2. \A k \in DOMAIN t.replies : t.replies[k].out = out
    BY <1>1
<1>3. Closes(r, t)
    BY <1>1, <1>2 DEF Closes, Answers, IsReplies, Calms
<1> QED
    BY <1>3, Zenon DEF t

\* No answer.
LEMMA SilenceCloses ==
    ASSUME NEW r, NEW s, IsStep(s), s.replies = <<>>, IsRun(s.r), Tame(r.m, s.r.m),
           PageOk(r.onPage) => PageOk(s.r.onPage)
    PROVE  Closes(r, s)
BY DEF Closes, Answers, IsReplies

\* An assertion changes neither the run nor the answers.
LEMMA TripCloses ==
    ASSUME NEW r, NEW s, Closes(r, s), NEW cond, NEW what
    PROVE  Closes(r, Trip(s, what)) /\ Closes(r, TripIf(s, cond, what))
<1>1. Trip(s, what).r = s.r /\ Trip(s, what).replies = s.replies /\ IsStep(Trip(s, what))
    BY DEF Closes, Answers, Trip, IsStep, Step
<1> HIDE DEF Trip
<1> QED
    BY <1>1 DEF TripIf, Closes, Answers

\* Failing the workflow instead of the task.
LEMMA FailWorkflowInsteadCloses ==
    ASSUME NEW r, IsRun(r), IsManager(r.m), NEW id, NEW n
    PROVE  Closes(r, FailWorkflowInstead(r, id, n))
<1> DEFINE evict == r.act = "evict"
           cmd == [FailWorkflow(id) EXCEPT !.commands = ~evict, !.terminal = ~evict]
           c == RunActivationCompletion(r, cmd, TRUE)
           first == ProcessCompletion(r, c, FALSE, n)
           p == OnceMore(first, c, n)
           s == FailedInstead(r, id, p, n)
           parked == [r EXCEPT !.onPage = c, !.paginator = FALSE]
<1>1. c.las = 0 /\ ~c.queries
    BY DEF RunActivationCompletion, FailWorkflow
<1> HIDE DEF c
<1>2. ASSUME NEW q, Calms(r, q)
      PROVE  LET u == ProcessCompletion(q, c, FALSE, n)
             IN  Calms(r, u.r) /\ (EndsTask(u.out) => NoLasLeft(u.r.m))
    <2>1. IsRun(q) /\ IsManager(q.m)
        BY <1>2, CalmsThen DEF Calms
    <2>2. LET u == ProcessCompletion(q, c, FALSE, n)
          IN  /\ IsRun(u.r) /\ u.r.onPage = q.onPage /\ Tame(q.m, u.r.m)
              /\ EndsTask(u.out) => NoLasLeft(u.r.m)
        <3>1. c.las \in Nat /\ c.las = 0 /\ ~(c.evict /\ c.queries)
            BY <1>1
        <3> QED
            BY <2>1, <3>1, ProcessCompletionEnds, Zenon
    <2>3. PICK u : u = ProcessCompletion(q, c, FALSE, n)
        OBVIOUS
    <2>4. Calms(q, u.r) /\ (EndsTask(u.out) => NoLasLeft(u.r.m))
        BY <2>2, <2>3, Zenon DEF Calms
    <2>5. Calms(r, u.r)
        BY <1>2, <2>4, CalmsThen, Zenon
    <2> QED
        BY <2>3, <2>4, <2>5, Zenon
<1>3. Calms(r, first.r) /\ (EndsTask(first.out) => NoLasLeft(first.r.m))
    BY <1>2, CalmsSame
<1> HIDE DEF first
<1>4. Calms(r, p.r) /\ (EndsTask(p.out) => NoLasLeft(p.r.m))
    <2> DEFINE q == [first.r EXCEPT !.broken = TRUE, !.evict.reason = "Nondeterminism"]
    <2>1. Calms(r, q)
        BY <1>3 DEF Calms, IsRun, NewRun
    <2> HIDE DEF q
    <2>2. LET u == ProcessCompletion(q, c, FALSE, n)
          IN  Calms(r, u.r) /\ (EndsTask(u.out) => NoLasLeft(u.r.m))
        BY <1>2, <2>1
    <2> QED
        BY <1>3, <2>2, Zenon DEF OnceMore, q
<1> HIDE DEF p
<1>5. Closes(r, s)
    <2> DEFINE q == [p.r EXCEPT !.broken = TRUE, !.evict.reason = "Fatal"]
    <2>1. Calms(r, q)
        BY <1>4 DEF Calms, IsRun, NewRun
    <2> HIDE DEF q
    <2>2. Closes(r, Reply(Step(q), id, Report("fail", r.wft)))
        <3>1. Step(q).r = q /\ Step(q).replies = <<>> /\ IsStep(Step(q)) /\ ~EndsTask(Report("fail", r.wft))
            BY DEF Step, IsStep, EndsTask, Report, Nothing
        <3> QED
            BY <2>1, <3>1, RefusalCloses
    <2>3. Closes(p.r, UpdateToActs(Reply(Step(p.r), id, p.out), "none", n))
        <3>1. IsRun(p.r) /\ IsManager(p.r.m)
            BY <1>4, CalmsThen DEF Calms
        <3> QED
            BY <1>4, <3>1, RepliesClose
    <2>4. Closes(r, UpdateToActs(Reply(Step(p.r), id, p.out), "none", n))
        BY <1>4, <2>3, TameThen DEF Closes, Calms
    <2> QED
        BY <2>2, <2>4, Zenon DEF FailedInstead, q
<1> HIDE DEF s
<1>6. Closes(r, Step(parked))
    <2>1. /\ Step(parked).r = parked /\ Step(parked).replies = <<>> /\ IsStep(Step(parked))
          /\ IsRun(parked) /\ parked.onPage = c /\ parked.m = r.m
        BY DEF Step, IsStep, IsRun, NewRun
    <2>2. Tame(r.m, r.m) /\ PageOk(c)
        BY <1>1, TameSame DEF PageOk
    <2> HIDE DEF parked
    <2> QED
        BY <2>1, <2>2, SilenceCloses
<1> HIDE DEF parked
<1>7. /\ Closes(r, Trip(Step(parked), "page_request_when_failing"))
      /\ Closes(r, TripIf(s, evict, "eviction_reply_with_commands"))
    BY <1>5, <1>6, TripCloses
<1> QED
    BY <1>7, Zenon DEF FailWorkflowInstead, parked, s, p, first, c

\* failed_completion
LEMMA FailedCompletionCloses ==
    ASSUME NEW r, IsRun(r), IsManager(r.m), NEW cause, NEW reason, NEW auto, NEW id, NEW n
    PROVE  Closes(r, FailedCompletion(r, cause, reason, auto, id, n))
<1>1. \A k \in {"fail", "dropQuery", "failQuery"} : ~EndsTask(Report(k, r.wft))
    BY DEF EndsTask, Report, Nothing
<1>2. ~EndsTask(Nothing)
    BY DEF EndsTask, Nothing
<1>3. ASSUME NEW s, Calms(r, s.r), Sane(s), s.replies = <<>>, NEW unreported
      PROVE  Closes(r, FailedAfter(s, r.wft, cause, unreported, id, n))
    <2> DEFINE f == FailWorkflowInstead(s.r, id, n)
               t == Then([s EXCEPT !.acts = <<>>], f)
    <2>1. Closes(s.r, f)
        BY <1>3, FailWorkflowInsteadCloses DEF Sane
    <2> HIDE DEF f
    <2>2. t.r = f.r /\ t.replies = f.replies /\ IsStep(t)
        <3>1. IsReplies(f.replies) /\ [s EXCEPT !.acts = <<>>].replies = <<>>
            BY <1>3, <2>1 DEF Closes, Answers, Sane, IsStep, Step
        <3>2. <<>> \o f.replies = f.replies
            BY <3>1 DEF IsReplies
        <3> QED
            BY <3>1, <3>2 DEF Then, IsStep, Step
    <2> HIDE DEF t
    <2>3. Closes(r, t)
        BY <1>3, <2>1, <2>2, TameThen DEF Closes, Calms, Answers
    <2>4. \A k \in {"fail", "dropQuery", "failQuery"} : Closes(r, Reply(s, id, Report(k, r.wft)))
        BY <1>1, <1>3, RefusalCloses DEF Sane
    <2> QED
        BY <2>3, <2>4, Zenon DEF FailedAfter, t, f
<1>4. ASSUME NEW s, GoesOn(Step(r), s) PROVE Calms(r, s.r) /\ Sane(s) /\ s.replies = <<>>
    BY <1>4 DEF GoesOn, Step
<1>5. GoesOn(Step(r), Step(r)) /\ GoesOn(Step(r), RequestEvictionOnly(r, reason, NoReply, n))
    BY StepSane, CalmsSame, RequestEvictionOnlyGoesOn DEF GoesOn
<1>6. Closes(r, Trip(Reply(Step(r), id, Nothing), "failing_without_a_task"))
    BY <1>2, <1>4, <1>5, RefusalCloses, TripCloses DEF Sane
<1>7. ASSUME NEW u
      PROVE  LET s == IF u THEN Step(r) ELSE RequestEvictionOnly(r, reason, NoReply, n)
             IN  Closes(r, FailedAfter(s, r.wft, cause, u, id, n))
    <2>1. PICK s : s = IF u THEN Step(r) ELSE RequestEvictionOnly(r, reason, NoReply, n)
        OBVIOUS
    <2>2. GoesOn(Step(r), s)
        BY <1>5, <2>1
    <2>3. Closes(r, FailedAfter(s, r.wft, cause, u, id, n))
        BY <1>3, <1>4, <2>2, Zenon
    <2> QED
        BY <2>1, <2>3, Zenon
<1> QED
    BY <1>6, <1>7, Zenon DEF FailedCompletion

\* update_to_acts for what _process_completion returned.
LEMMA FinishCompletionCloses ==
    ASSUME NEW p, IsRun(p.r), IsManager(p.r.m), EndsTask(p.out) => NoLasLeft(p.r.m), NEW id, NEW n
    PROVE  Closes(p.r, FinishCompletion(p, id, n))
<1> DEFINE q == [p.r EXCEPT !.broken = TRUE]
<1>1. IsRun(q) /\ q.m = p.r.m /\ q.onPage = p.r.onPage
    BY DEF IsRun, NewRun
<1> HIDE DEF q
<1>2. \A cause, reason : Closes(q, FailedCompletion(q, cause, reason, TRUE, id, n))
    BY <1>1, FailedCompletionCloses
<1>3. \A cause, reason : Closes(p.r, FailedCompletion(q, cause, reason, TRUE, id, n))
    BY <1>1, <1>2 DEF Closes
<1>4. Closes(p.r, UpdateToActs(Reply(Step(p.r), id, p.out), "none", n))
    BY RepliesClose
<1> QED
    BY <1>3, <1>4, Zenon DEF FinishCompletion, q

-----------------------------------------------------------------------------
(* The methods the stream calls *)

\* A run as the stream finds it, and the step a method makes of it.
RunInv(r) == IsRun(r) /\ IsManager(r.m) /\ PageOk(r.onPage)
EndsWell(s) ==
    /\ IsStep(s) /\ RunInv(s.r)
    /\ \A k \in DOMAIN s.replies : EndsTask(s.replies[k].out) => OutstandingLas(s.r.m) = 0

\* Steps that schedule no local activity.
LEMMA ClosesEndsWell ==
    ASSUME NEW r, RunInv(r), NEW s
    PROVE  /\ Closes(r, s) => EndsWell(s)
           /\ GoesOn(Step(r), s) => EndsWell(s)
<1>1. ASSUME Closes(r, s) PROVE EndsWell(s)
    <2>1. /\ IsManager(s.r.m) /\ IsRun(s.r) /\ PageOk(s.r.onPage) /\ IsStep(s)
          /\ \A k \in DOMAIN s.replies : EndsTask(s.replies[k].out) => NoLasLeft(s.r.m)
        BY <1>1 DEF Closes, Answers, Tame, RunInv
    <2>2. NoLasLeft(s.r.m) => OutstandingLas(s.r.m) = 0
        BY <2>1, NoneOutstanding
    <2> QED
        BY <2>1, <2>2, Zenon DEF EndsWell, RunInv
<1>2. GoesOn(Step(r), s) => Closes(r, s)
    BY SilenceCloses DEF GoesOn, Calms, Sane, Step
<1> QED
    BY <1>1, <1>2

\* successful_completion
LEMMA SuccessfulCompletionEnds ==
    ASSUME NEW r, RunInv(r), NEW c, c.las \in Nat, ~(r.act = "evict" /\ c.queries), NEW o, NEW n
    PROVE  EndsWell(SuccessfulCompletion(r, c, o, n))
<1> DEFINE rac == RunActivationCompletion(r, c, FALSE)
           out == IF r.evict.reply = NoReply THEN Nothing ELSE Report("fail", r.evict.reply)
           replied == [r EXCEPT !.evict.reply = NoReply]
           parked == [r EXCEPT !.onPage = rac, !.paginator = FALSE]
           p == IF ReadyToApplyNextWft(r.m) THEN ProcessCompletion(r, rac, FALSE, o)
                ELSE [r |-> r, err |-> "fatal", out |-> Nothing]
<1>1. Calms(r, r) /\ Calms(r, replied) /\ IsRun(replied) /\ IsManager(replied.m)
    BY CalmsSame DEF RunInv, IsRun, NewRun
<1>2. ~EndsTask(out) /\ ~EndsTask(Report("query", r.wft)) /\ ~EndsTask(Nothing)
    BY DEF EndsTask, Report, Nothing
<1>3. rac.las = c.las /\ rac.evict = (r.act = "evict") /\ rac.queries = c.queries
    BY DEF RunActivationCompletion
<1>4. Closes(r, [Step(parked) EXCEPT !.fetch = TRUE])
    <2> DEFINE t == [Step(parked) EXCEPT !.fetch = TRUE]
    <2> HIDE DEF rac
    <2>1. /\ t.r = parked /\ t.replies = <<>> /\ IsStep(t)
          /\ IsRun(parked) /\ parked.onPage = rac /\ parked.m = r.m
        BY DEF Step, IsStep, RunInv, IsRun, NewRun
    <2>2. Tame(r.m, r.m) /\ PageOk(rac)
        BY <1>3, TameSame DEF PageOk, RunInv
    <2> HIDE DEF t, parked
    <2>3. Closes(r, t)
        BY <2>1, <2>2, SilenceCloses
    <2> QED
        BY <2>3, Zenon DEF t
<1> HIDE DEF replied, out, rac
<1>5. /\ Closes(r, Reply(Step(replied), c.id, out))
      /\ Closes(r, Reply(Step(r), c.id, Report("query", r.wft)))
    <2>1. /\ Sane(Step(r)) /\ Step(r).r = r /\ Step(r).replies = <<>>
          /\ Sane(Step(replied)) /\ Step(replied).r = replied /\ Step(replied).replies = <<>>
        BY <1>1, StepSane DEF RunInv
    <2> QED
        BY <1>1, <1>2, <2>1, RefusalCloses DEF Sane
<1>6. Closes(r, TripIf(Reply(Step(replied), c.id, out), ~(r.act = "evict"),
                       "completion_without_a_task"))
    BY <1>5, TripCloses
<1>7. /\ IsRun(p.r) /\ IsManager(p.r.m) /\ p.r.onPage = r.onPage
      /\ (EndsTask(p.out) => NoLasLeft(p.r.m))
    <2>1. rac.las \in Nat /\ ~(rac.evict /\ rac.queries)
        BY <1>3
    <2>2. LET q == ProcessCompletion(r, rac, FALSE, o)
          IN  /\ IsRun(q.r) /\ IsManager(q.r.m) /\ q.r.onPage = r.onPage
              /\ EndsTask(q.out) => NoLasLeft(q.r.m)
        BY <2>1, ProcessCompletionEnds, Zenon DEF RunInv
    <2> QED
        BY <1>2, <2>2 DEF RunInv
<1> HIDE DEF p
<1>8. EndsWell(FinishCompletion(p, c.id, n))
    <2>1. Closes(p.r, FinishCompletion(p, c.id, n)) /\ RunInv(p.r)
        BY <1>7, FinishCompletionCloses DEF RunInv
    <2> QED
        BY <2>1, ClosesEndsWell, Zenon
<1>9. /\ EndsWell([Step(parked) EXCEPT !.fetch = TRUE])
      /\ EndsWell(Reply(Step(r), c.id, Report("query", r.wft)))
      /\ EndsWell(TripIf(Reply(Step(replied), c.id, out), ~(r.act = "evict"),
                         "completion_without_a_task"))
    BY <1>4, <1>5, <1>6, ClosesEndsWell, Zenon
<1> QED
    BY <1>8, <1>9, Zenon DEF SuccessfulCompletion, p, parked, rac, replied, out

\* fetched_page_completion
LEMMA FetchedPageCompletionEnds ==
    ASSUME NEW r, RunInv(r), NEW o, NEW n
    PROVE  EndsWell(FetchedPageCompletion(r, o, n))
<1> DEFINE run == [r EXCEPT !.paginator = TRUE, !.onPage = NoCompletion]
           c == r.onPage
<1>1. RunInv(run) /\ run.onPage = NoCompletion
    BY DEF RunInv, IsRun, NewRun, PageOk, NoCompletion
<1> HIDE DEF run
<1>2. CASE c.id # 0
    <2> DEFINE p == ProcessCompletion(run, c, TRUE, o)
    <2>1. c.las \in Nat /\ ~(c.evict /\ c.queries)
        BY <1>2 DEF RunInv, PageOk
    <2> HIDE DEF c
    <2>2. /\ IsRun(p.r) /\ IsManager(p.r.m) /\ p.r.onPage = run.onPage
          /\ EndsTask(p.out) => NoLasLeft(p.r.m)
        BY <1>1, <2>1, ProcessCompletionEnds DEF RunInv
    <2> HIDE DEF p
    <2>3. RunInv(p.r) /\ Closes(p.r, FinishCompletion(p, c.id, n))
        BY <1>1, <2>2, FinishCompletionCloses DEF RunInv
    <2>4. EndsWell(FinishCompletion(p, c.id, n))
        BY <2>3, ClosesEndsWell, Zenon
    <2> QED
        BY <1>2, <2>4, Zenon DEF FetchedPageCompletion, p, c, run
<1>3. CASE c.id = 0
    <2> DEFINE s == Trip([Step(run) EXCEPT !.r.broken = TRUE, !.acts = <<"autofail">>],
                         "page_for_no_completion")
    <2>1. FetchedPageCompletion(r, o, n) = s
        BY <1>3, Zenon DEF FetchedPageCompletion, run
    <2>2. s.replies = <<>> /\ IsStep(s) /\ IsRun(s.r) /\ s.r.m = run.m /\ s.r.onPage = run.onPage
        BY <1>1 DEF RunInv, Trip, Step, IsStep, IsRun, NewRun
    <2> HIDE DEF s
    <2> QED
        BY <1>1, <2>1, <2>2 DEF EndsWell, RunInv
<1> QED
    BY <1>2, <1>3

\* request_eviction, of a run that may have a completion waiting on a page.
LEMMA RequestEvictionEnds ==
    ASSUME NEW r, RunInv(r), NEW reason, NEW reply, NEW n
    PROVE  EndsWell(RequestEviction(r, reason, reply, n))
<1> DEFINE q == [r EXCEPT !.onPage = NoCompletion]
           s == FailedCompletion(q, "unhandled", reason, TRUE, r.onPage.id, n)
<1>1. RunInv(q)
    BY DEF RunInv, IsRun, NewRun, PageOk, NoCompletion
<1> HIDE DEF q
<1>2. Closes(q, s)
    BY <1>1, FailedCompletionCloses DEF RunInv
<1> HIDE DEF s
<1>3. GoesOn(Step(r), RequestEvictionOnly(r, reason, reply, n))
    BY RequestEvictionOnlyGoesOn DEF RunInv
<1>4. EndsWell(s) /\ EndsWell(RequestEvictionOnly(r, reason, reply, n))
    BY <1>1, <1>2, <1>3, ClosesEndsWell, Zenon
<1> QED
    BY <1>4, Zenon DEF RequestEviction, s, q

-----------------------------------------------------------------------------
(* Local activities are waited for, or the task asks for another one *)

\* Whatever method of managed_run.rs the stream calls, with whatever task, completion
\* and outcome of the machines, on a run that is new or came out of such a method: the
\* completion calls it answers get a workflow task completed without
\* force_create_new_workflow_task only if outstanding_la_count is 0 afterwards, and the
\* run is fit for the next call.  The one thing asked of lang is that the completion of
\* an eviction answers no query.
THEOREM LocalActivitiesOutlastNoTask ==
    /\ RunInv(NewRun)
    /\ \A r : RunInv(r) => \A n :
          /\ \A task : EndsWell(IncomingWft(r, task, n))
          /\ EndsWell(CheckMoreActivations(r, n))
          /\ EndsWell(ResolveLocally(r, n))
          /\ EndsWell(HeartbeatTimeout(r, n))
          /\ \A reason, reply : EndsWell(RequestEviction(r, reason, reply, n))
          /\ \A reason, reply : EndsWell(RequestEvictionOnly(r, reason, reply, n))
          /\ \A cause, reason, auto, id : EndsWell(FailedCompletion(r, cause, reason, auto, id, n))
          /\ \A o : EndsWell(FetchedPageCompletion(r, o, n))
          /\ \A c, o : c.las \in Nat /\ ~(r.act = "evict" /\ c.queries)
                          => EndsWell(SuccessfulCompletion(r, c, o, n))
<1>1. RunInv(NewRun)
    BY DEF RunInv, IsRun, IsManager, NewRun, NewManager, PageOk, NoCompletion
<1>2. ASSUME NEW r, RunInv(r), NEW n
      PROVE  /\ \A task : EndsWell(IncomingWft(r, task, n))
             /\ EndsWell(CheckMoreActivations(r, n))
             /\ EndsWell(ResolveLocally(r, n))
             /\ EndsWell(HeartbeatTimeout(r, n))
             /\ \A reason, reply : EndsWell(RequestEvictionOnly(r, reason, reply, n))
    <2>1. IsRun(r) /\ IsManager(r.m)
        BY <1>2 DEF RunInv
    <2>2. \A s : GoesOn(Step(r), s) => EndsWell(s)
        BY <1>2, ClosesEndsWell, Zenon
    <2>3. \A task : GoesOn(Step(r), IncomingWft(r, task, n))
        BY <2>1, IncomingWftGoesOn, Zenon
    <2>4. /\ GoesOn(Step(r), CheckMoreActivations(r, n))
          /\ GoesOn(Step(r), ResolveLocally(r, n))
          /\ GoesOn(Step(r), HeartbeatTimeout(r, n))
        BY <2>1, CheckMoreActivationsGoesOn, ResolveLocallyGoesOn, HeartbeatTimeoutGoesOn, Zenon
    <2>5. \A reason, reply : GoesOn(Step(r), RequestEvictionOnly(r, reason, reply, n))
        BY <2>1, RequestEvictionOnlyGoesOn, Zenon
    <2> QED
        BY <2>2, <2>3, <2>4, <2>5, Zenon
<1>3. ASSUME NEW r, RunInv(r), NEW n
      PROVE  /\ \A reason, reply : EndsWell(RequestEviction(r, reason, reply, n))
             /\ \A cause, reason, auto, id : EndsWell(FailedCompletion(r, cause, reason, auto, id, n))
             /\ \A o : EndsWell(FetchedPageCompletion(r, o, n))
             /\ \A c, o : c.las \in Nat /\ ~(r.act = "evict" /\ c.queries)
                             => EndsWell(SuccessfulCompletion(r, c, o, n))
    <2>1. IsRun(r) /\ IsManager(r.m)
        BY <1>3 DEF RunInv
    <2>2. \A cause, reason, auto, id : EndsWell(FailedCompletion(r, cause, reason, auto, id, n))
        BY <1>3, <2>1, FailedCompletionCloses, ClosesEndsWell, Zenon
    <2> QED
        BY <1>3, <2>2, RequestEvictionEnds, FetchedPageCompletionEnds, SuccessfulCompletionEnds, Zenon
<1> QED
    BY <1>1, <1>2, <1>3, Zenon
===============================================================================
