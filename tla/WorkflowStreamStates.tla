------------------------- MODULE WorkflowStreamStates -------------------------
(***************************************************************************)
(* The invariant of the stream, and that the steps its handlers are made of *)
(* keep it: the effect of one step of a run, its turn in the cache, a new   *)
(* run, the evictions a full cache asks for, the tasks let out of the       *)
(* buffer.                                                                  *)
(***************************************************************************)
EXTENDS WorkflowStreamLemmas, FiniteSetTheorems

\* What the handlers keep true of the cached runs and the assertions tripped.
Sound(rs, trip) ==
    /\ IsFiniteSet(DOMAIN rs)
    /\ Cardinality(DOMAIN rs) <= Capacity
    /\ \A x \in DOMAIN rs : IsRun(rs[x])
    /\ trip \cap Collisions = {}

\* Of the order in which the runs were last used.
Ordered(q, rs) == IsSeq(q) /\ Distinct(q) /\ Range(q) = DOMAIN rs

\* Of the actions and the calls, and of the activation of each run.
Listed(qs, cs) == IsSeq(qs) /\ DOMAIN cs = CallIds /\ \A i \in CallIds : DOMAIN cs[i] = DOMAIN Free
Tracked(rs, qs, cs) == \A x \in Runs : Held(x, rs, qs, out, cs, local)

\* Lang's share of the state.  What the last input emitted is dropped, so after the
\* stream has ended the activations are no longer accounted for.
Received ==
    /\ DOMAIN out = Runs
    /\ IsSeq(local) /\ \A i \in DOMAIN local : "k" \in DOMAIN local[i]

IInv ==
    /\ Sound(runs, tripped) /\ Ordered(lru, runs) /\ Listed(actions, calls) /\ IsSeq(slotq)
    /\ Received
    /\ stream = "open" => Tracked(runs, actions, calls)

\* A state of the stream, as a value, that satisfies it.
Good(st) ==
    /\ DOMAIN st = {"runs", "lru", "slotq", "fetches", "actions", "calls", "tripped", "emitted"}
    /\ Sound(st.runs, st.tripped) /\ Ordered(st.lru, st.runs) /\ Listed(st.actions, st.calls)
    /\ Tracked(st.runs, st.actions, st.calls) /\ IsSeq(st.slotq)

-----------------------------------------------------------------------------
(* One step of a run *)

\* The activation a run has outstanding before a step.
Before(rs, x) == IF x \in DOMAIN rs THEN rs[x].act ELSE "none"

\* What the run emits is recorded, and is the only activation of the run for lang.
LEMMA HeldStep ==
    ASSUME NEW x, NEW rs, NEW qs, NEW o, NEW cs, NEW loc, Held(x, rs, qs, o, cs, loc), IsSeq(qs),
           NEW acts, NEW new, Emission(Before(rs, x), acts, new[x].act), x \in DOMAIN new,
           NEW more, IsSeq(more),
           (\A i \in DOMAIN acts : acts[i] \notin ForLang) => NoneQueued(x, more),
           \A i \in DOMAIN acts : acts[i] \in ForLang => OneQueued(x, more, acts[i])
    PROVE  Held(x, new, qs \o more, o, cs, loc)
<1>1. CASE Before(rs, x) # "none"
    <2>1. x \in DOMAIN rs /\ new[x].act = rs[x].act /\ \A i \in DOMAIN acts : acts[i] \notin ForLang
        BY <1>1 DEF Before, Emission
    <2>2. Held(x, new, qs, o, cs, loc)
        BY <2>1, HeldSame
    <2>3. /\ NoneQueued(x, qs) => NoneQueued(x, qs \o more)
          /\ \A a : OneQueued(x, qs, a) => OneQueued(x, qs \o more, a)
        BY <2>1, QueuedConcat
    <2> QED
        BY <2>2, <2>3, SMTT(30) DEF Held
<1>2. CASE Before(rs, x) = "none"
    <2>1. ~LangHolds(rs, x)
        BY <1>2 DEF Before, LangHolds
    <2>2. NoneQueued(x, qs) /\ o[x] = <<>> /\ NoCall(x, cs) /\ NonePosted(x, loc)
        BY <2>1, HeldNothing, SMTT(30)
    <2>3. CASE \A i \in DOMAIN acts : acts[i] \notin ForLang
        <3>1. NoneQueued(x, qs \o more)
            BY <2>2, <2>3, QueuedConcat, SMTT(30)
        <3> QED
            BY <2>2, <3>1, SMTT(30) DEF Held
    <2>4. ASSUME NEW i \in DOMAIN acts, acts[i] \in ForLang
          PROVE  Held(x, new, qs \o more, o, cs, loc)
        <3>0. OneQueued(x, more, acts[i])
            BY <2>4, SMTT(30)
        <3>1. OneQueued(x, qs \o more, acts[i])
            BY <2>2, <3>0, QueuedConcat, SMTT(30)
        <3>2. Records(new, x, acts[i])
            BY <2>4, SMTT(30) DEF Emission, Records
        <3> QED
            BY <2>2, <2>4, <3>1, <3>2, SMTT(30) DEF Held
    <2> QED
        BY <2>3, <2>4
<1> QED
    BY <1>1, <1>2, SMTT(30)

\* A run that emits nothing and keeps its activation.
LEMMA HeldOther ==
    ASSUME NEW x, NEW rs, NEW qs, NEW o, NEW cs, NEW loc, Held(x, rs, qs, o, cs, loc), IsSeq(qs),
           NEW new, x \in DOMAIN rs => x \in DOMAIN new /\ new[x].act = rs[x].act,
           NEW more, IsSeq(more), NoneQueued(x, more)
    PROVE  Held(x, new, qs \o more, o, cs, loc)
<1>1. Held(x, new, qs, o, cs, loc)
    BY HeldSame, SMTT(30)
<1>2. /\ NoneQueued(x, qs) => NoneQueued(x, qs \o more)
      /\ \A a : OneQueued(x, qs, a) => OneQueued(x, qs \o more, a)
    BY QueuedConcat, SMTT(30)
<1> QED
    BY <1>1, <1>2, SMTT(30) DEF Held

\* Calls that keep whose they are.
LEMMA HeldCalls ==
    ASSUME NEW x, NEW rs, NEW qs, NEW o, NEW cs, NEW loc, Held(x, rs, qs, o, cs, loc), NEW new,
           \A i \in CallIds : CallFor(new[i], x) <=> CallFor(cs[i], x)
    PROVE  Held(x, rs, qs, o, new, loc)
BY CallsKept, SMTT(30) DEF Held

\* A reply leaves a call what it was, apart from its state and outcome.
LEMMA AnsweredFacts ==
    ASSUME NEW qs, NEW cs, Listed(qs, cs), NEW replies
    PROVE  LET new == Answered(cs, replies)
           IN  /\ DOMAIN new = CallIds
               /\ \A i \in CallIds : DOMAIN new[i] = DOMAIN Free
               /\ \A i \in CallIds : \A x : CallFor(new[i], x) <=> CallFor(cs[i], x)
<1> DEFINE new == Answered(cs, replies)
<1>1. DOMAIN new = CallIds
    BY DEF Answered
<1>2. ASSUME NEW i \in CallIds
      PROVE  DOMAIN new[i] = DOMAIN cs[i] /\ new[i].run = cs[i].run /\ new[i].auto = cs[i].auto
    <2>1. new[i] = cs[i] \/ \E v : new[i] = [cs[i] EXCEPT !.st = "reply", !.out = v]
        BY Zenon DEF Answered
    <2>2. "run" \in DOMAIN cs[i] /\ "auto" \in DOMAIN cs[i]
        BY SMTT(30) DEF Listed, Free
    <2> QED
        BY <2>1, <2>2, ZenonT(30)
<1> HIDE DEF new
<1> QED
    BY <1>1, <1>2, SMTT(30) DEF CallFor, Listed, new

\* A clean step of run x, cached or new.
LEMMA StepTracked ==
    ASSUME NEW rs, NEW qs, NEW cs, Tracked(rs, qs, cs), Listed(qs, cs), NEW x, NEW s,
           Clean(Before(rs, x), s), NEW new, x \in DOMAIN new, new[x] = s.r,
           \A z \in DOMAIN rs : z # x => z \in DOMAIN new /\ new[z] = rs[z]
    PROVE  /\ Tracked(new, qs \o Activations(x, s.acts), Answered(cs, s.replies))
           /\ Listed(qs \o Activations(x, s.acts), Answered(cs, s.replies))
<1> DEFINE more == Activations(x, s.acts)
           answered == Answered(cs, s.replies)
<1>1. Emission(Before(rs, x), s.acts, new[x].act) /\ IsSeq(s.acts)
    BY SMTT(30) DEF Clean, Emission, IsSeq
<1>2. /\ IsSeq(more)
      /\ \A z : z # x => NoneQueued(z, more)
      /\ (\A i \in DOMAIN s.acts : s.acts[i] \notin ForLang) => NoneQueued(x, more)
      /\ \A i \in DOMAIN s.acts : s.acts[i] \in ForLang => OneQueued(x, more, s.acts[i])
    BY <1>1, QueuedActivations, SMTT(30) DEF Emission
<1>3. /\ DOMAIN answered = CallIds
      /\ \A i \in CallIds : DOMAIN answered[i] = DOMAIN Free
      /\ \A i \in CallIds : \A z : CallFor(answered[i], z) <=> CallFor(cs[i], z)
    BY AnsweredFacts, SMTT(30)
<1> HIDE DEF more, answered
<1>4. IsSeq(qs) /\ IsSeq(qs \o more)
    BY <1>2, ConcatFacts, SMTT(30) DEF Listed
<1>5. ASSUME NEW z \in Runs
      PROVE  Held(z, new, qs \o more, out, answered, local)
    <2>1. Held(z, rs, qs, out, cs, local)
        BY SMTT(30) DEF Tracked
    <2>2. Held(z, rs, qs, out, answered, local)
        BY <1>3, <2>1, HeldCalls, SMTT(30)
    <2>3. CASE z = x
        BY <1>1, <1>2, <1>4, <2>2, <2>3, HeldStep, SMTT(30)
    <2>4. CASE z # x
        BY <1>2, <1>4, <2>2, <2>4, HeldOther, SMTT(30)
    <2> QED
        BY <2>3, <2>4, SMTT(30)
<1> QED
    BY <1>3, <1>4, <1>5, SMTT(30) DEF Tracked, Listed, more, answered

-----------------------------------------------------------------------------
(* States of the stream *)

\* A run becomes the most recently used one.
LEMMA Renewed ==
    ASSUME NEW q, NEW rs, Ordered(q, rs), NEW x \in DOMAIN rs
    PROVE  Ordered(Append(Without(q, {x}), x), rs)
<1> DEFINE w == Without(q, {x})
           n == Len(w)
           p == Append(w, x)
<1>1. IsSeq(w) /\ Distinct(w) /\ Range(w) = Range(q) \ {x}
    BY WithoutFacts DEF Ordered
<1> HIDE DEF w
<1>2. n \in Nat /\ DOMAIN w = 1 .. n
    BY <1>1, SeqFacts, SMTT(30)
<1>3. IsSeq(p) /\ Len(p) = n + 1 /\ p[n + 1] = x /\ \A i \in 1 .. n : p[i] = w[i]
    BY <1>1, AppendFacts, SMTT(30)
<1>4. DOMAIN p = 1 .. n + 1
    BY <1>3, SeqFacts, SMTT(30)
<1> HIDE DEF n, p
<1>5. /\ \A i \in DOMAIN w : i \in DOMAIN p /\ p[i] = w[i] /\ w[i] # x
      /\ \A i \in DOMAIN p : i \in DOMAIN w \/ i = n + 1
      /\ n + 1 \in DOMAIN p
    BY <1>1, <1>2, <1>3, <1>4, SMTT(30) DEF Range
<1>6. Distinct(p)
    BY <1>1, <1>3, <1>5, SMTT(30) DEF Distinct
<1>7. Range(p) = DOMAIN rs
    <2>1. Range(p) = Range(w) \cup {x}
        BY <1>3, <1>5, SMTT(30) DEF Range
    <2> QED
        BY <1>1, <2>1, SMTT(30) DEF Ordered
<1> QED
    BY <1>3, <1>6, <1>7, SMTT(30) DEF Ordered, p, w

\* A new run is the most recently used one.
LEMMA Joins ==
    ASSUME NEW q, NEW rs, Ordered(q, rs), NEW x, x \notin DOMAIN rs, NEW new,
           DOMAIN new = DOMAIN rs \cup {x}
    PROVE  Ordered(Append(q, x), new)
<1> DEFINE n == Len(q)
           p == Append(q, x)
<1>1. n \in Nat /\ DOMAIN q = 1 .. n
    BY SeqFacts, SMTT(30) DEF Ordered
<1>2. IsSeq(p) /\ Len(p) = n + 1 /\ p[n + 1] = x /\ \A i \in 1 .. n : p[i] = q[i]
    BY AppendFacts DEF Ordered
<1>3. DOMAIN p = 1 .. n + 1
    BY <1>2, SeqFacts, SMTT(30)
<1> HIDE DEF n, p
<1>4. /\ \A i \in DOMAIN q : i \in DOMAIN p /\ p[i] = q[i] /\ q[i] # x
      /\ \A i \in DOMAIN p : i \in DOMAIN q \/ i = n + 1
      /\ n + 1 \in DOMAIN p
    BY <1>1, <1>2, <1>3, SMTT(30) DEF Ordered, Range
<1>5. Distinct(p)
    BY <1>2, <1>4, SMTT(30) DEF Ordered, Distinct
<1>6. Range(p) = DOMAIN new
    BY <1>2, <1>4, SMTT(30) DEF Ordered, Range
<1> QED
    BY <1>2, <1>5, <1>6, SMTT(30) DEF Ordered, p

\* get and get_mut change only the order of the cached runs.
LEMMA TouchGood ==
    ASSUME NEW st, Good(st), NEW x
    PROVE  Good(Touch(st, x)) /\ Touch(st, x).runs = st.runs
<1> DEFINE t == Touch(st, x)
<1>1. /\ DOMAIN t = DOMAIN st /\ t.runs = st.runs /\ t.tripped = st.tripped
      /\ t.actions = st.actions /\ t.calls = st.calls /\ t.slotq = st.slotq
      /\ t.lru = IF x \in DOMAIN st.runs THEN Append(Without(st.lru, {x}), x) ELSE st.lru
    BY SMTT(30) DEF Good, Touch, Cached
<1> HIDE DEF t
<1>2. Ordered(t.lru, t.runs)
    BY <1>1, Renewed, SMTT(30) DEF Good
<1> QED
    BY <1>1, <1>2, SMTT(30) DEF Good, t

\* A clean step of a cached run keeps the cache as large as it is.
LEMMA ApplyGood ==
    ASSUME NEW st, Good(st), NEW x \in Cached(st), NEW s, Clean(st.runs[x].act, s)
    PROVE  Good(Apply(st, x, s))
<1> DEFINE rs == [y \in Cached(st) \cup {x} |-> IF y = x THEN s.r ELSE st.runs[y]]
           t == Apply(st, x, s)
<1>1. /\ t.runs = rs /\ t.tripped = st.tripped \cup s.tripped /\ DOMAIN t = DOMAIN st
      /\ t.lru = st.lru /\ t.actions = st.actions \o Activations(x, s.acts)
      /\ t.calls = Answered(st.calls, s.replies) /\ t.slotq = st.slotq
    BY SMTT(30) DEF Good, Apply
<1>2. DOMAIN rs = DOMAIN st.runs
    BY SMTT(30) DEF Cached
<1>3. \A y \in DOMAIN rs : IsRun(rs[y])
    BY SMTT(30) DEF Good, Sound, Clean, Cached
<1>4. t.tripped \cap Collisions = {}
    BY <1>1, SMTT(30) DEF Good, Sound, Clean
<1>5. /\ x \in DOMAIN st.runs /\ x \in DOMAIN rs /\ rs[x] = s.r
      /\ \A z \in DOMAIN st.runs : z # x => z \in DOMAIN rs /\ rs[z] = st.runs[z]
    BY SMTT(30) DEF Cached
<1>6. Before(st.runs, x) = st.runs[x].act
    BY <1>5, SMTT(30) DEF Before
<1> HIDE DEF rs, t
<1>7. Tracked(t.runs, t.actions, t.calls) /\ Listed(t.actions, t.calls)
    BY <1>1, <1>5, <1>6, StepTracked, SMTT(30) DEF Good
<1>8. Ordered(t.lru, t.runs)
    BY <1>1, <1>2, SMTT(30) DEF Good, Ordered
<1> QED
    BY <1>1, <1>2, <1>3, <1>4, <1>7, <1>8, SMTT(30) DEF Good, Sound, t

\* A new run is added only if the cache is not full.
LEMMA ApplyNewGood ==
    ASSUME NEW st, Good(st), ~IsFull(st), NEW x, x \notin Cached(st), NEW s, Clean("none", s)
    PROVE  Good(Apply([st EXCEPT !.lru = Append(@, x)], x, s))
<1> DEFINE rs == [y \in Cached(st) \cup {x} |-> IF y = x THEN s.r ELSE st.runs[y]]
           t == Apply([st EXCEPT !.lru = Append(@, x)], x, s)
<1>1. /\ t.runs = rs /\ t.tripped = st.tripped \cup s.tripped /\ DOMAIN t = DOMAIN st
      /\ t.lru = Append(st.lru, x) /\ t.actions = st.actions \o Activations(x, s.acts)
      /\ t.calls = Answered(st.calls, s.replies) /\ t.slotq = st.slotq
    BY DEF Good, Apply, Cached
<1>2. DOMAIN rs = DOMAIN st.runs \cup {x}
    BY SMTT(30) DEF Cached
<1>3. \A y \in DOMAIN rs : IsRun(rs[y])
    BY DEF Good, Sound, Clean, Cached
<1>4. t.tripped \cap Collisions = {}
    BY <1>1, ZenonT(30) DEF Good, Sound, Clean
<1>5. IsFiniteSet(DOMAIN rs) /\ Cardinality(DOMAIN rs) = Cardinality(DOMAIN st.runs) + 1
    BY <1>2, FS_AddElement, SMTT(30) DEF Good, Sound, Cached
<1>6. Cardinality(DOMAIN st.runs) \in Nat /\ Capacity \in Nat
    BY FS_CardinalityType, StreamAssumption, SMTT(30) DEF Good, Sound, Capacity
<1>7. Cardinality(DOMAIN rs) <= Capacity
    BY <1>5, <1>6, SMTT(30) DEF Good, Sound, IsFull, Cached
<1>8. /\ x \notin DOMAIN st.runs /\ x \in DOMAIN rs /\ rs[x] = s.r
      /\ \A z \in DOMAIN st.runs : z # x => z \in DOMAIN rs /\ rs[z] = st.runs[z]
    BY SMTT(30) DEF Cached
<1>9. Before(st.runs, x) = "none"
    BY <1>8, SMTT(30) DEF Before
<1> HIDE DEF rs, t
<1>10. Tracked(t.runs, t.actions, t.calls) /\ Listed(t.actions, t.calls)
    BY <1>1, <1>8, <1>9, StepTracked, SMTT(30) DEF Good
<1>11. Ordered(t.lru, t.runs)
    <2>1. Ordered(st.lru, st.runs)
        BY DEF Good
    <2>2. Ordered(Append(st.lru, x), rs)
        BY <1>2, <1>8, <2>1, Joins, ZenonT(30)
    <2> QED
        BY <1>1, <2>2, SMTT(30)
<1> QED
    BY <1>1, <1>3, <1>4, <1>5, <1>7, <1>10, <1>11, ZenonT(30) DEF Good, Sound, t

\* A new run has neither an activation nor a task.
LEMMA NewRunFree == IsRun(NewRun) /\ NewRun.act = "none" /\ ~HasWft(NewRun)
BY SMTT(30) DEF IsRun, NewRun, HasWft, NoWft

\* A run that need not buffer a task is free to take it.
LEMMA FreeToTake ==
    ASSUME NEW r, ~MustBuffer(r)
    PROVE  r.act = "none" /\ ~HasWft(r)
BY DEF MustBuffer

\* buffer_resp_on_full_cache
LEMMA SlotQueued ==
    ASSUME NEW q, IsSeq(q), NEW task
    PROVE  IsSeq(BufferOnFullCache(q, task))
<1>1. ASSUME NEW i, NEW v
      PROVE  IsSeq([q EXCEPT ![i] = v])
    <2> DEFINE p == [q EXCEPT ![i] = v]
    <2>1. Len(q) \in Nat /\ DOMAIN q = 1 .. Len(q)
        BY SeqFacts
    <2>2. p = [k \in 1 .. Len(q) |-> p[k]]
        BY <2>1, ZenonT(30)
    <2> HIDE DEF p
    <2>3. IsSeq(p)
        BY <2>1, <2>2, FunctionSeq, SMTT(30)
    <2> QED
        BY <2>3, SMTT(30) DEF p
<1>2. \A i : IsSeq([q EXCEPT ![i] = Append(@, task)])
    BY <1>1, ZenonT(30)
<1> QED
    BY <1>2, AppendFacts, ZenonT(30) DEF BufferOnFullCache

\* instantiate_or_update, for any task and any state it may be offered in.
LEMMA InstantiateOrUpdateGood ==
    ASSUME NEW st, Good(st), NEW task, NEW n
    PROVE  Good(InstantiateOrUpdate(st, task, n))
<1> DEFINE x == task.run
           t == Touch(st, x)
<1>1. Good(t) /\ t.runs = st.runs
    BY TouchGood, SMTT(30)
<1> HIDE DEF t
<1>2. CASE x \in Cached(st) /\ MustBuffer(st.runs[x])
    <2> DEFINE u == [t EXCEPT !.runs[x].buf = Buffer(@, task)]
    <2>1. /\ u.runs = [st.runs EXCEPT ![x].buf = Buffer(@, task)] /\ u.tripped = t.tripped
          /\ DOMAIN u = DOMAIN t /\ u.lru = t.lru /\ u.actions = t.actions /\ u.calls = t.calls
          /\ u.slotq = t.slotq
        BY <1>1, SMTT(30) DEF Good
    <2>2. Keeps(st.runs[x], [st.runs[x] EXCEPT !.buf = Buffer(@, task)])
        BY <1>2, SMTT(30) DEF Good, Sound, Cached, Keeps, IsRun, NewRun
    <2>3. /\ DOMAIN u.runs = DOMAIN st.runs
          /\ \A y \in DOMAIN st.runs : IsRun(u.runs[y]) /\ u.runs[y].act = st.runs[y].act
        <3>1. /\ DOMAIN u.runs = DOMAIN st.runs
              /\ u.runs[x] = [st.runs[x] EXCEPT !.buf = Buffer(@, task)]
              /\ \A y \in DOMAIN st.runs : y # x => u.runs[y] = st.runs[y]
            BY <1>2, <2>1, SMTT(30) DEF Cached
        <3> QED
            BY <2>2, <3>1, ZenonT(30) DEF Good, Sound, Keeps
    <2> HIDE DEF u
    <2>5. Tracked(u.runs, u.actions, u.calls)
        BY <1>1, <2>1, <2>3, HeldSame, ZenonT(30) DEF Good, Tracked
    <2>4. Good(u)
        BY <1>1, <2>1, <2>3, <2>5, SMTT(30) DEF Good, Sound, Ordered
    <2> QED
        BY <1>2, <2>4, SMTT(30) DEF InstantiateOrUpdate, t, u
<1>3. CASE x \notin Cached(st) /\ IsFull(st)
    <2> DEFINE u == [st EXCEPT !.slotq = BufferOnFullCache(@, task)]
    <2>1. u.slotq = BufferOnFullCache(st.slotq, task) /\ IsSeq(st.slotq)
        BY DEF Good
    <2>2. Good(u)
        BY <2>1, SlotQueued, SMTT(30) DEF Good
    <2> QED
        BY <1>3, <2>2, SMTT(30) DEF InstantiateOrUpdate
<1>4. CASE x \notin Cached(st) /\ ~IsFull(st) /\ task.incremental
    <2> DEFINE u == [st EXCEPT !.fetches = @ \cup {[k |-> "full", task |-> task]}]
    <2>1. Good(u)
        BY DEF Good
    <2> QED
        BY <1>4, <2>1, SMTT(30) DEF InstantiateOrUpdate
<1>5. CASE x \notin Cached(st) /\ ~IsFull(st) /\ ~task.incremental
    <2>1. Clean("none", IncomingWft(NewRun, task, n))
        BY NewRunFree, IncomingWftClean, SMTT(30)
    <2>2. Good(Apply([st EXCEPT !.lru = Append(@, x)], x, IncomingWft(NewRun, task, n)))
        BY <1>5, <2>1, ApplyNewGood, ZenonT(30)
    <2> QED
        BY <1>5, <2>2, SMTT(30) DEF InstantiateOrUpdate
<1>6. CASE x \in Cached(st) /\ ~MustBuffer(st.runs[x])
    <2>1. IsRun(st.runs[x]) /\ st.runs[x].act = "none" /\ ~HasWft(st.runs[x])
        BY <1>6, FreeToTake, SMTT(30) DEF Good, Sound, Cached
    <2>2. Clean("none", IncomingWft(st.runs[x], task, n))
        BY <2>1, IncomingWftClean, SMTT(30)
    <2>3. x \in Cached(t)
        BY <1>1, <1>6, SMTT(30) DEF Cached
    <2>4. Good(Apply(t, x, IncomingWft(st.runs[x], task, n)))
        BY <1>1, <2>1, <2>2, <2>3, ApplyGood, SMTT(30)
    <2> QED
        BY <1>6, <2>4, SMTT(30) DEF InstantiateOrUpdate, t
<1> QED
    BY <1>2, <1>3, <1>4, <1>5, <1>6, SMTT(30)

\* reconcile_buffered asks some of the cached runs, each of them once.
LEMMA ToEvictFacts ==
    ASSUME NEW st, Good(st)
    PROVE  LET these == ToEvict(st)
           IN  IsSeq(these) /\ Distinct(these) /\ Range(these) \subseteq Range(st.lru)
<1> DEFINE evicting == Cardinality({x \in Cached(st) : Evicting(st.runs[x])})
           needed == IF Len(st.slotq) > evicting THEN Len(st.slotq) - evicting ELSE 0
           idle == Without(st.lru, {x \in Cached(st) : HasTasks(st.runs[x].buf)})
           m == IF needed < Len(idle) THEN needed ELSE Len(idle)
           these == SubSeq(idle, 1, m)
<1>1. evicting \in Nat
    <2>1. IsFiniteSet({x \in Cached(st) : Evicting(st.runs[x])})
        BY FS_Subset, SMTT(30) DEF Good, Sound, Cached
    <2> QED
        BY <2>1, FS_CardinalityType, SMTT(30)
<1> HIDE DEF evicting
<1>2. needed \in Nat
    BY <1>1, SeqFacts, SMTT(30) DEF Good
<1> HIDE DEF needed
<1>3. IsSeq(idle) /\ Distinct(idle) /\ Range(idle) \subseteq Range(st.lru)
    BY WithoutFacts, SMTT(30) DEF Good, Ordered
<1>4. ToEvict(st) = these
    BY SMTT(30) DEF ToEvict, evicting, needed
<1> HIDE DEF idle
<1>5. Len(idle) \in Nat /\ DOMAIN idle = 1 .. Len(idle)
    BY <1>3, SeqFacts, SMTT(30)
<1>6. m \in 0 .. Len(idle)
    BY <1>2, <1>5, SMTT(30)
<1> HIDE DEF m
<1>7. IsSeq(these) /\ DOMAIN these = 1 .. m /\ \A i \in 1 .. m : these[i] = idle[i]
    <2>1. PICK S : idle \in Seq(S)
        BY <1>3, SMTT(30) DEF IsSeq
    <2>2. these \in Seq(S) /\ Len(these) = m /\ \A i \in 1 .. m : these[i] = idle[i]
        BY <1>5, <1>6, <2>1, SMTT(30)
    <2> HIDE DEF these
    <2> QED
        BY <2>2, SMTT(30) DEF IsSeq
<1> HIDE DEF these
<1>8. Distinct(these)
    BY <1>3, <1>5, <1>6, <1>7, SMTT(30) DEF Distinct
<1>9. Range(these) \subseteq Range(idle)
    BY <1>5, <1>6, <1>7, SMTT(30) DEF Range
<1> QED
    BY <1>3, <1>4, <1>7, <1>8, <1>9, SMTT(30)

\* The runs asked become the most recently used ones.
LEMMA AskedLast ==
    ASSUME NEW q, NEW rs, Ordered(q, rs), NEW these, IsSeq(these), Distinct(these),
           Range(these) \subseteq Range(q)
    PROVE  Ordered(Without(q, Range(these)) \o these, rs)
<1> DEFINE w == Without(q, Range(these))
           n == Len(w)
           p == w \o these
<1>1. IsSeq(w) /\ Distinct(w) /\ Range(w) = Range(q) \ Range(these)
    BY WithoutFacts, SMTT(30) DEF Ordered
<1> HIDE DEF w
<1>2. n \in Nat /\ DOMAIN w = 1 .. n /\ Len(these) \in Nat /\ DOMAIN these = 1 .. Len(these)
    BY <1>1, SeqFacts, SMTT(30)
<1>3. /\ IsSeq(p) /\ Len(p) = n + Len(these)
      /\ \A i \in 1 .. n : p[i] = w[i]
      /\ \A i \in 1 .. Len(these) : p[n + i] = these[i]
    BY <1>1, ConcatFacts, SMTT(30)
<1>4. DOMAIN p = 1 .. n + Len(these)
    BY <1>3, SeqFacts, SMTT(30)
<1> HIDE DEF n, p
<1>5. /\ \A i \in DOMAIN w : i \in DOMAIN p /\ p[i] = w[i]
      /\ \A i \in DOMAIN these : n + i \in DOMAIN p /\ p[n + i] = these[i]
    BY <1>2, <1>3, <1>4, SMTT(30)
<1>6. \A i \in DOMAIN p : i \in DOMAIN w \/ \E j \in DOMAIN these : i = n + j
    <2> TAKE i \in DOMAIN p
    <2>1. CASE i > n
        <3>1. i - n \in DOMAIN these /\ i = n + (i - n)
            BY <1>2, <1>4, <2>1, SMTT(30)
        <3> QED
            BY <3>1, SMTT(30)
    <2> QED
        BY <1>2, <1>4, <2>1, SMTT(30)
<1>7. \A i \in DOMAIN w, j \in DOMAIN these : w[i] # these[j]
    BY <1>1, SMTT(30) DEF Range
<1>8. Distinct(p)
    <2> SUFFICES ASSUME NEW i \in DOMAIN p, NEW j \in DOMAIN p, p[i] = p[j]
                 PROVE  i = j
        BY SMTT(30) DEF Distinct
    <2>1. CASE i \in DOMAIN w /\ j \in DOMAIN w
        BY <1>1, <1>5, <2>1, SMTT(30) DEF Distinct
    <2>2. CASE i \notin DOMAIN w /\ j \notin DOMAIN w
        <3>1. PICK k \in DOMAIN these : i = n + k
            BY <1>6, <2>2, SMTT(30)
        <3>2. PICK l \in DOMAIN these : j = n + l
            BY <1>6, <2>2, SMTT(30)
        <3> QED
            BY <1>5, <3>1, <3>2, SMTT(30) DEF Distinct
    <2> QED
        BY <1>5, <1>6, <1>7, <2>1, <2>2, SMTT(30)
<1>9. Range(p) = DOMAIN rs
    <2>1. Range(p) = Range(w) \cup Range(these)
        BY <1>5, <1>6, SMTT(30) DEF Range
    <2> QED
        BY <1>1, <2>1, SMTT(30) DEF Ordered
<1> QED
    BY <1>3, <1>8, <1>9, SMTT(30) DEF Ordered, p, w

\* reconcile_buffered asks cached runs to go; none joins the cache.
LEMMA ReconcileGood ==
    ASSUME NEW st, Good(st)
    PROVE  Good(Reconcile(st))
<1> DEFINE these == ToEvict(st)
           asked == [x \in Cached(st) \cap Range(these) |->
                        RequestEvictionOnly(st.runs[x], "CacheFull", NoReply, Calm)]
           u == AfterEvictionRequests(st, these, asked)
           E == EvictionActivations(these, asked)
<1>1. IsSeq(these) /\ Distinct(these) /\ Range(these) \subseteq Range(st.lru)
    BY ToEvictFacts, SMTT(30)
<1> HIDE DEF these
<1>2. DOMAIN asked = Range(these) /\ Range(these) \subseteq DOMAIN st.runs
    BY <1>1, SMTT(30) DEF Good, Ordered, Cached
<1>3. \A x \in DOMAIN asked : Clean(st.runs[x].act, asked[x])
    BY <1>2, RequestEvictionOnlyClean, ZenonT(30) DEF Good, Sound, Cached
<1> HIDE DEF asked
<1>4. /\ u.runs = [x \in Cached(st) |-> IF x \in DOMAIN asked THEN asked[x].r ELSE st.runs[x]]
      /\ u.tripped = st.tripped \cup UNION {asked[x].tripped : x \in DOMAIN asked}
      /\ DOMAIN u = DOMAIN st /\ u.lru = Without(st.lru, Range(these)) \o these
      /\ u.actions = st.actions \o E /\ u.calls = st.calls /\ u.slotq = st.slotq
    BY SMTT(30) DEF Good, AfterEvictionRequests
<1> HIDE DEF u
<1>5. /\ DOMAIN u.runs = DOMAIN st.runs
      /\ \A x \in DOMAIN u.runs : u.runs[x] = IF x \in DOMAIN asked THEN asked[x].r ELSE st.runs[x]
    BY <1>4, SMTT(30) DEF Cached
<1>6. \A x \in DOMAIN u.runs : IsRun(u.runs[x])
    BY <1>3, <1>5, SMTT(30) DEF Good, Sound, Clean
<1>7. u.tripped \cap Collisions = {}
    <2>1. st.tripped \cap Collisions = {}
        BY Zenon DEF Good, Sound
    <2>2. \A x \in DOMAIN asked : asked[x].tripped \cap Collisions = {}
        BY <1>3, Zenon DEF Clean
    <2> QED
        BY <1>4, <2>1, <2>2, SMTT(30)
<1>8. Ordered(u.lru, u.runs)
    <2>1. Ordered(Without(st.lru, Range(these)) \o these, st.runs)
        BY <1>1, AskedLast, SMTT(30) DEF Good
    <2> QED
        BY <1>4, <1>5, <2>1 DEF Ordered
<1>9. \A i \in DOMAIN these : these[i] \in DOMAIN asked
    BY <1>2, SMTT(30) DEF Range
<1>10. \A x \in DOMAIN asked : /\ IsSeq(asked[x].acts)
                               /\ Emission(st.runs[x].act, asked[x].acts, asked[x].r.act)
    BY <1>3, SMTT(30) DEF Clean, Emission, IsSeq
<1>11. /\ IsSeq(E)
       /\ \A z : z \notin Range(these) => NoneQueued(z, E)
       /\ \A i \in DOMAIN these :
             (\A l \in DOMAIN asked[these[i]].acts : asked[these[i]].acts[l] \notin ForLang)
             => NoneQueued(these[i], E)
       /\ \A i \in DOMAIN these : \A l \in DOMAIN asked[these[i]].acts :
             asked[these[i]].acts[l] \in ForLang => OneQueued(these[i], E, asked[these[i]].acts[l])
    <2>1. \A i \in DOMAIN these : IsSeq(asked[these[i]].acts)
        BY <1>9, <1>10, SMTT(30)
    <2>2. \A i \in DOMAIN these : \A l, m \in DOMAIN asked[these[i]].acts :
             asked[these[i]].acts[l] \in ForLang /\ asked[these[i]].acts[m] \in ForLang => l = m
        BY <1>9, <1>10, SMTT(30) DEF Emission
    <2> QED
        BY <1>1, <2>1, <2>2, QueuedEvictions, ZenonT(30)
<1> HIDE DEF E
<1>12. IsSeq(st.actions) /\ Listed(u.actions, u.calls)
    <2>1. Listed(st.actions, st.calls)
        BY SMTT(30) DEF Good
    <2>2. IsSeq(st.actions \o E)
        BY <1>11, <2>1, ConcatFacts, SMTT(30) DEF Listed
    <2> QED
        BY <1>4, <2>1, <2>2, ZenonT(30) DEF Listed
<1>13. ASSUME NEW z \in Runs
       PROVE  Held(z, u.runs, st.actions \o E, out, st.calls, local)
    <2>1. Held(z, st.runs, st.actions, out, st.calls, local)
        BY DEF Good, Tracked
    <2>2. CASE z \in Range(these)
        <3>1. PICK i \in DOMAIN these : z = these[i]
            BY <2>2, SMTT(30) DEF Range
        <3>2. z \in DOMAIN asked /\ z \in DOMAIN st.runs /\ z \in DOMAIN u.runs
            BY <1>2, <1>5, <2>2, SMTT(30)
        <3>3. Emission(Before(st.runs, z), asked[z].acts, u.runs[z].act)
            BY <1>5, <1>10, <3>2, SMTT(30) DEF Before
        <3>4. /\ (\A l \in DOMAIN asked[z].acts : asked[z].acts[l] \notin ForLang) => NoneQueued(z, E)
              /\ \A l \in DOMAIN asked[z].acts :
                    asked[z].acts[l] \in ForLang => OneQueued(z, E, asked[z].acts[l])
            BY <1>11, <3>1, SMTT(30)
        <3> QED
            BY <1>11, <1>12, <2>1, <3>2, <3>3, <3>4, HeldStep, ZenonT(30)
    <2>3. CASE z \notin Range(these)
        <3>1. z \in DOMAIN st.runs => z \in DOMAIN u.runs /\ u.runs[z].act = st.runs[z].act
            BY <1>2, <1>5, <2>3, SMTT(30)
        <3> QED
            BY <1>11, <1>12, <2>1, <2>3, <3>1, HeldOther, ZenonT(30)
    <2> QED
        BY <2>2, <2>3, SMTT(30)
<1>14. Tracked(u.runs, u.actions, u.calls)
    BY <1>4, <1>13, SMTT(30) DEF Tracked
<1>15. Good(u)
    BY <1>4, <1>5, <1>6, <1>7, <1>8, <1>12, <1>14, SMTT(30) DEF Good, Sound
<1> QED
    BY <1>15, SMTT(30) DEF Reconcile, EvictThese, u, asked, these

\* Without a cache the least recently used run, if there is one, is asked to go.
LEMMA SteppedGood ==
    ASSUME NEW st, Good(st), NEW x \in Cached(st), NEW s, Clean(st.runs[x].act, s), NEW n
    PROVE  Good(Stepped(st, x, s, n))
<1> DEFINE done == Apply(st, x, s)
           y == done.lru[1]
           t == Touch(done, y)
<1>1. Good(done)
    BY ApplyGood, SMTT(30)
<1> HIDE DEF done
<1>2. Good(t) /\ t.runs = done.runs
    BY <1>1, TouchGood, SMTT(30)
<1> HIDE DEF t, y
<1>3. ASSUME y \in Cached(done)
      PROVE  Good(Apply(t, y, RequestEviction(done.runs[y], "CacheFull", NoReply, n)))
    <2>1. Clean(done.runs[y].act, RequestEviction(done.runs[y], "CacheFull", NoReply, n))
        BY <1>1, <1>3, RequestEvictionClean, ZenonT(30) DEF Good, Sound, Cached
    <2> QED
        BY <1>2, <1>3, <2>1, ApplyGood, SMTT(30) DEF Cached
<1> QED
    BY <1>1, <1>3, ZenonT(30) DEF Stepped, EvictWithoutCache, done, y, t
===============================================================================
