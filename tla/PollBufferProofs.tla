-------------------------- MODULE PollBufferProofs --------------------------
(***************************************************************************)
(* For every set of callers, supplier size and limit: the permit dealer's   *)
(* counters agree with the live permits, and the extant count exceeds       *)
(* max_permits by at most the number of callers less one.                   *)
(*                                                                         *)
(* For every configuration and every number of slots: the pollers use the   *)
(* dealer as its specification allows, so what is proved of it holds of     *)
(* them; a loop that sleeps in wait_until_allowed never sleeps past a       *)
(* raised target; every permit is with a loop, a poll, a buffered result or *)
(* a task; and a task is lost only once shutdown has begun.                 *)
(***************************************************************************)
EXTENDS PollBuffer, FiniteSetTheorems, TLAPS

-----------------------------------------------------------------------------
(* The dealer *)

\* TypeOK is inductive only together with the conservation of slots, which
\* bounds the counters by the size of the supplier.
IInv == TypeOK /\ SlotsConserved

\* The callers past the check are finitely many, and never more than all.
LEMMA PastFinite ==
    /\ IsFiniteSet(Past)
    /\ Cardinality(Past) \in Nat
    /\ Cardinality(Acquirers) \in Nat
    /\ Cardinality(Past) <= Cardinality(Acquirers)
<1>1. Past \subseteq Acquirers
    BY DEF Past
<1>2. IsFiniteSet(Past)
    BY <1>1, AcquirersAssumption, FS_Subset
<1>3. Cardinality(Past) <= Cardinality(Acquirers)
    BY <1>1, AcquirersAssumption, FS_Subset
<1>4. Cardinality(Past) \in Nat /\ Cardinality(Acquirers) \in Nat
    BY <1>2, AcquirersAssumption, FS_CardinalityType
<1> QED
    BY <1>2, <1>3, <1>4

\* MeteredPermitDealer: along every path a permit takes (acquire_owned or
\* try_acquire_owned, into_used, drop) the supplier's slots and the two counters
\* the slot metrics are computed from stay in step with the live permits.
THEOREM Conservation == Spec => [](TypeOK /\ SlotsConserved)
<1>1. Init => IInv
    BY SlotsAssumption, SMTT(30) DEF Init, IInv, TypeOK, SlotsConserved
<1>2. IInv /\ [Next]_vars => IInv'
    <2> SUFFICES ASSUME IInv, [Next]_vars
                 PROVE  IInv'
        OBVIOUS
    <2> USE SlotsAssumption DEF IInv, TypeOK, SlotsConserved
    <2>1. ASSUME NEW a \in Acquirers, PassLimit(a)
          PROVE  IInv'
        BY <2>1 DEF PassLimit
    <2>2. ASSUME NEW a \in Acquirers, TryPassLimit(a)
          PROVE  IInv'
        BY <2>2 DEF TryPassLimit
    <2>3. ASSUME NEW a \in Acquirers, BuildOwned(a)
          PROVE  IInv'
        BY <2>3 DEF BuildOwned
    <2>4. ASSUME NEW a \in Acquirers, TryReserveFails(a)
          PROVE  IInv'
        BY <2>4 DEF TryReserveFails
    <2>a. ASSUME NEW a \in Acquirers, Abandon(a)
          PROVE  IInv'
        BY <2>a DEF Abandon
    <2>5. CASE IntoUsed
        BY <2>5 DEF IntoUsed
    <2>6. CASE DropFresh
        BY <2>6 DEF DropFresh
    <2>7. CASE DropUsed
        BY <2>7 DEF DropUsed
    <2>8. CASE ReleaseSlot
        BY <2>8 DEF ReleaseSlot
    <2>9. CASE UNCHANGED vars
        BY <2>9 DEF vars
    <2> QED
        BY <2>1, <2>2, <2>3, <2>4, <2>a, <2>5, <2>6, <2>7, <2>8, <2>9, SMTT(30) DEF Next
<1> QED
    BY <1>1, <1>2, PTL DEF Spec, IInv

\* A caller that returns leaves Past.
LEMMA PastShrinks ==
    ASSUME NEW a \in Acquirers, TypeOK, pc[a] # "idle",
           pc' = [pc EXCEPT ![a] = "idle"]
    PROVE  Cardinality(Past') = Cardinality(Past) - 1
<1>1. Past' = Past \ {a}
    BY DEF Past, TypeOK
<1>2. a \in Past
    BY DEF Past
<1> QED
    BY <1>1, <1>2, PastFinite, FS_RemoveElement, SMTT(30)

\* acquire_owned and try_acquire_owned check the count and reserve the slot in
\* separate steps, so max_permits is not a hard limit; the excess is at most one
\* permit for every other caller.
THEOREM ExtantBound == Spec => []ExtantBounded
<1>1. Init => ExtantBoundedInv
    <2> SUFFICES ASSUME Init, MaxPermits > 0
                 PROVE  extant + Cardinality(Past) <= MaxPermits + Cardinality(Acquirers) - 1
        BY DEF ExtantBoundedInv
    <2>1. Past = {}
        BY DEF Init, Past
    <2>2. Cardinality(Past) = 0
        BY <2>1, FS_EmptySet
    <2> QED
        BY <2>2, PastFinite, MaxPermitsAssumption DEF Init
<1>2. TypeOK /\ ExtantBoundedInv /\ [Next]_vars => ExtantBoundedInv'
    <2> SUFFICES ASSUME TypeOK, ExtantBoundedInv, [Next]_vars, MaxPermits > 0
                 PROVE  extant' + Cardinality(Past') <= MaxPermits + Cardinality(Acquirers) - 1
        BY DEF ExtantBoundedInv
    <2>0. /\ Cardinality(Past) \in Nat
          /\ Cardinality(Past) <= Cardinality(Acquirers)
          /\ Cardinality(Acquirers) \in Nat
          /\ extant \in Int
          /\ extant + Cardinality(Past) <= MaxPermits + Cardinality(Acquirers) - 1
        BY PastFinite, SlotsAssumption DEF TypeOK, ExtantBoundedInv
    <2>p. ASSUME NEW a \in Acquirers, NEW s \in {"reserving", "trying"}, pc[a] = "idle",
                 BelowMax, pc' = [pc EXCEPT ![a] = s], extant' = extant
          PROVE  extant' + Cardinality(Past') <= MaxPermits + Cardinality(Acquirers) - 1
        <3>1. Past' \subseteq Acquirers
            BY DEF Past
        <3>2. Cardinality(Past') \in Nat /\ Cardinality(Past') <= Cardinality(Acquirers)
            BY <3>1, AcquirersAssumption, FS_Subset, FS_CardinalityType
        <3>3. extant < MaxPermits
            BY <2>p DEF BelowMax
        <3> QED
            BY <2>0, <2>p, <3>2, <3>3, MaxPermitsAssumption
    <2>1. ASSUME NEW a \in Acquirers, PassLimit(a)
          PROVE  extant' + Cardinality(Past') <= MaxPermits + Cardinality(Acquirers) - 1
        BY <2>1, <2>p, Zenon DEF PassLimit
    <2>2. ASSUME NEW a \in Acquirers, TryPassLimit(a)
          PROVE  extant' + Cardinality(Past') <= MaxPermits + Cardinality(Acquirers) - 1
        BY <2>2, <2>p, Zenon DEF TryPassLimit
    <2>3. ASSUME NEW a \in Acquirers, BuildOwned(a)
          PROVE  extant' + Cardinality(Past') <= MaxPermits + Cardinality(Acquirers) - 1
        <3>1. Cardinality(Past') = Cardinality(Past) - 1
            BY <2>3, PastShrinks, Zenon DEF BuildOwned
        <3> QED
            BY <2>0, <2>3, <3>1, MaxPermitsAssumption DEF BuildOwned
    <2>4. ASSUME NEW a \in Acquirers, TryReserveFails(a)
          PROVE  extant' + Cardinality(Past') <= MaxPermits + Cardinality(Acquirers) - 1
        <3>1. Cardinality(Past') = Cardinality(Past) - 1
            BY <2>4, PastShrinks, Zenon DEF TryReserveFails
        <3> QED
            BY <2>0, <2>4, <3>1, MaxPermitsAssumption DEF TryReserveFails
    <2>q. ASSUME pc' = pc, extant' \in Int, extant' <= extant
          PROVE  extant' + Cardinality(Past') <= MaxPermits + Cardinality(Acquirers) - 1
        <3>1. Past' = Past
            BY <2>q DEF Past
        <3> QED
            BY <2>0, <2>q, <3>1, MaxPermitsAssumption
    <2>a. ASSUME NEW a \in Acquirers, Abandon(a)
          PROVE  extant' + Cardinality(Past') <= MaxPermits + Cardinality(Acquirers) - 1
        <3>1. CASE pc[a] = "idle"
            BY <2>a, <2>q, <2>0, <3>1 DEF Abandon, TypeOK
        <3>2. CASE pc[a] # "idle"
            <4>1. Cardinality(Past') = Cardinality(Past) - 1
                BY <2>a, <3>2, PastShrinks, Zenon DEF Abandon
            <4> QED
                BY <2>0, <2>a, <4>1, MaxPermitsAssumption DEF Abandon
        <3> QED
            BY <3>1, <3>2
    <2>5. CASE IntoUsed
        BY <2>0, <2>5, <2>q DEF IntoUsed
    <2>6. CASE DropFresh
        BY <2>0, <2>6, <2>q DEF DropFresh
    <2>7. CASE DropUsed
        BY <2>0, <2>7, <2>q DEF DropUsed
    <2>8. CASE ReleaseSlot
        BY <2>0, <2>8, <2>q DEF ReleaseSlot
    <2>9. CASE UNCHANGED vars
        BY <2>0, <2>9, <2>q DEF vars
    <2> QED
        BY <2>1, <2>2, <2>3, <2>4, <2>a, <2>5, <2>6, <2>7, <2>8, <2>9, SMTT(30) DEF Next
<1>3. TypeOK /\ ExtantBoundedInv => ExtantBounded
    BY PastFinite, SlotsAssumption, MaxPermitsAssumption
    DEF TypeOK, ExtantBoundedInv, ExtantBounded
<1> QED
    BY <1>1, <1>2, <1>3, Conservation, PTL DEF Spec

-----------------------------------------------------------------------------
(* The pollers *)

\* One step of the pollers is one step of the dealer or leaves it alone.
LEMMA DealerStep ==
    ASSUME PollNext, Kinds \subseteq Acquirers
    PROVE  [Next]_vars
<1> USE DEF dealer, vars
<1>1. ASSUME NEW k \in Acquirers, Loop(k)
      PROVE  [Next]_vars
    BY <1>1, SMTT(30) DEF Loop, TurnComes, LimitPassed, PermitAcquired, ScalerSleeps, SpawnPoll, Break,
               LoopEnds, Next
<1>2. ASSUME NEW k \in Acquirers, PollAnswered(k) \/ PollSteps(k) \/ PeriodEnds(k)
      PROVE  [Next]_vars
    BY <1>2, SMTT(30) DEF PollAnswered, PollResponds, PollFails, PollSteps, PollInterrupted,
               BackoffElapses, BackoffInterrupted, ForwardResult, PeriodEnds, Next
<1>3. CASE Streaming
    BY <1>3 DEF Streaming, Start, StreamTakes, StreamSeesNone, DropBuffered, ShutdownBoxReturns,
               NoticeShutdown, Next
<1>4. CASE InitiateShutdown \/ TaskFinishes \/ SlotFreed
    BY <1>4 DEF InitiateShutdown, TaskFinishes, SlotFreed, Next
<1> QED
    BY <1>1, <1>2, <1>3, <1>4 DEF PollNext

\* What the configuration fixes.
ConfigInv == config \in Configs

\* The configuration of a run never changes.
LEMMA ConfigStays ==
    ASSUME [PollNext]_pollvars
    PROVE  config' = config
BY ZenonT(30) DEF PollNext, pollvars, Loop, TurnComes, LimitPassed, PermitAcquired, ScalerSleeps,
       SpawnPoll, Break, LoopEnds, PollAnswered, PollResponds, PollFails, PollSteps,
       PollInterrupted, BackoffElapses, BackoffInterrupted, ForwardResult, PeriodEnds,
       Streaming, Start, StreamTakes, StreamSeesNone, DropBuffered, ShutdownBoxReturns,
       NoticeShutdown, InitiateShutdown, TaskFinishes, SlotFreed

\* The buffers and the streams (LongPollBuffer, StickyTaskPoller, the workflow
\* task stream and TaskPollerStream) acquire, use and drop permits only in the
\* ways MeteredPermitDealer allows: the composition implements the dealer.
THEOREM PollersUseDealer == PollSpec => Spec
<1>1. PollInit => Init /\ ConfigInv
    BY DEF PollInit, ConfigInv
<1>2. ConfigInv /\ [PollNext]_pollvars => ConfigInv'
    BY ConfigStays DEF ConfigInv
<1>3. ConfigInv /\ [PollNext]_pollvars => [Next]_vars
    <2>1. ASSUME ConfigInv PROVE Kinds \subseteq Acquirers
        BY <2>1, ConfigsAssumption DEF ConfigInv, Kinds
    <2>2. UNCHANGED pollvars => UNCHANGED vars
        BY DEF pollvars, dealer, vars
    <2> QED
        BY <2>1, <2>2, DealerStep
<1> QED
    BY <1>1, <1>2, <1>3, PTL DEF PollSpec, Spec

\* So under the pollers too the dealer's counters agree with the live permits,
\* and the extant permits exceed max_permits by less than the number of acquirers.
THEOREM PollersConserveSlots == PollSpec => [](SlotsConserved /\ ExtantBounded)
BY PollersUseDealer, Conservation, ExtantBound, PTL
-----------------------------------------------------------------------------
\* sticky_poller_behavior and PollScaler::new give every buffer a range of
\* targets that holds at least one poll and the initial target.
LEMMA Limits ==
    ASSUME config \in Configs, NEW k \in Acquirers
    PROVE  /\ Minimum \in Nat /\ Maximum(k) \in Nat /\ Initial(k) \in Nat
           /\ 1 <= Minimum /\ Minimum <= Initial(k) /\ Initial(k) <= Maximum(k)
<1>1. /\ config.minimum \in Nat /\ config.initial \in Nat /\ config.maximum \in Nat
      /\ config.ratio \in Nat /\ 1 <= config.minimum /\ config.minimum <= config.initial
      /\ config.initial <= config.maximum
    BY ConfigsAssumption
<1>2. (config.maximum * config.ratio) \div 100 \in Int
    <2>1. config.maximum * config.ratio \in Nat
        BY <1>1
    <2> QED
        BY <2>1
<1>3. MaxNonSticky \in Nat /\ 1 <= MaxNonSticky
    BY <1>2 DEF MaxNonSticky
<1>4. StickyShare \in Nat /\ 1 <= StickyShare
    BY <1>1, <1>3 DEF StickyShare
<1> QED
    BY <1>1, <1>3, <1>4 DEF Minimum, Maximum, Initial

\* change_target keeps the target in its range, and a change that does not raise
\* it does not raise the clamped one.
LEMMA ClampRange ==
    ASSUME config \in Configs, NEW k \in Acquirers, NEW n \in Int, NEW t \in Int,
           Minimum <= t, t <= Maximum(k)
    PROVE  /\ Clamp(n, k) \in Int
           /\ Minimum <= Clamp(n, k) /\ Clamp(n, k) <= Maximum(k)
           /\ n <= t => Clamp(n, k) <= t
BY Limits DEF Clamp

\* The inductive strengthening of NoSleepPastTarget: the target stays in its
\* range, so an error, which leaves its poll in a backoff, never raises it.
SleepInv ==
    /\ config \in Configs
    /\ DOMAIN at = Acquirers
    /\ polls \in [Acquirers -> [Phases -> Nat]]
    /\ active \in [Acquirers -> Int]
    /\ target \in [Acquirers -> Int]
    /\ \A k \in Acquirers : Minimum <= target[k] /\ target[k] <= Maximum(k)
    /\ NoSleepPastTarget

\* poll_result's new target is in range, and not above the old one for an error.
LEMMA NewTargetRange ==
    ASSUME SleepInv, NEW k \in Acquirers, NEW r \in Responses \cup Errors
    PROVE  /\ NewTarget(k, r) \in Int
           /\ Minimum <= NewTarget(k, r) /\ NewTarget(k, r) <= Maximum(k)
           /\ r.kind = "error" => NewTarget(k, r) <= target[k]
<1>1. /\ config \in Configs /\ target[k] \in Int
      /\ Minimum <= target[k] /\ target[k] <= Maximum(k)
    BY DEF SleepInv
<1>2. Minimum \in Nat /\ 1 <= Minimum
    BY <1>1, Limits
<1>3. /\ target[k] \div 2 \in Int /\ target[k] \div 2 <= target[k]
      /\ target[k] - 1 \in Int
    BY <1>1, <1>2
<1>4. r.kind # "error" => r.decision = <<>> \/ r.decision[1] \in Int
    BY DEF Responses, Errors
<1>5. CASE r.kind = "error"
    BY <1>1, <1>3, <1>5, ClampRange, SMTT(30) DEF NewTarget
<1>6. CASE r.kind # "error" /\ r.decision = <<>>
    BY <1>1, <1>3, <1>6, ClampRange, SMTT(30) DEF NewTarget
<1>7. CASE r.kind # "error" /\ r.decision # <<>>
    <2>1. target[k] + r.decision[1] \in Int
        BY <1>1, <1>4, <1>7
    <2> QED
        BY <1>1, <2>1, <1>7, ClampRange DEF NewTarget
<1> QED
    BY <1>5, <1>6, <1>7

\* The limits are fixed by the configuration.
LEMMA LimitsStay ==
    ASSUME config' = config
    PROVE  /\ Minimum' = Minimum /\ Kinds' = Kinds
           /\ \A k \in Acquirers : Maximum(k)' = Maximum(k)
BY DEF Minimum, Kinds, Maximum, MaxNonSticky, StickyShare

\* A step that spawns no poll, changes no target and puts no loop to sleep.
LEMMA CalmStep ==
    ASSUME SleepInv, config' = config, DOMAIN at' = Acquirers,
           \A k \in Acquirers : at'[k] = "asleep" => at[k] = "asleep",
           polls' = polls, active' = active, target' = target
    PROVE  SleepInv'
<1>1. \A k \in Acquirers : Maximum(k)' = Maximum(k)
    BY LimitsStay
<1>2. Minimum' = Minimum /\ Kinds' = Kinds
    BY LimitsStay
<1>3. Kinds \subseteq Acquirers
    BY ConfigsAssumption, SMTT(30) DEF SleepInv, Kinds
<1>4. NoSleepPastTarget'
    BY <1>1, <1>2, <1>3 DEF SleepInv, NoSleepPastTarget, ScalerAllows
<1> QED
    BY <1>1, <1>2, <1>4 DEF SleepInv

\* A poll that drops its guard wakes the loop.
LEMMA GuardStep ==
    ASSUME SleepInv, config' = config, target' = target,
           NEW k \in Acquirers, NEW p \in Phases, polls[k][p] > 0, GuardDropped(k, p)
    PROVE  SleepInv'
<1>1. \A j \in Acquirers : Maximum(j)' = Maximum(j)
    BY LimitsStay
<1>2. Minimum' = Minimum /\ Kinds' = Kinds
    BY LimitsStay
<1>3. Kinds \subseteq Acquirers
    BY ConfigsAssumption DEF SleepInv, Kinds
<1>4. /\ polls' \in [Acquirers -> [Phases -> Nat]]
      /\ active' \in [Acquirers -> Int]
      /\ DOMAIN at' = Acquirers
    BY DEF SleepInv, GuardDropped
<1>5. at'[k] # "asleep"
    BY DEF SleepInv, GuardDropped
<1>6. \A j \in Acquirers \ {k} : /\ at'[j] = at[j] /\ polls'[j] = polls[j]
                                 /\ active'[j] = active[j]
    BY DEF SleepInv, GuardDropped
<1>7. NoSleepPastTarget'
    BY <1>1, <1>2, <1>3, <1>5, <1>6 DEF SleepInv, NoSleepPastTarget, ScalerAllows
<1> QED
    BY <1>1, <1>2, <1>4, <1>7 DEF SleepInv

\* A poll that returns reports to the scaler while it still counts as active.
LEMMA ReportStep ==
    ASSUME SleepInv, config' = config, at' = at, active' = active,
           NEW k \in Kinds, NEW r \in Responses \cup Errors, polls[k].polling > 0,
           polls' = [polls EXCEPT ![k].polling = @ - 1, ![k][PhaseAfter(r)] = @ + 1],
           target' = [target EXCEPT ![k] = NewTarget(k, r)]
    PROVE  SleepInv'
<1>1. \A j \in Acquirers : Maximum(j)' = Maximum(j)
    BY LimitsStay
<1>2. Minimum' = Minimum /\ Kinds' = Kinds
    BY LimitsStay
<1>3. Kinds \subseteq Acquirers /\ k \in Acquirers
    BY ConfigsAssumption DEF SleepInv, Kinds
<1>4. /\ NewTarget(k, r) \in Int
      /\ Minimum <= NewTarget(k, r) /\ NewTarget(k, r) <= Maximum(k)
      /\ r.kind = "error" => NewTarget(k, r) <= target[k]
    BY <1>3, NewTargetRange
<1>5. target' \in [Acquirers -> Int] /\ target'[k] = NewTarget(k, r)
    BY <1>3, <1>4 DEF SleepInv
<1>6. \A j \in Acquirers : Minimum <= target'[j] /\ target'[j] <= Maximum(j)
    BY <1>3, <1>4 DEF SleepInv
<1>7. r.kind \in Results
    BY DEF Responses, Errors, Results
<1>8. /\ PhaseAfter(r) \in Phases /\ PhaseAfter(r) # "polling" /\ "polling" \in Phases
      /\ PhaseAfter(r) \notin Results => r.kind = "error"
    BY <1>7 DEF PhaseAfter, Phases, Results, Backoffs
<1>9. /\ polls' \in [Acquirers -> [Phases -> Nat]]
      /\ polls'[k][PhaseAfter(r)] = polls[k][PhaseAfter(r)] + 1
      /\ \A p \in Phases \ {"polling", PhaseAfter(r)} : polls'[k][p] = polls[k][p]
      /\ \A j \in Acquirers \ {k} : polls'[j] = polls[j]
    BY <1>3, <1>8 DEF SleepInv
<1>10. NoSleepPastTarget'
    <2> SUFFICES ASSUME NEW j \in Kinds, at[j] = "asleep", ScalerAllows(j)'
                 PROVE  \E p \in Results : polls'[j][p] > 0
        BY <1>2, Zenon DEF NoSleepPastTarget
    <2>0. Results \subseteq Phases \ {"polling"}
        BY DEF Phases, Results
    <2>1. CASE j # k
        <3>1. target'[j] = target[j] /\ polls'[j] = polls[j]
            BY <1>3, <1>9, <2>1 DEF SleepInv
        <3>2. ScalerAllows(j)
            BY <1>1, <1>3, <3>1 DEF ScalerAllows
        <3> QED
            BY <3>1, <3>2, SMTT(30) DEF SleepInv, NoSleepPastTarget
    <2>2. CASE j = k /\ PhaseAfter(r) \in Results
        BY <1>3, <1>8, <1>9, <2>2 DEF SleepInv
    <2>3. CASE j = k /\ PhaseAfter(r) \notin Results
        <3>1. active[k] \in Int /\ target[k] \in Int /\ target'[k] \in Int /\ target'[k] <= target[k]
            BY <1>3, <1>4, <1>5, <1>8, <2>3 DEF SleepInv
        <3>2. ScalerAllows(k)
            BY <1>1, <1>3, <2>3, <3>1, SMTT(30) DEF ScalerAllows
        <3>3. PICK p \in Results : polls[k][p] > 0
            BY <2>3, <3>2 DEF SleepInv, NoSleepPastTarget
        <3>4. polls'[k][p] = polls[k][p]
            BY <1>9, <2>0, <2>3, <3>3, SMTT(30)
        <3> QED
            BY <2>3, <3>3, <3>4
    <2> QED
        BY <2>1, <2>2, <2>3, Zenon
<1> QED
    BY <1>1, <1>2, <1>5, <1>6, <1>9, <1>10 DEF SleepInv

\* The steps of a loop: it falls asleep only when the scaler does not allow a
\* poll, and a loop that spawns one is awake.
LEMMA LoopStep ==
    ASSUME SleepInv, NEW k \in Kinds, Loop(k)
    PROVE  SleepInv'
<1>0. k \in Acquirers /\ Kinds \subseteq Acquirers /\ DOMAIN at = Acquirers
    BY ConfigsAssumption DEF SleepInv, Kinds
<1>1. CASE TurnComes(k)
    BY <1>0, <1>1, CalmStep, SMTT(30) DEF TurnComes, scaler
<1>2. CASE LimitPassed(k)
    BY <1>0, <1>2, CalmStep DEF LimitPassed, scaler
<1>3. CASE PermitAcquired(k)
    BY <1>0, <1>3, CalmStep, SMTT(30) DEF PermitAcquired, scaler
<1>4. CASE Break(k)
    BY <1>0, <1>4, CalmStep DEF Break, scaler
<1>5. CASE LoopEnds(k)
    BY <1>0, <1>5, CalmStep DEF LoopEnds, scaler
<1>6. CASE ScalerSleeps(k) \/ SpawnPoll(k)
    <2>1. config' = config /\ target' = target
        BY <1>6 DEF ScalerSleeps, SpawnPoll, scaler
    <2>2. \A j \in Acquirers : Maximum(j)' = Maximum(j)
        BY <2>1, LimitsStay
    <2>3. Minimum' = Minimum /\ Kinds' = Kinds
        BY <2>1, LimitsStay
    <2>4. /\ polls' \in [Acquirers -> [Phases -> Nat]]
          /\ active' \in [Acquirers -> Int]
          /\ DOMAIN at' = Acquirers
        <3>1. "polling" \in Phases
            BY DEF Phases
        <3>2. CASE ScalerSleeps(k)
            BY <1>0, <3>2 DEF SleepInv, ScalerSleeps
        <3>3. CASE SpawnPoll(k)
            BY <1>0, <3>1, <3>3 DEF SleepInv, SpawnPoll
        <3> QED
            BY <1>6, <3>2, <3>3
    <2>5. \A j \in Acquirers \ {k} : /\ at'[j] = at[j] /\ polls'[j] = polls[j]
                                     /\ active'[j] = active[j]
        BY <1>0, <1>6 DEF SleepInv, ScalerSleeps, SpawnPoll
    <2>6. at'[k] = "asleep" => ~ScalerAllows(k) /\ active' = active
        BY <1>0, <1>6 DEF ScalerSleeps, SpawnPoll
    <2>7. NoSleepPastTarget'
        BY <1>0, <2>1, <2>2, <2>3, <2>5, <2>6 DEF SleepInv, NoSleepPastTarget, ScalerAllows
    <2> QED
        BY <2>1, <2>2, <2>3, <2>4, <2>7 DEF SleepInv
<1> QED
    BY <1>1, <1>2, <1>3, <1>4, <1>5, <1>6, SMTT(30) DEF Loop

\* wait_until_allowed waits for a change of the active count only.  That is
\* enough: poll_result adjusts the target before the poll drops its guard, so a
\* loop never sleeps while the scaler allows a poll and no drop is to come.
THEOREM NeverSleepsPastTarget == PollSpec => []NoSleepPastTarget
<1>1. PollInit => SleepInv
    <2> SUFFICES ASSUME PollInit PROVE SleepInv
        OBVIOUS
    <2>1. config \in Configs
        BY DEF PollInit
    <2>2. \A k \in Acquirers : target[k] = Initial(k) /\ at[k] # "asleep"
        BY DEF PollInit
    <2>3. NoSleepPastTarget
        BY <2>1, <2>2, ConfigsAssumption DEF NoSleepPastTarget, Kinds
    <2>4. target \in [Acquirers -> Int]
        BY <2>1, Limits DEF PollInit
    <2>5. \A k \in Acquirers : Minimum <= target[k] /\ target[k] <= Maximum(k)
        BY <2>1, <2>2, Limits
    <2> QED
        BY <2>1, <2>3, <2>4, <2>5 DEF PollInit, SleepInv
<1>2. SleepInv /\ [PollNext]_pollvars => SleepInv'
    <2> SUFFICES ASSUME SleepInv, [PollNext]_pollvars PROVE SleepInv'
        OBVIOUS
    <2>0. config' = config /\ Kinds \subseteq Acquirers /\ DOMAIN at = Acquirers
        BY ConfigStays, ConfigsAssumption DEF SleepInv, Kinds
    <2>1. ASSUME NEW k \in Kinds, Loop(k) PROVE SleepInv'
        BY <2>1, LoopStep
    <2>2. ASSUME NEW k \in Kinds, NEW r \in Responses, PollResponds(k, r) PROVE SleepInv'
        BY <2>0, <2>2, ReportStep, Zenon DEF PollResponds
    <2>3. ASSUME NEW k \in Kinds, NEW r \in Errors, PollFails(k, r) PROVE SleepInv'
        BY <2>0, <2>3, ReportStep, Zenon DEF PollFails
    <2>4. ASSUME NEW k \in Kinds, PollSteps(k) PROVE SleepInv'
        <3>1. PICK p \in Phases : /\ polls[k][p] > 0 /\ GuardDropped(k, p)
                                  /\ UNCHANGED scaler
            BY <2>4 DEF PollSteps, PollInterrupted, BackoffElapses, BackoffInterrupted,
                        ForwardResult, Phases, Results, Backoffs
        <3> QED
            BY <2>0, <3>1, GuardStep, SMTT(30) DEF scaler
    <2>5. ASSUME NEW k \in Kinds, PeriodEnds(k) PROVE SleepInv'
        BY <2>0, <2>5, CalmStep, SMTT(30) DEF PeriodEnds
    <2>6. CASE Streaming
        BY <2>0, <2>6, CalmStep, SMTT(30) DEF Streaming, Start, StreamTakes, StreamSeesNone, DropBuffered,
                                   ShutdownBoxReturns, NoticeShutdown, scaler
    <2>7. CASE InitiateShutdown \/ TaskFinishes \/ SlotFreed
        BY <2>0, <2>7, CalmStep DEF InitiateShutdown, TaskFinishes, SlotFreed, scaler
    <2>8. CASE UNCHANGED pollvars
        BY <2>0, <2>8, CalmStep DEF pollvars, scaler
    <2> QED
        BY <2>1, <2>2, <2>3, <2>4, <2>5, <2>6, <2>7, <2>8, SMTT(30) DEF PollNext, PollAnswered
<1>3. SleepInv => NoSleepPastTarget
    BY DEF SleepInv
<1> QED
    BY <1>1, <1>2, <1>3, PTL DEF PollSpec

-----------------------------------------------------------------------------
\* A result that is sent adds one response to the channel, or none if it is an error.
LEMMA RespondedAppend ==
    ASSUME NEW s \in Seq(Results), NEW r \in Results
    PROVE  /\ Append(s, r) \in Seq(Results)
           /\ Cardinality(Responded(s)) \in Nat
           /\ Cardinality(Responded(Append(s, r)))
                = Cardinality(Responded(s)) + (IF r = "error" THEN 0 ELSE 1)
<1>1. DOMAIN s = 1..Len(s) /\ Len(s) \in Nat
    OBVIOUS
<1>2. Responded(s) \in SUBSET (1..Len(s)) /\ IsFiniteSet(1..Len(s))
    BY <1>1, FS_Interval DEF Responded
<1>3. IsFiniteSet(Responded(s)) /\ Cardinality(Responded(s)) \in Nat
    BY <1>2, FS_Subset, FS_CardinalityType
<1>4. Len(s) + 1 \notin Responded(s)
    BY <1>1 DEF Responded
<1>5. /\ DOMAIN Append(s, r) = 1..(Len(s) + 1)
      /\ \A i \in 1..Len(s) : Append(s, r)[i] = s[i]
      /\ Append(s, r)[Len(s) + 1] = r
    BY <1>1
<1>6. CASE r = "error"
    <2>1. Responded(Append(s, r)) = Responded(s)
        BY <1>1, <1>5, <1>6 DEF Responded
    <2> QED
        BY <1>3, <1>6, <2>1
<1>7. CASE r # "error"
    <2>1. Responded(Append(s, r)) = Responded(s) \cup {Len(s) + 1}
        BY <1>1, <1>5, <1>7 DEF Responded
    <2>2. Cardinality(Responded(s) \cup {Len(s) + 1}) = Cardinality(Responded(s)) + 1
        BY <1>3, <1>4, FS_AddElement, ZenonT(30)
    <2> QED
        BY <1>3, <1>7, <2>1, <2>2
<1> QED
    BY <1>3, <1>6, <1>7

\* A result that is taken removes one, or none if it is an error.
LEMMA RespondedTail ==
    ASSUME NEW s \in Seq(Results), s # <<>>
    PROVE  /\ Tail(s) \in Seq(Results)
           /\ Head(s) \in Results
           /\ Cardinality(Responded(Tail(s))) \in Nat
           /\ Cardinality(Responded(s))
                = Cardinality(Responded(Tail(s))) + (IF Head(s) = "error" THEN 0 ELSE 1)
<1> DEFINE t == Tail(s)
           R == Responded(s) \ {1}
           f == [i \in Responded(t) |-> i + 1]
<1>1. /\ DOMAIN s = 1..Len(s) /\ Len(s) \in Nat /\ Len(s) > 0
      /\ t \in Seq(Results) /\ DOMAIN t = 1..(Len(s) - 1)
      /\ \A i \in 1..(Len(s) - 1) : t[i] = s[i + 1]
      /\ Head(s) = s[1] /\ Head(s) \in Results
    OBVIOUS
<1>2. Responded(s) \in SUBSET (1..Len(s)) /\ IsFiniteSet(1..Len(s))
    BY <1>1, FS_Interval DEF Responded
<1>3. IsFiniteSet(Responded(s))
    BY <1>2, FS_Subset
<1>4. IsFiniteSet(1..(Len(s) - 1)) /\ Responded(t) \in SUBSET (1..(Len(s) - 1))
    BY <1>1, FS_Interval, SMTT(30) DEF Responded
<1>5. IsFiniteSet(Responded(t)) /\ Cardinality(Responded(t)) \in Nat
    BY <1>4, FS_Subset, FS_CardinalityType
<1>6. f \in [Responded(t) -> R]
    BY <1>1 DEF Responded
<1>7. \A i, j \in Responded(t) : f[i] = f[j] => i = j
    BY <1>1 DEF Responded
<1>8. \A j \in R : \E i \in Responded(t) : f[i] = j
    <2> SUFFICES ASSUME NEW j \in R PROVE \E i \in Responded(t) : f[i] = j
        OBVIOUS
    <2>1. j - 1 \in Responded(t)
        BY <1>1 DEF Responded
    <2>2. f[j - 1] = j
        BY <2>1, <1>2
    <2> QED
        BY <2>1, <2>2
<1>9. ExistsBijection(Responded(t), R)
    <2> HIDE DEF t, R, f
    <2>1. DOMAIN f = Responded(t)
        BY <1>6
    <2>2. f \in Injection(Responded(t), R)
        BY <1>6, <1>7, <2>1 DEF Injection, IsInjective
    <2>3. f \in Surjection(Responded(t), R)
        BY <1>6, <1>8 DEF Surjection
    <2> QED
        BY <2>2, <2>3 DEF ExistsBijection, Bijection
<1>10. Cardinality(R) = Cardinality(Responded(t))
    BY <1>5, <1>9, FS_Bijection
<1>11. 1 \in Responded(s) <=> Head(s) # "error"
    BY <1>1 DEF Responded
<1>12. Cardinality(R) = IF 1 \in Responded(s) THEN Cardinality(Responded(s)) - 1
                        ELSE Cardinality(Responded(s))
    BY <1>3, FS_RemoveElement, Zenon
<1>13. Cardinality(Responded(s)) \in Nat
    BY <1>3, FS_CardinalityType
<1> QED
    BY <1>1, <1>5, <1>10, <1>11, <1>12, <1>13

\* The permits a buffer's loop, polls and channel hold.
Owned(k) == HeldByLoop(k) + Count(k) + Buffered(k)

\* The inductive form of PermitsAccountedFor, kind by kind.
PermitInv ==
    /\ config \in Configs
    /\ DOMAIN at = Acquirers
    /\ polls \in [Acquirers -> [Phases -> Nat]]
    /\ active \in [Acquirers -> Int]
    /\ channel \in [Acquirers -> Seq(Results)]
    /\ fresh \in Nat
    /\ fresh = Owned("normal") + Owned("sticky")
    /\ \A k \in Kinds : active[k] = Count(k)

\* Every configuration has the buffers of one kind or of both.
LEMMA KindsKnown ==
    ASSUME config \in Configs
    PROVE  /\ Kinds \subseteq {"normal", "sticky"}
           /\ Kinds \subseteq Acquirers
           /\ "normal" \in Acquirers /\ "sticky" \in Acquirers
BY ConfigsAssumption DEF Kinds

\* The counts are numbers.
LEMMA OwnedTypes ==
    ASSUME NEW k \in Acquirers, polls \in [Acquirers -> [Phases -> Nat]],
           channel \in [Acquirers -> Seq(Results)]
    PROVE  /\ HeldByLoop(k) \in Nat /\ Count(k) \in Nat /\ Buffered(k) \in Nat
           /\ Owned(k) \in Nat
<1>1. "error" \in Results
    BY DEF Results
<1>2. Buffered(k) \in Nat
    BY <1>1, RespondedAppend DEF Buffered
<1>3. Count(k) \in Nat
    BY SMTT(30) DEF Count, Phases, Results, Backoffs
<1>4. HeldByLoop(k) \in Nat
    BY DEF HeldByLoop
<1> QED
    BY <1>2, <1>3, <1>4 DEF Owned

\* So they are after a step.
LEMMA OwnedTypesNext ==
    ASSUME NEW k \in Acquirers, polls' \in [Acquirers -> [Phases -> Nat]],
           channel' \in [Acquirers -> Seq(Results)]
    PROVE  Count(k)' \in Nat /\ Owned(k)' \in Nat
<1>1. "error" \in Results /\ channel'[k] \in Seq(Results)
    BY DEF Results
<1>2. Buffered(k)' \in Nat
    BY <1>1, RespondedAppend DEF Buffered
<1>3. Count(k)' \in Nat
    BY SMTT(30) DEF Count, Phases, Results, Backoffs
<1>4. HeldByLoop(k)' \in Nat
    BY DEF HeldByLoop
<1> QED
    BY <1>2, <1>3, <1>4 DEF Owned

\* A buffer that a step does not touch keeps its permits.
LEMMA OwnedStays ==
    ASSUME NEW k, at'[k] = at[k], polls'[k] = polls[k], channel'[k] = channel[k]
    PROVE  Count(k)' = Count(k) /\ Owned(k)' = Owned(k)
<1>1. Count(k)' = Count(k)
    BY DEF Count
<1>2. HeldByLoop(k)' = HeldByLoop(k)
    BY DEF HeldByLoop
<1>3. Buffered(k)' = Buffered(k)
    BY DEF Buffered
<1> QED
    BY <1>1, <1>2, <1>3 DEF Owned

\* What a buffer holds changes with what its loop, its polls and its channel hold.
LEMMA AllMove ==
    ASSUME NEW h \in Nat, NEW n \in Nat, NEW m \in Nat, NEW a \in Int, NEW b \in Int, NEW c \in Int
    PROVE  (h + a) + (n + b) + (m + c) = (h + n + m) + (a + b + c)
OBVIOUS

\* The sum over two buffers changes as the one that moves.
LEMMA OneMoves ==
    ASSUME NEW m \in Nat, NEW n \in Nat, NEW mm \in Nat, NEW nn \in Nat, NEW d \in Int,
           (mm = m + d /\ nn = n) \/ (nn = n + d /\ mm = m)
    PROVE  (m + n) + d = mm + nn
BY SMTT(30)

\* A step of buffer k that hands permits out, or drops them, as it takes them on
\* or gives them up.
LEMMA PermitStep ==
    ASSUME PermitInv, config' = config, NEW k \in Kinds,
           DOMAIN at' = Acquirers,
           polls' \in [Acquirers -> [Phases -> Nat]],
           active' \in [Acquirers -> Int],
           channel' \in [Acquirers -> Seq(Results)],
           \A j \in Acquirers \ {k} : /\ at'[j] = at[j] /\ polls'[j] = polls[j]
                                      /\ active'[j] = active[j] /\ channel'[j] = channel[j],
           NEW a \in Int, NEW b \in Int, NEW c \in Int,
           HeldByLoop(k)' = HeldByLoop(k) + a, Count(k)' = Count(k) + b,
           Buffered(k)' = Buffered(k) + c,
           fresh' = fresh + (a + b + c), active'[k] = active[k] + b
    PROVE  PermitInv'
<1>0. config \in Configs /\ fresh \in Nat /\ fresh = Owned("normal") + Owned("sticky")
    BY Zenon DEF PermitInv
<1>1. /\ k = "normal" \/ k = "sticky"
      /\ Kinds \subseteq Acquirers /\ "normal" \in Acquirers /\ "sticky" \in Acquirers
      /\ k \in Acquirers
    BY <1>0, KindsKnown, Zenon
<1>2. Kinds' = Kinds
    BY DEF Kinds
<1>3. \A j \in Acquirers : Owned(j) \in Nat
    BY OwnedTypes, Zenon DEF PermitInv
<1>4. \A j \in Acquirers : Owned(j)' \in Nat
    BY OwnedTypesNext, Zenon
<1>5. \A j \in Acquirers \ {k} : Owned(j)' = Owned(j) /\ Count(j)' = Count(j)
    BY OwnedStays, Zenon
<1>d. PICK d \in Int : d = a + b + c
    OBVIOUS
<1>e. Owned(k)' = Owned(k) + d /\ fresh' = fresh + d
    <2>1. polls \in [Acquirers -> [Phases -> Nat]] /\ channel \in [Acquirers -> Seq(Results)]
        BY Zenon DEF PermitInv
    <2>2. PICK h \in Nat : h = HeldByLoop(k)
        BY <1>1, <2>1, OwnedTypes, Zenon
    <2>3. PICK n \in Nat : n = Count(k)
        BY <1>1, <2>1, OwnedTypes, Zenon
    <2>4. PICK m \in Nat : m = Buffered(k)
        BY <1>1, <2>1, OwnedTypes, Zenon
    <2>5. Owned(k) = h + n + m /\ Owned(k)' = (h + a) + (n + b) + (m + c)
        BY <2>2, <2>3, <2>4, ZenonT(30) DEF Owned
    <2>6. (h + a) + (n + b) + (m + c) = (h + n + m) + d
        BY <1>d, AllMove, SMTT(30)
    <2> QED
        BY <1>d, <2>5, <2>6, Zenon
<1>6. fresh' = Owned("normal")' + Owned("sticky")' /\ fresh' \in Nat
    <2>1. PICK m \in Nat : m = Owned("normal")
        BY <1>1, <1>3, Zenon
    <2>2. PICK n \in Nat : n = Owned("sticky")
        BY <1>1, <1>3, Zenon
    <2>3. PICK mm \in Nat : mm = Owned("normal")'
        BY <1>1, <1>4, Zenon
    <2>4. PICK nn \in Nat : nn = Owned("sticky")'
        BY <1>1, <1>4, ZenonT(30)
    <2>5. \/ mm = m + d /\ nn = n
          \/ nn = n + d /\ mm = m
        <3>1. CASE k = "normal"
            <4>1. Owned("sticky")' = Owned("sticky")
                BY <1>1, <1>5, <3>1
            <4> QED
                BY <1>e, <2>1, <2>2, <2>3, <2>4, <3>1, <4>1, ZenonT(30)
        <3>2. CASE k = "sticky"
            <4>1. Owned("normal")' = Owned("normal")
                BY <1>1, <1>5, <3>2
            <4> QED
                BY <1>e, <2>1, <2>2, <2>3, <2>4, <3>2, <4>1, ZenonT(30)
        <3> QED
            BY <1>1, <3>1, <3>2
    <2>6. fresh' = mm + nn
        <3>1. fresh' = (m + n) + d
            BY <1>0, <1>e, <2>1, <2>2, ZenonT(30)
        <3>2. (m + n) + d = mm + nn
            BY <2>5, OneMoves, SMTT(30)
        <3> QED
            BY <3>1, <3>2, Zenon
    <2> QED
        BY <2>3, <2>4, <2>6, SMTT(30)
<1>7. \A j \in Kinds : active'[j] = Count(j)'
    <2> SUFFICES ASSUME NEW j \in Kinds PROVE active'[j] = Count(j)'
        OBVIOUS
    <2>1. active[j] = Count(j)
        BY Zenon DEF PermitInv
    <2>2. CASE j = k
        BY <2>1, <2>2, Zenon
    <2>3. CASE j # k
        <3>1. j \in Acquirers \ {k}
            BY <1>1, <2>3
        <3> QED
            BY <1>5, <2>1, <3>1, ZenonT(30)
    <2> QED
        BY <2>2, <2>3, SMTT(30)
<1> QED
    BY <1>0, <1>2, <1>6, <1>7, SMTT(30) DEF PermitInv

\* A step that moves no permit of a buffer.
LEMMA PermitIdle ==
    ASSUME PermitInv, config' = config, DOMAIN at' = Acquirers,
           \A j \in Acquirers : HeldByLoop(j)' = HeldByLoop(j),
           polls' = polls, active' = active, channel' = channel, fresh' = fresh
    PROVE  PermitInv'
<1>1. Kinds' = Kinds /\ {"normal", "sticky"} \subseteq Acquirers
    BY ConfigsAssumption, SMTT(30) DEF Kinds
<1>2. \A j \in Acquirers : Owned(j)' = Owned(j)
    BY DEF Owned, Count, Buffered
<1>3. \A j \in Acquirers : Count(j)' = Count(j)
    BY DEF Count
<1>4. config \in Configs
    BY DEF PermitInv
<1>5. Kinds \subseteq Acquirers
    BY <1>4, KindsKnown, SMTT(30)
<1> QED
    BY <1>1, <1>2, <1>3, <1>5, SMTT(30) DEF PermitInv

\* A poll that leaves its phase counts one less, and so does its buffer.
LEMMA GuardCounts ==
    ASSUME PermitInv, NEW k \in Kinds, NEW p \in Phases, polls[k][p] > 0, GuardDropped(k, p)
    PROVE  /\ DOMAIN at' = Acquirers
           /\ polls' \in [Acquirers -> [Phases -> Nat]]
           /\ active' \in [Acquirers -> Int]
           /\ \A j \in Acquirers \ {k} : /\ at'[j] = at[j] /\ polls'[j] = polls[j]
                                         /\ active'[j] = active[j]
           /\ active'[k] = active[k] - 1
           /\ Count(k)' = Count(k) - 1
           /\ HeldByLoop(k)' = HeldByLoop(k)
<1>0. config \in Configs
    BY SMTT(30) DEF PermitInv
<1>1. k \in Acquirers
    BY <1>0, KindsKnown, SMTT(30)
<1>2. polls' \in [Acquirers -> [Phases -> Nat]] /\ active' \in [Acquirers -> Int]
    BY <1>1, SMTT(30) DEF PermitInv, GuardDropped
<1>3. /\ DOMAIN at' = Acquirers
      /\ at'[k] = IF at[k] = "asleep" THEN "at_scaler" ELSE at[k]
      /\ active'[k] = active[k] - 1
      /\ polls'[k] = [polls[k] EXCEPT ![p] = @ - 1]
    BY <1>1 DEF PermitInv, GuardDropped
<1>4. \A j \in Acquirers \ {k} : /\ at'[j] = at[j] /\ polls'[j] = polls[j]
                                 /\ active'[j] = active[j]
    BY <1>1, SMTT(30) DEF PermitInv, GuardDropped
<1>5. HeldByLoop(k)' = HeldByLoop(k)
    BY <1>3 DEF HeldByLoop
<1>6. polls[k] \in [Phases -> Nat]
    BY <1>1, SMTT(30) DEF PermitInv
<1>7. Count(k)' = Count(k) - 1
    BY <1>3, <1>6 DEF Count, Phases, Results, Backoffs
<1> QED
    BY <1>2, <1>3, <1>4, <1>5, <1>7, SMTT(30)

\* One more poll.
LEMMA OneMorePoll ==
    ASSUME polls \in [Acquirers -> [Phases -> Nat]], NEW k \in Acquirers, SpawnPoll(k)
    PROVE  /\ polls' \in [Acquirers -> [Phases -> Nat]]
           /\ \A j \in Acquirers \ {k} : polls'[j] = polls[j]
           /\ polls'[k]["polling"] = polls[k]["polling"] + 1
           /\ \A p \in Phases \ {"polling"} : polls'[k][p] = polls[k][p]
<1>1. "polling" \in Phases
    BY DEF Phases
<1>2. polls' = [polls EXCEPT ![k].polling = @ + 1]
    BY DEF SpawnPoll
<1>3. polls' \in [Acquirers -> [Phases -> Nat]]
    BY <1>1, <1>2
<1>4. \A j \in Acquirers \ {k} : polls'[j] = polls[j]
    BY <1>2
<1>5. polls'[k]["polling"] = polls[k]["polling"] + 1
    BY <1>1, <1>2
<1>6. \A p \in Phases \ {"polling"} : polls'[k][p] = polls[k][p]
    BY <1>1, <1>2
<1> QED
    BY <1>3, <1>4, <1>5, <1>6

\* The loop takes on the permit it acquires and hands it to the poll it spawns, and
\* a break drops it.
LEMMA LoopKeepsPermits ==
    ASSUME PermitInv, NEW k \in Kinds, Loop(k)
    PROVE  PermitInv'
<1>0. /\ config \in Configs /\ DOMAIN at = Acquirers
      /\ polls \in [Acquirers -> [Phases -> Nat]] /\ active \in [Acquirers -> Int]
      /\ channel \in [Acquirers -> Seq(Results)] /\ fresh \in Nat
    BY DEF PermitInv
<1>1. k \in Acquirers
    BY <1>0, KindsKnown
<1>2. HeldByLoop(k) \in Nat /\ Count(k) \in Nat /\ Buffered(k) \in Nat /\ active[k] \in Int
    BY <1>0, <1>1, OwnedTypes
<1>3. CASE TurnComes(k) \/ LimitPassed(k) \/ ScalerSleeps(k) \/ LoopEnds(k)
    <2>1. /\ config' = config /\ DOMAIN at' = Acquirers /\ polls' = polls
          /\ active' = active /\ channel' = channel /\ fresh' = fresh
        BY <1>0, <1>3, SMTT(30) DEF TurnComes, LimitPassed, PassLimit, ScalerSleeps, LoopEnds, dealer
    <2>2. \A j \in Acquirers : HeldByLoop(j)' = HeldByLoop(j)
        BY <1>0, <1>3 DEF TurnComes, LimitPassed, ScalerSleeps, LoopEnds, HeldByLoop
    <2> QED
        BY <2>1, <2>2, PermitIdle, SMTT(30)
<1>z. PICK z \in Int, u \in Int, v \in Int : z = 0 /\ u = 1 /\ v = -1
    OBVIOUS
<1>4. CASE PermitAcquired(k)
    <2>1. /\ config' = config /\ DOMAIN at' = Acquirers /\ polls' = polls
          /\ active' = active /\ channel' = channel
          /\ \A j \in Acquirers \ {k} : at'[j] = at[j]
        BY <1>0, <1>4 DEF PermitAcquired, BuildOwned
    <2>2. HeldByLoop(k)' = HeldByLoop(k) + u
        BY <1>0, <1>1, <1>4, <1>z, SMTT(30) DEF PermitAcquired, HeldByLoop
    <2>3. Count(k)' = Count(k) + z /\ Buffered(k)' = Buffered(k) + z /\ active'[k] = active[k] + z
        BY <1>2, <1>z, <2>1, SMTT(30) DEF Count, Buffered
    <2>4. fresh' = fresh + (u + z + z)
        BY <1>0, <1>4, <1>z DEF PermitAcquired, BuildOwned
    <2> QED
        BY <1>0, <2>1, <2>2, <2>3, <2>4, PermitStep, ZenonT(30)
<1>5. CASE SpawnPoll(k)
    <2>1. /\ config' = config /\ DOMAIN at' = Acquirers /\ channel' = channel
          /\ active' \in [Acquirers -> Int]
          /\ active'[k] = active[k] + u
          /\ \A j \in Acquirers \ {k} : at'[j] = at[j] /\ active'[j] = active[j]
        BY <1>0, <1>1, <1>5, <1>z DEF SpawnPoll
    <2>2. /\ polls' \in [Acquirers -> [Phases -> Nat]]
          /\ \A j \in Acquirers \ {k} : polls'[j] = polls[j]
        BY <1>0, <1>1, <1>5, OneMorePoll, Zenon
    <2>5. /\ polls'[k]["polling"] = polls[k]["polling"] + 1
          /\ \A p \in Phases \ {"polling"} : polls'[k][p] = polls[k][p]
        BY <1>0, <1>1, <1>5, OneMorePoll, Zenon
    <2>7. HeldByLoop(k)' = HeldByLoop(k) + v
        BY <1>0, <1>1, <1>5, <1>z, SMTT(30) DEF SpawnPoll, HeldByLoop
    <2>8. Count(k)' = Count(k) + u
        BY <1>0, <1>1, <1>z, <2>5, SMTT(30) DEF Count, Phases, Results, Backoffs
    <2>9. Buffered(k)' = Buffered(k) + z
        BY <1>2, <1>z, <2>1 DEF Buffered
    <2>10. fresh' = fresh + (v + u + z)
        BY <1>0, <1>5, <1>z DEF SpawnPoll, dealer
    <2> QED
        BY <1>0, <2>1, <2>2, <2>7, <2>8, <2>9, <2>10, PermitStep, ZenonT(30)
<1>6. CASE Break(k)
    <2>1. /\ config' = config /\ DOMAIN at' = Acquirers /\ polls' = polls
          /\ active' = active /\ channel' = channel
          /\ \A j \in Acquirers \ {k} : at'[j] = at[j]
          /\ at'[k] = "stopping"
        BY <1>0, <1>1, <1>6, SMTT(30) DEF Break
    <2>2. CASE at[k] \in {"waiting", "acquiring"}
        <3>1. fresh' = fresh
            BY <1>6, <2>2, SMTT(30) DEF Break, Abandon, dealer
        <3>2. \A j \in Acquirers : HeldByLoop(j)' = HeldByLoop(j)
            BY <2>1, <2>2 DEF HeldByLoop
        <3> QED
            BY <2>1, <3>1, <3>2, PermitIdle, SMTT(30)
    <2>3. CASE at[k] \in {"at_scaler", "asleep"}
        <3>1. fresh' = fresh + (v + z + z)
            BY <1>0, <1>6, <1>z, <2>3, SMTT(30) DEF Break, DropFresh
        <3>2. HeldByLoop(k)' = HeldByLoop(k) + v
            BY <1>z, <2>1, <2>3, SMTT(30) DEF HeldByLoop
        <3>3. Count(k)' = Count(k) + z /\ Buffered(k)' = Buffered(k) + z /\ active'[k] = active[k] + z
            BY <1>2, <1>z, <2>1, SMTT(30) DEF Count, Buffered
        <3> QED
            BY <1>0, <2>1, <3>1, <3>2, <3>3, PermitStep, ZenonT(30)
    <2> QED
        BY <1>6, <2>2, <2>3, SMTT(30) DEF Break
<1> QED
    BY <1>3, <1>4, <1>5, <1>6, SMTT(30) DEF Loop

\* A poll that moves from one phase to another is counted all the same.
LEMMA CountMoves ==
    ASSUME NEW k, NEW q \in Phases, q # "polling",
           polls[k] \in [Phases -> Nat],
           polls'[k]["polling"] = polls[k]["polling"] - 1,
           polls'[k][q] = polls[k][q] + 1,
           \A p \in Phases \ {"polling", q} : polls'[k][p] = polls[k][p]
    PROVE  Count(k)' = Count(k)
<1>1. q \in {"task", "empty", "error", "backoff_error", "backoff_swallow"}
    BY DEF Phases, Results, Backoffs
<1>2. {"polling", "task", "empty", "error", "backoff_error", "backoff_swallow"} = Phases
    BY SMTT(30) DEF Phases, Results, Backoffs
<1>3. CASE q = "task"
    BY <1>2, <1>3, SMTT(30) DEF Count
<1>4. CASE q = "empty"
    BY <1>2, <1>4, SMTT(30) DEF Count
<1>5. CASE q = "error"
    BY <1>2, <1>5, SMTT(30) DEF Count
<1>6. CASE q = "backoff_error"
    BY <1>2, <1>6, SMTT(30) DEF Count
<1>7. CASE q = "backoff_swallow"
    BY <1>2, <1>7 DEF Count
<1> QED
    BY <1>1, <1>3, <1>4, <1>5, <1>6, <1>7, SMTT(30)

\* A poll that returns moves to another phase and keeps its permit.
LEMMA ReportKeepsPermits ==
    ASSUME PermitInv, NEW k \in Kinds, NEW r \in Responses \cup Errors, polls[k].polling > 0,
           polls' = [polls EXCEPT ![k].polling = @ - 1, ![k][PhaseAfter(r)] = @ + 1],
           config' = config, at' = at, active' = active, channel' = channel, fresh' = fresh
    PROVE  PermitInv'
<1>0. /\ config \in Configs /\ DOMAIN at = Acquirers
      /\ polls \in [Acquirers -> [Phases -> Nat]] /\ active \in [Acquirers -> Int]
      /\ channel \in [Acquirers -> Seq(Results)] /\ fresh \in Nat
    BY DEF PermitInv
<1>1. k \in Acquirers
    BY <1>0, KindsKnown
<1>2. HeldByLoop(k) \in Nat /\ Count(k) \in Nat /\ Buffered(k) \in Nat
    BY <1>0, <1>1, OwnedTypes, Zenon
<1>a. active[k] \in Int
    BY <1>0, <1>1
<1>3. r.kind \in Results
    BY DEF Responses, Errors, Results
<1>4. PICK q \in Phases : q = PhaseAfter(r)
    BY <1>3 DEF PhaseAfter, Phases, Results, Backoffs
<1>5. q # "polling" /\ "polling" \in Phases
    BY <1>3, <1>4 DEF PhaseAfter, Phases, Results, Backoffs
<1>6. polls' = [polls EXCEPT ![k].polling = @ - 1, ![k][q] = @ + 1]
    BY <1>4
<1>7. polls' \in [Acquirers -> [Phases -> Nat]]
    BY <1>0, <1>1, <1>5, <1>6
<1>8. \A j \in Acquirers \ {k} : polls'[j] = polls[j]
    BY <1>0, <1>1, <1>6
<1>9. /\ polls'[k]["polling"] = polls[k]["polling"] - 1
      /\ polls'[k][q] = polls[k][q] + 1
      /\ \A p \in Phases \ {"polling", q} : polls'[k][p] = polls[k][p]
    BY <1>0, <1>1, <1>5, <1>6
<1>z. PICK z \in Int : z = 0
    OBVIOUS
<1>10. polls[k] \in [Phases -> Nat]
    BY <1>0, <1>1
<1>11. Count(k)' = Count(k) + z
    <2>1. Count(k)' = Count(k)
        BY <1>5, <1>9, <1>10, CountMoves, Zenon
    <2> QED
        BY <1>2, <1>z, <2>1
<1>12. HeldByLoop(k)' = HeldByLoop(k) + z /\ Buffered(k)' = Buffered(k) + z
    BY <1>2, <1>z DEF HeldByLoop, Buffered
<1>13. fresh' = fresh + (z + z + z) /\ active'[k] = active[k] + z
    BY <1>0, <1>a, <1>z, SMTT(30)
<1> QED
    BY <1>0, <1>7, <1>8, <1>11, <1>12, <1>13, PermitStep, ZenonT(30)

\* A poll that ends drops its permit, or sends it on with its response.
LEMMA EndKeepsPermits ==
    ASSUME PermitInv, NEW k \in Kinds, PollSteps(k)
    PROVE  PermitInv'
<1>0. /\ config \in Configs /\ DOMAIN at = Acquirers
      /\ polls \in [Acquirers -> [Phases -> Nat]] /\ active \in [Acquirers -> Int]
      /\ channel \in [Acquirers -> Seq(Results)] /\ fresh \in Nat
    BY DEF PermitInv
<1>1. k \in Acquirers
    BY <1>0, KindsKnown
<1>2. /\ HeldByLoop(k) \in Nat /\ Count(k) \in Nat /\ Buffered(k) \in Nat /\ active[k] \in Int
      /\ channel[k] \in Seq(Results)
    BY <1>0, <1>1, OwnedTypes, SMTT(30)
<1>3. PICK p \in Phases :
          /\ polls[k][p] > 0 /\ GuardDropped(k, p) /\ config' = config
          /\ \/ channel' = channel /\ DropFresh
             \/ channel' = [channel EXCEPT ![k] = Append(@, "error")] /\ DropFresh
             \/ /\ p \in Results /\ p # "error" /\ fresh' = fresh
                /\ channel' = [channel EXCEPT ![k] = Append(@, p)]
    BY SMTT(30) DEF PollSteps, PollInterrupted, BackoffElapses, BackoffInterrupted, ForwardResult,
           Phases, Results, Backoffs, dealer
<1>4. /\ DOMAIN at' = Acquirers
      /\ polls' \in [Acquirers -> [Phases -> Nat]]
      /\ active' \in [Acquirers -> Int]
      /\ \A j \in Acquirers \ {k} : /\ at'[j] = at[j] /\ polls'[j] = polls[j]
                                    /\ active'[j] = active[j]
    BY <1>3, GuardCounts, SMTT(30)
<1>c. config' = config
    BY <1>3
<1>z. PICK z \in Int, u \in Int, v \in Int : z = 0 /\ u = 1 /\ v = -1
    OBVIOUS
<1>d. /\ active'[k] = active[k] - 1 /\ Count(k)' = Count(k) - 1
      /\ HeldByLoop(k)' = HeldByLoop(k)
    BY <1>3, GuardCounts, Zenon
<1>5. /\ active'[k] = active[k] + v
      /\ Count(k)' = Count(k) + v
      /\ HeldByLoop(k)' = HeldByLoop(k) + z
    <2>1. active[k] - 1 = active[k] + v /\ Count(k) - 1 = Count(k) + v
        BY <1>2, <1>z, SMTT(30)
    <2>2. HeldByLoop(k) = HeldByLoop(k) + z
        BY <1>2, <1>z, SMTT(30)
    <2> QED
        BY <1>d, <2>1, <2>2, ZenonT(30)
<1>6. CASE channel' = channel /\ DropFresh
    <2>1. Buffered(k)' = Buffered(k) + z
        BY <1>2, <1>6, <1>z, SMTT(30) DEF Buffered
    <2>2. fresh' = fresh + (z + v + z)
        BY <1>0, <1>6, <1>z, SMTT(30) DEF DropFresh
    <2>3. /\ channel' \in [Acquirers -> Seq(Results)]
          /\ \A j \in Acquirers \ {k} : channel'[j] = channel[j]
        BY <1>0, <1>6
    <2> QED
        BY <1>c, <1>4, <1>5, <2>1, <2>2, <2>3, PermitStep, ZenonT(30)
<1>7. CASE channel' = [channel EXCEPT ![k] = Append(@, "error")] /\ DropFresh
    <2>0. "error" \in Results
        BY SMTT(30) DEF Results
    <2>a. Append(channel[k], "error") \in Seq(Results)
        BY <1>2, <2>0, RespondedAppend
    <2>1. PICK s \in Seq(Results) : s = Append(channel[k], "error")
        BY <2>a, Zenon
    <2>2. channel' = [channel EXCEPT ![k] = s]
        BY <1>7, <2>1
    <2>3. /\ channel' \in [Acquirers -> Seq(Results)] /\ channel'[k] = s
          /\ \A j \in Acquirers \ {k} : channel'[j] = channel[j]
        BY <1>0, <1>1, <2>2, SMTT(30)
    <2>4. Buffered(k)' = Buffered(k) + z
        BY <1>2, <1>z, <2>0, <2>1, <2>3, RespondedAppend, SMTT(30) DEF Buffered
    <2>5. fresh' = fresh + (z + v + z)
        BY <1>0, <1>7, <1>z DEF DropFresh
    <2> QED
        BY <1>c, <1>4, <1>5, <2>3, <2>4, <2>5, PermitStep, ZenonT(30)
<1>8. CASE /\ p \in Results /\ p # "error" /\ fresh' = fresh
           /\ channel' = [channel EXCEPT ![k] = Append(@, p)]
    <2>a. Append(channel[k], p) \in Seq(Results)
        BY <1>2, <1>8, RespondedAppend
    <2>1. PICK s \in Seq(Results) : s = Append(channel[k], p)
        BY <2>a, Zenon
    <2>2. channel' = [channel EXCEPT ![k] = s]
        BY <1>8, <2>1, SMTT(30)
    <2>3. /\ channel' \in [Acquirers -> Seq(Results)] /\ channel'[k] = s
          /\ \A j \in Acquirers \ {k} : channel'[j] = channel[j]
        BY <1>0, <1>1, <2>2
    <2>4. Buffered(k)' = Buffered(k) + u
        BY <1>2, <1>8, <1>z, <2>1, <2>3, RespondedAppend, SMTT(30) DEF Buffered
    <2>5. fresh' = fresh + (z + v + u)
        BY <1>0, <1>8, <1>z
    <2> QED
        BY <1>c, <1>4, <1>5, <2>3, <2>4, <2>5, PermitStep, ZenonT(30)
<1> QED
    BY <1>3, <1>6, <1>7, <1>8, SMTT(30)

\* The stream takes a result's permit over, or it or the dropped receiver drops it.
LEMMA StreamKeepsPermits ==
    ASSUME PermitInv, NEW k \in Kinds, StreamTakes(k) \/ DropBuffered(k)
    PROVE  PermitInv'
<1>0. /\ config \in Configs /\ DOMAIN at = Acquirers
      /\ polls \in [Acquirers -> [Phases -> Nat]] /\ active \in [Acquirers -> Int]
      /\ channel \in [Acquirers -> Seq(Results)] /\ fresh \in Nat
    BY DEF PermitInv
<1>1. k \in Acquirers
    BY <1>0, KindsKnown
<1>2. HeldByLoop(k) \in Nat /\ Count(k) \in Nat /\ Buffered(k) \in Nat
    BY <1>0, <1>1, OwnedTypes, Zenon
<1>3. channel[k] \in Seq(Results) /\ active[k] \in Int
    BY <1>0, <1>1, SMTT(30)
<1>4. /\ config' = config /\ at' = at /\ polls' = polls /\ active' = active
      /\ channel[k] # <<>> /\ channel' = [channel EXCEPT ![k] = Tail(@)]
    BY DEF StreamTakes, DropBuffered
<1>5. Tail(channel[k]) \in Seq(Results) /\ Head(channel[k]) \in Results
    BY <1>3, <1>4, RespondedTail
<1>6. /\ channel' \in [Acquirers -> Seq(Results)] /\ channel'[k] = Tail(channel[k])
      /\ \A j \in Acquirers \ {k} : channel'[j] = channel[j]
    BY <1>0, <1>1, <1>4, <1>5, SMTT(30)
<1>7. /\ Buffered(k)' \in Nat
      /\ Buffered(k) = Buffered(k)' + (IF Head(channel[k]) = "error" THEN 0 ELSE 1)
    BY <1>3, <1>4, <1>6, RespondedTail DEF Buffered
<1>z. PICK z \in Int, v \in Int : z = 0 /\ v = -1
    BY SMTT(30)
<1>8. HeldByLoop(k)' = HeldByLoop(k) + z /\ Count(k)' = Count(k) + z /\ active'[k] = active[k] + z
    <2>1. HeldByLoop(k)' = HeldByLoop(k)
        BY <1>4, SMTT(30) DEF HeldByLoop
    <2>2. Count(k)' = Count(k) /\ active'[k] = active[k]
        BY <1>4 DEF Count
    <2> QED
        BY <1>2, <1>3, <1>z, <2>1, <2>2, SMTT(30)
<1>9. CASE Head(channel[k]) = "error"
    <2>1. Buffered(k)' = Buffered(k) + z
        BY <1>7, <1>9, <1>z, SMTT(30)
    <2>2. fresh' = fresh + (z + z + z)
        BY <1>0, <1>9, <1>z DEF StreamTakes, DropBuffered, dealer
    <2> QED
        BY <1>0, <1>4, <1>6, <1>8, <2>1, <2>2, PermitStep, ZenonT(30)
<1>10. CASE Head(channel[k]) # "error"
    <2>1. Buffered(k)' = Buffered(k) + v
        BY <1>2, <1>7, <1>10, <1>z, SMTT(30)
    <2>2. DropFresh \/ IntoUsed
        BY <1>10, SMTT(30) DEF StreamTakes, DropBuffered
    <2>3. fresh' = fresh + (z + z + v)
        BY <1>0, <1>z, <2>2, SMTT(30) DEF DropFresh, IntoUsed
    <2> QED
        BY <1>0, <1>4, <1>6, <1>8, <2>1, <2>3, PermitStep, ZenonT(30)
<1> QED
    BY <1>9, <1>10

\* The permits that are out and unused are exactly the ones of the loops, the polls
\* and the buffered responses, through every break, backoff, error and shutdown of
\* LongPollBuffer and of the streams; and ActiveCounter counts the polls.
THEOREM EveryPermitHasAnOwner == PollSpec => []PermitsAccountedFor
<1>1. PollInit => PermitInv
    <2> SUFFICES ASSUME PollInit PROVE PermitInv
        OBVIOUS
    <2>1. /\ config \in Configs /\ DOMAIN at = Acquirers
          /\ polls = [k \in Acquirers |-> [p \in Phases |-> 0]]
          /\ active = [k \in Acquirers |-> 0]
          /\ channel = [k \in Acquirers |-> <<>>] /\ fresh = 0
          /\ \A k \in Acquirers : at[k] \in {"unstarted", "absent"}
        BY DEF PollInit, Init
    <2>2. \A k \in Acquirers : HeldByLoop(k) = 0
        BY <2>1 DEF HeldByLoop
    <2>3. \A k \in Acquirers : Count(k) = 0
        BY <2>1 DEF Count, Phases, Results, Backoffs
    <2>4. \A k \in Acquirers : Buffered(k) = 0
        <3>1. Responded(<<>>) = {}
            BY DEF Responded
        <3>2. Cardinality({}) = 0
            BY FS_EmptySet
        <3>3. \A k \in Acquirers : channel[k] = <<>>
            BY <2>1
        <3> QED
            BY <3>1, <3>2, <3>3, Zenon DEF Buffered
    <2>5. \A k \in Acquirers : Owned(k) = 0
        BY <2>2, <2>3, <2>4 DEF Owned
    <2>6. Kinds \subseteq Acquirers /\ "normal" \in Acquirers /\ "sticky" \in Acquirers
        BY <2>1, KindsKnown
    <2>7. fresh = Owned("normal") + Owned("sticky")
        BY <2>1, <2>5, <2>6
    <2>8. \A k \in Kinds : active[k] = Count(k)
        BY <2>1, <2>3, <2>6
    <2>9. /\ polls \in [Acquirers -> [Phases -> Nat]] /\ active \in [Acquirers -> Int]
          /\ channel \in [Acquirers -> Seq(Results)] /\ fresh \in Nat
        BY <2>1
    <2> QED
        BY <2>1, <2>7, <2>8, <2>9, SMTT(30) DEF PermitInv
<1>2. PermitInv /\ [PollNext]_pollvars => PermitInv'
    <2> SUFFICES ASSUME PermitInv, [PollNext]_pollvars PROVE PermitInv'
        OBVIOUS
    <2>0. config' = config /\ DOMAIN at = Acquirers
        BY ConfigStays DEF PermitInv
    <2>1. ASSUME NEW k \in Kinds, Loop(k) PROVE PermitInv'
        BY <2>1, LoopKeepsPermits
    <2>2. ASSUME NEW k \in Kinds, NEW r \in Responses, PollResponds(k, r) PROVE PermitInv'
        <3>1. /\ polls[k].polling > 0
              /\ polls' = [polls EXCEPT ![k].polling = @ - 1, ![k][PhaseAfter(r)] = @ + 1]
              /\ at' = at /\ active' = active /\ channel' = channel /\ fresh' = fresh
            BY <2>2 DEF PollResponds, dealer
        <3>2. r \in Responses \cup Errors
            OBVIOUS
        <3> QED
            BY <2>0, <3>1, <3>2, ReportKeepsPermits, ZenonT(30)
    <2>3. ASSUME NEW k \in Kinds, NEW r \in Errors, PollFails(k, r) PROVE PermitInv'
        <3>1. /\ polls[k].polling > 0
              /\ polls' = [polls EXCEPT ![k].polling = @ - 1, ![k][PhaseAfter(r)] = @ + 1]
              /\ at' = at /\ active' = active /\ channel' = channel /\ fresh' = fresh
            BY <2>3 DEF PollFails, dealer
        <3>2. r \in Responses \cup Errors
            OBVIOUS
        <3> QED
            BY <2>0, <3>1, <3>2, ReportKeepsPermits, ZenonT(30)
    <2>4. ASSUME NEW k \in Kinds, PollSteps(k) PROVE PermitInv'
        BY <2>4, EndKeepsPermits
    <2>5. ASSUME NEW k \in Kinds, StreamTakes(k) \/ DropBuffered(k) PROVE PermitInv'
        BY <2>5, StreamKeepsPermits, SMTT(30)
    <2>6. CASE \/ \E k \in Kinds : PeriodEnds(k) \/ StreamSeesNone(k)
               \/ Start \/ ShutdownBoxReturns \/ NoticeShutdown
               \/ InitiateShutdown \/ TaskFinishes \/ SlotFreed \/ UNCHANGED pollvars
        <3>1. /\ polls' = polls /\ active' = active /\ channel' = channel /\ fresh' = fresh
            BY <2>6, ZenonT(30) DEF PeriodEnds, StreamSeesNone, Start, ShutdownBoxReturns, NoticeShutdown,
                       InitiateShutdown, TaskFinishes, SlotFreed, DropUsed, ReleaseSlot, pollvars,
                       dealer
        <3>2. DOMAIN at' = Acquirers /\ \A j \in Acquirers : HeldByLoop(j)' = HeldByLoop(j)
            BY <2>0, <2>6, SMTT(30) DEF PeriodEnds, StreamSeesNone, Start, ShutdownBoxReturns,
                       NoticeShutdown, InitiateShutdown, TaskFinishes, SlotFreed, pollvars,
                       HeldByLoop
        <3> QED
            BY <2>0, <3>1, <3>2, PermitIdle, SMTT(30)
    <2> QED
        BY <2>1, <2>2, <2>3, <2>4, <2>5, <2>6, SMTT(30) DEF PollNext, PollAnswered, Streaming
<1>3. PermitInv => PermitsAccountedFor
    <2> SUFFICES ASSUME PermitInv PROVE PermitsAccountedFor
        OBVIOUS
    <2>1. /\ config \in Configs /\ polls \in [Acquirers -> [Phases -> Nat]]
          /\ channel \in [Acquirers -> Seq(Results)]
          /\ fresh = Owned("normal") + Owned("sticky")
          /\ \A k \in Kinds : active[k] = Count(k)
        BY DEF PermitInv
    <2>2. "normal" \in Acquirers /\ "sticky" \in Acquirers
        BY <2>1, KindsKnown
    <2>3. \A k \in Acquirers : HeldByLoop(k) \in Nat /\ Count(k) \in Nat /\ Buffered(k) \in Nat
        BY <2>1, OwnedTypes, ZenonT(30)
    <2>4. fresh = Both(HeldByLoop) + Both(Count) + Both(Buffered)
        BY <2>1, <2>2, <2>3, SMTT(30) DEF Owned, Both
    <2> QED
        BY <2>1, <2>4 DEF PermitsAccountedFor, Both
<1> QED
    BY <1>1, <1>2, <1>3, PTL DEF PollSpec
-----------------------------------------------------------------------------
\* The inductive form of LostOnlyAtShutdown.  A loop that is done has no poll left;
\* so once the stream of a lone workflow task buffer has seen the closed and empty
\* channel, nothing can be sent to it any more.
LostInv ==
    /\ config \in Configs
    /\ DOMAIN at = Acquirers /\ DOMAIN channel = Acquirers
    /\ polls \in [Acquirers -> [Phases -> Nat]]
    /\ lost \in Nat
    /\ noticed => cancelled /\ config.task_stream
    /\ ended # "no" => cancelled
    /\ \A k \in Acquirers : at[k] \in {"done", "absent", "unstarted"} =>
          \A p \in Phases : polls[k][p] = 0
    /\ ended # "no" /\ ~config.task_stream /\ "sticky" \notin Kinds =>
          at["normal"] = "done" /\ channel["normal"] = <<>>
    /\ LostOnlyAtShutdown

\* A loop that ends has no poll left.
LEMMA LoopLosesNothing ==
    ASSUME LostInv, NEW k \in Kinds, Loop(k)
    PROVE  LostInv'
<1>0. /\ config \in Configs /\ DOMAIN at = Acquirers
      /\ polls \in [Acquirers -> [Phases -> Nat]]
    BY DEF LostInv
<1>1. k \in Acquirers
    BY <1>0, KindsKnown
<1>2. /\ config' = config /\ Kinds' = Kinds /\ lost' = lost /\ channel' = channel
      /\ noticed' = noticed /\ cancelled' = cancelled /\ ended' = ended
    BY DEF Loop, TurnComes, LimitPassed, PermitAcquired, ScalerSleeps, SpawnPoll, Break, LoopEnds,
           stream, Kinds
<1>3. /\ DOMAIN at' = Acquirers
      /\ \A j \in Acquirers \ {k} : at'[j] = at[j]
      /\ at[k] # "done"
    BY <1>0, SMTT(30) DEF Loop, TurnComes, LimitPassed, PermitAcquired, ScalerSleeps, SpawnPoll, Break,
                LoopEnds
<1>4. /\ polls' \in [Acquirers -> [Phases -> Nat]]
      /\ \A j \in Acquirers \ {k} : polls'[j] = polls[j]
    <2>1. CASE SpawnPoll(k)
        BY <1>0, <1>1, <2>1, OneMorePoll, ZenonT(30)
    <2>2. CASE ~SpawnPoll(k)
        BY <1>0, <2>2, SMTT(30) DEF Loop, TurnComes, LimitPassed, PermitAcquired, ScalerSleeps, Break,
                          LoopEnds
    <2> QED
        BY <2>1, <2>2
<1>5. at'[k] \in {"done", "absent", "unstarted"} => \A p \in Phases : polls'[k][p] = 0
    BY <1>0, <1>1, SMTT(30) DEF LostInv, Loop, TurnComes, LimitPassed, PermitAcquired, ScalerSleeps,
                      SpawnPoll, Break, LoopEnds
<1>6. \A j \in Acquirers : at'[j] \in {"done", "absent", "unstarted"} =>
          \A p \in Phases : polls'[j][p] = 0
    BY <1>3, <1>4, <1>5, SMTT(30) DEF LostInv
<1>7. ended' # "no" /\ ~config'.task_stream /\ "sticky" \notin Kinds' =>
          at'["normal"] = "done" /\ channel'["normal"] = <<>>
    <2>1. "sticky" \notin Kinds => k = "normal"
        BY <1>0, KindsKnown, SMTT(30)
    <2> QED
        BY <1>2, <1>3, <2>1 DEF LostInv
<1> QED
    BY <1>2, <1>3, <1>4, <1>6, <1>7, SMTT(30) DEF LostInv, LostOnlyAtShutdown

\* A poll moves only while its loop is not done; what it sends after the end of the
\* stream is lost.
LEMMA PollLoses ==
    ASSUME LostInv, NEW k \in Kinds, NEW q \in Phases, polls[k][q] > 0,
           polls' \in [Acquirers -> [Phases -> Nat]],
           \A j \in Acquirers \ {k} : polls'[j] = polls[j],
           DOMAIN at' = Acquirers,
           \A j \in Acquirers : at'[j] = at[j] \/ (at[j] = "asleep" /\ at'[j] = "at_scaler"),
           config' = config, UNCHANGED stream, lost' \in Nat,
           lost' > lost => ended = "yes",
           DOMAIN channel' = Acquirers,
           \A j \in Acquirers \ {k} : channel'[j] = channel[j]
    PROVE  LostInv'
<1>0. /\ config \in Configs /\ DOMAIN at = Acquirers
      /\ polls \in [Acquirers -> [Phases -> Nat]]
    BY SMTT(30) DEF LostInv
<1>1. k \in Acquirers /\ (k = "normal" \/ k = "sticky")
    BY <1>0, KindsKnown, SMTT(30)
<1>2. at[k] \notin {"done", "absent", "unstarted"}
    BY <1>1, SMTT(30) DEF LostInv
<1>3. \A j \in Acquirers : at'[j] \in {"done", "absent", "unstarted"} =>
          \A p \in Phases : polls'[j][p] = 0
    <2> SUFFICES ASSUME NEW j \in Acquirers, at'[j] \in {"done", "absent", "unstarted"}
                 PROVE  \A p \in Phases : polls'[j][p] = 0
        BY SMTT(30)
    <2>1. at[j] = at'[j]
        BY SMTT(30)
    <2>2. j # k
        BY <1>2, <2>1, SMTT(30)
    <2>3. polls'[j] = polls[j]
        BY <2>2, SMTT(30)
    <2>4. \A p \in Phases : polls[j][p] = 0
        BY <2>1, SMTT(30) DEF LostInv
    <2> QED
        BY <2>3, <2>4, SMTT(30)
<1>4. Kinds' = Kinds /\ noticed' = noticed /\ cancelled' = cancelled /\ ended' = ended
    BY SMTT(30) DEF stream, Kinds
<1>5. ended # "no" => cancelled /\ (config.task_stream \/ "sticky" \in Kinds)
    BY <1>1, <1>2, SMTT(30) DEF LostInv
<1>6. LostOnlyAtShutdown'
    <2>1. lost \in Nat /\ (lost > 0 => cancelled /\ (config.task_stream \/ "sticky" \in Kinds))
        BY SMTT(30) DEF LostInv, LostOnlyAtShutdown
    <2>2. lost' > 0 => cancelled /\ (config.task_stream \/ "sticky" \in Kinds)
        <3>1. CASE ended # "no"
            BY <1>5, <3>1
        <3>2. CASE ended = "no"
            <4>1. lost' <= lost
                BY <2>1, <3>2, SMTT(30)
            <4> QED
                BY <2>1, <4>1
        <3> QED
            BY <3>1, <3>2
    <2> QED
        BY <1>4, <2>2, SMTT(30) DEF LostOnlyAtShutdown
<1>7. ended' = "no" \/ config'.task_stream \/ "sticky" \in Kinds'
    BY <1>4, <1>5, SMTT(30)
<1> QED
    BY <1>3, <1>4, <1>6, <1>7, SMTT(30) DEF LostInv

\* A response that no poller's shutdown and no end of the stream interferes with is
\* delivered: received tasks are dropped only after the shutdown, and not even then
\* by the workflow task stream of a worker without a sticky queue, which ends only
\* when the loop has awaited its polls and the channel is empty.
THEOREM TasksLostOnlyAtShutdown == PollSpec => []LostOnlyAtShutdown
<1>1. PollInit => LostInv
    BY DEF PollInit, LostInv, LostOnlyAtShutdown
<1>2. LostInv /\ [PollNext]_pollvars => LostInv'
    <2> SUFFICES ASSUME LostInv, [PollNext]_pollvars PROVE LostInv'
        OBVIOUS
    <2>0. /\ config \in Configs /\ DOMAIN at = Acquirers /\ config' = config /\ Kinds' = Kinds
          /\ polls \in [Acquirers -> [Phases -> Nat]] /\ lost \in Nat
          /\ DOMAIN channel = Acquirers
        BY ConfigStays DEF LostInv, Kinds
    <2>k. /\ Kinds \subseteq Acquirers /\ Kinds \subseteq {"normal", "sticky"}
          /\ "normal" \in Acquirers
        BY <2>0, KindsKnown
    <2>1. ASSUME NEW k \in Kinds, Loop(k) PROVE LostInv'
        BY <2>1, LoopLosesNothing
    <2>2. ASSUME NEW k \in Kinds, NEW r \in Responses \cup Errors, polls[k].polling > 0,
                 polls' = [polls EXCEPT ![k].polling = @ - 1, ![k][PhaseAfter(r)] = @ + 1],
                 at' = at, channel' = channel, lost' = lost, UNCHANGED stream
          PROVE  LostInv'
        <3>1. r.kind \in Results
            BY DEF Responses, Errors, Results
        <3>2. PICK q \in Phases : q = PhaseAfter(r)
            BY <3>1 DEF PhaseAfter, Phases, Results, Backoffs
        <3>3. q # "polling" /\ "polling" \in Phases /\ k \in Acquirers
            BY <2>k, <3>1, <3>2 DEF PhaseAfter, Phases, Results, Backoffs
        <3>4. polls' = [polls EXCEPT ![k].polling = @ - 1, ![k][q] = @ + 1]
            BY <2>2, <3>2
        <3>5. polls' \in [Acquirers -> [Phases -> Nat]]
            BY <2>0, <2>2, <3>3, <3>4
        <3>6. \A j \in Acquirers \ {k} : polls'[j] = polls[j]
            BY <2>0, <3>3, <3>4
        <3>7. polls[k]["polling"] > 0
            BY <2>2
        <3>8. ~(lost' > lost) /\ lost' \in Nat
            BY <2>0, <2>2
        <3> QED
            BY <2>0, <2>2, <3>3, <3>5, <3>6, <3>7, <3>8, PollLoses, ZenonT(30)
    <2>3. ASSUME NEW k \in Kinds, NEW r \in Responses, PollResponds(k, r) PROVE LostInv'
        <3>1. /\ polls[k].polling > 0
              /\ polls' = [polls EXCEPT ![k].polling = @ - 1, ![k][PhaseAfter(r)] = @ + 1]
              /\ at' = at /\ channel' = channel /\ lost' = lost /\ UNCHANGED stream
            BY <2>3 DEF PollResponds
        <3>2. r \in Responses \cup Errors
            OBVIOUS
        <3> QED
            BY <2>2, <3>1, <3>2, Zenon
    <2>4. ASSUME NEW k \in Kinds, NEW r \in Errors, PollFails(k, r) PROVE LostInv'
        <3>1. /\ polls[k].polling > 0
              /\ polls' = [polls EXCEPT ![k].polling = @ - 1, ![k][PhaseAfter(r)] = @ + 1]
              /\ at' = at /\ channel' = channel /\ lost' = lost /\ UNCHANGED stream
            BY <2>4 DEF PollFails
        <3>2. r \in Responses \cup Errors
            OBVIOUS
        <3> QED
            BY <2>2, <3>1, <3>2, Zenon
    <2>5. ASSUME NEW k \in Kinds, PollSteps(k) PROVE LostInv'
        <3>1. PICK p \in Phases :
                  /\ polls[k][p] > 0 /\ GuardDropped(k, p) /\ UNCHANGED stream
                  /\ lost' = lost \/ (lost' = lost + 1 /\ ended = "yes")
                  /\ DOMAIN channel' = Acquirers
                  /\ \A j \in Acquirers \ {k} : channel'[j] = channel[j]
            BY <2>0, <2>5 DEF PollSteps, PollInterrupted, BackoffElapses, BackoffInterrupted,
                        ForwardResult, Phases, Results, Backoffs
        <3>2. k \in Acquirers
            BY <2>k, SMTT(30)
        <3>3. polls' \in [Acquirers -> [Phases -> Nat]]
            BY <2>0, <3>1, <3>2, SMTT(30) DEF GuardDropped
        <3>4. \A j \in Acquirers \ {k} : polls'[j] = polls[j]
            BY <2>0, <3>1, <3>2, SMTT(30) DEF GuardDropped
        <3>5. /\ DOMAIN at' = Acquirers
              /\ \A j \in Acquirers : at'[j] = at[j] \/ (at[j] = "asleep" /\ at'[j] = "at_scaler")
            BY <2>0, <3>1, <3>2, SMTT(30) DEF GuardDropped
        <3>6. lost' \in Nat /\ (lost' > lost => ended = "yes")
            BY <2>0, <3>1, SMTT(30)
        <3> QED
            BY <2>0, <3>1, <3>3, <3>4, <3>5, <3>6, PollLoses, ZenonT(30)
    <2>6. ASSUME NEW k \in Kinds, StreamTakes(k) PROVE LostInv'
        <3>1. /\ at' = at /\ polls' = polls /\ lost' = lost
              /\ noticed' = noticed /\ cancelled' = cancelled /\ ended = "no"
              /\ ended' = "no" \/ (ended' = "yes" /\ noticed)
              /\ DOMAIN channel' = Acquirers
            BY <2>0, <2>6, SMTT(30) DEF StreamTakes
        <3> QED
            BY <2>0, <3>1, SMTT(30) DEF LostInv, LostOnlyAtShutdown
    <2>7. ASSUME NEW k \in Kinds, StreamSeesNone(k) PROVE LostInv'
        <3>1. /\ at' = at /\ polls' = polls /\ lost' = lost /\ channel' = channel
              /\ noticed' = noticed /\ cancelled' = TRUE
              /\ at[k] = "done" /\ channel[k] = <<>>
            BY <2>7 DEF StreamSeesNone
        <3>2. "sticky" \notin Kinds => k = "normal"
            BY <2>k, SMTT(30)
        <3> QED
            BY <2>0, <3>1, <3>2, SMTT(30) DEF LostInv, LostOnlyAtShutdown
    <2>8. ASSUME NEW k \in Kinds, DropBuffered(k) PROVE LostInv'
        <3>1. /\ at' = at /\ polls' = polls /\ UNCHANGED stream /\ ended = "yes"
              /\ lost' = lost \/ lost' = lost + 1
              /\ channel[k] # <<>> /\ DOMAIN channel' = Acquirers
            BY <2>0, <2>8, SMTT(30) DEF DropBuffered
        <3>2. config.task_stream \/ "sticky" \in Kinds
            BY <2>k, <3>1, SMTT(30) DEF LostInv
        <3> QED
            BY <2>0, <3>1, <3>2, SMTT(30) DEF LostInv, LostOnlyAtShutdown, stream
    <2>9. CASE \/ \E k \in Kinds : PeriodEnds(k)
               \/ ShutdownBoxReturns \/ NoticeShutdown
               \/ InitiateShutdown \/ TaskFinishes \/ SlotFreed \/ UNCHANGED pollvars
        <3>1. /\ at' = at /\ polls' = polls /\ lost' = lost /\ channel' = channel
              /\ noticed' = noticed \/ (noticed' /\ cancelled /\ config.task_stream)
              /\ cancelled' = cancelled \/ cancelled'
              /\ ended' = ended \/ (ended = "ending" /\ ended' = "yes")
            BY <2>9 DEF PeriodEnds, ShutdownBoxReturns, NoticeShutdown, InitiateShutdown,
                       TaskFinishes, SlotFreed, pollvars, stream
        <3> QED
            BY <2>0, <3>1, SMTT(30) DEF LostInv, LostOnlyAtShutdown
    <2>10. CASE Start
        <3>1. /\ polls' = polls /\ lost' = lost /\ channel' = channel
              /\ noticed' = noticed /\ cancelled' = cancelled /\ ended' = ended /\ ended = "no"
              /\ at' = [k \in Acquirers |-> IF at[k] = "unstarted" THEN "waiting" ELSE at[k]]
            BY <2>10 DEF Start, stream
        <3>2. DOMAIN at' = Acquirers
            BY <3>1
        <3>3. \A k \in Acquirers : at'[k] \in {"done", "absent", "unstarted"} => at'[k] = at[k]
            BY <3>1
        <3> QED
            BY <2>0, <3>1, <3>2, <3>3, ZenonT(30) DEF LostInv, LostOnlyAtShutdown
    <2> QED
        BY <2>1, <2>3, <2>4, <2>5, <2>6, <2>7, <2>8, <2>9, <2>10, SMTT(30)
        DEF PollNext, PollAnswered, Streaming
<1>3. LostInv => LostOnlyAtShutdown
    BY DEF LostInv
<1> QED
    BY <1>1, <1>2, <1>3, PTL DEF PollSpec
=============================================================================
