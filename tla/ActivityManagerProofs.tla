------------------------ MODULE ActivityManagerProofs ------------------------
(***************************************************************************)
(* Proofs about ActivityManager, for any set of activities, any number of    *)
(* heartbeats and any replies: shutdown tears the heartbeat manager down     *)
(* last, throttled heartbeating implements LatestHeartbeat, and a completion *)
(* is reported after the last heartbeat of its activity.                     *)
(***************************************************************************)
EXTENDS ActivityManager, Integers, TLAPS

\* Every activity has its record; the fields that decide the steps are typed.
ActType ==
    /\ DOMAIN act = Tokens
    /\ \A t \in Tokens :
          /\ DOMAIN act[t] = {"phase", "cancel", "given", "timers", "status"}
          /\ act[t].phase \in Phases
          /\ act[t].given \in Nat

\* Completions are counted for as long as they run, take_until is past its first
\* wait only when no start can follow, and what it saw empty stays empty.
TeardownInv ==
    /\ ActType
    /\ completions_in_flight =
          {t \in Tokens : act[t].phase \in {"counted", "evicting", "reporting"}}
    /\ until \in {"starts", "map", "count", "waiting", "done"}
    /\ until = "starts" <=> ~starts_complete
    /\ until \in {"count", "done"} => Outstanding = {}
    /\ until = "done" => completions_in_flight = {}

\* The new activities of the initial state satisfy the teardown invariant.
LEMMA TeardownInit == Init => TeardownInv
BY DEF Init, TeardownInv, ActType, NewActivity, Phases, Outstanding

\* A start and a cancel change one record, and no start follows starts_complete.
LEMMA TeardownPoll ==
    ASSUME TeardownInv, PollCancel \/ \E t \in Tokens : PollStart(t)
    PROVE  TeardownInv'
<1>1. ASSUME NEW t \in Tokens, PollStart(t)
      PROVE  TeardownInv'
  BY <1>1 DEF TeardownInv, ActType, PollStart, Phases, Outstanding, life
<1>2. CASE PollCancel
  <2>1. CASE UNCHANGED act
    BY <1>2, <2>1 DEF TeardownInv, ActType, PollCancel, Outstanding, life
  <2>2. ASSUME NEW t \in Tokens, NEW reason, act' = [act EXCEPT ![t].cancel = reason]
        PROVE  TeardownInv'
    BY <1>2, <2>2 DEF TeardownInv, ActType, PollCancel, Outstanding, life
  <2>3. QED
    BY <1>2, <2>1, <2>2 DEF PollCancel, Outstanding
<1>3. QED
  BY <1>1, <1>2

\* A completion is counted while the task is in the map, and until it ends.
LEMMA TeardownCompletion ==
    ASSUME TeardownInv, NEW t \in Tokens,
           LangCompletes(t) \/ TakeTask(t) \/ Evicted(t) \/ Reported(t)
    PROVE  TeardownInv'
<1>1. CASE LangCompletes(t)
  <2>1. PICK status \in Statuses : Complete(t, status)
    BY <1>1 DEF LangCompletes
  <2>2. /\ act[t].phase = "outstanding"
        /\ act'[t] = [act[t] EXCEPT !.phase = "counted", !.status = status]
        /\ \A s \in Tokens \ {t} : act'[s] = act[s]
        /\ DOMAIN act' = Tokens
    BY <2>1 DEF TeardownInv, ActType, Complete
  <2>3. ActType'
    BY <2>2, ZenonT(40) DEF TeardownInv, ActType, Phases
  <2>4. \A s \in Tokens : s = t => act'[s].phase = "counted"
    BY <2>2, Zenon DEF TeardownInv, ActType
  <2>5. QED
    BY <2>1, <2>2, <2>3, <2>4 DEF TeardownInv, Complete, Outstanding, life
<1>2. CASE TakeTask(t)
  BY <1>2 DEF TeardownInv, ActType, TakeTask, Phases, Outstanding, life
<1>3. CASE Evicted(t)
  BY <1>3 DEF TeardownInv, ActType, Evicted, Finish, Phases, Outstanding, life
<1>4. CASE Reported(t)
  BY <1>4 DEF TeardownInv, ActType, Reported, Finish, Phases, Outstanding, life
<1>5. QED
  BY <1>1, <1>2, <1>3, <1>4

\* The other steps leave the activities alone, or change what is not constrained.
LEMMA TeardownStep == TeardownInv /\ [Next]_vars => TeardownInv'
<1> SUFFICES ASSUME TeardownInv, [Next]_vars
             PROVE  TeardownInv'
  OBVIOUS
<1> USE DEF TeardownInv, ActType, Outstanding, life
<1>1. ASSUME NEW t \in Tokens, LocalTimeout(t) \/ CancelActivity(t)
      PROVE  TeardownInv'
  BY <1>1 DEF LocalTimeout, CancelActivity
<1>2. ASSUME StartsComplete \/ UntilLooksAtMap \/ UntilLooksAtCount \/ UntilWakes
             \/ GracePeriodElapses
      PROVE  TeardownInv'
  BY <1>2 DEF StartsComplete, UntilLooksAtMap, UntilLooksAtCount, UntilWakes,
              GracePeriodElapses
<1>3. ASSUME NEW t \in Tokens, RecordHeartbeat(t) \/ SendHeartbeat(t)
      PROVE  TeardownInv'
  <2>1. CASE RecordHeartbeat(t)
    <3>1. \A s \in Tokens : /\ act'[s].phase = act[s].phase
                            /\ DOMAIN act'[s] = DOMAIN act[s]
                            /\ act'[s].given \in Nat
      BY <2>1 DEF RecordHeartbeat
    <3>2. QED
      BY <2>1, <3>1 DEF RecordHeartbeat
  <2>2. CASE SendHeartbeat(t)
    BY <2>2 DEF SendHeartbeat
  <2>3. QED
    BY <1>3, <2>1, <2>2
<1>4. ASSUME NEW t \in Tokens, ThrottleElapses(t) \/ RequestReturns(t)
      PROVE  TeardownInv'
  <2>1. UNCHANGED <<act, completions_in_flight, until, starts_complete>>
    BY <1>4, Zenon DEF ThrottleElapses, RequestReturns, HeartbeatReply
  <2>2. QED
    BY <2>1
<1>5. ASSUME InitiateShutdown \/ Shutdown0 \/ ShutdownLocks \/ ShutdownStopsHeartbeats
             \/ ShutdownJoins
      PROVE  TeardownInv'
  BY <1>5 DEF InitiateShutdown, Shutdown0, ShutdownLocks, ShutdownStopsHeartbeats,
              ShutdownJoins
<1>6. CASE HeartbeatStep
  BY <1>6 DEF HeartbeatStep
<1>7. CASE UNCHANGED vars
  BY <1>7 DEF vars
<1>8. QED
  BY <1>1, <1>2, <1>3, <1>4, <1>5, <1>6, <1>7, TeardownPoll, TeardownCompletion DEF Next

\* Whatever activities there are and however their completions, cancels and
\* heartbeats interleave with a shutdown: the task stream ends, and the heartbeat
\* manager is stopped, only when every activity lang was given is reported.
THEOREM TornDownLastHolds == Spec => []TornDownLast
<1>1. TeardownInv => TornDownLast
  BY Zenon DEF TeardownInv, TornDownLast, ActType, Outstanding, Phases
<1>2. QED
  BY <1>1, TeardownInit, TeardownStep, PTL DEF Spec

-----------------------------------------------------------------------------
(* Throttled heartbeating implements LatestHeartbeat.                       *)

State == [tracked : BOOLEAN, last_recorded_details : Nat, is_record_in_flight : BOOLEAN,
          throttled : BOOLEAN]

Action == [type : {"SendHeartbeat", "Evict", "CompleteReport", "CompleteThrottle"},
           tok : Tokens, details : Nat, should_flush : BOOLEAN]

Manager == [tt_to_state : [Tokens -> State], tt_needs_flush : SUBSET Tokens,
            incoming_hbs : Seq(Action), running : BOOLEAN,
            reports : SUBSET [tok : Tokens, details : Nat], sent : [Tokens -> Nat],
            sleepers : [Tokens -> Nat], notified : SUBSET Tokens]

\* The i-th action of q is a heartbeat of t.
Beat(q, i, t) == q[i].type = "SendHeartbeat" /\ q[i].tok = t

\* The heartbeats of t on their way, oldest first: the one reported last, the one
\* that waits in the state, those queued in the channel; none is newer than top.
Order(sent, waiting, q, t, top) ==
    /\ sent <= top
    /\ waiting <= top
    /\ waiting # 0 => sent < waiting
    /\ \A i \in 1..Len(q) : Beat(q, i, t) =>
          sent < q[i].details /\ waiting < q[i].details /\ q[i].details <= top
    /\ \A i, j \in 1..Len(q) : Beat(q, i, t) /\ Beat(q, j, t) /\ i < j =>
          q[i].details < q[j].details

Ordered(h, t, top) ==
    Order(h.sent[t], h.tt_to_state[t].last_recorded_details, h.incoming_hbs, t, top)

\* A heartbeat that a call holds between the map and the channel is the latest.
Tops == [t \in Tokens |-> IF heartbeating[t] = 0 THEN act[t].given ELSE act[t].given - 1]

MailboxInv ==
    /\ ActType
    /\ hb \in Manager
    /\ heartbeating \in [Tokens -> Nat]
    /\ \A t \in Tokens : heartbeating[t] \in {0, act[t].given} /\ Ordered(hb, t, Tops[t])

\* The channel takes another action, or a heartbeat newer than the others.
LEMMA OrderAppend ==
    ASSUME NEW sent \in Nat, NEW waiting \in Nat, NEW q \in Seq(Action), NEW t \in Tokens,
           NEW top \in Nat, NEW a \in Action, NEW new \in Nat, top <= new,
           a.type = "SendHeartbeat" /\ a.tok = t => a.details > top /\ a.details <= new,
           Order(sent, waiting, q, t, top)
    PROVE  Order(sent, waiting, Append(q, a), t, new)
<1> DEFINE p == Append(q, a)
<1>1. /\ Len(p) = Len(q) + 1 /\ Len(q) \in Nat /\ p[Len(q) + 1] = a
      /\ \A i \in 1..Len(q) : p[i] = q[i]
  OBVIOUS
<1>2. ASSUME NEW i \in 1..Len(q)
      PROVE  q[i].details \in Nat
  <2>1. q[i] \in Action
    OBVIOUS
  <2>2. QED
    BY <2>1 DEF Action
<1>3. a.details \in Nat
  BY DEF Action
<1> HIDE DEF p
<1>4. \A i \in 1..Len(p) : Beat(p, i, t) =>
         sent < p[i].details /\ waiting < p[i].details /\ p[i].details <= new
  BY <1>1, <1>2, <1>3, SMTT(30) DEF Order, Beat
<1>5. ASSUME NEW i \in 1..Len(p), NEW j \in 1..Len(p), Beat(p, i, t), Beat(p, j, t), i < j
      PROVE  p[i].details < p[j].details
  <2>1. i \in 1..Len(q) /\ p[i] = q[i]
    BY <1>1, <1>5
  <2>2. CASE j = Len(q) + 1
    BY <1>1, <1>2, <1>3, <1>5, <2>1, <2>2, SMTT(30) DEF Order, Beat
  <2>3. CASE j # Len(q) + 1
    BY <1>1, <1>5, <2>1, <2>3, SMTT(30) DEF Order, Beat
  <2>4. QED
    BY <2>2, <2>3
<1>6. Order(sent, waiting, p, t, new)
  BY <1>4, <1>5, SMTT(30) DEF Order
<1>7. QED
  BY <1>6 DEF p

\* The channel loses its head, which may be reported, or wait from now on.
LEMMA OrderTail ==
    ASSUME NEW sent \in Nat, NEW waiting \in Nat, NEW q \in Seq(Action), NEW t \in Tokens,
           NEW top \in Nat, q # <<>>, Order(sent, waiting, q, t, top)
    PROVE  /\ Order(sent, waiting, Tail(q), t, top)
           /\ Beat(q, 1, t) => /\ Order(Head(q).details, 0, Tail(q), t, top)
                               /\ Order(sent, Head(q).details, Tail(q), t, top)
                               /\ sent < Head(q).details
                               /\ Head(q).details <= top
<1> DEFINE p == Tail(q)
<1>1. /\ Len(q) \in Nat \ {0} /\ Len(p) = Len(q) - 1 /\ Head(q) = q[1]
      /\ \A i \in 1..Len(p) : p[i] = q[i + 1] /\ i + 1 \in 1..Len(q)
  OBVIOUS
<1>2. ASSUME NEW i \in 1..Len(q)
      PROVE  q[i].details \in Nat
  <2>1. q[i] \in Action
    OBVIOUS
  <2>2. QED
    BY <2>1 DEF Action
<1> HIDE DEF p
<1>3. \A i \in 1..Len(p) : Beat(p, i, t) =>
         /\ sent < p[i].details /\ waiting < p[i].details /\ p[i].details <= top
         /\ Beat(q, 1, t) => q[1].details < p[i].details
  BY <1>1, SMTT(30) DEF Order, Beat
<1>4. ASSUME NEW i \in 1..Len(p), NEW j \in 1..Len(p), Beat(p, i, t), Beat(p, j, t), i < j
      PROVE  p[i].details < p[j].details
  <2>1. /\ i + 1 \in 1..Len(q) /\ j + 1 \in 1..Len(q) /\ i + 1 < j + 1
        /\ p[i] = q[i + 1] /\ p[j] = q[j + 1]
    BY <1>1, <1>4
  <2>2. QED
    BY <1>4, <2>1 DEF Order, Beat
<1>5. Order(sent, waiting, p, t, top)
  BY <1>3, <1>4 DEF Order
<1>6. ASSUME Beat(q, 1, t)
      PROVE  /\ Order(Head(q).details, 0, p, t, top)
             /\ Order(sent, Head(q).details, p, t, top)
             /\ sent < Head(q).details
             /\ Head(q).details <= top
  <2>1. /\ sent < q[1].details /\ q[1].details <= top /\ q[1].details \in Nat
    BY <1>1, <1>2, <1>6 DEF Order
  <2>2. \A i \in 1..Len(p) : Beat(p, i, t) => p[i].details \in Nat
    BY <1>1, <1>2, Zenon
  <2>3. QED
    BY <1>1, <1>3, <1>4, <1>6, <2>1, <2>2 DEF Order
<1>7. QED
  BY <1>5, <1>6 DEF p

\* The details that wait in the state of t.
Waiting(h, t) == h.tt_to_state[t].last_recorded_details

\* From h to g the manager left the channel alone, and only the heartbeats of s.
Frame(h, g, s) ==
    /\ g \in Manager
    /\ g.incoming_hbs = h.incoming_hbs
    /\ g.sent[s] # h.sent[s] => g.sent = [h.sent EXCEPT ![s] = g.sent[s]]
    /\ g.sent[s] = h.sent[s] => g.sent = h.sent
    /\ \A t \in Tokens \ {s} : Waiting(g, t) = Waiting(h, t)

\* A report starts: the details become the latest sent.
LEMMA ReportEffect ==
    ASSUME NEW h \in Manager, NEW s \in Tokens, NEW n \in Nat
    PROVE  /\ Report(h, s, n) \in Manager
           /\ Report(h, s, n).incoming_hbs = h.incoming_hbs
           /\ Report(h, s, n).tt_to_state = h.tt_to_state
           /\ Report(h, s, n).sent = [h.sent EXCEPT ![s] = n]
<1> DEFINE new == h.reports \cup {[tok |-> s, details |-> n]}
           latest == [h.sent EXCEPT ![s] = n]
<1>1. new \in SUBSET [tok : Tokens, details : Nat] /\ latest \in [Tokens -> Nat]
  BY DEF Manager
<1>2. Report(h, s, n) = [h EXCEPT !.reports = new, !.sent = latest]
  BY DEF Report, Manager
<1> HIDE DEF new, latest
<1>3. QED
  BY <1>1, <1>2, Zenon DEF Manager, latest

\* A state is replaced.
LEMMA StateEffect ==
    ASSUME NEW h \in Manager, NEW s \in Tokens, NEW st \in State
    PROVE  LET g == [h EXCEPT !.tt_to_state[s] = st] IN
           /\ g \in Manager
           /\ g.incoming_hbs = h.incoming_hbs
           /\ g.sent = h.sent
           /\ g.tt_to_state = [h.tt_to_state EXCEPT ![s] = st]
BY Zenon DEF Manager

\* The states the manager starts from.
LEMMA States ==
    /\ Untracked \in State /\ Untracked.last_recorded_details = 0
    /\ Reporting \in State /\ Reporting.last_recorded_details = 0
BY Zenon DEF State, Untracked, Reporting

\* A state stays one when its heartbeat is replaced or its report returns.
LEMMA StateChanges ==
    ASSUME NEW st \in State, NEW n \in Nat
    PROVE  /\ [st EXCEPT !.last_recorded_details = n] \in State
           /\ [st EXCEPT !.last_recorded_details = n].last_recorded_details = n
           /\ [st EXCEPT !.is_record_in_flight = FALSE, !.throttled = TRUE] \in State
           /\ [st EXCEPT !.is_record_in_flight = FALSE, !.throttled = TRUE].last_recorded_details
              = st.last_recorded_details
BY Zenon DEF State

\* record either reports the heartbeat or lets it wait.
LEMMA RecordEffect ==
    ASSUME NEW h \in Manager, NEW s \in Tokens, NEW n \in Nat
    PROVE  /\ Frame(h, record(h, s, n), s)
           /\ \/ record(h, s, n).sent[s] = h.sent[s] /\ Waiting(record(h, s, n), s) = n
              \/ record(h, s, n).sent[s] = n /\ Waiting(record(h, s, n), s) = 0
<1>1. CASE h.tt_to_state[s].tracked
  <2> DEFINE st == [h.tt_to_state[s] EXCEPT !.last_recorded_details = n]
             g == [h EXCEPT !.tt_to_state[s] = st]
  <2>0. st \in State /\ st.last_recorded_details = n
    BY StateChanges, ZenonT(30) DEF Manager
  <2> HIDE DEF st
  <2>1. /\ g \in Manager /\ g.incoming_hbs = h.incoming_hbs /\ g.sent = h.sent
        /\ g.tt_to_state = [h.tt_to_state EXCEPT ![s] = st]
    BY <2>0, StateEffect
  <2>2. Waiting(g, s) = n /\ \A t \in Tokens \ {s} : Waiting(g, t) = Waiting(h, t)
    BY <2>0, <2>1 DEF Waiting, Manager
  <2>3. record(h, s, n) = g
    BY <1>1 DEF record, Manager, st
  <2> HIDE DEF g
  <2>4. QED
    BY <2>1, <2>2, <2>3 DEF Frame
<1>2. CASE ~h.tt_to_state[s].tracked
  <2> DEFINE f == [h EXCEPT !.tt_to_state[s] = Reporting]
             g == Report(f, s, n)
  <2>1. /\ f \in Manager /\ f.incoming_hbs = h.incoming_hbs /\ f.sent = h.sent
        /\ f.tt_to_state = [h.tt_to_state EXCEPT ![s] = Reporting]
    BY States, StateEffect
  <2>2. record(h, s, n) = g
    BY <1>2 DEF record
  <2> HIDE DEF f
  <2>3. /\ g \in Manager /\ g.incoming_hbs = h.incoming_hbs
        /\ g.tt_to_state = [h.tt_to_state EXCEPT ![s] = Reporting]
        /\ g.sent = [h.sent EXCEPT ![s] = n]
    BY <2>1, ReportEffect
  <2> HIDE DEF g
  <2>4. Waiting(g, s) = 0 /\ \A t \in Tokens \ {s} : Waiting(g, t) = Waiting(h, t)
    BY <2>3, States DEF Waiting, Manager
  <2>5. g.sent[s] = n
    BY <2>3 DEF Manager
  <2>6. h.sent[s] = n => g.sent = h.sent
    BY <2>3 DEF Manager
  <2>7. QED
    BY <2>2, <2>3, <2>4, <2>5, <2>6 DEF Frame
<1>3. QED
  BY <1>1, <1>2

\* What waited for s still waits, is dropped, or is reported.
Moves(h, g, s) ==
    /\ Frame(h, g, s)
    /\ \/ g.sent[s] = h.sent[s] /\ Waiting(g, s) \in {0, Waiting(h, s)}
       \/ g.sent[s] = Waiting(h, s) /\ Waiting(h, s) # 0 /\ Waiting(g, s) = 0

\* A completed report touches no heartbeat.
LEMMA ReportCompletedMoves ==
    ASSUME NEW h \in Manager, NEW s \in Tokens
    PROVE  Moves(h, handle_report_completed(h, s), s)
<1> DEFINE f == [h EXCEPT !.notified = @ \cup (h.tt_needs_flush \cap {s}),
                          !.tt_needs_flush = @ \ {s}]
<1>1. /\ f \in Manager /\ f.incoming_hbs = h.incoming_hbs /\ f.sent = h.sent
      /\ f.tt_to_state = h.tt_to_state
  BY Zenon DEF Manager
<1>2. handle_report_completed(h, s) = Throttle(f, s)
  BY DEF handle_report_completed
<1> HIDE DEF f
<1> DEFINE g == Throttle(f, s)
<1>3. /\ g \in Manager /\ g.incoming_hbs = f.incoming_hbs /\ g.sent = f.sent
      /\ \A t \in Tokens : Waiting(g, t) = Waiting(f, t)
  <2>1. CASE ~f.tt_to_state[s].tracked
    BY <1>1, <2>1 DEF Throttle
  <2>2. CASE f.tt_to_state[s].tracked
    <3> DEFINE st == [f.tt_to_state[s] EXCEPT !.is_record_in_flight = FALSE, !.throttled = TRUE]
               states == [f.tt_to_state EXCEPT ![s] = st]
               sleeping == [f.sleepers EXCEPT ![s] = @ + 1]
    <3>1. /\ st \in State
          /\ st.last_recorded_details = f.tt_to_state[s].last_recorded_details
      BY <1>1, StateChanges, Zenon DEF Manager
    <3>2. states \in [Tokens -> State] /\ sleeping \in [Tokens -> Nat]
      BY <1>1, <3>1 DEF Manager
    <3>3. g = [f EXCEPT !.tt_to_state = states, !.sleepers = sleeping]
      BY <1>1, <2>2, ZenonT(30) DEF Throttle, Manager
    <3>4. \A t \in Tokens :
             states[t].last_recorded_details = f.tt_to_state[t].last_recorded_details
      BY <1>1, <3>1 DEF Manager
    <3> HIDE DEF st, states, sleeping, g
    <3>5. g \in Manager /\ g.incoming_hbs = f.incoming_hbs /\ g.sent = f.sent
          /\ g.tt_to_state = states
      BY <1>1, <3>2, <3>3, Zenon DEF Manager
    <3>6. QED
      BY <3>4, <3>5 DEF Waiting
  <2>3. QED
    BY <2>1, <2>2
<1> HIDE DEF g
<1>4. QED
  BY <1>1, <1>2, <1>3 DEF Moves, Frame, Waiting, g

\* An elapsed throttle reports what waits, or forgets the token.
LEMMA ThrottleCompletedMoves ==
    ASSUME NEW h \in Manager, NEW s \in Tokens
    PROVE  Moves(h, handle_throttle_completed(h, s), s)
<1> DEFINE g == handle_throttle_completed(h, s)
<1>1. CASE ~h.tt_to_state[s].tracked
  <2>1. g = h
    BY <1>1 DEF handle_throttle_completed
  <2>2. QED
    BY <2>1 DEF Moves, Frame
<1>2. CASE h.tt_to_state[s].tracked /\ Waiting(h, s) = 0
  <2>1. g = [h EXCEPT !.tt_to_state[s] = Untracked]
    BY <1>2 DEF handle_throttle_completed, Waiting
  <2>2. /\ g \in Manager /\ g.incoming_hbs = h.incoming_hbs /\ g.sent = h.sent
        /\ g.tt_to_state = [h.tt_to_state EXCEPT ![s] = Untracked]
    BY <2>1, States, StateEffect
  <2> HIDE DEF g
  <2>3. Waiting(g, s) = 0 /\ \A t \in Tokens \ {s} : Waiting(g, t) = Waiting(h, t)
    BY <2>2, States DEF Waiting, Manager
  <2>4. QED
    BY <2>2, <2>3 DEF Moves, Frame, g
<1>3. CASE h.tt_to_state[s].tracked /\ Waiting(h, s) # 0
  <2> DEFINE f == [h EXCEPT !.tt_to_state[s] = Reporting]
  <2>1. g = Report(f, s, Waiting(h, s))
    BY <1>3 DEF handle_throttle_completed, Waiting
  <2>2. /\ f \in Manager /\ f.incoming_hbs = h.incoming_hbs /\ f.sent = h.sent
        /\ f.tt_to_state = [h.tt_to_state EXCEPT ![s] = Reporting]
    BY States, StateEffect
  <2>3. Waiting(h, s) \in Nat
    BY DEF Waiting, Manager, State
  <2> HIDE DEF f, g
  <2>4. /\ g \in Manager /\ g.incoming_hbs = h.incoming_hbs
        /\ g.tt_to_state = [h.tt_to_state EXCEPT ![s] = Reporting]
        /\ g.sent = [h.sent EXCEPT ![s] = Waiting(h, s)]
    BY <2>1, <2>2, <2>3, ReportEffect
  <2>5. Waiting(g, s) = 0 /\ \A t \in Tokens \ {s} : Waiting(g, t) = Waiting(h, t)
    BY <2>4, States DEF Waiting, Manager
  <2>6. /\ g.sent[s] = Waiting(h, s)
        /\ g.sent[s] = h.sent[s] => g.sent = h.sent
    BY <2>4 DEF Manager
  <2>7. QED
    BY <1>3, <2>4, <2>5, <2>6 DEF Moves, Frame, g
<1>4. QED
  BY <1>1, <1>2, <1>3

\* An eviction drops what waits, or flushes it.
LEMMA EvictMoves ==
    ASSUME NEW h \in Manager, NEW s \in Tokens, NEW b \in BOOLEAN
    PROVE  Moves(h, evict(h, s, b), s)
<1> DEFINE st == h.tt_to_state[s]
           flush == b /\ st.last_recorded_details # 0
           waits == flush \/ st.is_record_in_flight
           asleep == [h.sleepers EXCEPT ![s] = IF st.throttled THEN 0 ELSE @]
           flushes == h.tt_needs_flush \cup (IF waits THEN {s} ELSE {})
           told == h.notified \cup (IF waits THEN {} ELSE {s})
           states == [h.tt_to_state EXCEPT ![s] = Untracked]
           f == [h EXCEPT !.tt_to_state = states, !.sleepers = asleep,
                          !.tt_needs_flush = flushes, !.notified = told]
           g == evict(h, s, b)
<1>1. /\ states \in [Tokens -> State] /\ asleep \in [Tokens -> Nat]
      /\ flushes \in SUBSET Tokens /\ told \in SUBSET Tokens
  BY States DEF Manager
<1>2. g = IF flush THEN Report(f, s, st.last_recorded_details) ELSE f
  BY DEF evict, Manager
<1>3. st.last_recorded_details \in Nat /\ Waiting(h, s) = st.last_recorded_details
  BY DEF Waiting, Manager, State
<1>4. states[s].last_recorded_details = 0
      /\ \A t \in Tokens \ {s} : states[t] = h.tt_to_state[t]
  BY States DEF Manager
<1> HIDE DEF states, asleep, flushes, told, waits, g
<1>5. f \in Manager /\ f.incoming_hbs = h.incoming_hbs /\ f.sent = h.sent /\ f.tt_to_state = states
  BY <1>1, Zenon DEF Manager
<1> HIDE DEF f, st
<1>6. CASE ~flush
  <2>1. g = f
    BY <1>2, <1>6
  <2>2. QED
    BY <1>4, <1>5, <2>1 DEF Moves, Frame, Waiting, g
<1>7. CASE flush
  <2>1. /\ g \in Manager /\ g.incoming_hbs = h.incoming_hbs /\ g.tt_to_state = states
        /\ g.sent = [h.sent EXCEPT ![s] = Waiting(h, s)]
    BY <1>2, <1>3, <1>5, <1>7, ReportEffect
  <2>2. g.sent[s] = Waiting(h, s) /\ (g.sent[s] = h.sent[s] => g.sent = h.sent)
    BY <2>1 DEF Manager
  <2>3. QED
    BY <1>3, <1>4, <1>7, <2>1, <2>2, Zenon DEF Moves, Frame, Waiting, g
<1>8. QED
  BY <1>6, <1>7

\* From h to g nothing was reported, or one heartbeat newer than the reports so far.
Sends(h, g, top) ==
    \/ g.sent = h.sent
    \/ \E t \in Tokens : \E n \in (h.sent[t] + 1)..top[t] : g.sent = [h.sent EXCEPT ![t] = n]

\* The fields of a manager that the order is about.
LEMMA Fields ==
    ASSUME NEW h \in Manager, NEW t \in Tokens
    PROVE  /\ h.sent \in [Tokens -> Nat] /\ h.sent[t] \in Nat /\ Waiting(h, t) \in Nat
           /\ h.incoming_hbs \in Seq(Action)
BY DEF Manager, State, Waiting

\* A heartbeat that is reported, dropped or left where it is keeps the order.
LEMMA OrderForward ==
    ASSUME NEW n \in Nat, NEW w \in Nat, NEW q, NEW t, NEW top \in Nat, Order(n, w, q, t, top),
           NEW m, NEW v,
           \/ m = n /\ v = w
           \/ m = n /\ v = 0
           \/ m = w /\ w # 0 /\ v = 0,
           \A i \in 1..Len(q) : q[i].details \in Nat
    PROVE  Order(m, v, q, t, top)
BY SMT DEF Order

\* Moving what waits keeps the order.
LEMMA MovesOrder ==
    ASSUME NEW h \in Manager, NEW g \in Manager, NEW s \in Tokens, Moves(h, g, s),
           NEW top \in [Tokens -> Nat], \A t \in Tokens : Ordered(h, t, top[t])
    PROVE  /\ \A t \in Tokens : Ordered(g, t, top[t])
           /\ Sends(h, g, top)
<1>1. \A t \in Tokens : /\ h.sent[t] \in Nat /\ Waiting(h, t) \in Nat /\ top[t] \in Nat
                        /\ Order(h.sent[t], Waiting(h, t), h.incoming_hbs, t, top[t])
  BY Fields, Zenon DEF Ordered, Waiting
<1>2. ASSUME NEW t \in Tokens
      PROVE  Ordered(g, t, top[t])
  <2>1. CASE t # s
    <3>1. g.sent[t] = h.sent[t] /\ Waiting(g, t) = Waiting(h, t)
          /\ g.incoming_hbs = h.incoming_hbs
      BY <2>1, Fields, SMTT(30) DEF Moves, Frame
    <3>2. QED
      BY <1>1, <3>1 DEF Ordered, Waiting
  <2>2. CASE t = s
    <3>1. /\ g.incoming_hbs = h.incoming_hbs
          /\ \/ g.sent[t] = h.sent[t] /\ Waiting(g, t) = Waiting(h, t)
             \/ g.sent[t] = h.sent[t] /\ Waiting(g, t) = 0
             \/ g.sent[t] = Waiting(h, t) /\ Waiting(h, t) # 0 /\ Waiting(g, t) = 0
      BY <2>2 DEF Moves, Frame
    <3>2. ASSUME NEW i \in 1..Len(h.incoming_hbs)
          PROVE  h.incoming_hbs[i].details \in Nat
      <4>1. h.incoming_hbs[i] \in Action
        BY Fields
      <4>2. QED
        BY <4>1 DEF Action
    <3>3. Order(g.sent[t], Waiting(g, t), h.incoming_hbs, t, top[t])
      <4>1. /\ h.sent[t] \in Nat /\ Waiting(h, t) \in Nat /\ top[t] \in Nat
            /\ Order(h.sent[t], Waiting(h, t), h.incoming_hbs, t, top[t])
        BY <1>1
      <4>2. QED
        BY <3>1, <3>2, <4>1, OrderForward, SMTT(30)
    <3>4. QED
      BY <3>1, <3>3 DEF Ordered, Waiting
  <2>3. QED
    BY <2>1, <2>2
<1>3. Sends(h, g, top)
  <2>1. CASE g.sent[s] = h.sent[s]
    BY <2>1 DEF Moves, Frame, Sends
  <2>2. CASE g.sent[s] # h.sent[s]
    <3>1. g.sent[s] = Waiting(h, s) /\ Waiting(h, s) # 0
          /\ g.sent = [h.sent EXCEPT ![s] = g.sent[s]]
      BY <2>2 DEF Moves, Frame
    <3>2. g.sent[s] \in (h.sent[s] + 1)..top[s]
      BY <1>1, <3>1 DEF Order
    <3>3. QED
      BY <3>1, <3>2, Zenon DEF Sends
  <2>3. QED
    BY <2>1, <2>2
<1>4. QED
  BY <1>2, <1>3

\* One turn of the manager's loop keeps the order and reports at most one
\* heartbeat, a newer one.
LEMMA HandleActionOrder ==
    ASSUME NEW h \in Manager, h.incoming_hbs # <<>>,
           NEW top \in [Tokens -> Nat], \A t \in Tokens : Ordered(h, t, top[t])
    PROVE  /\ HandleAction(h) \in Manager
           /\ \A t \in Tokens : Ordered(HandleAction(h), t, top[t])
           /\ Sends(h, HandleAction(h), top)
<1> DEFINE a == Head(h.incoming_hbs)
           q == Tail(h.incoming_hbs)
           rest == [h EXCEPT !.incoming_hbs = q]
           g == HandleAction(h)
<1>1. h.incoming_hbs \in Seq(Action)
  BY DEF Manager
<1>2. a \in Action /\ q \in Seq(Action) /\ a = h.incoming_hbs[1]
  BY <1>1
<1>3. /\ a.tok \in Tokens /\ a.details \in Nat /\ a.should_flush \in BOOLEAN
      /\ a.type \in {"SendHeartbeat", "Evict", "CompleteReport", "CompleteThrottle"}
  BY <1>2 DEF Action
<1> HIDE DEF a, q
<1>4. /\ rest \in Manager /\ rest.sent = h.sent /\ rest.tt_to_state = h.tt_to_state
      /\ rest.incoming_hbs = q
  BY <1>2, Zenon DEF Manager
<1>5. ASSUME NEW t \in Tokens
      PROVE  /\ Order(h.sent[t], Waiting(h, t), q, t, top[t])
             /\ a.type = "SendHeartbeat" /\ a.tok = t =>
                   /\ Order(a.details, 0, q, t, top[t])
                   /\ Order(h.sent[t], a.details, q, t, top[t])
                   /\ h.sent[t] < a.details
                   /\ a.details <= top[t]
  <2>1. Order(h.sent[t], Waiting(h, t), h.incoming_hbs, t, top[t])
    BY DEF Ordered, Waiting
  <2>2. /\ Order(h.sent[t], Waiting(h, t), Tail(h.incoming_hbs), t, top[t])
        /\ Beat(h.incoming_hbs, 1, t) =>
              /\ Order(Head(h.incoming_hbs).details, 0, Tail(h.incoming_hbs), t, top[t])
              /\ Order(h.sent[t], Head(h.incoming_hbs).details, Tail(h.incoming_hbs), t, top[t])
              /\ h.sent[t] < Head(h.incoming_hbs).details
              /\ Head(h.incoming_hbs).details <= top[t]
    BY <2>1, Fields, OrderTail
  <2>3. QED
    BY <1>2, <2>2 DEF a, q, Beat
<1>6. \A t \in Tokens : Ordered(rest, t, top[t])
  BY <1>4, <1>5, Zenon DEF Ordered, Waiting
<1>7. CASE a.type = "SendHeartbeat"
  <2>1. g = record(rest, a.tok, a.details)
    BY <1>7 DEF HandleAction, a, q
  <2> HIDE DEF rest, g
  <2>2. /\ Frame(rest, g, a.tok)
        /\ \/ g.sent[a.tok] = rest.sent[a.tok] /\ Waiting(g, a.tok) = a.details
           \/ g.sent[a.tok] = a.details /\ Waiting(g, a.tok) = 0
    BY <1>3, <1>4, <2>1, RecordEffect
  <2>3. g \in Manager /\ g.incoming_hbs = q
    BY <1>4, <2>2 DEF Frame
  <2>4. ASSUME NEW t \in Tokens
        PROVE  Ordered(g, t, top[t])
    <3>1. CASE t = a.tok
      BY <1>4, <1>5, <1>7, <2>2, <2>3, <3>1 DEF Ordered, Waiting
    <3>2. CASE t # a.tok
      <4>1. g.sent[t] = h.sent[t] /\ Waiting(g, t) = Waiting(h, t)
        BY <1>3, <1>4, <2>2, <3>2, Fields DEF Frame, Waiting
      <4>2. QED
        BY <1>5, <2>3, <4>1 DEF Ordered, Waiting
    <3>3. QED
      BY <3>1, <3>2
  <2>5. Sends(h, g, top)
    <3>1. CASE g.sent[a.tok] = h.sent[a.tok]
      BY <1>4, <2>2, <3>1 DEF Frame, Sends
    <3>2. CASE g.sent[a.tok] # h.sent[a.tok]
      <4>1. g.sent = [h.sent EXCEPT ![a.tok] = a.details]
        BY <1>4, <2>2, <3>2 DEF Frame
      <4>2. a.details \in (h.sent[a.tok] + 1)..top[a.tok]
        BY <1>3, <1>5, <1>7, Fields
      <4>3. QED
        BY <1>3, <4>1, <4>2, SMTT(30) DEF Sends
    <3>3. QED
      BY <3>1, <3>2
  <2>6. QED
    BY <2>3, <2>4, <2>5 DEF g
<1>8. CASE a.type # "SendHeartbeat"
  <2>1. Moves(rest, g, a.tok)
    <3>1. CASE a.type = "CompleteReport"
      BY <1>3, <1>4, <3>1, ReportCompletedMoves DEF HandleAction, a, q
    <3>2. CASE a.type = "CompleteThrottle"
      BY <1>3, <1>4, <3>2, ThrottleCompletedMoves DEF HandleAction, a, q
    <3>3. CASE a.type = "Evict"
      BY <1>3, <1>4, <3>3, EvictMoves DEF HandleAction, a, q
    <3>4. QED
      BY <1>3, <1>8, <3>1, <3>2, <3>3
  <2> HIDE DEF rest, g
  <2>2. g \in Manager
    BY <2>1 DEF Moves, Frame
  <2>3. (\A t \in Tokens : Ordered(g, t, top[t])) /\ Sends(rest, g, top)
    BY <1>3, <1>4, <1>6, <2>1, <2>2, MovesOrder
  <2>4. QED
    BY <1>4, <2>2, <2>3, Zenon DEF Sends, g
<1>9. QED
  BY <1>7, <1>8

\* Sending another action, or a heartbeat newer than the others, keeps the order.
LEMMA SendOrder ==
    ASSUME NEW h \in Manager, NEW a \in Action, NEW top \in [Tokens -> Nat],
           NEW new \in [Tokens -> Nat], \A t \in Tokens : top[t] <= new[t],
           a.type = "SendHeartbeat" => a.details > top[a.tok] /\ a.details <= new[a.tok],
           \A t \in Tokens : Ordered(h, t, top[t])
    PROVE  /\ Send(h, a) \in Manager
           /\ Send(h, a).sent = h.sent
           /\ \A t \in Tokens : Ordered(Send(h, a), t, new[t])
<1> DEFINE q == Append(h.incoming_hbs, a)
           g == [h EXCEPT !.incoming_hbs = q]
<1>1. h.incoming_hbs \in Seq(Action)
  BY DEF Manager
<1>2. ASSUME NEW t \in Tokens
      PROVE  Order(h.sent[t], Waiting(h, t), q, t, new[t])
  <2>1. Order(h.sent[t], Waiting(h, t), h.incoming_hbs, t, top[t])
    BY DEF Ordered, Waiting
  <2>2. h.sent[t] \in Nat /\ Waiting(h, t) \in Nat /\ top[t] \in Nat /\ new[t] \in Nat
    BY Fields
  <2>3. QED
    BY <1>1, <2>1, <2>2, OrderAppend, SMTT(30)
<1>3. CASE h.running
  <2>1. Send(h, a) = g
    BY <1>3 DEF Send
  <2>2. q \in Seq(Action)
    BY <1>1
  <2> HIDE DEF q
  <2>3. g \in Manager /\ g.sent = h.sent /\ g.tt_to_state = h.tt_to_state /\ g.incoming_hbs = q
    BY <2>2, Zenon DEF Manager
  <2> HIDE DEF g
  <2>4. QED
    BY <1>2, <2>1, <2>3 DEF Ordered, Waiting
<1>4. CASE ~h.running
  <2>1. Send(h, a) = h
    BY <1>4 DEF Send
  <2>2. ASSUME NEW t \in Tokens
        PROVE  Ordered(h, t, new[t])
    <3>1. Order(h.sent[t], Waiting(h, t), h.incoming_hbs, t, top[t])
      BY DEF Ordered, Waiting
    <3>2. h.sent[t] \in Nat /\ Waiting(h, t) \in Nat /\ top[t] \in Nat /\ new[t] \in Nat
      BY Fields
    <3>3. ASSUME NEW i \in 1..Len(h.incoming_hbs)
          PROVE  h.incoming_hbs[i].details \in Nat
      <4>1. h.incoming_hbs[i] \in Action
        BY <1>1
      <4>2. QED
        BY <4>1 DEF Action
    <3>4. top[t] <= new[t]
      BY SMTT(30)
    <3>5. Order(h.sent[t], Waiting(h, t), h.incoming_hbs, t, new[t])
      BY <3>1, <3>2, <3>3, <3>4 DEF Order
    <3>6. QED
      BY <3>5 DEF Ordered, Waiting
  <2>3. QED
    BY <2>1, <2>2
<1>5. QED
  BY <1>3, <1>4

\* The bounds are numbers: a call holds a heartbeat only after the first.
LEMMA TopsType == MailboxInv => Tops \in [Tokens -> Nat]
BY DEF MailboxInv, ActType, Tops

\* The initial state maps to the empty mailbox.
LEMMA MailboxInit == Init => MailboxInv /\ Mailbox!Init
<1> SUFFICES ASSUME Init
             PROVE  MailboxInv /\ Mailbox!Init
  OBVIOUS
<1>1. NewManager \in Manager
  BY States, SMTT(30) DEF NewManager, Manager
<1>2. ActType
  BY SMTT(30) DEF Init, ActType, NewActivity, Phases
<1>3. ASSUME NEW t \in Tokens
      PROVE  heartbeating[t] = 0 /\ act[t].given = 0 /\ Ordered(hb, t, Tops[t])
             /\ act[t].phase = "new"
  BY <1>3, States DEF Init, NewActivity, NewManager, Ordered, Order, Tops
<1>4. MailboxInv
  BY <1>1, <1>2, <1>3 DEF Init, MailboxInv
<1>5. Mailbox!Init
  BY <1>3, ZenonT(30) DEF Init, NewManager, Mailbox!Init, Given, Open
<1>6. QED
  BY <1>4, <1>5

\* A step that gives no heartbeat and closes no activity.
Quiet ==
    /\ heartbeating' = heartbeating
    /\ \A t \in Tokens : act'[t].given = act[t].given /\ Open'[t] = Open[t]

\* Such a step changes the mailbox by what the manager sends alone.
LEMMA QuietMaps ==
    ASSUME MailboxInv, ActType', Quiet
    PROVE  Given' = Given /\ Open' = Open /\ Tops' = Tops
BY DEF Quiet, MailboxInv, ActType, Given, Open, Tops

\* A quiet step of the manager, or none.
LEMMA QuietStep ==
    ASSUME MailboxInv, ActType', Quiet, hb' \in Manager, Sends(hb, hb', Tops),
           \A t \in Tokens : Ordered(hb', t, Tops[t])
    PROVE  MailboxInv' /\ [Mailbox!Next]_(Mailbox!mailbox)
<1>1. Given' = Given /\ Open' = Open /\ Tops' = Tops
  BY QuietMaps
<1>2. MailboxInv'
  BY <1>1 DEF MailboxInv, Quiet
<1>3. CASE hb.sent' = hb.sent
  BY <1>1, <1>2, <1>3, SMTT(30) DEF Mailbox!mailbox
<1>4. ASSUME NEW t \in Tokens, NEW n \in (hb.sent[t] + 1)..Tops[t],
             hb'.sent = [hb.sent EXCEPT ![t] = n]
      PROVE  Mailbox!Next
  <2>1. Tops[t] <= Given[t] /\ Tops[t] \in Nat /\ Given[t] \in Nat
    BY TopsType DEF MailboxInv, ActType, Tops, Given
  <2>2. hb.sent[t] \in Nat
    BY Fields DEF MailboxInv
  <2>3. n \in (hb.sent[t] + 1)..Given[t]
    BY <2>1, <2>2
  <2>4. Mailbox!Send(t)
    BY <1>1, <1>4, <2>3 DEF Mailbox!Send
  <2>5. QED
    BY <2>4, SMTT(30) DEF Mailbox!Next
<1>5. QED
  BY <1>2, <1>3, <1>4, ZenonT(30) DEF Sends

\* A quiet step that leaves the manager alone.
LEMMA IdleStep ==
    ASSUME MailboxInv, ActType', Quiet, hb' = hb
    PROVE  MailboxInv' /\ [Mailbox!Next]_(Mailbox!mailbox)
<1>1. \A t \in Tokens : Ordered(hb', t, Tops[t])
  BY DEF MailboxInv
<1>2. Sends(hb, hb', Tops) /\ hb' \in Manager
  BY DEF Sends, MailboxInv
<1>3. QED
  BY <1>1, <1>2, QuietStep

\* A quiet step that hands the manager an action other than a heartbeat, while
\* its bookkeeping of requests and throttles changes.
LEMMA SendStep ==
    ASSUME MailboxInv, ActType', Quiet, NEW h \in Manager, NEW a \in Action,
           h.sent = hb.sent, h.tt_to_state = hb.tt_to_state,
           h.incoming_hbs = hb.incoming_hbs, a.type # "SendHeartbeat", hb' = Send(h, a)
    PROVE  MailboxInv' /\ [Mailbox!Next]_(Mailbox!mailbox)
<1>1. \A t \in Tokens : Ordered(h, t, Tops[t])
  BY DEF MailboxInv, Ordered
<1>2. Tops \in [Tokens -> Nat] /\ \A t \in Tokens : Tops[t] <= Tops[t]
  BY TopsType, SMTT(30)
<1>3. hb' \in Manager /\ hb'.sent = h.sent /\ \A t \in Tokens : Ordered(hb', t, Tops[t])
  BY <1>1, <1>2, SendOrder
<1>4. QED
  BY <1>3, QuietStep DEF Sends

\* Lang's heartbeat: the mailbox gets it, the manager will.
LEMMA GiveStep ==
    ASSUME MailboxInv, ActType', NEW t \in Tokens, RecordHeartbeat(t)
    PROVE  MailboxInv' /\ [Mailbox!Next]_(Mailbox!mailbox)
<1>1. /\ act[t].given \in Nat /\ heartbeating[t] = 0 /\ hb' = hb
      /\ heartbeating' = [heartbeating EXCEPT ![t] = act[t].given + 1]
      /\ t \in Outstanding
  BY DEF MailboxInv, ActType, RecordHeartbeat
<1>2. ASSUME NEW s \in Tokens
      PROVE  /\ act'[s].given = (IF s = t THEN act[s].given + 1 ELSE act[s].given)
             /\ act'[s].phase = act[s].phase
  BY DEF MailboxInv, ActType, RecordHeartbeat
<1>3. Open' = Open /\ Given' = [Given EXCEPT ![t] = @ + 1] /\ Open[t]
  BY <1>1, <1>2, ZenonT(30) DEF Open, Given, Outstanding
<1>4. ASSUME NEW s \in Tokens
      PROVE  Tops'[s] = Tops[s] /\ heartbeating'[s] \in {0, act'[s].given}
  BY <1>1, <1>2, SMTT(30) DEF Tops, MailboxInv, ActType
<1>5. MailboxInv'
  BY <1>1, <1>4 DEF MailboxInv
<1>6. Mailbox!Give(t)
  BY <1>1, <1>3 DEF Mailbox!Give
<1>7. QED
  BY <1>5, <1>6 DEF Mailbox!Next

\* The call hands its heartbeat over: the newest in the channel.
LEMMA HandOverStep ==
    ASSUME MailboxInv, NEW t \in Tokens, SendHeartbeat(t)
    PROVE  MailboxInv' /\ [Mailbox!Next]_(Mailbox!mailbox)
<1> DEFINE a == Heartbeat(t, heartbeating[t])
<1>1. /\ heartbeating[t] = act[t].given /\ act[t].given \in Nat \ {0}
      /\ act' = act /\ hb' = Send(hb, a)
      /\ heartbeating' = [heartbeating EXCEPT ![t] = 0]
  BY SMTT(30) DEF MailboxInv, ActType, SendHeartbeat
<1>2. a \in Action /\ a.tok = t /\ a.details = act[t].given
  BY <1>1, SMTT(30) DEF Heartbeat, Action
<1>3. /\ Tops \in [Tokens -> Nat] /\ Tops' \in [Tokens -> Nat]
      /\ Tops[t] = act[t].given - 1 /\ Tops'[t] = act[t].given
      /\ \A s \in Tokens \ {t} : Tops'[s] = Tops[s]
  BY <1>1, TopsType DEF Tops, MailboxInv, ActType
<1>4. \A s \in Tokens : Tops[s] <= Tops'[s]
  BY <1>1, <1>3
<1> HIDE DEF a
<1>5. /\ hb' \in Manager /\ hb'.sent = hb.sent
      /\ \A s \in Tokens : Ordered(hb', s, Tops'[s])
  <2>1. a.details > Tops[a.tok] /\ a.details <= Tops'[a.tok]
    BY <1>1, <1>2, <1>3
  <2>2. hb \in Manager /\ \A s \in Tokens : Ordered(hb, s, Tops[s])
    BY DEF MailboxInv
  <2> DEFINE new == Tops'
  <2>3. new \in [Tokens -> Nat] /\ \A s \in Tokens : Tops[s] <= new[s]
    BY <1>3, <1>4
  <2>4. a.details <= new[a.tok]
    BY <2>1, SMTT(30)
  <2> HIDE DEF new
  <2>5. /\ Send(hb, a) \in Manager /\ Send(hb, a).sent = hb.sent
        /\ \A s \in Tokens : Ordered(Send(hb, a), s, new[s])
    BY <1>2, <1>3, <2>1, <2>2, <2>3, <2>4, SendOrder, SMTT(30)
  <2>6. QED
    BY <1>1, <2>5 DEF new
<1>6. MailboxInv'
  BY <1>1, <1>5, SMTT(30) DEF MailboxInv, ActType
<1>7. UNCHANGED Mailbox!mailbox
  BY <1>1, <1>5 DEF Mailbox!mailbox, Given, Open
<1>8. QED
  BY <1>6, <1>7, SMTT(30)

\* A completion closes the mailbox and hands the eviction over.
LEMMA CloseStep ==
    ASSUME MailboxInv, ActType', NEW t \in Tokens, TakeTask(t)
    PROVE  MailboxInv' /\ [Mailbox!Next]_(Mailbox!mailbox)
<1> DEFINE a == Evict(t, should_flush(act[t]))
<1>1. a \in Action /\ a.type # "SendHeartbeat"
  BY DEF Evict, Action, should_flush
<1>2. hb' = Send(hb, a) /\ heartbeating' = heartbeating
  BY DEF TakeTask
<1>3. ASSUME NEW s \in Tokens
      PROVE  /\ act'[s].given = act[s].given
             /\ act'[s].phase = (IF s = t THEN "evicting" ELSE act[s].phase)
  BY DEF MailboxInv, ActType, TakeTask
<1>4. Given' = Given /\ Tops' = Tops /\ Open' = [Open EXCEPT ![t] = FALSE]
  <2>1. Given' = Given
    BY <1>3, SMTT(30) DEF Given
  <2>2. Tops' = Tops
    BY <1>2, <1>3 DEF Tops
  <2>3. Open' = [Open EXCEPT ![t] = FALSE]
    <3> DEFINE Runs(p) == p \in {"new", "outstanding", "counted"}
    <3>1. ASSUME NEW s \in Tokens
          PROVE  Runs(act'[s].phase) = (IF s = t THEN FALSE ELSE Runs(act[s].phase))
      <4>1. CASE s = t
        <5>1. act'[s].phase = "evicting"
          BY <1>3, <4>1
        <5>2. Runs(act'[s].phase) = FALSE
          BY <5>1
        <5>3. QED
          BY <4>1, <5>2, Zenon
      <4>2. CASE s # t
        BY <1>3, <4>2
      <4>3. QED
        BY <4>1, <4>2, Zenon
    <3>2. /\ Open = [s \in Tokens |-> Runs(act[s].phase)]
          /\ Open' = [s \in Tokens |-> Runs(act'[s].phase)]
      BY DEF Open
    <3>3. [Open EXCEPT ![t] = FALSE]
             = [s \in Tokens |-> IF s = t THEN FALSE ELSE Runs(act[s].phase)]
      BY <3>2, Zenon
    <3> HIDE DEF Runs
    <3>4. QED
      BY <3>1, <3>2, <3>3, Zenon
  <2>4. QED
    BY <2>1, <2>2, <2>3
<1>5. Tops \in [Tokens -> Nat] /\ \A s \in Tokens : Tops[s] <= Tops[s]
  BY TopsType, SMTT(30)
<1> HIDE DEF a
<1>6. /\ hb' \in Manager /\ hb'.sent = hb.sent
      /\ \A s \in Tokens : Ordered(hb', s, Tops[s])
  BY <1>1, <1>2, <1>5, SendOrder, SMTT(30) DEF MailboxInv
<1>7. MailboxInv'
  BY <1>2, <1>3, <1>4, <1>6 DEF MailboxInv
<1>8. Mailbox!Close(t)
  BY <1>4, <1>6 DEF Mailbox!Close
<1>9. QED
  BY <1>7, <1>8, SMTT(30) DEF Mailbox!Next

\* Steps of the polls, timers, the shutdown and the end of a completion are quiet.
LEMMA QuietActions ==
    ASSUME MailboxInv, TeardownInv,
           \/ PollCancel \/ StartsComplete \/ UntilLooksAtMap \/ UntilLooksAtCount \/ UntilWakes
           \/ GracePeriodElapses \/ InitiateShutdown \/ Shutdown0 \/ ShutdownLocks
           \/ ShutdownStopsHeartbeats \/ ShutdownJoins \/ HeartbeatStep
           \/ \E t \in Tokens :
                 \/ PollStart(t) \/ LocalTimeout(t) \/ CancelActivity(t) \/ ThrottleElapses(t)
                 \/ RequestReturns(t) \/ LangCompletes(t) \/ Evicted(t) \/ Reported(t)
           \/ UNCHANGED vars
    PROVE  Quiet
<1> USE DEF MailboxInv, ActType, Quiet, Open
<1>1. CASE PollCancel
  <2>1. CASE UNCHANGED act
    BY <1>1, <2>1 DEF PollCancel
  <2>2. ASSUME NEW t \in Tokens, NEW reason, act' = [act EXCEPT ![t].cancel = reason]
        PROVE  Quiet
    BY <1>1, <2>2 DEF PollCancel
  <2>3. QED
    BY <1>1, <2>1, <2>2, ZenonT(30) DEF PollCancel, Outstanding
<1>2. CASE \/ StartsComplete \/ UntilLooksAtMap \/ UntilLooksAtCount \/ UntilWakes
           \/ GracePeriodElapses \/ InitiateShutdown \/ Shutdown0 \/ ShutdownLocks
           \/ ShutdownStopsHeartbeats \/ ShutdownJoins \/ HeartbeatStep \/ UNCHANGED vars
  <2>1. UNCHANGED <<act, heartbeating>>
    BY <1>2, Zenon DEF StartsComplete, UntilLooksAtMap, UntilLooksAtCount, UntilWakes,
                GracePeriodElapses, InitiateShutdown, Shutdown0, ShutdownLocks,
                ShutdownStopsHeartbeats, ShutdownJoins, HeartbeatStep, vars
  <2>2. QED
    BY <2>1
<1>3. ASSUME NEW t \in Tokens, CancelActivity(t) \/ ThrottleElapses(t) \/ RequestReturns(t)
      PROVE  Quiet
  <2>1. UNCHANGED <<act, heartbeating>>
    BY <1>3, Zenon DEF CancelActivity, ThrottleElapses, RequestReturns, HeartbeatReply
  <2>2. QED
    BY <2>1, Zenon
<1>4. ASSUME NEW t \in Tokens, PollStart(t) \/ LocalTimeout(t)
      PROVE  Quiet
  BY <1>4, SMTT(30) DEF PollStart, LocalTimeout
<1>5. ASSUME NEW t \in Tokens, LangCompletes(t)
      PROVE  Quiet
  <2>1. PICK status \in Statuses : Complete(t, status)
    BY <1>5, SMTT(30) DEF LangCompletes
  <2>2. QED
    BY <2>1 DEF Complete
<1>6. ASSUME NEW t \in Tokens, Evicted(t)
      PROVE  Quiet
  BY <1>6 DEF Evicted, Finish
<1>7. ASSUME NEW t \in Tokens, Reported(t)
      PROVE  Quiet
  BY <1>7, SMTT(30) DEF Reported, Finish
<1>8. QED
  BY <1>1, <1>2, <1>3, <1>4, <1>5, <1>6, <1>7, Zenon

\* Every step keeps the order and is a step of the mailbox or none.
LEMMA MailboxStep ==
    ASSUME MailboxInv, TeardownInv, [Next]_vars
    PROVE  MailboxInv' /\ [Mailbox!Next]_(Mailbox!mailbox)
<1>1. ActType'
  BY TeardownStep, SMTT(30) DEF TeardownInv
<1>2. hb \in Manager
  BY DEF MailboxInv
<1>3. ASSUME \/ PollCancel \/ StartsComplete \/ UntilLooksAtMap \/ UntilLooksAtCount
             \/ UntilWakes \/ GracePeriodElapses \/ InitiateShutdown \/ Shutdown0
             \/ ShutdownLocks \/ ShutdownJoins \/ UNCHANGED vars
      PROVE  MailboxInv' /\ [Mailbox!Next]_(Mailbox!mailbox)
  <2>1. hb' = hb
    BY <1>3 DEF PollCancel, StartsComplete, UntilLooksAtMap, UntilLooksAtCount, UntilWakes,
                GracePeriodElapses, InitiateShutdown, Shutdown0, ShutdownLocks, ShutdownJoins,
                vars
  <2>2. QED
    BY <1>1, <1>3, <2>1, QuietActions, IdleStep, SMTT(30)
<1>4. ASSUME NEW t \in Tokens,
             PollStart(t) \/ LocalTimeout(t) \/ CancelActivity(t) \/ LangCompletes(t)
             \/ Reported(t)
      PROVE  MailboxInv' /\ [Mailbox!Next]_(Mailbox!mailbox)
  <2>1. hb' = hb
    BY <1>4, SMTT(30) DEF PollStart, LocalTimeout, CancelActivity, LangCompletes, Complete, Reported
  <2>2. QED
    BY <1>1, <1>4, <2>1, QuietActions, IdleStep
<1>5. ASSUME NEW t \in Tokens, Evicted(t)
      PROVE  MailboxInv' /\ [Mailbox!Next]_(Mailbox!mailbox)
  <2>1. hb' = [hb EXCEPT !.notified = @ \ {t}]
    BY <1>5 DEF Evicted
  <2>2. /\ hb' \in Manager /\ hb'.sent = hb.sent /\ hb'.tt_to_state = hb.tt_to_state
        /\ hb'.incoming_hbs = hb.incoming_hbs
    BY <1>2, <2>1, ZenonT(30) DEF Manager
  <2>3. \A s \in Tokens : Ordered(hb', s, Tops[s])
    BY <2>2, SMTT(30) DEF MailboxInv, Ordered
  <2>4. QED
    BY <1>1, <1>5, <2>2, <2>3, QuietActions, QuietStep DEF Sends
<1>6. ASSUME NEW t \in Tokens, ThrottleElapses(t)
      PROVE  MailboxInv' /\ [Mailbox!Next]_(Mailbox!mailbox)
  <2> DEFINE h == [hb EXCEPT !.sleepers[t] = @ - 1]
  <2>1. [hb.sleepers EXCEPT ![t] = @ - 1] \in [Tokens -> Nat]
    BY <1>2, <1>6 DEF ThrottleElapses, Manager
  <2>2. /\ h \in Manager /\ h.sent = hb.sent /\ h.tt_to_state = hb.tt_to_state
        /\ h.incoming_hbs = hb.incoming_hbs
    BY <1>2, <2>1, Zenon DEF Manager
  <2>3. CompleteThrottle(t) \in Action /\ CompleteThrottle(t).type # "SendHeartbeat"
    BY DEF CompleteThrottle, Action
  <2>4. hb' = Send(h, CompleteThrottle(t))
    BY <1>6, SMTT(30) DEF ThrottleElapses
  <2> HIDE DEF h
  <2>5. QED
    BY <1>1, <1>6, <2>2, <2>3, <2>4, QuietActions, SendStep
<1>7. ASSUME NEW t \in Tokens, RequestReturns(t)
      PROVE  MailboxInv' /\ [Mailbox!Next]_(Mailbox!mailbox)
  <2>1. PICK r \in hb.reports : r.tok = t /\ \E reply \in Replies : HeartbeatReply(r, reply)
    BY <1>7 DEF RequestReturns
  <2> DEFINE h == [hb EXCEPT !.reports = @ \ {r}]
  <2>2. /\ h \in Manager /\ h.sent = hb.sent /\ h.tt_to_state = hb.tt_to_state
        /\ h.incoming_hbs = hb.incoming_hbs
    BY <1>2, ZenonT(30) DEF Manager
  <2>3. CompleteReport(t) \in Action /\ CompleteReport(t).type # "SendHeartbeat"
    BY DEF CompleteReport, Action
  <2>4. hb' = Send(h, CompleteReport(t))
    BY <2>1 DEF HeartbeatReply
  <2> HIDE DEF h
  <2>5. QED
    BY <1>1, <1>7, <2>2, <2>3, <2>4, QuietActions, SendStep
<1>8. CASE HeartbeatStep
  <2>1. hb.incoming_hbs # <<>> /\ hb' = HandleAction(hb)
    BY <1>8 DEF HeartbeatStep
  <2>2. \A t \in Tokens : Ordered(hb, t, Tops[t])
    BY DEF MailboxInv
  <2>3. /\ hb' \in Manager /\ Sends(hb, hb', Tops)
        /\ \A t \in Tokens : Ordered(hb', t, Tops[t])
    BY <1>2, <2>1, <2>2, TopsType, HandleActionOrder, SMTT(30)
  <2>4. QED
    BY <1>1, <1>8, <2>3, QuietActions, QuietStep
<1>9. CASE ShutdownStopsHeartbeats
  <2>1. hb' = Shutdown(hb)
    BY <1>9 DEF ShutdownStopsHeartbeats
  <2>2. /\ hb' \in Manager /\ hb'.sent = hb.sent /\ hb'.tt_to_state = hb.tt_to_state
        /\ hb'.incoming_hbs = <<>>
    <3>1. <<>> \in Seq(Action) /\ [t \in Tokens |-> 0] \in [Tokens -> Nat]
      BY SMTT(30)
    <3>2. QED
      BY <1>2, <2>1, <3>1, Zenon DEF Shutdown, Manager
  <2>3. ASSUME NEW t \in Tokens
        PROVE  Ordered(hb', t, Tops[t])
    <3>1. Order(hb.sent[t], Waiting(hb, t), hb.incoming_hbs, t, Tops[t])
      BY SMTT(30) DEF MailboxInv, Ordered, Waiting
    <3>2. Order(hb.sent[t], Waiting(hb, t), <<>>, t, Tops[t])
      BY <3>1 DEF Order
    <3>3. QED
      BY <2>2, <3>2, SMTT(30) DEF Ordered, Waiting
  <2>4. QED
    BY <1>1, <1>9, <2>2, <2>3, QuietActions, QuietStep DEF Sends
<1>10. QED
  BY <1>1, <1>3, <1>4, <1>5, <1>6, <1>7, <1>8, <1>9, GiveStep, HandOverStep, CloseStep,
     SMTT(30) DEF Next

\* For any activities and heartbeats, through throttling, evictions and shutdown:
\* ActivityManager implements the safety of LatestHeartbeat.  A report is never
\* older than one before it and never one lang did not give.
THEOREM ImplementsMailbox == Spec => Mailbox!Safety
<1>1. Init => MailboxInv /\ TeardownInv /\ Mailbox!Init
  BY MailboxInit, TeardownInit
<1>2. MailboxInv /\ TeardownInv /\ [Next]_vars =>
         MailboxInv' /\ TeardownInv' /\ [Mailbox!Next]_(Mailbox!mailbox)
  BY MailboxStep, TeardownStep
<1>3. QED
  BY <1>1, <1>2, PTL DEF Spec, Mailbox!Safety

-----------------------------------------------------------------------------
(* A completion is reported after the last heartbeat.                       *)

\* a is an action of type ty about t.
Is(a, ty, t) == a.type = ty /\ a.tok = t

Has(q, ty, t) == \E i \in 1..Len(q) : Is(q[i], ty, t)

Once(q, ty, t) == \A i, j \in 1..Len(q) : Is(q[i], ty, t) /\ Is(q[j], ty, t) => i = j

\* An eviction of t is the last the channel holds of its heartbeats and evictions,
\* and it flushes only for a cancellation.
EvictLast(q, t, st) ==
    \A i, j \in 1..Len(q) : Is(q[i], "Evict", t) =>
        /\ q[i].should_flush => st = "cancelled"
        /\ Is(q[j], "Evict", t) \/ Is(q[j], "SendHeartbeat", t) => j <= i

Requests(h, t) == {r \in h.reports : r.tok = t}

\* A report of t is in flight, or its end has not been handled.
ReportPending(h, t) == Requests(h, t) # {} \/ Has(h.incoming_hbs, "CompleteReport", t)

OneReport(h, t) ==
    /\ \A r, s \in Requests(h, t) : r = s
    /\ Requests(h, t) # {} => ~Has(h.incoming_hbs, "CompleteReport", t)
    /\ Once(h.incoming_hbs, "CompleteReport", t)

\* The same of its throttle.
ThrottlePending(h, t) == h.sleepers[t] > 0 \/ Has(h.incoming_hbs, "CompleteThrottle", t)

OneThrottle(h, t) ==
    /\ h.sleepers[t] <= 1
    /\ h.sleepers[t] > 0 => ~Has(h.incoming_hbs, "CompleteThrottle", t)
    /\ Once(h.incoming_hbs, "CompleteThrottle", t)

\* Before its eviction is handled a token has at most one report or one throttle,
\* and its state says which.
Live(h, t) ==
    /\ t \notin h.tt_needs_flush /\ t \notin h.notified
    /\ ReportPending(h, t) => h.tt_to_state[t].tracked /\ h.tt_to_state[t].is_record_in_flight
    /\ ThrottlePending(h, t) =>
          h.tt_to_state[t].tracked /\ ~h.tt_to_state[t].is_record_in_flight
    /\ OneReport(h, t) /\ OneThrottle(h, t)

\* After that it is never tracked again, and what is left of its reports is what the
\* eviction waits for.
Gone(h, t, st) ==
    /\ ~h.tt_to_state[t].tracked
    /\ ~Has(h.incoming_hbs, "SendHeartbeat", t) /\ ~Has(h.incoming_hbs, "Evict", t)
    /\ t \in h.tt_needs_flush => t \notin h.notified
    /\ st # "cancelled" => OneReport(h, t) /\ (ReportPending(h, t) => t \in h.tt_needs_flush)

\* Where the manager and the phase ph of the activity t stand; calling is the
\* heartbeat a call holds.
TokenInv(h, t, ph, st, calling) ==
    /\ calling # 0 => ph = "outstanding"
    /\ ph = "new" => ~Has(h.incoming_hbs, "SendHeartbeat", t) /\ ~h.tt_to_state[t].tracked
    /\ ph \in {"new", "outstanding", "counted"} =>
          Live(h, t) /\ ~Has(h.incoming_hbs, "Evict", t)
    /\ ph = "evicting" =>
          \/ Live(h, t) /\ Has(h.incoming_hbs, "Evict", t) /\ EvictLast(h.incoming_hbs, t, st)
          \/ Gone(h, t, st)
    /\ ph \in {"reporting", "done"} => Gone(h, t, st) /\ t \notin h.tt_needs_flush

\* What holds of every token, at any point of its activity.
TokensInv == \A t \in Tokens : TokenInv(hb, t, act[t].phase, act[t].status, heartbeating[t])

\* A manager that was stopped has an empty channel.
Stopped(h) == ~h.running => h.incoming_hbs = <<>>

EvictInv ==
    /\ MailboxInv
    /\ TeardownInv
    /\ Stopped(hb)
    /\ ~hb.running => until = "done"
    /\ TokensInv

\* What the channel holds after another action is sent.
LEMMA Appended ==
    ASSUME NEW q \in Seq(Action), NEW a \in Action, NEW t, NEW ty
    PROVE  /\ Has(Append(q, a), ty, t) <=> Has(q, ty, t) \/ Is(a, ty, t)
           /\ Once(q, ty, t) /\ ~(Has(q, ty, t) /\ Is(a, ty, t)) => Once(Append(q, a), ty, t)
<1> DEFINE p == Append(q, a)
<1>1. /\ Len(p) = Len(q) + 1 /\ Len(q) \in Nat /\ p[Len(q) + 1] = a
      /\ \A i \in 1..Len(q) : p[i] = q[i]
  OBVIOUS
<1> HIDE DEF p
<1>2. Has(p, ty, t) <=> Has(q, ty, t) \/ Is(a, ty, t)
  <2>1. ASSUME NEW i \in 1..Len(p), Is(p[i], ty, t)
        PROVE  Has(q, ty, t) \/ Is(a, ty, t)
    <3>1. i = Len(q) + 1 \/ i \in 1..Len(q)
      BY <1>1
    <3>2. QED
      BY <1>1, <2>1, <3>1 DEF Has
  <2>2. Has(q, ty, t) => Has(p, ty, t)
    BY <1>1 DEF Has
  <2>3. Is(a, ty, t) => Has(p, ty, t)
    BY <1>1 DEF Has
  <2>4. QED
    BY <2>1, <2>2, <2>3 DEF Has
<1>3. ASSUME Once(q, ty, t), ~(Has(q, ty, t) /\ Is(a, ty, t))
      PROVE  Once(p, ty, t)
  <2>1. ASSUME NEW i \in 1..Len(p), NEW j \in 1..Len(p), Is(p[i], ty, t), Is(p[j], ty, t)
        PROVE  i = j
    <3>1. (i = Len(q) + 1 \/ i \in 1..Len(q)) /\ (j = Len(q) + 1 \/ j \in 1..Len(q))
      BY <1>1, SMTT(30)
    <3>2. CASE i \in 1..Len(q) /\ j \in 1..Len(q)
      BY <1>1, <1>3, <2>1, <3>2 DEF Once
    <3>3. CASE i = Len(q) + 1 /\ j \in 1..Len(q)
      BY <1>1, <1>3, <2>1, <3>3 DEF Has
    <3>4. CASE j = Len(q) + 1 /\ i \in 1..Len(q)
      BY <1>1, <1>3, <2>1, <3>4 DEF Has
    <3>5. QED
      BY <3>1, <3>2, <3>3, <3>4
  <2>2. QED
    BY <2>1 DEF Once
<1>4. QED
  BY <1>2, <1>3 DEF p

\* An eviction that is sent comes last.
LEMMA AppendedLast ==
    ASSUME NEW q \in Seq(Action), NEW a \in Action, NEW t, NEW st
    PROVE  /\ EvictLast(q, t, st) /\ ~Is(a, "Evict", t) /\ ~Is(a, "SendHeartbeat", t)
                 => EvictLast(Append(q, a), t, st)
           /\ ~Has(q, "Evict", t) /\ (a.should_flush => st = "cancelled")
                 => EvictLast(Append(q, a), t, st)
<1> DEFINE p == Append(q, a)
<1>1. /\ Len(p) = Len(q) + 1 /\ Len(q) \in Nat /\ p[Len(q) + 1] = a
      /\ \A i \in 1..Len(q) : p[i] = q[i]
      /\ \A i \in 1..Len(p) : i = Len(q) + 1 \/ i \in 1..Len(q)
  OBVIOUS
<1> HIDE DEF p
<1>2. ASSUME EvictLast(q, t, st), ~Is(a, "Evict", t), ~Is(a, "SendHeartbeat", t)
      PROVE  EvictLast(p, t, st)
  BY <1>1, <1>2, SMTT(30) DEF EvictLast
<1>3. ASSUME ~Has(q, "Evict", t), a.should_flush => st = "cancelled"
      PROVE  EvictLast(p, t, st)
  BY <1>1, <1>3 DEF EvictLast, Has
<1>4. QED
  BY <1>2, <1>3 DEF p

\* What it holds after the head is taken.
LEMMA Taken ==
    ASSUME NEW q \in Seq(Action), q # <<>>, NEW t, NEW ty
    PROVE  /\ Has(q, ty, t) <=> Has(Tail(q), ty, t) \/ Is(Head(q), ty, t)
           /\ Once(q, ty, t) => /\ Once(Tail(q), ty, t)
                                /\ Is(Head(q), ty, t) => ~Has(Tail(q), ty, t)
<1> DEFINE p == Tail(q)
<1>1. /\ Len(q) \in Nat \ {0} /\ Len(p) = Len(q) - 1 /\ Head(q) = q[1]
      /\ \A i \in 1..Len(p) : p[i] = q[i + 1] /\ i + 1 \in 1..Len(q)
  OBVIOUS
<1> HIDE DEF p
<1>2. ASSUME NEW i \in 1..Len(q), i # 1
      PROVE  i - 1 \in 1..Len(p) /\ p[i - 1] = q[i]
  <2>1. i - 1 \in 1..Len(p)
    BY <1>1, <1>2
  <2>2. p[i - 1] = q[(i - 1) + 1]
    BY <1>1, <2>1
  <2>3. QED
    BY <2>1, <2>2
<1>3. Has(q, ty, t) => Has(p, ty, t) \/ Is(Head(q), ty, t)
  BY <1>1, <1>2 DEF Has
<1>4. Has(p, ty, t) \/ Is(Head(q), ty, t) => Has(q, ty, t)
  BY <1>1 DEF Has
<1>5. ASSUME Once(q, ty, t)
      PROVE  Once(p, ty, t) /\ (Is(Head(q), ty, t) => ~Has(p, ty, t))
  <2>1. Once(p, ty, t)
    <3>1. ASSUME NEW i \in 1..Len(p), NEW j \in 1..Len(p), Is(p[i], ty, t), Is(p[j], ty, t)
          PROVE  i = j
      <4>1. i + 1 = j + 1
        BY <1>1, <1>5, <3>1 DEF Once
      <4>2. QED
        BY <4>1
    <3>2. QED
      BY <3>1 DEF Once
  <2>2. ASSUME Is(Head(q), ty, t), NEW i \in 1..Len(p), Is(p[i], ty, t)
        PROVE  FALSE
    <3>1. 1 \in 1..Len(q) /\ i + 1 \in 1..Len(q) /\ Is(q[1], ty, t) /\ Is(q[i + 1], ty, t)
      BY <1>1, <2>2
    <3>2. 1 = i + 1
      BY <1>5, <3>1 DEF Once
    <3>3. QED
      BY <3>2
  <2>3. QED
    BY <2>1, <2>2 DEF Has
<1>6. QED
  BY <1>3, <1>4, <1>5 DEF p

\* An eviction at the head is the only one, and no heartbeat follows it.
LEMMA TakenLast ==
    ASSUME NEW q \in Seq(Action), q # <<>>, NEW t, NEW st, EvictLast(q, t, st)
    PROVE  /\ EvictLast(Tail(q), t, st)
           /\ Is(Head(q), "Evict", t) =>
                 /\ ~Has(Tail(q), "SendHeartbeat", t) /\ ~Has(Tail(q), "Evict", t)
                 /\ Head(q).should_flush => st = "cancelled"
<1> DEFINE p == Tail(q)
<1>1. /\ Len(q) \in Nat \ {0} /\ Len(p) = Len(q) - 1 /\ Head(q) = q[1]
      /\ \A i \in 1..Len(p) : p[i] = q[i + 1] /\ i + 1 \in 1..Len(q)
  OBVIOUS
<1> HIDE DEF p
<1>2. EvictLast(p, t, st)
  <2>1. ASSUME NEW i \in 1..Len(p), NEW j \in 1..Len(p), Is(p[i], "Evict", t)
        PROVE  /\ p[i].should_flush => st = "cancelled"
               /\ Is(p[j], "Evict", t) \/ Is(p[j], "SendHeartbeat", t) => j <= i
    <3>1. /\ p[i] = q[i + 1] /\ i + 1 \in 1..Len(q)
          /\ p[j] = q[j + 1] /\ j + 1 \in 1..Len(q)
      BY <1>1
    <3>2. /\ q[i + 1].should_flush => st = "cancelled"
          /\ Is(q[j + 1], "Evict", t) \/ Is(q[j + 1], "SendHeartbeat", t) => j + 1 <= i + 1
      BY <2>1, <3>1 DEF EvictLast
    <3>3. QED
      BY <3>1, <3>2
  <2>2. QED
    BY <2>1 DEF EvictLast
<1>3. ASSUME Is(Head(q), "Evict", t)
      PROVE  /\ ~Has(p, "SendHeartbeat", t) /\ ~Has(p, "Evict", t)
             /\ Head(q).should_flush => st = "cancelled"
  <2>1. 1 \in 1..Len(q) /\ Is(q[1], "Evict", t)
    BY <1>1, <1>3
  <2>2. \A j \in 1..Len(q) : Is(q[j], "Evict", t) \/ Is(q[j], "SendHeartbeat", t) => j <= 1
    BY <2>1 DEF EvictLast
  <2>3. ASSUME NEW i \in 1..Len(p), Is(p[i], "Evict", t) \/ Is(p[i], "SendHeartbeat", t)
        PROVE  FALSE
    <3>1. i + 1 <= 1
      BY <1>1, <2>2, <2>3
    <3>2. QED
      BY <3>1
  <2>4. q[1].should_flush => st = "cancelled"
    BY <2>1 DEF EvictLast
  <2>5. QED
    BY <1>1, <2>3, <2>4 DEF Has
<1>4. QED
  BY <1>2, <1>3 DEF p

\* From h to g nothing that TokenInv says of t is different, the channel apart.
SameFields(h, g, t) ==
    /\ g.tt_to_state[t].tracked <=> h.tt_to_state[t].tracked
    /\ g.tt_to_state[t].is_record_in_flight <=> h.tt_to_state[t].is_record_in_flight
    /\ t \in g.tt_needs_flush <=> t \in h.tt_needs_flush
    /\ t \in g.notified <=> t \in h.notified
    /\ Requests(g, t) = Requests(h, t)
    /\ g.sleepers[t] = h.sleepers[t]

Types == {"SendHeartbeat", "Evict", "CompleteReport", "CompleteThrottle"}

\* Nor does the channel, from q to p.
SameQueue(q, p, t, st) ==
    /\ \A ty \in Types : /\ Has(p, ty, t) <=> Has(q, ty, t)
                         /\ Once(q, ty, t) => Once(p, ty, t)
    /\ EvictLast(q, t, st) => EvictLast(p, t, st)

\* What is not touched stays as it is.
LEMMA SameToken ==
    ASSUME NEW h, NEW g, NEW t, NEW ph, NEW st, NEW calling,
           TokenInv(h, t, ph, st, calling), SameFields(h, g, t),
           SameQueue(h.incoming_hbs, g.incoming_hbs, t, st)
    PROVE  TokenInv(g, t, ph, st, calling)
<1>1. /\ ReportPending(g, t) <=> ReportPending(h, t)
      /\ ThrottlePending(g, t) <=> ThrottlePending(h, t)
      /\ OneReport(h, t) => OneReport(g, t)
      /\ OneThrottle(h, t) => OneThrottle(g, t)
      /\ Has(g.incoming_hbs, "Evict", t) <=> Has(h.incoming_hbs, "Evict", t)
      /\ Has(g.incoming_hbs, "SendHeartbeat", t) <=> Has(h.incoming_hbs, "SendHeartbeat", t)
  BY Zenon DEF SameFields, SameQueue, Types, ReportPending, ThrottlePending, OneReport, OneThrottle
<1>2. Live(h, t) => Live(g, t)
  BY <1>1, Zenon DEF Live, SameFields
<1>3. Gone(h, t, st) => Gone(g, t, st)
  BY <1>1, Zenon DEF Gone, SameFields
<1>4. QED
  BY <1>1, <1>2, <1>3, ZenonT(30) DEF TokenInv, SameFields, SameQueue

\* Another token's action comes or goes.
LEMMA OtherAction ==
    ASSUME NEW q \in Seq(Action), NEW t \in Tokens, NEW st
    PROVE  /\ SameQueue(q, q, t, st)
           /\ \A a \in Action : a.tok # t => SameQueue(q, Append(q, a), t, st)
           /\ q # <<>> /\ Head(q).tok # t => SameQueue(q, Tail(q), t, st)
<1>1. SameQueue(q, q, t, st)
  BY DEF SameQueue
<1>2. ASSUME NEW a \in Action, a.tok # t
      PROVE  SameQueue(q, Append(q, a), t, st)
  <2>1. \A ty \in Types : ~Is(a, ty, t)
    BY <1>2 DEF Is
  <2>2. \A ty \in Types : /\ Has(Append(q, a), ty, t) <=> Has(q, ty, t)
                          /\ Once(q, ty, t) => Once(Append(q, a), ty, t)
    BY <2>1, Appended, Zenon
  <2>3. ~Is(a, "Evict", t) /\ ~Is(a, "SendHeartbeat", t)
    BY <1>2 DEF Is
  <2>4. EvictLast(q, t, st) => EvictLast(Append(q, a), t, st)
    BY <2>3, AppendedLast, Zenon
  <2>5. QED
    BY <2>2, <2>4 DEF SameQueue
<1>3. ASSUME q # <<>>, Head(q).tok # t
      PROVE  SameQueue(q, Tail(q), t, st)
  <2>1. \A ty \in Types : ~Is(Head(q), ty, t)
    BY <1>3 DEF Is
  <2>2. \A ty \in Types : /\ Has(Tail(q), ty, t) <=> Has(q, ty, t)
                          /\ Once(q, ty, t) => Once(Tail(q), ty, t)
    BY <1>3, <2>1, Taken, Zenon
  <2>3. EvictLast(q, t, st) => EvictLast(Tail(q), t, st)
    BY <1>3, TakenLast, Zenon
  <2>4. QED
    BY <2>2, <2>3 DEF SameQueue
<1>4. QED
  BY <1>1, <1>2, <1>3

\* A handler called for s leaves the channel and the other tokens alone.
Handled(h, g, s) ==
    /\ g.incoming_hbs = h.incoming_hbs
    /\ \A t \in Tokens \ {s} : SameFields(h, g, t)

\* A report of s starts, from a state that is replaced.
LEMMA ReportHandled ==
    ASSUME NEW h \in Manager, NEW s \in Tokens, NEW n \in Nat, NEW st \in State
    PROVE  LET g == Report([h EXCEPT !.tt_to_state[s] = st], s, n) IN
           /\ Handled(h, g, s)
           /\ g.tt_to_state[s] = st
           /\ Requests(g, s) = Requests(h, s) \cup {[tok |-> s, details |-> n]}
           /\ g.tt_needs_flush = h.tt_needs_flush /\ g.notified = h.notified
           /\ g.sleepers = h.sleepers
<1> DEFINE r == [tok |-> s, details |-> n]
           states == [h.tt_to_state EXCEPT ![s] = st]
           g == [h EXCEPT !.tt_to_state = states, !.reports = @ \cup {r},
                          !.sent = [@ EXCEPT ![s] = n]]
<1>1. Report([h EXCEPT !.tt_to_state[s] = st], s, n) = g
  BY DEF Report, Manager
<1>2. /\ g.incoming_hbs = h.incoming_hbs /\ g.tt_to_state = states
      /\ g.reports = h.reports \cup {r} /\ g.tt_needs_flush = h.tt_needs_flush
      /\ g.notified = h.notified /\ g.sleepers = h.sleepers
  BY DEF Manager
<1>3. states[s] = st /\ \A t \in Tokens \ {s} : states[t] = h.tt_to_state[t]
  BY DEF Manager
<1>4. r.tok = s
  OBVIOUS
<1> HIDE DEF g, states, r
<1>5. Requests(g, s) = Requests(h, s) \cup {r}
  BY <1>2, <1>4, SMTT(30) DEF Requests
<1>6. ASSUME NEW t \in Tokens \ {s}
      PROVE  SameFields(h, g, t)
  <2>1. Requests(g, t) = Requests(h, t)
    BY <1>2, <1>4, SMTT(30) DEF Requests
  <2>2. QED
    BY <1>2, <1>3, <2>1 DEF SameFields
<1>7. QED
  BY <1>1, <1>2, <1>3, <1>5, <1>6 DEF Handled, r

\* A report touches the requests of its token alone.
LEMMA ReportFields ==
    ASSUME NEW h \in Manager, NEW s \in Tokens, NEW n \in Nat
    PROVE  LET g == Report(h, s, n) IN
           /\ g.incoming_hbs = h.incoming_hbs /\ g.tt_to_state = h.tt_to_state
           /\ g.sleepers = h.sleepers /\ g.tt_needs_flush = h.tt_needs_flush
           /\ g.notified = h.notified
           /\ \A t \in Tokens : t = s \/ Requests(g, t) = Requests(h, t)
<1> DEFINE r == [tok |-> s, details |-> n]
           g == [h EXCEPT !.reports = h.reports \cup {r}, !.sent = [h.sent EXCEPT ![s] = n]]
<1>1. Report(h, s, n) = g
  BY DEF Report, Manager
<1>2. /\ g.incoming_hbs = h.incoming_hbs /\ g.tt_to_state = h.tt_to_state
      /\ g.sleepers = h.sleepers /\ g.tt_needs_flush = h.tt_needs_flush
      /\ g.notified = h.notified /\ g.reports = h.reports \cup {r}
  BY SMTT(30) DEF Manager
<1>3. r.tok = s
  OBVIOUS
<1> HIDE DEF g, r
<1>4. \A t \in Tokens : t = s \/ Requests(g, t) = Requests(h, t)
  BY <1>2, <1>3, SMTT(30) DEF Requests
<1>5. QED
  BY <1>1, <1>2, <1>4, ZenonT(30)

\* The manager once the head of the channel is taken.
Rest(h) == [h EXCEPT !.incoming_hbs = Tail(@)]

\* Taking the head touches the channel alone.
LEMMA RestFacts ==
    ASSUME NEW h \in Manager, h.incoming_hbs # <<>>
    PROVE  /\ Rest(h) \in Manager
           /\ Rest(h).incoming_hbs = Tail(h.incoming_hbs)
           /\ Rest(h).tt_to_state = h.tt_to_state /\ Rest(h).notified = h.notified
           /\ Rest(h).tt_needs_flush = h.tt_needs_flush /\ Rest(h).sleepers = h.sleepers
           /\ \A t \in Tokens : Requests(Rest(h), t) = Requests(h, t)
           /\ Head(h.incoming_hbs) \in Action
           /\ h.incoming_hbs \in Seq(Action)
<1>1. h.incoming_hbs \in Seq(Action)
  BY DEF Manager
<1>2. Tail(h.incoming_hbs) \in Seq(Action) /\ Head(h.incoming_hbs) \in Action
  BY <1>1
<1> DEFINE p == Tail(h.incoming_hbs)
<1>3. Rest(h) = [h EXCEPT !.incoming_hbs = p] /\ p \in Seq(Action)
  BY <1>2 DEF Rest, Manager
<1> HIDE DEF p
<1>4. /\ Rest(h) \in Manager /\ Rest(h).incoming_hbs = p
      /\ Rest(h).tt_to_state = h.tt_to_state /\ Rest(h).notified = h.notified
      /\ Rest(h).tt_needs_flush = h.tt_needs_flush /\ Rest(h).sleepers = h.sleepers
      /\ Rest(h).reports = h.reports
  BY <1>3, Zenon DEF Manager
<1>5. QED
  BY <1>1, <1>2, <1>4 DEF Requests, p

\* The head is of one type; what it says of its own token goes with it.
LEMMA HeadTaken ==
    ASSUME NEW q \in Seq(Action), q # <<>>, NEW s, NEW kind, Is(Head(q), kind, s)
    PROVE  /\ Has(q, kind, s)
           /\ \A ty \in Types : /\ ty # kind => (Has(Tail(q), ty, s) <=> Has(q, ty, s))
                                /\ Has(Tail(q), ty, s) => Has(q, ty, s)
                                /\ Once(q, ty, s) => Once(Tail(q), ty, s)
           /\ Once(q, kind, s) => ~Has(Tail(q), kind, s)
<1>1. \A ty \in Types : ty # kind => ~Is(Head(q), ty, s)
  BY DEF Is
<1>2. QED
  BY <1>1, Taken, Zenon

\* A heartbeat is taken only for a token whose eviction is still to come.
LEMMA RecordKeeps ==
    ASSUME NEW h \in Manager, h.incoming_hbs # <<>>, NEW s \in Tokens, NEW n \in Nat,
           NEW ph \in Phases, NEW st, NEW calling,
           Is(Head(h.incoming_hbs), "SendHeartbeat", s), TokenInv(h, s, ph, st, calling)
    PROVE  /\ TokenInv(record(Rest(h), s, n), s, ph, st, calling)
           /\ Handled(Rest(h), record(Rest(h), s, n), s)
<1> DEFINE f == Rest(h)
           q == h.incoming_hbs
<1>1. /\ f \in Manager /\ f.incoming_hbs = Tail(q) /\ f.tt_to_state = h.tt_to_state
      /\ f.notified = h.notified /\ f.tt_needs_flush = h.tt_needs_flush
      /\ f.sleepers = h.sleepers /\ Requests(f, s) = Requests(h, s) /\ q \in Seq(Action)
  BY RestFacts, Zenon
<1>2. /\ Has(q, "SendHeartbeat", s)
      /\ Has(Tail(q), "Evict", s) <=> Has(q, "Evict", s)
      /\ Has(Tail(q), "CompleteReport", s) <=> Has(q, "CompleteReport", s)
      /\ Has(Tail(q), "CompleteThrottle", s) <=> Has(q, "CompleteThrottle", s)
      /\ Once(q, "CompleteReport", s) => Once(Tail(q), "CompleteReport", s)
      /\ Once(q, "CompleteThrottle", s) => Once(Tail(q), "CompleteThrottle", s)
  <2>1. /\ Has(q, "SendHeartbeat", s)
        /\ \A ty \in Types :
              /\ ty # "SendHeartbeat" => (Has(Tail(q), ty, s) <=> Has(q, ty, s))
              /\ Once(q, ty, s) => Once(Tail(q), ty, s)
    BY <1>1, HeadTaken, Zenon
  <2>2. QED
    BY <2>1, Zenon DEF Types
<1>3. EvictLast(q, s, st) => EvictLast(Tail(q), s, st)
  BY <1>1, TakenLast, Zenon
<1>4. Live(h, s) /\ ph \in {"outstanding", "counted", "evicting"}
  BY <1>2, Zenon DEF TokenInv, Gone, Phases
<1> HIDE DEF f
<1> DEFINE g == record(f, s, n)
<1>5. /\ Handled(f, g, s) /\ g.tt_needs_flush = f.tt_needs_flush /\ g.notified = f.notified
      /\ g.sleepers = f.sleepers /\ g.tt_to_state[s].tracked
      /\ f.tt_to_state[s].tracked =>
            /\ g.tt_to_state[s].is_record_in_flight = f.tt_to_state[s].is_record_in_flight
            /\ Requests(g, s) = Requests(f, s)
      /\ ~f.tt_to_state[s].tracked =>
            /\ g.tt_to_state[s].is_record_in_flight
            /\ Requests(g, s) = Requests(f, s) \cup {[tok |-> s, details |-> n]}
  <2>1. CASE f.tt_to_state[s].tracked
    <3> DEFINE states == [f.tt_to_state EXCEPT ![s].last_recorded_details = n]
    <3>1. g = [f EXCEPT !.tt_to_state = states]
      BY <1>1, <2>1 DEF record, Manager
    <3>2. /\ states[s].tracked = f.tt_to_state[s].tracked
          /\ states[s].is_record_in_flight = f.tt_to_state[s].is_record_in_flight
          /\ \A t \in Tokens \ {s} : states[t] = f.tt_to_state[t]
      BY <1>1 DEF Manager, State
    <3> HIDE DEF states, g
    <3>3. /\ g.incoming_hbs = f.incoming_hbs /\ g.tt_to_state = states
          /\ g.reports = f.reports /\ g.tt_needs_flush = f.tt_needs_flush
          /\ g.notified = f.notified /\ g.sleepers = f.sleepers
      BY <1>1, <3>1, SMTT(30) DEF Manager
    <3>4. \A t \in Tokens : Requests(g, t) = Requests(f, t)
      BY <3>3 DEF Requests
    <3>5. Handled(f, g, s)
      BY <3>2, <3>3, <3>4, ZenonT(30) DEF Handled, SameFields
    <3>6. QED
      BY <2>1, <3>2, <3>3, <3>4, <3>5, Zenon
  <2>2. CASE ~f.tt_to_state[s].tracked
    <3>1. g = Report([f EXCEPT !.tt_to_state[s] = Reporting], s, n)
      BY <2>2 DEF record
    <3>2. Reporting.tracked /\ Reporting.is_record_in_flight
      BY DEF Reporting, Untracked
    <3> HIDE DEF g
    <3>3. /\ Handled(f, g, s) /\ g.tt_to_state[s] = Reporting
          /\ Requests(g, s) = Requests(f, s) \cup {[tok |-> s, details |-> n]}
          /\ g.tt_needs_flush = f.tt_needs_flush /\ g.notified = f.notified
          /\ g.sleepers = f.sleepers
      BY <1>1, <3>1, States, ReportHandled, SMTT(30)
    <3>4. QED
      BY <2>2, <3>2, <3>3, Zenon
  <2>3. QED
    BY <2>1, <2>2, Zenon
<1> HIDE DEF g
<1>6. g.incoming_hbs = Tail(q)
  BY <1>1, <1>5, ZenonT(30) DEF Handled
<1>7. Live(g, s)
  <2>1. CASE f.tt_to_state[s].tracked
    BY <1>1, <1>2, <1>4, <1>5, <1>6, <2>1, ZenonT(30)
       DEF Live, ReportPending, ThrottlePending, OneReport, OneThrottle
  <2>2. CASE ~f.tt_to_state[s].tracked
    <3>1. Requests(h, s) = {} /\ ~ReportPending(h, s) /\ ~ThrottlePending(h, s)
      BY <1>1, <1>4, <2>2, ZenonT(30) DEF Live, ReportPending
    <3>2. ~ThrottlePending(g, s) /\ OneThrottle(g, s)
      BY <1>1, <1>2, <1>4, <1>5, <1>6, <3>1, ZenonT(30) DEF Live, ThrottlePending, OneThrottle
    <3>3. OneReport(g, s)
      BY <1>1, <1>2, <1>4, <1>5, <1>6, <2>2, <3>1, ZenonT(30) DEF Live, OneReport, ReportPending
    <3>4. QED
      BY <1>1, <1>4, <1>5, <2>2, <3>2, <3>3, ZenonT(30) DEF Live
  <2>3. QED
    BY <2>1, <2>2
<1>8. TokenInv(g, s, ph, st, calling)
  BY <1>2, <1>3, <1>4, <1>6, <1>7, ZenonT(30) DEF TokenInv, Gone
<1>9. QED
  BY <1>5, <1>8, Zenon DEF f, g

\* A completed report ends what its token waits for.
LEMMA ReportCompletedKeeps ==
    ASSUME NEW h \in Manager, h.incoming_hbs # <<>>, NEW s \in Tokens,
           NEW ph \in Phases, NEW st, NEW calling,
           Is(Head(h.incoming_hbs), "CompleteReport", s), TokenInv(h, s, ph, st, calling)
    PROVE  /\ TokenInv(handle_report_completed(Rest(h), s), s, ph, st, calling)
           /\ Handled(Rest(h), handle_report_completed(Rest(h), s), s)
<1> DEFINE f == Rest(h)
           q == h.incoming_hbs
<1>1. /\ f \in Manager /\ f.incoming_hbs = Tail(q) /\ f.tt_to_state = h.tt_to_state
      /\ f.notified = h.notified /\ f.tt_needs_flush = h.tt_needs_flush
      /\ f.sleepers = h.sleepers /\ Requests(f, s) = Requests(h, s) /\ q \in Seq(Action)
  BY RestFacts, Zenon
<1>2. /\ Has(q, "CompleteReport", s)
      /\ Has(Tail(q), "Evict", s) <=> Has(q, "Evict", s)
      /\ Has(Tail(q), "SendHeartbeat", s) <=> Has(q, "SendHeartbeat", s)
      /\ Has(Tail(q), "CompleteThrottle", s) <=> Has(q, "CompleteThrottle", s)
      /\ Once(q, "CompleteReport", s) =>
            Once(Tail(q), "CompleteReport", s) /\ ~Has(Tail(q), "CompleteReport", s)
      /\ Once(q, "CompleteThrottle", s) => Once(Tail(q), "CompleteThrottle", s)
  <2>1. /\ Has(q, "CompleteReport", s)
        /\ \A ty \in Types :
              /\ ty # "CompleteReport" => (Has(Tail(q), ty, s) <=> Has(q, ty, s))
              /\ Once(q, ty, s) => Once(Tail(q), ty, s)
        /\ Once(q, "CompleteReport", s) => ~Has(Tail(q), "CompleteReport", s)
    BY <1>1, HeadTaken, Zenon
  <2>2. QED
    BY <2>1, Zenon DEF Types
<1>3. EvictLast(q, s, st) => EvictLast(Tail(q), s, st)
  BY <1>1, TakenLast, Zenon
<1> HIDE DEF f
<1> DEFINE g == handle_report_completed(f, s)
<1>4. /\ Handled(f, g, s)
      /\ s \notin g.tt_needs_flush
      /\ s \in g.notified <=> s \in f.notified \/ s \in f.tt_needs_flush
      /\ Requests(g, s) = Requests(f, s)
      /\ g.tt_to_state[s].tracked <=> f.tt_to_state[s].tracked
      /\ f.tt_to_state[s].tracked => /\ ~g.tt_to_state[s].is_record_in_flight
                                     /\ g.sleepers[s] = f.sleepers[s] + 1
  <2> DEFINE e == [f EXCEPT !.notified = @ \cup (f.tt_needs_flush \cap {s}),
                            !.tt_needs_flush = @ \ {s}]
  <2>1. /\ e \in Manager /\ e.incoming_hbs = f.incoming_hbs /\ e.reports = f.reports
        /\ e.tt_to_state = f.tt_to_state /\ e.sleepers = f.sleepers
        /\ e.notified = f.notified \cup (f.tt_needs_flush \cap {s})
        /\ e.tt_needs_flush = f.tt_needs_flush \ {s}
    BY <1>1, Zenon DEF Manager
  <2>2. g = Throttle(e, s)
    BY DEF handle_report_completed
  <2> HIDE DEF e, g
  <2>3. CASE ~f.tt_to_state[s].tracked
    <3>1. g = e
      BY <2>1, <2>2, <2>3 DEF Throttle
    <3>2. \A t \in Tokens : Requests(g, t) = Requests(f, t)
      BY <2>1, <3>1, Zenon DEF Requests
    <3>3. \A t \in Tokens \ {s} : SameFields(f, g, t)
      BY <2>1, <3>1, <3>2, ZenonT(30) DEF SameFields
    <3>4. QED
      BY <2>1, <2>3, <3>1, <3>2, <3>3, Zenon DEF Handled
  <2>4. CASE f.tt_to_state[s].tracked
    <3> DEFINE new == [e.tt_to_state[s] EXCEPT !.is_record_in_flight = FALSE,
                                               !.throttled = TRUE]
               states == [e.tt_to_state EXCEPT ![s] = new]
               sleeping == [e.sleepers EXCEPT ![s] = @ + 1]
    <3>1. ~new.is_record_in_flight /\ new.tracked = e.tt_to_state[s].tracked
      BY <2>1 DEF Manager, State
    <3>2. /\ states[s] = new /\ sleeping[s] = e.sleepers[s] + 1
          /\ \A t \in Tokens \ {s} : states[t] = e.tt_to_state[t] /\ sleeping[t] = e.sleepers[t]
      BY <2>1 DEF Manager
    <3>3. g = [e EXCEPT !.tt_to_state = states, !.sleepers = sleeping]
      BY <2>1, <2>2, <2>4, ZenonT(30) DEF Throttle, Manager, State
    <3> HIDE DEF new, states, sleeping
    <3>4. /\ g.incoming_hbs = e.incoming_hbs /\ g.reports = e.reports
          /\ g.tt_to_state = states /\ g.sleepers = sleeping
          /\ g.notified = e.notified /\ g.tt_needs_flush = e.tt_needs_flush
      BY <2>1, <3>3 DEF Manager
    <3>5. \A t \in Tokens : Requests(g, t) = Requests(f, t)
      BY <2>1, <3>4, Zenon DEF Requests
    <3>6. \A t \in Tokens \ {s} : SameFields(f, g, t)
      BY <2>1, <3>2, <3>4, <3>5, ZenonT(30) DEF SameFields
    <3>7. QED
      BY <2>1, <2>4, <3>1, <3>2, <3>4, <3>5, <3>6, Zenon DEF Handled
  <2>5. QED
    BY <2>3, <2>4, Zenon
<1> HIDE DEF g
<1>5. g.incoming_hbs = Tail(q)
  BY <1>1, <1>4, Zenon DEF Handled
<1>6. Live(h, s) => Live(g, s)
  <2> SUFFICES ASSUME Live(h, s)
               PROVE  Live(g, s)
    OBVIOUS
  <2>1. /\ ReportPending(h, s) /\ f.tt_to_state[s].tracked /\ ~ThrottlePending(h, s)
        /\ Requests(h, s) = {} /\ ~Has(Tail(q), "CompleteReport", s)
    BY <1>1, <1>2, Zenon DEF Live, ReportPending, OneReport
  <2>2. h.sleepers[s] = 0
    BY <2>1 DEF ThrottlePending, Manager
  <2>3. ~ReportPending(g, s) /\ OneReport(g, s)
    BY <1>1, <1>2, <1>4, <1>5, <2>1, ZenonT(30) DEF Live, ReportPending, OneReport
  <2>4. OneThrottle(g, s)
    <3>1. g.sleepers[s] = 1
      <4>1. g.sleepers[s] = f.sleepers[s] + 1
        BY <1>4, <2>1, Zenon
      <4>2. f.sleepers[s] = 0
        BY <1>1, <2>2, Zenon
      <4>3. QED
        BY <4>1, <4>2, SMTT(30)
    <3>2. ~Has(Tail(q), "CompleteThrottle", s) /\ Once(Tail(q), "CompleteThrottle", s)
      BY <1>2, <2>1, Zenon DEF Live, ThrottlePending, OneThrottle
    <3>3. QED
      BY <1>5, <3>1, <3>2 DEF OneThrottle
  <2>5. QED
    BY <1>1, <1>4, <2>1, <2>3, <2>4, ZenonT(30) DEF Live
<1>7. Gone(h, s, st) => Gone(g, s, st)
  BY <1>1, <1>2, <1>4, <1>5, ZenonT(30) DEF Gone, OneReport, ReportPending
<1>8. TokenInv(g, s, ph, st, calling)
  BY <1>1, <1>2, <1>3, <1>4, <1>5, <1>6, <1>7, ZenonT(30) DEF TokenInv
<1>9. QED
  BY <1>4, <1>8, Zenon DEF f, g

\* A completed throttle is the only one of its token.
LEMMA ThrottleCompletedKeeps ==
    ASSUME NEW h \in Manager, h.incoming_hbs # <<>>, NEW s \in Tokens,
           NEW ph \in Phases, NEW st, NEW calling,
           Is(Head(h.incoming_hbs), "CompleteThrottle", s), TokenInv(h, s, ph, st, calling)
    PROVE  /\ TokenInv(handle_throttle_completed(Rest(h), s), s, ph, st, calling)
           /\ Handled(Rest(h), handle_throttle_completed(Rest(h), s), s)
<1> DEFINE f == Rest(h)
           q == h.incoming_hbs
<1>1. /\ f \in Manager /\ f.incoming_hbs = Tail(q) /\ f.tt_to_state = h.tt_to_state
      /\ f.notified = h.notified /\ f.tt_needs_flush = h.tt_needs_flush
      /\ f.sleepers = h.sleepers /\ Requests(f, s) = Requests(h, s) /\ q \in Seq(Action)
  BY RestFacts, Zenon
<1>2. /\ Has(q, "CompleteThrottle", s)
      /\ Has(Tail(q), "Evict", s) <=> Has(q, "Evict", s)
      /\ Has(Tail(q), "SendHeartbeat", s) <=> Has(q, "SendHeartbeat", s)
      /\ Has(Tail(q), "CompleteReport", s) <=> Has(q, "CompleteReport", s)
      /\ Once(q, "CompleteThrottle", s) =>
            Once(Tail(q), "CompleteThrottle", s) /\ ~Has(Tail(q), "CompleteThrottle", s)
      /\ Once(q, "CompleteReport", s) => Once(Tail(q), "CompleteReport", s)
  <2>1. /\ Has(q, "CompleteThrottle", s)
        /\ \A ty \in Types :
              /\ ty # "CompleteThrottle" => (Has(Tail(q), ty, s) <=> Has(q, ty, s))
              /\ Once(q, ty, s) => Once(Tail(q), ty, s)
        /\ Once(q, "CompleteThrottle", s) => ~Has(Tail(q), "CompleteThrottle", s)
    BY <1>1, HeadTaken, Zenon
  <2>2. QED
    BY <2>1, Zenon DEF Types
<1>3. EvictLast(q, s, st) => EvictLast(Tail(q), s, st)
  BY <1>1, TakenLast, Zenon
<1> HIDE DEF f
<1> DEFINE g == handle_throttle_completed(f, s)
           n == f.tt_to_state[s].last_recorded_details
<1>4. /\ Handled(f, g, s)
      /\ g.tt_needs_flush = f.tt_needs_flush /\ g.notified = f.notified
      /\ g.sleepers = f.sleepers
      /\ \/ ~f.tt_to_state[s].tracked /\ g = f
         \/ ~g.tt_to_state[s].tracked /\ Requests(g, s) = Requests(f, s)
         \/ /\ g.tt_to_state[s].tracked /\ g.tt_to_state[s].is_record_in_flight
            /\ Requests(g, s) = Requests(f, s) \cup {[tok |-> s, details |-> n]}
  <2>1. CASE ~f.tt_to_state[s].tracked
    <3>1. g = f
      BY <2>1 DEF handle_throttle_completed
    <3>2. QED
      BY <2>1, <3>1, Zenon DEF Handled, SameFields
  <2>2. CASE f.tt_to_state[s].tracked /\ n = 0
    <3> DEFINE states == [f.tt_to_state EXCEPT ![s] = Untracked]
    <3>1. g = [f EXCEPT !.tt_to_state = states]
      BY <1>1, <2>2, SMTT(30) DEF handle_throttle_completed, Manager
    <3>2. ~states[s].tracked /\ \A t \in Tokens \ {s} : states[t] = f.tt_to_state[t]
      BY <1>1 DEF Manager, Untracked
    <3> HIDE DEF states, g
    <3>3. /\ g.incoming_hbs = f.incoming_hbs /\ g.tt_to_state = states
          /\ g.reports = f.reports /\ g.tt_needs_flush = f.tt_needs_flush
          /\ g.notified = f.notified /\ g.sleepers = f.sleepers
      BY <1>1, <3>1, SMTT(30) DEF Manager
    <3>4. \A t \in Tokens : Requests(g, t) = Requests(f, t)
      BY <3>3, SMTT(30) DEF Requests
    <3>5. QED
      BY <3>2, <3>3, <3>4, Zenon DEF Handled, SameFields
  <2>3. CASE f.tt_to_state[s].tracked /\ n # 0
    <3>1. g = Report([f EXCEPT !.tt_to_state[s] = Reporting], s, n)
      BY <2>3 DEF handle_throttle_completed
    <3>2. Reporting.tracked /\ Reporting.is_record_in_flight /\ n \in Nat
      BY <1>1 DEF Reporting, Untracked, Manager, State
    <3> HIDE DEF g, n
    <3>3. /\ Handled(f, g, s) /\ g.tt_to_state[s] = Reporting
          /\ Requests(g, s) = Requests(f, s) \cup {[tok |-> s, details |-> n]}
          /\ g.tt_needs_flush = f.tt_needs_flush /\ g.notified = f.notified
          /\ g.sleepers = f.sleepers
      BY <1>1, <3>1, <3>2, States, ReportHandled, SMTT(30)
    <3>4. QED
      BY <3>2, <3>3, ZenonT(30)
  <2>4. QED
    BY <2>1, <2>2, <2>3, ZenonT(30)
<1> HIDE DEF g, n
<1>5. g.incoming_hbs = Tail(q)
  BY <1>1, <1>4 DEF Handled
<1>6. Live(h, s) => Live(g, s)
  <2> SUFFICES ASSUME Live(h, s)
               PROVE  Live(g, s)
    BY ZenonT(30)
  <2>1. /\ ThrottlePending(h, s) /\ f.tt_to_state[s].tracked /\ ~ReportPending(h, s)
        /\ h.sleepers[s] = 0 /\ ~Has(Tail(q), "CompleteThrottle", s) /\ Requests(h, s) = {}
    <3>1. ThrottlePending(h, s)
      BY <1>2, Zenon DEF ThrottlePending
    <3>2. /\ h.tt_to_state[s].tracked /\ ~ReportPending(h, s)
          /\ ~Has(Tail(q), "CompleteThrottle", s) /\ ~(h.sleepers[s] > 0)
      BY <1>2, <3>1, Zenon DEF Live, OneThrottle
    <3>3. h.sleepers[s] = 0
      BY <3>2 DEF Manager
    <3>4. QED
      BY <1>1, <3>1, <3>2, <3>3, Zenon DEF ReportPending
  <2>2. ~ThrottlePending(g, s) /\ OneThrottle(g, s)
    BY <1>1, <1>2, <1>4, <1>5, <2>1, Zenon DEF Live, ThrottlePending, OneThrottle
  <2>3. OneReport(g, s)
    BY <1>1, <1>2, <1>4, <1>5, <2>1, ZenonT(30) DEF Live, ReportPending, OneReport
  <2>4. ReportPending(g, s) => g.tt_to_state[s].tracked /\ g.tt_to_state[s].is_record_in_flight
    BY <1>1, <1>2, <1>4, <1>5, <2>1, ZenonT(30) DEF ReportPending
  <2>5. QED
    BY <1>1, <1>4, <2>2, <2>3, <2>4, ZenonT(30) DEF Live
<1>7. Gone(h, s, st) => Gone(g, s, st)
  <2> SUFFICES ASSUME Gone(h, s, st)
               PROVE  Gone(g, s, st)
    BY ZenonT(30)
  <2>1. ~f.tt_to_state[s].tracked
    BY <1>1 DEF Gone
  <2>2. g = f
    BY <2>1 DEF g, handle_throttle_completed
  <2>3. QED
    BY <1>1, <1>2, <1>5, <2>2, ZenonT(30) DEF Gone, OneReport, ReportPending
<1>8. ph = "new" => ~g.tt_to_state[s].tracked
  BY <1>1, <1>2, <1>4, ZenonT(30) DEF TokenInv, Live, ThrottlePending
<1>9. TokenInv(g, s, ph, st, calling)
  BY <1>1, <1>2, <1>3, <1>4, <1>5, <1>6, <1>7, <1>8, ZenonT(30) DEF TokenInv
<1>10. QED
  BY <1>4, <1>9, Zenon DEF f, g

\* An eviction forgets its token, and waits if a report of it is pending.
LEMMA EvictKeeps ==
    ASSUME NEW h \in Manager, h.incoming_hbs # <<>>, NEW s \in Tokens,
           NEW ph \in Phases, NEW st, NEW calling,
           Is(Head(h.incoming_hbs), "Evict", s), TokenInv(h, s, ph, st, calling)
    PROVE  LET g == evict(Rest(h), s, Head(h.incoming_hbs).should_flush) IN
           TokenInv(g, s, ph, st, calling) /\ Handled(Rest(h), g, s)
<1> DEFINE f == Rest(h)
           q == h.incoming_hbs
           fl == Head(q).should_flush
<1>1. /\ f \in Manager /\ f.incoming_hbs = Tail(q) /\ f.tt_to_state = h.tt_to_state
      /\ f.notified = h.notified /\ f.tt_needs_flush = h.tt_needs_flush
      /\ f.sleepers = h.sleepers /\ Requests(f, s) = Requests(h, s) /\ q \in Seq(Action)
      /\ Head(q) \in Action
  BY RestFacts, ZenonT(30)
<1>2. /\ Has(q, "Evict", s)
      /\ Has(Tail(q), "CompleteReport", s) <=> Has(q, "CompleteReport", s)
      /\ Once(q, "CompleteReport", s) => Once(Tail(q), "CompleteReport", s)
  <2>1. /\ Has(q, "Evict", s)
        /\ \A ty \in Types : /\ ty # "Evict" => (Has(Tail(q), ty, s) <=> Has(q, ty, s))
                             /\ Once(q, ty, s) => Once(Tail(q), ty, s)
    BY <1>1, HeadTaken, Zenon
  <2>2. QED
    BY <2>1 DEF Types
<1>3. Live(h, s) /\ ph = "evicting" /\ EvictLast(q, s, st)
  BY <1>2, ZenonT(30) DEF TokenInv, Gone, Phases
<1>4. /\ ~Has(Tail(q), "SendHeartbeat", s) /\ ~Has(Tail(q), "Evict", s)
      /\ fl => st = "cancelled"
  <2>1. q # <<>> /\ q \in Seq(Action) /\ EvictLast(q, s, st) /\ Is(Head(q), "Evict", s)
    BY <1>1, <1>3, ZenonT(30)
  <2> HIDE DEF q, f
  <2>2. ~Has(Tail(q), "SendHeartbeat", s) /\ ~Has(Tail(q), "Evict", s)
    BY <2>1, TakenLast, ZenonT(30)
  <2>3. fl => st = "cancelled"
    BY <2>1, TakenLast, SMTT(30)
  <2>4. QED
    BY <2>2, <2>3, ZenonT(30)
<1>5. fl \in BOOLEAN
  BY <1>1 DEF Action
<1> HIDE DEF f
<1> DEFINE g == evict(f, s, fl)
           n == f.tt_to_state[s].last_recorded_details
           flush == fl /\ n # 0
           waits == flush \/ f.tt_to_state[s].is_record_in_flight
           states == [f.tt_to_state EXCEPT ![s] = Untracked]
           sleeping == [f.sleepers EXCEPT ![s] = IF f.tt_to_state[s].throttled THEN 0 ELSE @]
           flushing == f.tt_needs_flush \cup (IF waits THEN {s} ELSE {})
           told == f.notified \cup (IF waits THEN {} ELSE {s})
           e == [f EXCEPT !.tt_to_state = states, !.sleepers = sleeping,
                          !.tt_needs_flush = flushing, !.notified = told]
<1>6. /\ ~states[s].tracked
      /\ \A t \in Tokens \ {s} : states[t] = f.tt_to_state[t] /\ sleeping[t] = f.sleepers[t]
      /\ states \in [Tokens -> State] /\ sleeping \in [Tokens -> Nat]
      /\ flushing \subseteq Tokens /\ told \subseteq Tokens /\ n \in Nat
  <2>1. ~states[s].tracked
    BY <1>1 DEF Manager, Untracked
  <2>2. QED
    BY <1>1, <2>1, States, ZenonT(30) DEF Manager, State
<1>7. g = IF flush THEN Report(e, s, n) ELSE e
  BY <1>1, ZenonT(30) DEF evict, Manager
<1>8. /\ s \in flushing <=> s \in f.tt_needs_flush \/ waits
      /\ s \in told <=> s \in f.notified \/ ~waits
      /\ \A t \in Tokens \ {s} : /\ t \in flushing <=> t \in f.tt_needs_flush
                                 /\ t \in told <=> t \in f.notified
  BY ZenonT(30)
<1>9. flush => st = "cancelled"
  BY <1>4, SMTT(30)
<1>10. f.tt_to_state[s].is_record_in_flight => waits
  OBVIOUS
<1> HIDE DEF g, n, flush, waits, states, sleeping, flushing, told
<1>11. /\ e \in Manager /\ e.incoming_hbs = f.incoming_hbs /\ e.tt_to_state = states
       /\ e.sleepers = sleeping /\ e.tt_needs_flush = flushing /\ e.notified = told
       /\ e.reports = f.reports
  BY <1>1, <1>6, ZenonT(30) DEF Manager
<1> HIDE DEF e
<1>12. /\ g.incoming_hbs = f.incoming_hbs /\ g.tt_to_state = states
       /\ g.sleepers = sleeping /\ g.tt_needs_flush = flushing /\ g.notified = told
       /\ \A t \in Tokens : (flush /\ t = s) \/ Requests(g, t) = Requests(f, t)
  <2>1. \A t \in Tokens : Requests(e, t) = Requests(f, t)
    BY <1>11, ZenonT(30) DEF Requests
  <2>2. CASE flush
    BY <1>6, <1>7, <1>11, <2>1, <2>2, ReportFields, ZenonT(30)
  <2>3. CASE ~flush
    BY <1>7, <1>11, <2>1, <2>3, ZenonT(30)
  <2>4. QED
    BY <2>2, <2>3, ZenonT(30)
<1>13. Handled(f, g, s)
  BY <1>6, <1>8, <1>12, ZenonT(30) DEF Handled, SameFields
<1>14. Gone(g, s, st)
  <2>1. g.incoming_hbs = Tail(q)
    BY <1>1, <1>12, ZenonT(30)
  <2>2. s \in g.tt_needs_flush => s \notin g.notified
    BY <1>1, <1>3, <1>8, <1>12, ZenonT(30) DEF Live
  <2>3. ASSUME st # "cancelled"
        PROVE  OneReport(g, s) /\ (ReportPending(g, s) => s \in g.tt_needs_flush)
    <3>1. Requests(g, s) = Requests(h, s)
      BY <1>1, <1>9, <1>12, <2>3, ZenonT(30)
    <3>2. OneReport(g, s)
      BY <1>2, <1>3, <2>1, <3>1, ZenonT(30) DEF Live, OneReport
    <3>3. ReportPending(g, s) => ReportPending(h, s)
      BY <1>2, <2>1, <3>1, ZenonT(30) DEF ReportPending
    <3>4. QED
      BY <1>1, <1>3, <1>8, <1>10, <1>12, <3>2, <3>3, ZenonT(30) DEF Live
  <2>4. QED
    BY <1>4, <1>6, <1>12, <2>1, <2>2, <2>3, ZenonT(30) DEF Gone
<1>15. TokenInv(g, s, ph, st, calling)
  BY <1>3, <1>14, ZenonT(30) DEF TokenInv
<1>16. QED
  BY <1>13, <1>15 DEF f, g

\* One turn of the manager's loop is a handler's step.
LEMMA HandleActionKeeps ==
    ASSUME NEW h \in Manager, h.incoming_hbs # <<>>, NEW ph \in [Tokens -> Phases], NEW st,
           NEW calling, \A t \in Tokens : TokenInv(h, t, ph[t], st[t], calling[t])
    PROVE  \A t \in Tokens : TokenInv(HandleAction(h), t, ph[t], st[t], calling[t])
<1> DEFINE q == h.incoming_hbs
           a == Head(q)
           s == a.tok
           g == HandleAction(h)
<1>1. /\ Rest(h) \in Manager /\ Rest(h).incoming_hbs = Tail(q)
      /\ Rest(h).tt_to_state = h.tt_to_state /\ Rest(h).notified = h.notified
      /\ Rest(h).tt_needs_flush = h.tt_needs_flush /\ Rest(h).sleepers = h.sleepers
      /\ \A t \in Tokens : Requests(Rest(h), t) = Requests(h, t)
      /\ a \in Action /\ q \in Seq(Action)
  BY RestFacts, ZenonT(30)
<1>2. s \in Tokens /\ a.type \in Types /\ a.details \in Nat
  BY <1>1, ZenonT(30) DEF Action, Types
<1>3. ph[s] \in Phases /\ TokenInv(h, s, ph[s], st[s], calling[s])
  BY <1>2, ZenonT(30)
<1> HIDE DEF a
<1>4. TokenInv(g, s, ph[s], st[s], calling[s]) /\ Handled(Rest(h), g, s)
  <2>1. CASE a.type = "SendHeartbeat"
    <3>1. g = record(Rest(h), s, a.details)
      BY <2>1, SMTT(30) DEF HandleAction, Rest, a
    <3>2. Is(Head(q), "SendHeartbeat", s)
      BY <2>1 DEF Is, a
    <3>3. QED
      BY <1>2, <1>3, <3>1, <3>2, RecordKeeps, Zenon
  <2>2. CASE a.type = "CompleteReport"
    <3>1. g = handle_report_completed(Rest(h), s)
      BY <2>2, SMTT(30) DEF HandleAction, Rest, a
    <3>2. Is(Head(q), "CompleteReport", s)
      BY <2>2 DEF Is, a
    <3>3. QED
      BY <1>2, <1>3, <3>1, <3>2, ReportCompletedKeeps, Zenon
  <2>3. CASE a.type = "CompleteThrottle"
    <3>1. g = handle_throttle_completed(Rest(h), s)
      BY <2>3, SMTT(30) DEF HandleAction, Rest, a
    <3>2. Is(Head(q), "CompleteThrottle", s)
      BY <2>3 DEF Is, a
    <3>3. QED
      BY <1>2, <1>3, <3>1, <3>2, ThrottleCompletedKeeps, Zenon
  <2>4. CASE a.type = "Evict"
    <3>1. g = evict(Rest(h), s, Head(q).should_flush)
      BY <2>4 DEF HandleAction, Rest, a
    <3>2. Is(Head(q), "Evict", s)
      BY <2>4, SMTT(30) DEF Is, a
    <3>3. QED
      BY <1>2, <1>3, <3>1, <3>2, EvictKeeps, Zenon
  <2>5. QED
    BY <1>2, <2>1, <2>2, <2>3, <2>4, Zenon DEF Types
<1> HIDE DEF g
<1>5. ASSUME NEW t \in Tokens, t # s
      PROVE  TokenInv(g, t, ph[t], st[t], calling[t])
  <2>1. SameQueue(q, g.incoming_hbs, t, st[t])
    <3>1. q # <<>> /\ Head(q).tok # t
      BY <1>5 DEF a
    <3>2. SameQueue(q, Tail(q), t, st[t])
      BY <1>1, <3>1, OtherAction, Zenon
    <3>3. g.incoming_hbs = Tail(q)
      BY <1>1, <1>4, ZenonT(30) DEF Handled
    <3>4. QED
      BY <3>2, <3>3, SMTT(30)
  <2>2. SameFields(Rest(h), g, t)
    BY <1>4, <1>5 DEF Handled
  <2>3. SameFields(h, g, t)
    BY <1>1, <2>2, ZenonT(30) DEF SameFields
  <2>4. QED
    BY <2>1, <2>3, SameToken, SMTT(30)
<1>6. QED
  BY <1>4, <1>5, Zenon DEF g

\* The loop goes on.
LEMMA HandleActionRuns ==
    ASSUME NEW h \in Manager, h.incoming_hbs # <<>>
    PROVE  HandleAction(h).running = h.running
<1> DEFINE a == Head(h.incoming_hbs)
<1>1. a.type \in Types
  BY RestFacts DEF Action, Types
<1>2. Rest(h) \in Manager /\ Rest(h).running = h.running
  BY RestFacts, ZenonT(30) DEF Rest, Manager
<1> DEFINE f == Rest(h)
           s == a.tok
           n == a.details
           b == a.should_flush
<1> HIDE DEF f, s, n, b
<1>3. /\ record(f, s, n).running = f.running
      /\ handle_report_completed(f, s).running = f.running
      /\ handle_throttle_completed(f, s).running = f.running
      /\ evict(f, s, b).running = f.running
  <2>1. f \in Manager
    BY <1>2 DEF f
  <2>2. record(f, s, n).running = f.running
    BY <2>1 DEF record, Report, Manager
  <2>3. handle_report_completed(f, s).running = f.running
    BY <2>1 DEF handle_report_completed, Throttle, Manager
  <2>4. handle_throttle_completed(f, s).running = f.running
    BY <2>1 DEF handle_throttle_completed, Report, Manager
  <2>5. evict(f, s, b).running = f.running
    BY <2>1, SMTT(30) DEF evict, Report, Manager
  <2>6. QED
    BY <2>2, <2>3, <2>4, <2>5
<1>4. \/ HandleAction(h) = record(f, s, n)
      \/ HandleAction(h) = handle_report_completed(f, s)
      \/ HandleAction(h) = handle_throttle_completed(f, s)
      \/ HandleAction(h) = evict(f, s, b)
  BY <1>1 DEF HandleAction, Rest, Types, f, s, n, b
<1>5. f.running = h.running
  BY <1>2, SMTT(30) DEF f
<1>6. QED
  BY <1>3, <1>4, <1>5, SMTT(30)

\* Sending touches the channel alone.
LEMMA SendFacts ==
    ASSUME NEW h \in Manager, NEW a \in Action
    PROVE  /\ Send(h, a).tt_to_state = h.tt_to_state /\ Send(h, a).notified = h.notified
           /\ Send(h, a).tt_needs_flush = h.tt_needs_flush
           /\ Send(h, a).sleepers = h.sleepers /\ Send(h, a).running = h.running
           /\ \A t \in Tokens : Requests(Send(h, a), t) = Requests(h, t)
           /\ h.incoming_hbs \in Seq(Action)
           /\ Send(h, a).incoming_hbs =
                 IF h.running THEN Append(h.incoming_hbs, a) ELSE h.incoming_hbs
<1> DEFINE q == Append(h.incoming_hbs, a)
           g == IF h.running THEN [h EXCEPT !.incoming_hbs = q] ELSE h
<1>1. Send(h, a) = g
  BY DEF Send, Manager
<1> HIDE DEF q
<1>2. /\ g.tt_to_state = h.tt_to_state /\ g.notified = h.notified
      /\ g.tt_needs_flush = h.tt_needs_flush /\ g.sleepers = h.sleepers
      /\ g.running = h.running /\ g.reports = h.reports /\ h.incoming_hbs \in Seq(Action)
      /\ g.incoming_hbs = IF h.running THEN q ELSE h.incoming_hbs
  BY DEF Manager
<1> HIDE DEF g
<1>3. QED
  BY <1>1, <1>2 DEF Requests, q

\* What is sent for one token says nothing of another.
LEMMA SendOther ==
    ASSUME NEW h \in Manager, NEW a \in Action, NEW t \in Tokens, a.tok # t,
           NEW ph, NEW st, NEW calling, TokenInv(h, t, ph, st, calling)
    PROVE  TokenInv(Send(h, a), t, ph, st, calling)
<1>1. SameFields(h, Send(h, a), t)
  BY SendFacts, ZenonT(30) DEF SameFields
<1>2. SameQueue(h.incoming_hbs, Send(h, a).incoming_hbs, t, st)
  <2>1. h.incoming_hbs \in Seq(Action)
    BY SendFacts
  <2>2. /\ SameQueue(h.incoming_hbs, h.incoming_hbs, t, st)
        /\ SameQueue(h.incoming_hbs, Append(h.incoming_hbs, a), t, st)
    BY <2>1, OtherAction, Zenon
  <2>3. QED
    BY <2>2, SendFacts
<1>3. QED
  BY <1>1, <1>2, SameToken

\* What an action adds to the channel, for its own token.
LEMMA SendOwn ==
    ASSUME NEW h \in Manager, NEW a \in Action, NEW kind \in Types, NEW t \in Tokens,
           Is(a, kind, t)
    PROVE  LET p == Send(h, a).incoming_hbs
               q == h.incoming_hbs IN
           /\ \A ty \in Types : /\ ty # kind => (Has(p, ty, t) <=> Has(q, ty, t))
                                /\ ty # kind => (Once(q, ty, t) => Once(p, ty, t))
           /\ Has(p, kind, t) <=> Has(q, kind, t) \/ h.running
           /\ Once(q, kind, t) /\ ~Has(q, kind, t) => Once(p, kind, t)
<1> DEFINE p == Send(h, a).incoming_hbs
           q == h.incoming_hbs
<1>1. q \in Seq(Action) /\ p = IF h.running THEN Append(q, a) ELSE q
  BY SendFacts
<1>2. \A ty \in Types : ty # kind => ~Is(a, ty, t)
  BY DEF Is
<1>3. \A ty \in Types :
         /\ Has(Append(q, a), ty, t) <=> Has(q, ty, t) \/ Is(a, ty, t)
         /\ Once(q, ty, t) /\ ~(Has(q, ty, t) /\ Is(a, ty, t)) => Once(Append(q, a), ty, t)
  BY <1>1, Appended, Zenon
<1> HIDE DEF p, q
<1>4. CASE h.running
  <2>1. p = Append(q, a)
    BY <1>1, <1>4
  <2>2. QED
    BY <1>2, <1>3, <1>4, <2>1, Zenon DEF p, q
<1>5. CASE ~h.running
  <2>1. p = q
    BY <1>1, <1>5
  <2>2. QED
    BY <1>5, <2>1, Zenon DEF p, q
<1>6. QED
  BY <1>4, <1>5, ZenonT(30)

\* A heartbeat joins the channel before the eviction of its token.
LEMMA HeartbeatSent ==
    ASSUME NEW h \in Manager, NEW t \in Tokens, NEW n \in Nat, n # 0, NEW ph, NEW st,
           TokenInv(h, t, ph, st, n)
    PROVE  TokenInv(Send(h, Heartbeat(t, n)), t, ph, st, 0)
<1> DEFINE a == Heartbeat(t, n)
           g == Send(h, a)
<1>1. a \in Action /\ Is(a, "SendHeartbeat", t) /\ "SendHeartbeat" \in Types
  BY SMTT(30) DEF Heartbeat, Action, Is, Types
<1> HIDE DEF a
<1>2. /\ g.tt_to_state = h.tt_to_state /\ g.notified = h.notified
      /\ g.tt_needs_flush = h.tt_needs_flush /\ g.sleepers = h.sleepers
      /\ Requests(g, t) = Requests(h, t)
  BY <1>1, SendFacts
<1>3. \A ty \in Types \ {"SendHeartbeat"} :
         /\ Has(g.incoming_hbs, ty, t) <=> Has(h.incoming_hbs, ty, t)
         /\ Once(h.incoming_hbs, ty, t) => Once(g.incoming_hbs, ty, t)
  BY <1>1, SendOwn, Zenon
<1>4. /\ "Evict" \in Types \ {"SendHeartbeat"} /\ "CompleteReport" \in Types \ {"SendHeartbeat"}
      /\ "CompleteThrottle" \in Types \ {"SendHeartbeat"}
  BY SMTT(30) DEF Types
<1> HIDE DEF g
<1>5. ph = "outstanding" /\ Live(h, t) /\ ~Has(h.incoming_hbs, "Evict", t)
  BY DEF TokenInv
<1>6. Live(g, t) /\ ~Has(g.incoming_hbs, "Evict", t)
  BY <1>2, <1>3, <1>4, <1>5, ZenonT(30)
     DEF Live, ReportPending, ThrottlePending, OneReport, OneThrottle
<1>7. TokenInv(g, t, ph, st, 0)
  BY <1>5, <1>6, Zenon DEF TokenInv
<1>8. QED
  BY <1>7, ZenonT(30) DEF g, a

\* A throttle that elapses stays the only one.
LEMMA ThrottleSent ==
    ASSUME NEW h \in Manager, NEW s \in Tokens, h.sleepers[s] > 0,
           NEW t \in Tokens, NEW ph, NEW st, NEW calling, TokenInv(h, t, ph, st, calling)
    PROVE  TokenInv(Send([h EXCEPT !.sleepers[s] = @ - 1], CompleteThrottle(s)),
                    t, ph, st, calling)
<1> DEFINE a == CompleteThrottle(s)
           sleeping == [h.sleepers EXCEPT ![s] = @ - 1]
           f == [h EXCEPT !.sleepers = sleeping]
           g == Send(f, a)
<1>1. /\ a \in Action /\ Is(a, "CompleteThrottle", s) /\ "CompleteThrottle" \in Types
      /\ a.tok = s
  BY Zenon DEF CompleteThrottle, Action, Is, Types
<1>2. /\ sleeping \in [Tokens -> Nat] /\ sleeping[s] = h.sleepers[s] - 1
      /\ h.sleepers[s] \in Nat /\ \A u \in Tokens \ {s} : sleeping[u] = h.sleepers[u]
  BY DEF Manager
<1>3. [h EXCEPT !.sleepers[s] = @ - 1] = f
  BY DEF Manager
<1> HIDE DEF a, sleeping
<1>4. /\ f \in Manager /\ f.sleepers = sleeping /\ f.incoming_hbs = h.incoming_hbs
      /\ f.tt_to_state = h.tt_to_state /\ f.notified = h.notified /\ f.reports = h.reports
      /\ f.tt_needs_flush = h.tt_needs_flush /\ h.incoming_hbs \in Seq(Action)
  BY <1>2, Zenon DEF Manager
<1>5. Requests(f, t) = Requests(h, t)
  BY <1>4 DEF Requests
<1> HIDE DEF f
<1>6. CASE t # s
  <2>1. SameFields(h, f, t)
    BY <1>2, <1>4, <1>5, <1>6 DEF SameFields
  <2>2. SameQueue(h.incoming_hbs, f.incoming_hbs, t, st)
    BY <1>4, OtherAction, ZenonT(30)
  <2>3. TokenInv(f, t, ph, st, calling)
    BY <2>1, <2>2, SameToken, SMTT(30)
  <2>4. TokenInv(g, t, ph, st, calling)
    BY <1>1, <1>4, <1>6, <2>3, SendOther, SMTT(30)
  <2>5. QED
    BY <1>3, <2>4, SMTT(30) DEF g, a
<1>7. CASE t = s
  <2>1. /\ g.tt_to_state = h.tt_to_state /\ g.notified = h.notified
        /\ g.tt_needs_flush = h.tt_needs_flush /\ g.sleepers[s] = h.sleepers[s] - 1
        /\ Requests(g, s) = Requests(h, s)
    BY <1>1, <1>2, <1>4, <1>5, <1>7, SendFacts, ZenonT(30)
  <2>2. /\ \A ty \in Types \ {"CompleteThrottle"} :
              /\ Has(g.incoming_hbs, ty, s) <=> Has(f.incoming_hbs, ty, s)
              /\ Once(f.incoming_hbs, ty, s) => Once(g.incoming_hbs, ty, s)
        /\ /\ Once(f.incoming_hbs, "CompleteThrottle", s)
           /\ ~Has(f.incoming_hbs, "CompleteThrottle", s)
           => Once(g.incoming_hbs, "CompleteThrottle", s)
    BY <1>1, <1>4, SendOwn, ZenonT(30)
  <2>3. EvictLast(h.incoming_hbs, s, st) => EvictLast(g.incoming_hbs, s, st)
    <3>1. ~Is(a, "Evict", s) /\ ~Is(a, "SendHeartbeat", s)
      BY <1>1 DEF Is
    <3>2. EvictLast(h.incoming_hbs, s, st) => EvictLast(Append(h.incoming_hbs, a), s, st)
      BY <1>1, <1>4, <3>1, AppendedLast, ZenonT(30)
    <3>3. g.incoming_hbs = IF f.running THEN Append(f.incoming_hbs, a) ELSE f.incoming_hbs
      BY <1>1, <1>4, SendFacts, Zenon
    <3>4. CASE f.running
      <4>1. g.incoming_hbs = Append(h.incoming_hbs, a)
        BY <1>4, <3>3, <3>4, Zenon
      <4>2. QED
        BY <3>2, <4>1, Zenon
    <3>5. CASE ~f.running
      <4>1. g.incoming_hbs = h.incoming_hbs
        BY <1>4, <3>3, <3>5, ZenonT(30)
      <4>2. QED
        BY <4>1, Zenon
    <3>6. QED
      BY <3>4, <3>5, ZenonT(30)
  <2>4. {"Evict", "SendHeartbeat", "CompleteReport"} \subseteq Types \ {"CompleteThrottle"}
    BY DEF Types
  <2>5. /\ Has(g.incoming_hbs, "Evict", s) <=> Has(h.incoming_hbs, "Evict", s)
        /\ Has(g.incoming_hbs, "SendHeartbeat", s) <=> Has(h.incoming_hbs, "SendHeartbeat", s)
        /\ Has(g.incoming_hbs, "CompleteReport", s) <=> Has(h.incoming_hbs, "CompleteReport", s)
        /\ Once(h.incoming_hbs, "CompleteReport", s) => Once(g.incoming_hbs, "CompleteReport", s)
    BY <1>4, <2>2, <2>4, ZenonT(30)
  <2> HIDE DEF g
  <2>6. /\ ReportPending(g, s) <=> ReportPending(h, s)
        /\ OneReport(h, s) => OneReport(g, s)
    BY <2>1, <2>5, ZenonT(30) DEF ReportPending, OneReport
  <2>7. Live(h, s) => Live(g, s)
    <3> SUFFICES ASSUME Live(h, s)
                 PROVE  Live(g, s)
      OBVIOUS
    <3>1. ThrottlePending(h, s) /\ h.sleepers[s] = 1
      <4>1. h.sleepers[s] > 0 /\ h.sleepers[s] <= 1
        BY Zenon DEF Live, OneThrottle
      <4>2. h.sleepers[s] \in Nat
        BY <1>2, ZenonT(30)
      <4>3. h.sleepers[s] = 1
        BY <4>1, <4>2, SMTT(30)
      <4>4. QED
        BY <4>1, <4>3, Zenon DEF ThrottlePending
    <3>2. g.sleepers[s] = 0 /\ OneThrottle(g, s)
      <4>1. g.sleepers[s] = 0
        BY <2>1, <3>1, SMT
      <4>2. OneThrottle(h, s) /\ f.incoming_hbs = h.incoming_hbs /\ h.sleepers[s] > 0
        BY <1>4, Zenon DEF Live
      <4>3. Once(g.incoming_hbs, "CompleteThrottle", s)
        BY <2>2, <4>2, Zenon DEF OneThrottle
      <4>4. QED
        BY <4>1, <4>3, SMTT(30) DEF OneThrottle
    <3>3. QED
      BY <2>1, <2>6, <3>1, <3>2, ZenonT(30) DEF Live
  <2>8. Gone(h, s, st) => Gone(g, s, st)
    BY <2>1, <2>5, <2>6, ZenonT(30) DEF Gone
  <2>9. TokenInv(g, s, ph, st, calling)
    BY <1>7, <2>1, <2>3, <2>5, <2>7, <2>8, Zenon DEF TokenInv
  <2>10. QED
    BY <1>3, <1>7, <2>9, SMTT(30) DEF g, a
<1>8. QED
  BY <1>6, <1>7

\* A report that ends stays the only one, and what waits for it still does.
LEMMA ReplySent ==
    ASSUME NEW h \in Manager, NEW r \in h.reports,
           NEW t \in Tokens, NEW ph, NEW st, NEW calling, TokenInv(h, t, ph, st, calling)
    PROVE  TokenInv(Send([h EXCEPT !.reports = @ \ {r}], CompleteReport(r.tok)),
                    t, ph, st, calling)
<1> DEFINE s == r.tok
           a == CompleteReport(s)
           left == h.reports \ {r}
           f == [h EXCEPT !.reports = left]
           g == Send(f, a)
<1>1. s \in Tokens /\ left \subseteq [tok : Tokens, details : Nat]
  BY SMTT(30) DEF Manager
<1>2. /\ a \in Action /\ Is(a, "CompleteReport", s) /\ "CompleteReport" \in Types
      /\ a.tok = s
  BY <1>1 DEF CompleteReport, Action, Is, Types
<1>3. [h EXCEPT !.reports = @ \ {r}] = f
  BY DEF Manager
<1> HIDE DEF a, left
<1>4. /\ f \in Manager /\ f.sleepers = h.sleepers /\ f.incoming_hbs = h.incoming_hbs
      /\ f.tt_to_state = h.tt_to_state /\ f.notified = h.notified /\ f.reports = left
      /\ f.tt_needs_flush = h.tt_needs_flush /\ h.incoming_hbs \in Seq(Action)
  BY <1>1, Zenon DEF Manager
<1> HIDE DEF f
<1>5. CASE t # s
  <2>1. Requests(f, t) = Requests(h, t)
    BY <1>4, <1>5, SMTT(30) DEF Requests, left
  <2>2. SameFields(h, f, t)
    BY <1>4, <2>1 DEF SameFields
  <2>3. SameQueue(h.incoming_hbs, f.incoming_hbs, t, st)
    BY <1>4, OtherAction, ZenonT(30)
  <2>4. TokenInv(f, t, ph, st, calling)
    BY <2>2, <2>3, SameToken
  <2>5. TokenInv(g, t, ph, st, calling)
    BY <1>2, <1>4, <1>5, <2>4, SendOther, Zenon
  <2>6. QED
    BY <1>3, <2>5, SMTT(30) DEF g, a
<1>6. CASE t = s
  <2>1. /\ g.tt_to_state = h.tt_to_state /\ g.notified = h.notified
        /\ g.tt_needs_flush = h.tt_needs_flush /\ g.sleepers = h.sleepers
        /\ Requests(g, s) = Requests(f, s)
    BY <1>1, <1>2, <1>4, SendFacts, ZenonT(30)
  <2>2. /\ \A ty \in Types \ {"CompleteReport"} :
              /\ Has(g.incoming_hbs, ty, s) <=> Has(f.incoming_hbs, ty, s)
              /\ Once(f.incoming_hbs, ty, s) => Once(g.incoming_hbs, ty, s)
        /\ /\ Once(f.incoming_hbs, "CompleteReport", s)
           /\ ~Has(f.incoming_hbs, "CompleteReport", s)
           => Once(g.incoming_hbs, "CompleteReport", s)
    BY <1>1, <1>2, <1>4, SendOwn, ZenonT(30)
  <2>3. EvictLast(h.incoming_hbs, s, st) => EvictLast(g.incoming_hbs, s, st)
    <3>1. ~Is(a, "Evict", s) /\ ~Is(a, "SendHeartbeat", s)
      BY <1>2 DEF Is
    <3>2. EvictLast(h.incoming_hbs, s, st) => EvictLast(Append(h.incoming_hbs, a), s, st)
      BY <1>2, <1>4, <3>1, AppendedLast, ZenonT(30)
    <3>3. g.incoming_hbs = IF f.running THEN Append(f.incoming_hbs, a) ELSE f.incoming_hbs
      BY <1>2, <1>4, SendFacts, Zenon
    <3>4. CASE f.running
      <4>1. g.incoming_hbs = Append(h.incoming_hbs, a)
        BY <1>4, <3>3, <3>4, Zenon
      <4>2. QED
        BY <3>2, <4>1, Zenon
    <3>5. CASE ~f.running
      <4>1. g.incoming_hbs = h.incoming_hbs
        BY <1>4, <3>3, <3>5, ZenonT(30)
      <4>2. QED
        BY <4>1, Zenon
    <3>6. QED
      BY <3>4, <3>5, ZenonT(30)
  <2>4. {"Evict", "SendHeartbeat", "CompleteThrottle"} \subseteq Types \ {"CompleteReport"}
    BY DEF Types
  <2>5. /\ Has(g.incoming_hbs, "Evict", s) <=> Has(h.incoming_hbs, "Evict", s)
        /\ Has(g.incoming_hbs, "SendHeartbeat", s) <=> Has(h.incoming_hbs, "SendHeartbeat", s)
        /\ Has(g.incoming_hbs, "CompleteThrottle", s)
              <=> Has(h.incoming_hbs, "CompleteThrottle", s)
        /\ Once(h.incoming_hbs, "CompleteThrottle", s)
              => Once(g.incoming_hbs, "CompleteThrottle", s)
    BY <1>4, <2>2, <2>4, Zenon
  <2> HIDE DEF g
  <2>6. /\ ThrottlePending(g, s) <=> ThrottlePending(h, s)
        /\ OneThrottle(h, s) => OneThrottle(g, s)
    BY <2>1, <2>5, ZenonT(30) DEF ThrottlePending, OneThrottle
  <2>7. r \in Requests(h, s) /\ ReportPending(h, s)
    BY DEF Requests, ReportPending
  <2>8. OneReport(h, s) => OneReport(g, s)
    <3> SUFFICES ASSUME OneReport(h, s)
                 PROVE  OneReport(g, s)
      BY ZenonT(30)
    <3>1. Requests(f, s) = {}
      BY <1>4, <2>7, ZenonT(30) DEF Requests, OneReport, left
    <3>2. QED
      BY <1>4, <2>1, <2>2, <2>7, <3>1, ZenonT(30) DEF OneReport
  <2>9. Live(h, s) => Live(g, s)
    BY <2>1, <2>6, <2>7, <2>8, ZenonT(30) DEF Live
  <2>10. Gone(h, s, st) => Gone(g, s, st)
    BY <2>1, <2>5, <2>7, <2>8, ZenonT(30) DEF Gone
  <2>11. TokenInv(g, s, ph, st, calling)
    BY <1>6, <2>1, <2>3, <2>5, <2>9, <2>10, ZenonT(30) DEF TokenInv
  <2>12. QED
    BY <1>3, <1>6, <2>11 DEF g, a
<1>7. QED
  BY <1>5, <1>6

\* The eviction is asked for after the last heartbeat was sent.
LEMMA EvictSent ==
    ASSUME NEW h \in Manager, h.running, NEW t \in Tokens, NEW b \in BOOLEAN, NEW st,
           b => st = "cancelled", NEW calling, TokenInv(h, t, "counted", st, calling)
    PROVE  TokenInv(Send(h, Evict(t, b)), t, "evicting", st, calling)
<1> DEFINE a == Evict(t, b)
           g == Send(h, a)
<1>1. /\ a \in Action /\ Is(a, "Evict", t) /\ "Evict" \in Types /\ a.should_flush = b
  BY SMTT(30) DEF Evict, Action, Is, Types
<1> HIDE DEF a
<1>2. /\ g.tt_to_state = h.tt_to_state /\ g.notified = h.notified
      /\ g.tt_needs_flush = h.tt_needs_flush /\ g.sleepers = h.sleepers
      /\ Requests(g, t) = Requests(h, t) /\ h.incoming_hbs \in Seq(Action)
      /\ g.incoming_hbs = Append(h.incoming_hbs, a)
  <2>1. /\ g.tt_to_state = h.tt_to_state /\ g.notified = h.notified
        /\ g.tt_needs_flush = h.tt_needs_flush /\ g.sleepers = h.sleepers
        /\ \A u \in Tokens : Requests(g, u) = Requests(h, u)
        /\ h.incoming_hbs \in Seq(Action)
    BY <1>1, SendFacts
  <2>2. g.incoming_hbs = Append(h.incoming_hbs, a)
    BY DEF Send, Manager
  <2>3. QED
    BY <2>1, <2>2, SMTT(30)
<1>3. /\ \A ty \in Types \ {"Evict"} :
            /\ Has(g.incoming_hbs, ty, t) <=> Has(h.incoming_hbs, ty, t)
            /\ Once(h.incoming_hbs, ty, t) => Once(g.incoming_hbs, ty, t)
      /\ Has(g.incoming_hbs, "Evict", t)
  BY <1>1, SendOwn, Zenon
<1>4. {"CompleteReport", "CompleteThrottle"} \subseteq Types \ {"Evict"}
  BY SMTT(30) DEF Types
<1> HIDE DEF g
<1>5. calling = 0 /\ Live(h, t) /\ ~Has(h.incoming_hbs, "Evict", t)
  BY DEF TokenInv
<1>6. a.should_flush => st = "cancelled"
  BY <1>1
<1>7. EvictLast(g.incoming_hbs, t, st)
  BY <1>1, <1>2, <1>5, <1>6, AppendedLast, Zenon
<1>8. Live(g, t)
  BY <1>2, <1>3, <1>4, <1>5, ZenonT(30)
     DEF Live, ReportPending, ThrottlePending, OneReport, OneThrottle
<1>9. TokenInv(g, t, "evicting", st, calling)
  BY <1>3, <1>5, <1>7, <1>8, Zenon DEF TokenInv
<1>10. QED
  BY <1>9, SMTT(30) DEF g, a

\* An eviction that was notified has nothing left to wait for.
LEMMA EvictedKeeps ==
    ASSUME NEW h \in Manager, NEW s \in Tokens, s \in h.notified, NEW t \in Tokens,
           NEW ph \in Phases, NEW st, NEW calling, TokenInv(h, t, ph, st, calling),
           t = s => ph = "evicting"
    PROVE  LET g == [h EXCEPT !.notified = @ \ {s}] IN
           IF t = s THEN \A new \in {"reporting", "done"} : TokenInv(g, t, new, st, calling)
                    ELSE TokenInv(g, t, ph, st, calling)
<1> DEFINE g == [h EXCEPT !.notified = @ \ {s}]
<1>1. /\ g.incoming_hbs = h.incoming_hbs /\ g.tt_to_state = h.tt_to_state
      /\ g.sleepers = h.sleepers /\ g.tt_needs_flush = h.tt_needs_flush
      /\ g.reports = h.reports /\ g.notified = h.notified \ {s}
      /\ h.incoming_hbs \in Seq(Action)
  BY SMTT(30) DEF Manager
<1> HIDE DEF g
<1>2. Requests(g, t) = Requests(h, t)
  BY <1>1 DEF Requests
<1>3. CASE t # s
  <2>1. SameFields(h, g, t)
    BY <1>1, <1>2, <1>3, SMTT(30) DEF SameFields
  <2>2. SameQueue(h.incoming_hbs, g.incoming_hbs, t, st)
    BY <1>1, OtherAction, ZenonT(30)
  <2>3. TokenInv(g, t, ph, st, calling)
    BY <2>1, <2>2, SameToken
  <2>4. QED
    BY <1>3, <2>3, SMTT(30) DEF g
<1>4. CASE t = s
  <2>1. Gone(h, s, st) /\ calling = 0
    BY <1>4, ZenonT(30) DEF TokenInv, Live
  <2>2. Gone(g, s, st) /\ s \notin g.tt_needs_flush
    BY <1>1, <1>2, <1>4, <2>1, ZenonT(30) DEF Gone, OneReport, ReportPending
  <2>3. \A new \in {"reporting", "done"} : TokenInv(g, s, new, st, calling)
    BY <2>1, <2>2, ZenonT(30) DEF TokenInv
  <2>4. QED
    BY <1>4, <2>3 DEF g
<1>5. QED
  BY <1>3, <1>4

\* The manager is stopped when nothing is on its way for any token.
LEMMA ShutdownKeeps ==
    ASSUME NEW h \in Manager, NEW t \in Tokens, NEW ph \in {"new", "done"}, NEW st,
           NEW calling, TokenInv(h, t, ph, st, calling)
    PROVE  TokenInv(Shutdown(h), t, ph, st, calling)
<1> DEFINE g == Shutdown(h)
<1>1. /\ g.incoming_hbs = <<>> /\ g.tt_to_state = h.tt_to_state
      /\ g.sleepers[t] = 0 /\ g.tt_needs_flush = h.tt_needs_flush
      /\ g.reports = h.reports /\ g.notified = h.notified
  BY SMTT(30) DEF Manager, Shutdown
<1> HIDE DEF g
<1>2. Requests(g, t) = Requests(h, t)
  BY <1>1 DEF Requests
<1>3. \A ty : ~Has(<<>>, ty, t) /\ Once(<<>>, ty, t)
  BY SMTT(30) DEF Has, Once
<1>4. ~ThrottlePending(g, t) /\ OneThrottle(g, t) /\ (ReportPending(g, t) => ReportPending(h, t))
  BY <1>1, <1>2, <1>3, SMTT(30) DEF ThrottlePending, OneThrottle, ReportPending
<1>5. OneReport(h, t) => OneReport(g, t)
  BY <1>1, <1>2, <1>3, ZenonT(30) DEF OneReport
<1>6. Live(h, t) => Live(g, t)
  BY <1>1, <1>4, <1>5, ZenonT(30) DEF Live
<1>7. Gone(h, t, st) => Gone(g, t, st)
  BY <1>1, <1>3, <1>4, <1>5, ZenonT(30) DEF Gone
<1>8. TokenInv(g, t, ph, st, calling)
  BY <1>1, <1>3, <1>6, <1>7, ZenonT(30) DEF TokenInv
<1>9. QED
  BY <1>8 DEF g

\* The stream that ended stays ended: no start can follow.
LEMMA DoneStays ==
    ASSUME TeardownInv, [Next]_vars, until = "done"
    PROVE  until' = "done"
<1> USE DEF TeardownInv, life
<1>1. ~StartsComplete
  BY DEF StartsComplete
<1>2. ASSUME NEW t \in Tokens,
             \/ PollStart(t) \/ LocalTimeout(t) \/ CancelActivity(t) \/ RecordHeartbeat(t)
             \/ SendHeartbeat(t) \/ ThrottleElapses(t) \/ TakeTask(t) \/ Evicted(t)
             \/ Reported(t)
      PROVE  until' = "done"
  BY <1>2, Zenon DEF PollStart, LocalTimeout, CancelActivity, RecordHeartbeat, SendHeartbeat,
              ThrottleElapses, TakeTask, Evicted, Reported
<1>3. ASSUME NEW t \in Tokens, RequestReturns(t) \/ LangCompletes(t)
      PROVE  until' = "done"
  BY <1>3, Zenon DEF RequestReturns, HeartbeatReply, LangCompletes, Complete
<1>4. ASSUME \/ PollCancel \/ UntilLooksAtMap \/ UntilLooksAtCount \/ UntilWakes
             \/ GracePeriodElapses \/ HeartbeatStep \/ InitiateShutdown \/ Shutdown0
             \/ ShutdownLocks \/ ShutdownStopsHeartbeats \/ ShutdownJoins \/ UNCHANGED vars
      PROVE  until' = "done"
  BY <1>4, Zenon DEF PollCancel, UntilLooksAtMap, UntilLooksAtCount, UntilWakes,
              GracePeriodElapses, HeartbeatStep, InitiateShutdown, Shutdown0,
              ShutdownLocks, ShutdownStopsHeartbeats, ShutdownJoins, vars
<1>5. QED
  BY <1>1, <1>2, <1>3, <1>4, ZenonT(30) DEF Next

\* Nothing is sent to a manager that was stopped.
LEMMA SendStopped ==
    ASSUME NEW h \in Manager, NEW a \in Action, Stopped(h)
    PROVE  Stopped(Send(h, a)) /\ Send(h, a).running = h.running
BY SendFacts, ZenonT(30) DEF Stopped

\* What the steps of the manager do to a manager that was stopped.
LEMMA StoppedStep ==
    ASSUME MailboxInv, [Next]_vars, Stopped(hb)
    PROVE  Stopped(hb') /\ (hb'.running = hb.running \/ until = "done")
<1>1. hb \in Manager /\ heartbeating \in [Tokens -> Nat]
  BY DEF MailboxInv
<1>2. CASE hb' = hb
  BY <1>2
<1>3. ASSUME NEW t \in Tokens, SendHeartbeat(t)
      PROVE  Stopped(hb') /\ hb'.running = hb.running
  <2>1. Heartbeat(t, heartbeating[t]) \in Action
    BY <1>1 DEF Heartbeat, Action
  <2>2. QED
    BY <1>1, <1>3, <2>1, SendStopped, SMTT(30) DEF SendHeartbeat
<1>4. CASE HeartbeatStep
  <2>1. hb'.running
    BY <1>1, <1>4, HandleActionRuns DEF HeartbeatStep
  <2>2. QED
    BY <1>4, <2>1, SMTT(30) DEF HeartbeatStep, Stopped, Manager
<1>5. ASSUME NEW t \in Tokens, ThrottleElapses(t)
      PROVE  Stopped(hb') /\ hb'.running = hb.running
  <2> DEFINE sleeping == [hb.sleepers EXCEPT ![t] = @ - 1]
             f == [hb EXCEPT !.sleepers = sleeping]
  <2>1. sleeping \in [Tokens -> Nat]
    BY <1>1, <1>5 DEF Manager, ThrottleElapses
  <2>2. hb' = Send(f, CompleteThrottle(t))
    BY <1>1, <1>5 DEF ThrottleElapses, Manager
  <2> HIDE DEF sleeping
  <2>3. f \in Manager /\ f.running = hb.running /\ f.incoming_hbs = hb.incoming_hbs
    BY <1>1, <2>1, Zenon DEF Manager
  <2>4. CompleteThrottle(t) \in Action /\ Stopped(f)
    BY <2>3, SMTT(30) DEF CompleteThrottle, Action, Stopped
  <2> HIDE DEF f
  <2>5. QED
    BY <2>2, <2>3, <2>4, SendStopped
<1>6. ASSUME NEW t \in Tokens, RequestReturns(t)
      PROVE  Stopped(hb') /\ hb'.running = hb.running
  <2>1. PICK r \in hb.reports : hb' = Send([hb EXCEPT !.reports = @ \ {r}], CompleteReport(r.tok))
    BY <1>6, Zenon DEF RequestReturns, HeartbeatReply
  <2> DEFINE f == [hb EXCEPT !.reports = @ \ {r}]
  <2>2. f \in Manager /\ f.running = hb.running /\ f.incoming_hbs = hb.incoming_hbs
    BY <1>1, Zenon DEF Manager
  <2>3. r.tok \in Tokens
    BY <1>1 DEF Manager
  <2>4. CompleteReport(r.tok) \in Action /\ Stopped(f)
    BY <2>2, <2>3 DEF CompleteReport, Action, Stopped
  <2> HIDE DEF f
  <2>5. hb' = Send(f, CompleteReport(r.tok))
    BY <2>1 DEF f
  <2>6. QED
    BY <2>2, <2>4, <2>5, SendStopped
<1>7. ASSUME NEW t \in Tokens, TakeTask(t)
      PROVE  Stopped(hb') /\ hb'.running = hb.running
  <2>1. Evict(t, should_flush(act[t])) \in Action
    BY DEF Evict, Action, should_flush
  <2>2. QED
    BY <1>1, <1>7, <2>1, SendStopped, SMTT(30) DEF TakeTask
<1>8. ASSUME NEW t \in Tokens, Evicted(t)
      PROVE  Stopped(hb') /\ hb'.running = hb.running
  <2>1. hb'.running = hb.running /\ hb'.incoming_hbs = hb.incoming_hbs
    BY <1>1, <1>8, SMTT(30) DEF Evicted, Manager
  <2>2. QED
    BY <2>1 DEF Stopped
<1>9. CASE ShutdownStopsHeartbeats
  <2>1. hb'.incoming_hbs = <<>>
    BY <1>1, <1>9 DEF ShutdownStopsHeartbeats, Shutdown, Manager
  <2>2. QED
    BY <1>9, <2>1 DEF ShutdownStopsHeartbeats, Stopped
<1>10. ASSUME NEW t \in Tokens,
              \/ PollStart(t) \/ LocalTimeout(t) \/ CancelActivity(t) \/ RecordHeartbeat(t)
              \/ LangCompletes(t) \/ Reported(t)
       PROVE  hb' = hb
  BY <1>10 DEF PollStart, LocalTimeout, CancelActivity, RecordHeartbeat, LangCompletes,
               Complete, Reported
<1>11. ASSUME \/ PollCancel \/ StartsComplete \/ UntilLooksAtMap \/ UntilLooksAtCount
              \/ UntilWakes \/ GracePeriodElapses \/ InitiateShutdown \/ Shutdown0
              \/ ShutdownLocks \/ ShutdownJoins \/ UNCHANGED vars
       PROVE  hb' = hb
  BY <1>11 DEF PollCancel, StartsComplete, UntilLooksAtMap, UntilLooksAtCount, UntilWakes,
               GracePeriodElapses, InitiateShutdown, Shutdown0, ShutdownLocks,
               ShutdownJoins, vars
<1>12. QED
  BY <1>2, <1>3, <1>4, <1>5, <1>6, <1>7, <1>8, <1>9, <1>10, <1>11, SMTT(30) DEF Next

\* The steps that leave the manager, the calls and how far a completion is.
Calm ==
    /\ hb' = hb /\ heartbeating' = heartbeating
    /\ \A t \in Tokens : act'[t].phase = act[t].phase /\ act'[t].status = act[t].status

\* Polls, cancels and the stages of a shutdown are such steps.
LEMMA CalmActions ==
    ASSUME ActType,
           \/ PollCancel \/ StartsComplete \/ UntilLooksAtMap \/ UntilLooksAtCount
           \/ UntilWakes \/ GracePeriodElapses \/ InitiateShutdown \/ Shutdown0
           \/ ShutdownLocks \/ ShutdownJoins \/ UNCHANGED vars
           \/ \E t \in Tokens : LocalTimeout(t) \/ CancelActivity(t)
    PROVE  Calm
<1>1. CASE PollCancel
  <2>1. CASE UNCHANGED act
    BY <1>1, <2>1, SMTT(30) DEF PollCancel, Calm
  <2>2. ASSUME NEW t \in Tokens, NEW reason, act' = [act EXCEPT ![t].cancel = reason]
        PROVE  Calm
    BY <1>1, <2>2 DEF ActType, PollCancel, Calm
  <2>3. QED
    BY <1>1, <2>1, <2>2, SMTT(30) DEF PollCancel, Outstanding
<1>2. ASSUME NEW t \in Tokens, LocalTimeout(t)
      PROVE  Calm
  BY <1>2, SMTT(30) DEF ActType, LocalTimeout, Calm
<1>3. ASSUME NEW t \in Tokens, CancelActivity(t)
      PROVE  Calm
  BY <1>3 DEF CancelActivity, Calm
<1>4. ASSUME \/ StartsComplete \/ UntilLooksAtMap \/ UntilLooksAtCount
             \/ UntilWakes \/ GracePeriodElapses \/ InitiateShutdown \/ Shutdown0
             \/ ShutdownLocks \/ ShutdownJoins \/ UNCHANGED vars
      PROVE  Calm
  BY <1>4, ZenonT(30) DEF StartsComplete, UntilLooksAtMap, UntilLooksAtCount, UntilWakes,
              GracePeriodElapses, InitiateShutdown, Shutdown0, ShutdownLocks,
              ShutdownJoins, vars, Calm
<1>5. QED
  BY <1>1, <1>2, <1>3, <1>4, SMTT(30)

\* Lang's steps: a start, a heartbeat call and a completion move one activity on.
LEMMA LangKeepsTokens ==
    ASSUME ~Overlap, ActType, heartbeating \in [Tokens -> Nat], TokensInv, NEW t \in Tokens,
           PollStart(t) \/ RecordHeartbeat(t) \/ LangCompletes(t) \/ Reported(t)
    PROVE  TokensInv'
<1> USE DEF ActType
<1>1. TokenInv(hb, t, act[t].phase, act[t].status, heartbeating[t])
  BY Zenon DEF TokensInv
<1>2. /\ hb' = hb
      /\ \A s \in Tokens \ {t} : /\ act'[s] = act[s]
                                 /\ heartbeating'[s] = heartbeating[s]
  BY DEF PollStart, RecordHeartbeat, LangCompletes, Complete, Reported, Finish
<1>3. TokenInv(hb, t, act'[t].phase, act'[t].status, heartbeating'[t])
  <2>1. CASE PollStart(t)
    <3>1. /\ act[t].phase = "new" /\ act'[t].phase = "outstanding"
          /\ act'[t].status = act[t].status /\ heartbeating' = heartbeating
      BY <2>1 DEF PollStart
    <3>2. QED
      BY <1>1, <3>1, Zenon DEF TokenInv
  <2>2. CASE RecordHeartbeat(t)
    <3>1. /\ act[t].phase = "outstanding" /\ act'[t].phase = act[t].phase
          /\ act'[t].status = act[t].status
      BY <2>2 DEF RecordHeartbeat
    <3>2. QED
      BY <1>1, <3>1, Zenon DEF TokenInv
  <2>3. CASE LangCompletes(t)
    <3>1. PICK status \in Statuses : Complete(t, status)
      BY <2>3, Zenon DEF LangCompletes
    <3>2. /\ act[t].phase = "outstanding" /\ act'[t].phase = "counted"
          /\ heartbeating' = heartbeating /\ heartbeating[t] = 0
      BY <3>1 DEF Complete
    <3>3. QED
      BY <1>1, <3>2, ZenonT(30) DEF TokenInv
  <2>4. CASE Reported(t)
    <3>1. /\ act[t].phase = "reporting" /\ act'[t].phase = "done"
          /\ act'[t].status = act[t].status /\ heartbeating' = heartbeating
      BY <2>4 DEF Reported, Finish
    <3>2. QED
      BY <1>1, <3>1, Zenon DEF TokenInv
  <2>5. QED
    BY <2>1, <2>2, <2>3, <2>4, ZenonT(30)
<1>4. ASSUME NEW s \in Tokens
      PROVE  TokenInv(hb', s, act'[s].phase, act'[s].status, heartbeating'[s])
  <2>1. CASE s = t
    BY <1>2, <1>3, <2>1, SMTT(30)
  <2>2. CASE s # t
    <3>1. TokenInv(hb, s, act[s].phase, act[s].status, heartbeating[s])
      BY DEF TokensInv
    <3>2. QED
      BY <1>2, <2>2, <3>1, SMTT(30)
  <2>3. QED
    BY <2>1, <2>2, ZenonT(30)
<1>5. QED
  BY <1>4, ZenonT(30) DEF TokensInv

\* A step that sends for t alone, and moves on no other activity.
LEMMA SendKeepsTokens ==
    ASSUME hb \in Manager, TokensInv, NEW t \in Tokens, NEW a \in Action, a.tok = t,
           hb' = Send(hb, a),
           \A s \in Tokens \ {t} : /\ act'[s].phase = act[s].phase
                                   /\ act'[s].status = act[s].status
                                   /\ heartbeating'[s] = heartbeating[s],
           TokenInv(Send(hb, a), t, act'[t].phase, act'[t].status, heartbeating'[t])
    PROVE  TokensInv'
<1>1. ASSUME NEW s \in Tokens
      PROVE  TokenInv(hb', s, act'[s].phase, act'[s].status, heartbeating'[s])
  <2>1. CASE s = t
    BY <2>1, SMTT(30)
  <2>2. CASE s # t
    <3>1. TokenInv(hb, s, act[s].phase, act[s].status, heartbeating[s])
      BY DEF TokensInv
    <3>2. TokenInv(Send(hb, a), s, act[s].phase, act[s].status, heartbeating[s])
      BY <2>2, <3>1, SendOther, Zenon
    <3>3. QED
      BY <2>2, <3>2, SMTT(30)
  <2>3. QED
    BY <2>1, <2>2, ZenonT(30)
<1>2. QED
  BY <1>1, ZenonT(30) DEF TokensInv

\* The end of a heartbeat call, and a completion that asks for its eviction: the
\* task was in the map, so the manager still runs.
LEMMA CallsKeepTokens ==
    ASSUME EvictInv, NEW t \in Tokens, SendHeartbeat(t) \/ TakeTask(t)
    PROVE  TokensInv'
<1>1. hb \in Manager /\ TokensInv /\ ActType /\ heartbeating \in [Tokens -> Nat]
  BY DEF EvictInv, MailboxInv
<1>2. TokenInv(hb, t, act[t].phase, act[t].status, heartbeating[t])
  BY <1>1 DEF TokensInv
<1>3. CASE SendHeartbeat(t)
  <2> DEFINE n == heartbeating[t]
             a == Heartbeat(t, n)
  <2>1. n \in Nat /\ n # 0 /\ a \in Action /\ a.tok = t
    BY <1>1, <1>3, SMTT(30) DEF SendHeartbeat, Heartbeat, Action
  <2>2. /\ hb' = Send(hb, a) /\ act' = act /\ heartbeating'[t] = 0
        /\ \A s \in Tokens \ {t} : heartbeating'[s] = heartbeating[s]
    BY <1>1, <1>3 DEF SendHeartbeat
  <2>3. TokenInv(Send(hb, a), t, act[t].phase, act[t].status, 0)
    BY <1>1, <1>2, <2>1, HeartbeatSent, ZenonT(30)
  <2> HIDE DEF a, n
  <2>4. TokenInv(Send(hb, a), t, act'[t].phase, act'[t].status, heartbeating'[t])
    BY <2>2, <2>3
  <2>5. QED
    BY <1>1, <2>1, <2>2, <2>4, SendKeepsTokens, ZenonT(30)
<1>4. CASE TakeTask(t)
  <2> DEFINE b == should_flush(act[t])
             a == Evict(t, b)
             st == act[t].status
  <2>1. b \in BOOLEAN /\ (b => st = "cancelled") /\ a \in Action /\ a.tok = t
    BY Zenon DEF should_flush, Evict, Action
  <2>2. /\ hb' = Send(hb, a) /\ heartbeating' = heartbeating
        /\ act[t].phase = "counted" /\ act'[t].phase = "evicting" /\ act'[t].status = st
        /\ \A s \in Tokens \ {t} : act'[s] = act[s]
    BY <1>1, <1>4 DEF TakeTask, ActType
  <2>3. hb.running
    <3>1. t \in Outstanding
      BY <2>2, SMTT(30) DEF Outstanding
    <3>2. until # "done"
      BY <3>1, SMTT(30) DEF EvictInv, TeardownInv
    <3>3. QED
      BY <3>2, SMTT(30) DEF EvictInv
  <2> HIDE DEF a, b, st
  <2>4. TokenInv(hb, t, "counted", st, heartbeating[t])
    BY <1>2, <2>2, SMTT(30) DEF st
  <2>5. TokenInv(Send(hb, a), t, "evicting", st, heartbeating[t])
    BY <1>1, <2>1, <2>3, <2>4, EvictSent, ZenonT(30) DEF a
  <2>6. TokenInv(Send(hb, a), t, act'[t].phase, act'[t].status, heartbeating'[t])
    BY <2>2, <2>5, SMTT(30)
  <2>7. QED
    BY <1>1, <2>1, <2>2, <2>6, SendKeepsTokens, ZenonT(30)
<1>5. QED
  BY <1>3, <1>4, SMTT(30)

\* The manager's own steps, and those of its throttles and requests.
LEMMA ManagerKeepsTokens ==
    ASSUME EvictInv,
           HeartbeatStep \/ \E t \in Tokens : ThrottleElapses(t) \/ RequestReturns(t)
    PROVE  TokensInv'
<1> DEFINE ph == [t \in Tokens |-> act[t].phase]
           st == [t \in Tokens |-> act[t].status]
<1>1. hb \in Manager /\ TokensInv /\ ActType /\ ph \in [Tokens -> Phases]
  BY DEF EvictInv, MailboxInv, ActType
<1>2. act' = act /\ heartbeating' = heartbeating
  BY ZenonT(30) DEF HeartbeatStep, ThrottleElapses, RequestReturns, HeartbeatReply
<1>3. SUFFICES ASSUME NEW t \in Tokens
               PROVE  TokenInv(hb', t, act[t].phase, act[t].status, heartbeating[t])
  BY <1>2, SMTT(30) DEF TokensInv
<1>4. TokenInv(hb, t, act[t].phase, act[t].status, heartbeating[t])
  BY <1>1, SMTT(30) DEF TokensInv
<1>5. CASE HeartbeatStep
  <2>1. \A s \in Tokens : TokenInv(hb, s, ph[s], st[s], heartbeating[s])
    BY <1>1, SMTT(30) DEF TokensInv
  <2> HIDE DEF ph, st
  <2>2. hb' = HandleAction(hb) /\ hb.incoming_hbs # <<>>
    BY <1>5 DEF HeartbeatStep
  <2>3. \A s \in Tokens : TokenInv(HandleAction(hb), s, ph[s], st[s], heartbeating[s])
    BY <1>1, <2>1, <2>2, HandleActionKeeps, ZenonT(30)
  <2>4. TokenInv(hb', t, ph[t], st[t], heartbeating[t])
    BY <2>2, <2>3
  <2>5. QED
    BY <2>4, SMTT(30) DEF ph, st
<1>6. ASSUME NEW s \in Tokens, ThrottleElapses(s)
      PROVE  TokenInv(hb', t, act[t].phase, act[t].status, heartbeating[t])
  <2>1. /\ hb' = Send([hb EXCEPT !.sleepers[s] = @ - 1], CompleteThrottle(s))
        /\ hb.sleepers[s] > 0
    BY <1>6 DEF ThrottleElapses
  <2>2. TokenInv(Send([hb EXCEPT !.sleepers[s] = @ - 1], CompleteThrottle(s)),
                 t, act[t].phase, act[t].status, heartbeating[t])
    BY <1>1, <1>4, <2>1, ThrottleSent, ZenonT(30)
  <2>3. QED
    BY <2>1, <2>2, Zenon
<1>7. ASSUME NEW s \in Tokens, RequestReturns(s)
      PROVE  TokenInv(hb', t, act[t].phase, act[t].status, heartbeating[t])
  <2>1. PICK r \in hb.reports : hb' = Send([hb EXCEPT !.reports = @ \ {r}], CompleteReport(r.tok))
    BY <1>7, ZenonT(30) DEF RequestReturns, HeartbeatReply
  <2>2. TokenInv(Send([hb EXCEPT !.reports = @ \ {r}], CompleteReport(r.tok)),
                 t, act[t].phase, act[t].status, heartbeating[t])
    BY <1>1, <1>4, ReplySent, ZenonT(30)
  <2>3. QED
    BY <2>1, <2>2, Zenon
<1>8. QED
  BY <1>5, <1>6, <1>7, SMTT(30)

\* The end of an eviction, and of the manager, when every activity is reported.
LEMMA EndKeepsTokens ==
    ASSUME EvictInv, ShutdownStopsHeartbeats \/ \E t \in Tokens : Evicted(t)
    PROVE  TokensInv'
<1>1. hb \in Manager /\ TokensInv /\ ActType /\ TeardownInv
  BY DEF EvictInv, MailboxInv
<1>2. heartbeating' = heartbeating
  BY SMTT(30) DEF ShutdownStopsHeartbeats, Evicted
<1>3. SUFFICES ASSUME NEW t \in Tokens
               PROVE  TokenInv(hb', t, act'[t].phase, act'[t].status, heartbeating[t])
  BY <1>2, SMTT(30) DEF TokensInv
<1>4. /\ TokenInv(hb, t, act[t].phase, act[t].status, heartbeating[t])
      /\ act[t].phase \in Phases
  BY <1>1, SMTT(30) DEF TokensInv, ActType
<1>5. CASE ShutdownStopsHeartbeats
  <2>1. hb' = Shutdown(hb) /\ act' = act /\ until = "done"
    BY <1>5, SMTT(30) DEF ShutdownStopsHeartbeats
  <2>2. act[t].phase \in {"new", "done"}
    BY <1>1, <1>4, <2>1, SMTT(30) DEF TeardownInv, Outstanding, Phases
  <2>3. TokenInv(Shutdown(hb), t, act[t].phase, act[t].status, heartbeating[t])
    BY <1>1, <1>4, <2>2, ShutdownKeeps, ZenonT(30)
  <2>4. QED
    BY <2>1, <2>3, SMTT(30)
<1>6. ASSUME NEW s \in Tokens, Evicted(s)
      PROVE  TokenInv(hb', t, act'[t].phase, act'[t].status, heartbeating[t])
  <2> DEFINE g == [hb EXCEPT !.notified = @ \ {s}]
  <2>1. /\ hb' = g /\ s \in hb.notified /\ act[s].phase = "evicting"
        /\ act'[s].phase \in {"reporting", "done"} /\ act'[s].status = act[s].status
        /\ \A u \in Tokens \ {s} : act'[u] = act[u]
    BY <1>1, <1>6 DEF Evicted, Finish, ActType
  <2>2. t = s => act[t].phase = "evicting"
    BY <2>1
  <2>3. IF t = s
        THEN \A new \in {"reporting", "done"} :
                TokenInv(g, t, new, act[t].status, heartbeating[t])
        ELSE TokenInv(g, t, act[t].phase, act[t].status, heartbeating[t])
    BY <1>1, <1>4, <2>1, <2>2, EvictedKeeps, ZenonT(30)
  <2> HIDE DEF g
  <2>4. CASE t = s
    BY <2>1, <2>3, <2>4, SMTT(30)
  <2>5. CASE t # s
    BY <2>1, <2>3, <2>5, SMTT(30)
  <2>6. QED
    BY <2>4, <2>5
<1>7. QED
  BY <1>5, <1>6, ZenonT(30)

\* Initially nothing is tracked and nothing is on its way.
LEMMA EvictInit == Init => EvictInv
<1> SUFFICES ASSUME Init
             PROVE  EvictInv
  OBVIOUS
<1>1. MailboxInv /\ TeardownInv
  BY MailboxInit, TeardownInit, SMTT(30)
<1>2. /\ hb.running /\ hb.incoming_hbs = <<>> /\ hb.reports = {} /\ hb.tt_needs_flush = {}
      /\ hb.notified = {}
  BY DEF Init, NewManager
<1>3. \A ty, t : ~Has(<<>>, ty, t) /\ Once(<<>>, ty, t)
  BY DEF Has, Once
<1>4. ASSUME NEW t \in Tokens
      PROVE  TokenInv(hb, t, act[t].phase, act[t].status, heartbeating[t])
  <2>1. /\ ~hb.tt_to_state[t].tracked /\ hb.sleepers[t] = 0 /\ act[t].phase = "new"
        /\ heartbeating[t] = 0
    BY SMTT(30) DEF Init, NewManager, Untracked, NewActivity
  <2>2. Requests(hb, t) = {} /\ ~ReportPending(hb, t) /\ ~ThrottlePending(hb, t)
    BY <1>2, <1>3, <2>1, SMTT(30) DEF Requests, ReportPending, ThrottlePending
  <2>3. OneReport(hb, t) /\ OneThrottle(hb, t)
    <3>1. OneReport(hb, t)
      BY <1>2, <1>3, <2>2, ZenonT(30) DEF OneReport
    <3>2. hb.sleepers[t] <= 1 /\ ~(hb.sleepers[t] > 0)
      BY <2>1, SMTT(30)
    <3>3. Once(hb.incoming_hbs, "CompleteThrottle", t)
      BY <1>2, <1>3, ZenonT(30)
    <3>4. QED
      BY <3>1, <3>2, <3>3, ZenonT(30) DEF OneThrottle
  <2>4. Live(hb, t)
    BY <1>2, <2>2, <2>3, SMTT(30) DEF Live
  <2>5. QED
    BY <1>2, <1>3, <2>1, <2>4, ZenonT(30) DEF TokenInv
<1>5. QED
  BY <1>1, <1>2, <1>4 DEF EvictInv, TokensInv, Stopped

\* Every step keeps the invariant, unless lang completes an activity during its
\* heartbeat call.
LEMMA EvictStep ==
    ASSUME ~Overlap, EvictInv, [Next]_vars
    PROVE  EvictInv'
<1>1. MailboxInv /\ TeardownInv /\ TokensInv /\ ActType /\ Stopped(hb)
  BY DEF EvictInv, MailboxInv
<1>2. MailboxInv' /\ TeardownInv'
  BY <1>1, MailboxStep, TeardownStep, SMTT(30)
<1>3. Stopped(hb') /\ (hb'.running = hb.running \/ until = "done")
  BY <1>1, StoppedStep
<1>4. ~hb'.running => until' = "done"
  BY <1>1, <1>3, DoneStays, SMTT(30) DEF EvictInv
<1>5. TokensInv'
  <2>1. heartbeating \in [Tokens -> Nat]
    BY <1>1, SMTT(30) DEF MailboxInv
  <2>2. CASE Calm
    <3>1. ASSUME NEW t \in Tokens
          PROVE  TokenInv(hb', t, act'[t].phase, act'[t].status, heartbeating'[t])
      <4>1. TokenInv(hb, t, act[t].phase, act[t].status, heartbeating[t])
        BY <1>1 DEF TokensInv
      <4>2. QED
        BY <2>2, <4>1, SMTT(30) DEF Calm
    <3>2. QED
      BY <3>1, SMTT(30) DEF TokensInv
  <2>3. ASSUME NEW t \in Tokens,
               PollStart(t) \/ RecordHeartbeat(t) \/ LangCompletes(t) \/ Reported(t)
        PROVE  TokensInv'
    BY <1>1, <2>1, <2>3, LangKeepsTokens, SMTT(30)
  <2>4. ASSUME NEW t \in Tokens, SendHeartbeat(t) \/ TakeTask(t)
        PROVE  TokensInv'
    BY <2>4, CallsKeepTokens
  <2>5. CASE HeartbeatStep \/ \E t \in Tokens : ThrottleElapses(t) \/ RequestReturns(t)
    BY <2>5, ManagerKeepsTokens
  <2>6. CASE ShutdownStopsHeartbeats \/ \E t \in Tokens : Evicted(t)
    BY <2>6, EndKeepsTokens
  <2>7. CASE \/ PollCancel \/ StartsComplete \/ UntilLooksAtMap \/ UntilLooksAtCount
             \/ UntilWakes \/ GracePeriodElapses \/ InitiateShutdown \/ Shutdown0
             \/ ShutdownLocks \/ ShutdownJoins \/ UNCHANGED vars
             \/ \E t \in Tokens : LocalTimeout(t) \/ CancelActivity(t)
    BY <1>1, <2>2, <2>7, CalmActions
  <2>8. QED
    BY <2>3, <2>4, <2>5, <2>6, <2>7, SMTT(30) DEF Next
<1>6. QED
  BY <1>2, <1>3, <1>4, <1>5, SMTT(30) DEF EvictInv, Stopped

\* If lang completes no activity during a heartbeat call for it, then whatever the
\* heartbeats, throttles, replies and the shutdown do, a completion reaches the
\* server after the last heartbeat of its activity, cancellations apart: evict waits
\* for the one report that can be in flight, and nothing is recorded behind it.
THEOREM HeartbeatsEndFirst ==
    ASSUME ~Overlap
    PROVE  Spec => []ReportedAfterHeartbeats
<1>1. EvictInv => ReportedAfterHeartbeats
  <2> SUFFICES ASSUME EvictInv, NEW t \in Tokens, NEW r \in hb.reports, r.tok = t,
                      act[t].phase \notin {"outstanding", "counted", "evicting"}
               PROVE  act[t].status = "cancelled"
    BY SMTT(30) DEF ReportedAfterHeartbeats
  <2>1. TokenInv(hb, t, act[t].phase, act[t].status, heartbeating[t])
    BY SMTT(30) DEF EvictInv, TokensInv
  <2>2. act[t].phase \in {"new", "reporting", "done"}
    BY SMTT(30) DEF EvictInv, MailboxInv, ActType, Phases
  <2>3. r \in Requests(hb, t) /\ ReportPending(hb, t)
    BY DEF Requests, ReportPending
  <2>4. act[t].phase # "new"
    BY <2>1, <2>3, Zenon DEF TokenInv, Live
  <2>5. QED
    BY <2>1, <2>2, <2>3, <2>4, ZenonT(30) DEF TokenInv, Gone
<1>2. EvictInv /\ [Next]_vars => EvictInv'
  BY EvictStep
<1>3. QED
  BY <1>1, <1>2, EvictInit, PTL DEF Spec

\* Under the same condition the manager's receiver is alive for every heartbeat call
\* that found its activity in the map.
THEOREM ReceiverOutlivesCalls ==
    ASSUME ~Overlap
    PROVE  Spec => []ExpectationsHold
<1> DEFINE Inv == EvictInv /\ ExpectationsHold
<1>1. Init => Inv
  BY EvictInit DEF Init, ExpectationsHold
<1>2. Inv /\ [Next]_vars => Inv'
  <2> SUFFICES ASSUME EvictInv, panics = {}, [Next]_vars
               PROVE  EvictInv' /\ panics' = {}
    BY DEF ExpectationsHold
  <2>1. EvictInv'
    BY EvictStep
  <2>2. ASSUME NEW t \in Tokens, SendHeartbeat(t)
        PROVE  panics' = {}
    <3>1. TokenInv(hb, t, act[t].phase, act[t].status, heartbeating[t])
      BY DEF EvictInv, TokensInv
    <3>2. t \in Outstanding
      BY <2>2, <3>1, ZenonT(30) DEF SendHeartbeat, TokenInv, Outstanding
    <3>3. hb.running
      BY <3>2 DEF EvictInv, TeardownInv
    <3>4. QED
      BY <2>2, <3>3, SMTT(30) DEF SendHeartbeat
  <2>3. ASSUME NEW t \in Tokens,
               \/ PollStart(t) \/ LocalTimeout(t) \/ CancelActivity(t) \/ RecordHeartbeat(t)
               \/ ThrottleElapses(t) \/ RequestReturns(t) \/ LangCompletes(t) \/ TakeTask(t)
               \/ Evicted(t) \/ Reported(t)
        PROVE  panics' = panics
    BY <2>3, ZenonT(30) DEF PollStart, LocalTimeout, CancelActivity, RecordHeartbeat, ThrottleElapses,
                RequestReturns, HeartbeatReply, LangCompletes, Complete, TakeTask, Evicted,
                Reported
  <2>4. ASSUME \/ PollCancel \/ StartsComplete \/ UntilLooksAtMap \/ UntilLooksAtCount
               \/ UntilWakes \/ GracePeriodElapses \/ HeartbeatStep \/ InitiateShutdown
               \/ Shutdown0 \/ ShutdownLocks \/ ShutdownStopsHeartbeats \/ ShutdownJoins
               \/ UNCHANGED vars
        PROVE  panics' = panics
    BY <2>4 DEF PollCancel, StartsComplete, UntilLooksAtMap, UntilLooksAtCount, UntilWakes,
                GracePeriodElapses, HeartbeatStep, InitiateShutdown, Shutdown0,
                ShutdownLocks, ShutdownStopsHeartbeats, ShutdownJoins, vars
  <2>5. QED
    BY <2>1, <2>2, <2>3, <2>4 DEF Next
<1>3. Inv => ExpectationsHold
  OBVIOUS
<1>4. QED
  BY <1>1, <1>2, <1>3, PTL DEF Spec

\* And no heartbeat is recorded for a token after its eviction was asked for.
THEOREM NothingRecordedAfterEvict ==
    ASSUME ~Overlap
    PROVE  Spec => NoRecordAfterEvict
<1>1. EvictInv => \A t \in Tokens : SendHeartbeat(t) => t \in Outstanding
  BY Zenon DEF EvictInv, TokensInv, SendHeartbeat, TokenInv, Outstanding
<1>2. EvictInv /\ [Next]_vars => EvictInv'
  BY EvictStep
<1>3. QED
  BY <1>1, <1>2, EvictInit, PTL DEF Spec, NoRecordAfterEvict
=============================================================================
