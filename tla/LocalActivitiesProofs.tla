------------------------ MODULE LocalActivitiesProofs ------------------------
(***************************************************************************)
(* Proofs about LocalActivities, for every set of activities and of runs,    *)
(* every retry policy and every number of slots and requests: the manager's  *)
(* assertions hold, a workflow gets one resolution, shutdown loses nothing.  *)
(***************************************************************************)
EXTENDS LocalActivities, TLAPS

-----------------------------------------------------------------------------
(* The inductive invariant                                                  *)

Attempts == outstanding_activity_tasks

Types ==
    /\ next_tt_num \in Nat
    /\ DOMAIN la_info \subseteq Las
    /\ \A l \in DOMAIN la_info :
          la_info[l] \in [task_token : 1..next_tt_num, queued_for_dispatch : BOOLEAN,
                          backing_off : {"no", "sleeping", "sent"}, attempt : Nat, bag : BOOLEAN]
    /\ DOMAIN Attempts \subseteq 1..next_tt_num
    /\ \A t \in DOMAIN Attempts :
          Attempts[t] \in [la : Las, attempt : Nat, cancel : {"no", "queued", "delivered"}]
    /\ act_req \in Seq([la : Las, attempt : Nat])
    /\ detached \subseteq [la : Las, attempt : Nat, tok : Nat]
    /\ wf \in [Las -> {"new", "owed", "requeued", "resolved", "twice"}]
    /\ evicting \in [Runs -> {"no", "withheld", "issued"}]

\* A token belongs to one activity; the attempt lang holds is the one its
\* activity's entry names, and such an activity neither backs off nor waits for
\* dispatch.
TokensOwned ==
    /\ \A k, l \in DOMAIN la_info : la_info[k].task_token = la_info[l].task_token => k = l
    /\ \A t \in DOMAIN Attempts :
          LET l == Attempts[t].la IN
          /\ l \in DOMAIN la_info
          /\ la_info[l].task_token = t
          /\ la_info[l].backing_off = "no"
          /\ ~la_info[l].queued_for_dispatch

Requested(l) == \E i \in 1..Len(act_req) : act_req[i].la = l
OneRequest(l) ==
    \A i, j \in 1..Len(act_req) : act_req[i].la = l /\ act_req[j].la = l => i = j
LeftBehind(l) == \E s \in detached : s.la = l
Executing(l) == la_info[l].task_token \in DOMAIN Attempts

\* What the workflow was told agrees with what the manager will still do.  An
\* activity it waits for is in one place: requested, asleep or with lang.  One
\* that was resolved has an entry only if nothing can come of it.
Told(l) ==
    /\ wf[l] # "twice"
    /\ wf[l] = "new" => l \notin DOMAIN la_info
    /\ wf[l] = "owed" /\ l \in DOMAIN la_info =>
          /\ ~LeftBehind(l)
          /\ OneRequest(l)
          /\ Requested(l) => la_info[l].backing_off # "sleeping" /\ ~Executing(l)
    /\ wf[l] = "resolved" /\ l \in DOMAIN la_info =>
          /\ ~LeftBehind(l) /\ ~Requested(l) /\ ~Executing(l)
          /\ la_info[l].backing_off = "no" /\ ~la_info[l].queued_for_dispatch
ToldAgrees == \A l \in Las : Told(l)

\* A run whose eviction was issued has no cancel on its way to lang.
IssuedIsQuiet ==
    \A r \in Runs : evicting[r] = "issued" => ~has_undelivered_cancels(Attempts, r)

ShutdownInv ==
    shutdown_complete => workflows_have_shut_down /\ NothingPending(Attempts, la_info)

Inv ==
    /\ Types
    /\ TokensOwned
    /\ ToldAgrees
    /\ IssuedIsQuiet
    /\ ShutdownInv
    /\ dbg_panics = {}

-----------------------------------------------------------------------------
(* Facts about functions and sequences                                      *)

\* Appending to the request channel adds the request at its end.
LEMMA AppendFacts ==
    ASSUME NEW S, NEW s \in Seq(S), NEW e \in S
    PROVE  /\ Append(s, e) \in Seq(S)
           /\ Len(Append(s, e)) = Len(s) + 1
           /\ \A i \in 1..Len(s) : Append(s, e)[i] = s[i]
           /\ Append(s, e)[Len(s) + 1] = e
OBVIOUS

\* Taking the first request moves the others up.
LEMMA TailFacts ==
    ASSUME NEW S, NEW s \in Seq(S), s # <<>>
    PROVE  /\ Tail(s) \in Seq(S)
           /\ Len(s) \in Nat /\ Len(s) > 0
           /\ Len(Tail(s)) = Len(s) - 1
           /\ \A i \in 1..Len(Tail(s)) : Tail(s)[i] = s[i + 1]
           /\ Head(s) = s[1] /\ Head(s) \in S
OBVIOUS

\* The manager starts with nothing: no entry, no request, nothing told.
LEMMA InitInv == Init => Inv
<1> SUFFICES ASSUME Init PROVE Inv
    OBVIOUS
<1>1. Types
    BY DEF Init, Types, Attempts
<1>2. TokensOwned /\ ToldAgrees /\ IssuedIsQuiet /\ ShutdownInv /\ dbg_panics = {}
    BY DEF Init, TokensOwned, ToldAgrees, Told, IssuedIsQuiet, ShutdownInv, Attempts,
           has_undelivered_cancels, NothingPending
<1> QED
    BY <1>1, <1>2 DEF Inv

-----------------------------------------------------------------------------
(* Each action keeps the invariant.                                         *)

\* A step that does not touch an activity's entry, except perhaps to remove it,
\* and adds nothing that may come of it, leaves what the workflow was told true.
LEMMA ToldFrame ==
    ASSUME ToldAgrees, NEW k \in Las, wf'[k] = wf[k],
           k \in DOMAIN la_info' => k \in DOMAIN la_info /\ la_info'[k] = la_info[k],
           Requested(k)' => Requested(k),
           OneRequest(k) => OneRequest(k)',
           LeftBehind(k)' => LeftBehind(k),
           k \in DOMAIN la_info' /\ Executing(k)' => Executing(k)
    PROVE  Told(k)'
BY DEF ToldAgrees, Told

\* A workflow asks for an activity that has no entry.  Its request is the only
\* place of the activity, unless a request of an evicted run is still queued.
LEMMA NewInv ==
    ASSUME Inv, NEW l \in Las, NEW n \in FirstAttempts, New(l, n)
    PROVE  Inv'
<1> DEFINE tok == next_tt_num + 1
           req == [la |-> l, attempt |-> Greatest(n, 1)]
<1> USE DEF Inv, Attempts
<1>1. /\ ~workflows_have_shut_down
      /\ wf[l] = "new"
      /\ l \notin DOMAIN la_info
      /\ next_tt_num' = tok
      /\ Attempts' = Attempts /\ evicting' = evicting /\ detached' = detached
      /\ workflows_have_shut_down' = workflows_have_shut_down
      /\ shutdown_complete' = shutdown_complete
    BY DEF New, ToldAgrees, Told, shut
<1>2. next_tt_num \in Nat /\ tok \in Nat /\ tok \in 1..tok /\ \A k \in DOMAIN la_info : la_info[k].task_token # tok
    BY DEF Types
<1>3. tok \notin DOMAIN Attempts
    BY DEF Types
<1>4. req \in [la : Las, attempt : Nat]
    BY LasAssumption DEF Greatest
<1>5. IssuedIsQuiet'
    BY <1>1 DEF IssuedIsQuiet, has_undelivered_cancels
<1>6. ShutdownInv'
    BY <1>1 DEF ShutdownInv
<1>7. \E q \in BOOLEAN : la_info' = With(la_info, l, Entry(tok, q, q))
    BY <1>1, Zenon DEF New
<1>8. PICK q \in BOOLEAN : la_info' = With(la_info, l, Entry(tok, q, q))
    BY <1>7
<1>9. /\ DOMAIN la_info' = DOMAIN la_info \cup {l}
      /\ la_info'[l] = Entry(tok, q, q)
      /\ \A k \in DOMAIN la_info : k # l /\ la_info'[k] = la_info[k]
    BY <1>1, <1>8 DEF With
<1>10. TokensOwned'
    BY <1>1, <1>2, <1>9 DEF TokensOwned, Entry
<1>11. \A k \in DOMAIN la_info' :
          la_info'[k] \in [task_token : 1..next_tt_num', queued_for_dispatch : BOOLEAN,
                           backing_off : {"no", "sleeping", "sent"}, attempt : Nat, bag : BOOLEAN]
    <2> SUFFICES ASSUME NEW k \in DOMAIN la_info'
                 PROVE  <1>11!(k)
        OBVIOUS
    <2>1. CASE k = l
        BY <1>1, <1>2, <1>9, <2>1 DEF Entry
    <2>2. CASE k # l
        BY <1>1, <1>2, <1>9, <2>2 DEF Types
    <2> QED
        BY <2>1, <2>2
<1>12. act_req' \in Seq([la : Las, attempt : Nat]) => Types'
    <2>1. DOMAIN la_info' \subseteq Las /\ DOMAIN Attempts \subseteq 1..tok
        BY <1>2, <1>9 DEF Types
    <2>2. wf' \in [Las -> {"new", "owed", "requeued", "resolved", "twice"}]
        BY <1>1, Zenon DEF Types, New
    <2> QED
        BY <1>1, <1>2, <1>11, <2>1, <2>2 DEF Types
<1>13. CASE /\ la_info' = With(la_info, l, Entry(tok, TRUE, TRUE))
            /\ act_req' = Append(act_req, req)
            /\ wf' = [wf EXCEPT ![l] = IF StillQueued(l) THEN "requeued" ELSE "owed"]
            /\ dbg_panics' = dbg_panics
    <2>1. /\ act_req' \in Seq([la : Las, attempt : Nat])
          /\ Len(act_req) \in Nat /\ Len(act_req') = Len(act_req) + 1
          /\ \A i \in 1..Len(act_req) : act_req'[i] = act_req[i]
          /\ act_req'[Len(act_req) + 1] = req
        BY <1>4, <1>13, AppendFacts DEF Types
    <2>3. ToldAgrees'
        <3> SUFFICES ASSUME NEW k \in Las
                     PROVE  Told(k)'
            BY DEF ToldAgrees
        <3>1. CASE k # l
            <4>1. wf'[k] = wf[k] /\ (k \in DOMAIN la_info' => k \in DOMAIN la_info /\ la_info'[k] = la_info[k])
                BY <1>9, <1>13, <3>1, Zenon DEF Types
            <4>2. (Requested(k)' => Requested(k)) /\ (OneRequest(k) => OneRequest(k)')
                <5>1. \A i \in 1..Len(act_req') :
                         act_req'[i].la = k => i \in 1..Len(act_req) /\ act_req[i].la = k
                    BY <2>1, <3>1
                <5> QED
                    BY <5>1, Zenon DEF Requested, OneRequest
            <4>3. (LeftBehind(k)' => LeftBehind(k)) /\ (k \in DOMAIN la_info' /\ Executing(k)' => Executing(k))
                BY <1>1, <4>1 DEF LeftBehind, Executing
            <4> QED
                BY <4>1, <4>2, <4>3, ToldFrame
        <3>2. CASE k = l
            BY <1>1, <1>3, <1>9, <1>13, <2>1, <3>2
               DEF Told, Types, LeftBehind, OneRequest, Requested, Executing, Entry, StillQueued
        <3> QED
            BY <3>1, <3>2
    <2> QED
        BY <1>5, <1>6, <1>10, <1>12, <1>13, <2>1, <2>3
<1>14. CASE /\ la_info' = With(la_info, l, Entry(tok, FALSE, FALSE))
            /\ act_req' = act_req
            /\ wf' = [wf EXCEPT ![l] = IF StillQueued(l) THEN "requeued" ELSE "resolved"]
            /\ dbg_panics' = dbg_panics
    <2>3. ToldAgrees'
        <3> SUFFICES ASSUME NEW k \in Las
                     PROVE  Told(k)'
            BY DEF ToldAgrees
        <3>1. CASE k # l
            <4>1. wf'[k] = wf[k] /\ (k \in DOMAIN la_info' => k \in DOMAIN la_info /\ la_info'[k] = la_info[k])
                BY <1>9, <1>14, <3>1, Zenon DEF Types
            <4>2. (Requested(k)' => Requested(k)) /\ (OneRequest(k) => OneRequest(k)')
                BY <1>14 DEF Requested, OneRequest
            <4>3. (LeftBehind(k)' => LeftBehind(k)) /\ (k \in DOMAIN la_info' /\ Executing(k)' => Executing(k))
                BY <1>1, <4>1 DEF LeftBehind, Executing
            <4> QED
                BY <4>1, <4>2, <4>3, ToldFrame
        <3>2. CASE k = l
            <4>1. wf'[l] = IF StillQueued(l) THEN "requeued" ELSE "resolved"
                BY <1>14 DEF Types
            <4>2. ~StillQueued(l) => ~Requested(l)' /\ ~LeftBehind(l)'
                BY <1>1, <1>14 DEF StillQueued, Requested, LeftBehind, Types
            <4>3. la_info'[l] = Entry(tok, FALSE, FALSE)
                BY <1>14 DEF With
            <4> QED
                BY <1>1, <1>3, <3>2, <4>1, <4>2, <4>3 DEF Told, Executing, Entry
        <3> QED
            BY <3>1, <3>2
    <2> QED
        BY <1>5, <1>6, <1>10, <1>12, <1>14, <2>3, Zenon DEF Types
<1> QED
    BY <1>1, <1>13, <1>14, Zenon DEF New

\* cancel_one_la for the activities S keeps what no single activity's history
\* is needed for; it removes entries of S and queues cancels for attempts of S.
LEMMA CancelLasKeeps ==
    ASSUME Inv, NEW S \in SUBSET DOMAIN la_info, CancelLas(S), ~workflows_have_shut_down,
           UNCHANGED <<next_tt_num, detached, act_req, workflows_have_shut_down>>
    PROVE  /\ DOMAIN la_info' = {l \in DOMAIN la_info : l \in S => InFlight(l)}
           /\ \A l \in DOMAIN la_info' : la_info'[l] = la_info[l]
           /\ DOMAIN Attempts' = DOMAIN Attempts
           /\ \A t \in DOMAIN Attempts :
                 /\ Attempts'[t] \in [la : Las, attempt : Nat, cancel : {"no", "queued", "delivered"}]
                 /\ Attempts'[t].la = Attempts[t].la
                 /\ Attempts[t].la \notin S => Attempts'[t] = Attempts[t]
           /\ TokensOwned'
           /\ ShutdownInv'
<1> DEFINE gone == {l \in S : ~InFlight(l)}
           asked == {la_info[l].task_token : l \in S \ gone}
           first == {t \in asked : outstanding_activity_tasks[t].cancel = "no"}
<1> USE DEF Attempts
<1>1. la_info' = Without(la_info, gone)
    BY DEF CancelLas
<1>2. /\ DOMAIN la_info' = {l \in DOMAIN la_info : l \in S => InFlight(l)}
      /\ \A l \in DOMAIN la_info' : la_info'[l] = la_info[l]
    BY <1>1 DEF Without
<1>3. Attempts' = [t \in DOMAIN Attempts |->
                     IF t \in first THEN [Attempts[t] EXCEPT !.cancel = "queued"] ELSE Attempts[t]]
    BY DEF CancelLas
<1>4. \A t \in DOMAIN Attempts : t \in first => Attempts[t].la \in S
    <2> SUFFICES ASSUME NEW t \in DOMAIN Attempts, t \in first
                 PROVE  Attempts[t].la \in S
        OBVIOUS
    <2>1. PICK l \in S \ gone : t = la_info[l].task_token
        OBVIOUS
    <2> QED
        BY <2>1 DEF Inv, TokensOwned
<1> HIDE DEF first
<1>5. /\ DOMAIN Attempts' = DOMAIN Attempts
      /\ \A t \in DOMAIN Attempts :
            /\ Attempts'[t] \in [la : Las, attempt : Nat, cancel : {"no", "queued", "delivered"}]
            /\ Attempts'[t].la = Attempts[t].la
            /\ Attempts[t].la \notin S => Attempts'[t] = Attempts[t]
    BY <1>3, <1>4, Zenon DEF Inv, Types
<1>6. TokensOwned'
    BY <1>2, <1>5 DEF Inv, TokensOwned, InFlight
<1>7. ShutdownInv'
    BY Zenon DEF Inv, CancelLas, ShutdownInv, set_shutdown_complete_if_ready
<1> QED
    BY <1>2, <1>5, <1>6, <1>7

\* A workflow's cancel of one activity.
LEMMA CancelInv ==
    ASSUME Inv, NEW l \in Las, Cancel(l)
    PROVE  Inv'
<1> DEFINE S == {l} \cap DOMAIN la_info
<1> USE DEF Attempts
<1>1. /\ ~workflows_have_shut_down /\ wf[l] \in {"owed", "requeued"} /\ evicting[RunOf[l]] = "no"
      /\ CancelLas(S) /\ Resolve({k \in S : CancelledNow(k)})
      /\ UNCHANGED <<next_tt_num, detached, act_req, workflows_have_shut_down, evicting, dbg_panics>>
    BY DEF Cancel
<1>2. /\ DOMAIN la_info' = {k \in DOMAIN la_info : k \in S => InFlight(k)}
      /\ \A k \in DOMAIN la_info' : la_info'[k] = la_info[k]
      /\ DOMAIN Attempts' = DOMAIN Attempts
      /\ \A t \in DOMAIN Attempts :
            /\ Attempts'[t] \in [la : Las, attempt : Nat, cancel : {"no", "queued", "delivered"}]
            /\ Attempts'[t].la = Attempts[t].la
            /\ Attempts[t].la \notin S => Attempts'[t] = Attempts[t]
      /\ TokensOwned'
      /\ ShutdownInv'
    BY <1>1, CancelLasKeeps, Zenon
<1>3. wf' = [k \in Las |-> IF ~(k \in S /\ CancelledNow(k)) THEN wf[k]
                           ELSE CASE wf[k] = "owed" -> "resolved"
                                  [] wf[k] = "requeued" -> "requeued"
                                  [] OTHER -> "twice"]
    BY <1>1 DEF Resolve
<1>4. Types'
    <2>1. wf' \in [Las -> {"new", "owed", "requeued", "resolved", "twice"}]
        BY <1>3 DEF Inv, Types
    <2> QED
        BY <1>1, <1>2, <2>1 DEF Inv, Types
<1>5. ToldAgrees'
    <2> SUFFICES ASSUME NEW k \in Las
                 PROVE  Told(k)'
        BY DEF ToldAgrees
    <2>1. CASE ~(k \in S /\ CancelledNow(k))
        <3>1. wf'[k] = wf[k]
            BY <1>3, <2>1
        <3>2. /\ Requested(k)' <=> Requested(k)
              /\ OneRequest(k)' <=> OneRequest(k)
              /\ LeftBehind(k)' <=> LeftBehind(k)
              /\ k \in DOMAIN la_info' /\ Executing(k)' => Executing(k)
            BY <1>1, <1>2 DEF Requested, OneRequest, LeftBehind, Executing
        <3> QED
            BY <1>2, <3>1, <3>2, ToldFrame DEF Inv
    <2>2. CASE k \in S /\ CancelledNow(k)
        <3>1. k = l /\ k \notin DOMAIN la_info'
            BY <1>2, <2>2 DEF CancelledNow
        <3>2. wf'[k] \in {"resolved", "requeued"}
            BY <1>1, <1>3, <2>2, <3>1
        <3> QED
            BY <3>1, <3>2 DEF Told
    <2> QED
        BY <2>1, <2>2
<1>6. IssuedIsQuiet'
    <2> SUFFICES ASSUME NEW r \in Runs, evicting[r] = "issued",
                        NEW t \in DOMAIN Attempts, RunOf[Attempts'[t].la] = r
                 PROVE  Attempts'[t].cancel # "queued"
        BY <1>1, <1>2 DEF IssuedIsQuiet, has_undelivered_cancels
    <2>1. Attempts[t].la \notin S
        BY <1>1, <1>2
    <2> QED
        BY <1>2, <2>1 DEF Inv, IssuedIsQuiet, has_undelivered_cancels
<1> QED
    BY <1>1, <1>2, <1>4, <1>5, <1>6 DEF Inv

\* A pass of a run that is to be evicted.
LEMMA CancelAllInRunInv ==
    ASSUME Inv, NEW r \in Runs, CancelAllInRun(r)
    PROVE  Inv'
<1> DEFINE S == LasOf(r)
<1> USE DEF Attempts
<1>1. /\ ~workflows_have_shut_down
      /\ CancelLas(S)
      /\ evicting' = [evicting EXCEPT ![r] =
            IF has_undelivered_cancels(Attempts', r) THEN "withheld" ELSE "issued"]
      /\ UNCHANGED <<next_tt_num, detached, act_req, workflows_have_shut_down, wf, dbg_panics>>
    BY DEF CancelAllInRun
<1>2. /\ DOMAIN la_info' = {k \in DOMAIN la_info : k \in S => InFlight(k)}
      /\ \A k \in DOMAIN la_info' : la_info'[k] = la_info[k]
      /\ DOMAIN Attempts' = DOMAIN Attempts
      /\ \A t \in DOMAIN Attempts :
            /\ Attempts'[t] \in [la : Las, attempt : Nat, cancel : {"no", "queued", "delivered"}]
            /\ Attempts'[t].la = Attempts[t].la
            /\ Attempts[t].la \notin S => Attempts'[t] = Attempts[t]
      /\ TokensOwned'
      /\ ShutdownInv'
    <2>1. S \in SUBSET DOMAIN la_info
        BY DEF LasOf
    <2> QED
        BY <1>1, <2>1, CancelLasKeeps, Zenon
<1>4. Types'
    <2>1. evicting' \in [Runs -> {"no", "withheld", "issued"}]
        BY <1>1 DEF Inv, Types
    <2> QED
        BY <1>1, <1>2, <2>1 DEF Inv, Types
<1>5. ToldAgrees'
    <2> SUFFICES ASSUME NEW k \in Las
                 PROVE  Told(k)'
        BY DEF ToldAgrees
    <2>1. /\ Requested(k)' <=> Requested(k)
          /\ OneRequest(k)' <=> OneRequest(k)
          /\ LeftBehind(k)' <=> LeftBehind(k)
          /\ k \in DOMAIN la_info' /\ Executing(k)' => Executing(k)
        BY <1>1, <1>2 DEF Requested, OneRequest, LeftBehind, Executing
    <2> QED
        BY <1>1, <1>2, <2>1, ToldFrame DEF Inv
<1>6. IssuedIsQuiet'
    <2> SUFFICES ASSUME NEW q \in Runs, evicting'[q] = "issued"
                 PROVE  ~has_undelivered_cancels(Attempts', q)
        BY DEF IssuedIsQuiet
    <2>1. CASE q = r
        BY <1>1, <2>1 DEF Inv, Types
    <2>2. CASE q # r
        <3> SUFFICES ASSUME NEW t \in DOMAIN Attempts, RunOf[Attempts'[t].la] = q
                     PROVE  Attempts'[t].cancel # "queued"
            BY <1>2 DEF has_undelivered_cancels
        <3>1. Attempts[t].la \notin S /\ evicting[q] = "issued"
            BY <1>1, <1>2, <2>2 DEF LasOf, Inv, Types
        <3> QED
            BY <1>2, <3>1 DEF Inv, IssuedIsQuiet, has_undelivered_cancels
    <2> QED
        BY <2>1, <2>2
<1> QED
    BY <1>1, <1>2, <1>4, <1>5, <1>6 DEF Inv

\* A run is forgotten; no cancel of it is on its way, so no assertion fails.
LEMMA InvalidateRunInv ==
    ASSUME Inv, NEW r \in Runs, InvalidateRun(r)
    PROVE  Inv'
<1> DEFINE kept == {t \in DOMAIN Attempts : RunOf[Attempts[t].la] # r}
<1> USE DEF Attempts
<1>1. dbg_panics' = {}
    BY DEF InvalidateRun, Inv, IssuedIsQuiet
<1>2. /\ DOMAIN Attempts' = kept
      /\ \A t \in kept : Attempts'[t] = Attempts[t]
    BY DEF InvalidateRun
<1>3. /\ DOMAIN la_info' = {l \in DOMAIN la_info : RunOf[l] # r}
      /\ \A l \in DOMAIN la_info' : la_info'[l] = la_info[l]
    BY DEF InvalidateRun, Without, LasOf
<1>4. /\ UNCHANGED <<next_tt_num, detached, act_req, workflows_have_shut_down>>
      /\ evicting' = [evicting EXCEPT ![r] = "no"]
      /\ wf' = [l \in Las |-> IF RunOf[l] = r THEN "new" ELSE wf[l]]
    BY DEF InvalidateRun
<1>5. Types'
    <2>1. /\ wf' \in [Las -> {"new", "owed", "requeued", "resolved", "twice"}]
          /\ evicting' \in [Runs -> {"no", "withheld", "issued"}]
        BY <1>4 DEF Inv, Types
    <2> QED
        BY <1>2, <1>3, <1>4, <2>1 DEF Inv, Types
<1>6. TokensOwned'
    BY <1>2, <1>3 DEF Inv, TokensOwned
<1>7. ToldAgrees'
    <2> SUFFICES ASSUME NEW k \in Las
                 PROVE  Told(k)'
        BY DEF ToldAgrees
    <2>1. CASE RunOf[k] = r
        BY <1>3, <1>4, <2>1, SMTT(30) DEF Told
    <2>2. CASE RunOf[k] # r
        <3>1. wf'[k] = wf[k]
            BY <1>4, <2>2, SMTT(30)
        <3>2. /\ Requested(k)' <=> Requested(k)
              /\ OneRequest(k)' <=> OneRequest(k)
              /\ LeftBehind(k)' <=> LeftBehind(k)
              /\ k \in DOMAIN la_info' /\ Executing(k)' => Executing(k)
            BY <1>2, <1>3, <1>4 DEF Requested, OneRequest, LeftBehind, Executing
        <3> QED
            BY <1>3, <3>1, <3>2, ToldFrame DEF Inv
    <2> QED
        BY <2>1, <2>2
<1>8. IssuedIsQuiet'
    BY <1>2, <1>4 DEF Inv, Types, IssuedIsQuiet, has_undelivered_cancels
<1>9. ShutdownInv'
    <2>1. shutdown_complete' = (shutdown_complete
             \/ (workflows_have_shut_down /\ NothingPending(Attempts', la_info')))
        BY DEF InvalidateRun, set_shutdown_complete_if_ready
    <2>2. NothingPending(Attempts, la_info) => NothingPending(Attempts', la_info')
        BY <1>2, <1>3 DEF NothingPending
    <2> QED
        BY <1>4, <2>1, <2>2, ZenonT(30) DEF Inv, ShutdownInv
<1> QED
    BY <1>1, <1>5, <1>6, <1>7, <1>8, <1>9 DEF Inv

\* An attempt lang holds is completed, by lang or by a timeout: it was the only
\* thing its activity's workflow waited for.
LEMMA CompleteTrackedInv ==
    ASSUME Inv, NEW tok \in DOMAIN Attempts, NEW status,
           CompleteTracked(tok, Attempts[tok], status),
           UNCHANGED <<act_req, workflows_have_shut_down, evicting>>
    PROVE  Inv'
<1> DEFINE info == Attempts[tok]
           l == info.la
<1> USE DEF Attempts
<1>1. /\ l \in DOMAIN la_info /\ l \in Las /\ info.attempt \in Nat
      /\ la_info[l].task_token = tok
      /\ la_info[l].backing_off = "no" /\ ~la_info[l].queued_for_dispatch
      /\ la_info[l].bag \in BOOLEAN
    BY DEF Inv, Types, TokensOwned
<1>2. /\ wf[l] \in {"owed", "requeued"}
      /\ wf[l] = "owed" => ~LeftBehind(l) /\ ~Requested(l)
    <2>1. Executing(l)
        BY <1>1 DEF Executing
    <2> QED
        BY <1>1, <2>1 DEF Inv, Types, ToldAgrees, Told
<1>3. dbg_panics' = {}
    BY <1>1 DEF CompleteTracked, Inv
<1>4. /\ DOMAIN Attempts' = DOMAIN Attempts \ {tok}
      /\ \A t \in DOMAIN Attempts' : Attempts'[t] = Attempts[t]
    BY DEF CompleteTracked, Without
<1>5. shutdown_complete' => workflows_have_shut_down /\ NothingPending(Attempts', la_info)
    BY ZenonT(30) DEF CompleteTracked, set_shutdown_complete_if_ready, Inv, ShutdownInv, NothingPending
<1>6. IssuedIsQuiet'
    BY <1>4 DEF Inv, IssuedIsQuiet, has_undelivered_cancels
<1>7. \A t \in DOMAIN Attempts' : Attempts[t].la # l
    BY <1>4 DEF Inv, TokensOwned
<1>8. \A k \in Las : (Requested(k)' <=> Requested(k)) /\ (OneRequest(k)' <=> OneRequest(k))
    BY DEF Requested, OneRequest
<1>9. CASE RetryLocally(info)
    <2> DEFINE new == next_tt_num + 1
    <2>1. /\ next_tt_num' = new /\ next_tt_num \in Nat
          /\ la_info' = With(la_info, l, Retried(new, info))
          /\ UNCHANGED <<detached, wf>>
        BY <1>9 DEF RetryLocally, Inv, Types
    <2>0. PICK b \in BOOLEAN : b = (l \in DOMAIN la_info /\ la_info[l].bag)
        BY ZenonT(30)
    <2>2. /\ DOMAIN la_info' = DOMAIN la_info
          /\ la_info'[l] = [task_token |-> new, queued_for_dispatch |-> FALSE,
                            backing_off |-> "sleeping", attempt |-> info.attempt + 1, bag |-> b]
          /\ \A k \in DOMAIN la_info : k # l => la_info'[k] = la_info[k]
        BY <1>1, <2>1, <2>0 DEF With, Retried
    <2>3. Types'
        <3>1. \A k \in DOMAIN la_info' :
                la_info'[k] \in [task_token : 1..new, queued_for_dispatch : BOOLEAN,
                                 backing_off : {"no", "sleeping", "sent"}, attempt : Nat, bag : BOOLEAN]
            <4> SUFFICES ASSUME NEW k \in DOMAIN la_info'
                         PROVE  <3>1!(k)
                OBVIOUS
            <4>1. CASE k = l
                <5>1. PICK t \in 1..new : t = new
                    BY <2>1
                <5>2. PICK a \in Nat : a = info.attempt + 1
                    BY <1>1
                <5>3. la_info'[k] = [task_token |-> t, queued_for_dispatch |-> FALSE,
                                     backing_off |-> "sleeping", attempt |-> a, bag |-> b]
                    BY <2>2, <4>1, <5>1, <5>2, SMTT(30)
                <5> HIDE DEF new
                <5> QED
                    BY <5>3
            <4>2. CASE k # l
                BY <2>1, <2>2, <4>2 DEF Inv, Types
            <4> QED
                BY <4>1, <4>2
        <3>2. DOMAIN Attempts' \subseteq 1..new
            BY <1>4, <2>1 DEF Inv, Types
        <3>3. /\ next_tt_num' \in Nat /\ DOMAIN la_info' \subseteq Las
              /\ \A t \in DOMAIN Attempts' :
                    Attempts'[t] \in [la : Las, attempt : Nat, cancel : {"no", "queued", "delivered"}]
            BY <1>4, <2>1, <2>2 DEF Inv, Types
        <3>4. /\ act_req' = act_req /\ detached' = detached /\ evicting' = evicting
              /\ wf' \in [Las -> {"new", "owed", "requeued", "resolved", "twice"}]
            BY <1>4, <2>1, <2>2 DEF Inv, Types
        <3>5. next_tt_num' = new
            BY <2>1
        <3> HIDE DEF new
        <3> QED
            BY <3>1, <3>2, <3>3, <3>4, <3>5, Zenon DEF Inv, Types
    <2>4. TokensOwned'
        <3>1. \A k \in DOMAIN la_info : la_info[k].task_token # new
            BY <2>1 DEF Inv, Types
        <3>2. \A j, k \in DOMAIN la_info' : la_info'[j].task_token = la_info'[k].task_token => j = k
            BY <2>2, <3>1 DEF Inv, TokensOwned
        <3> QED
            BY <1>4, <1>7, <2>2, <3>2, SMTT(30) DEF Inv, TokensOwned
    <2>5. ToldAgrees'
        <3> SUFFICES ASSUME NEW k \in Las
                     PROVE  Told(k)'
            BY DEF ToldAgrees
        <3>1. LeftBehind(k)' <=> LeftBehind(k)
            BY <2>1, SMTT(30) DEF LeftBehind
        <3>2. CASE k # l
            <4>0. k \in DOMAIN la_info' => k \in DOMAIN la_info /\ la_info'[k] = la_info[k]
                BY <2>2, <3>2, Zenon
            <4>1. k \in DOMAIN la_info' /\ Executing(k)' => Executing(k)
                BY <1>4, <4>0 DEF Executing
            <4> QED
                BY <1>8, <2>1, <2>2, <3>1, <3>2, <4>1, ToldFrame, ZenonT(30) DEF Inv
        <3>3. CASE k = l
            BY <1>1, <1>2, <1>8, <2>1, <3>1, <3>3, ZenonT(30) DEF Told, Inv, ToldAgrees
        <3> QED
            BY <3>2, <3>3
    <2>6. ShutdownInv'
        BY <1>5, <2>2 DEF ShutdownInv, NothingPending
    <2> QED
        BY <1>3, <1>6, <2>3, <2>4, <2>5, <2>6 DEF Inv
<1>10. CASE Report(info, status)
    <2>1. /\ UNCHANGED <<next_tt_num, detached>>
          /\ wf' = [k \in Las |-> IF k # l THEN wf[k]
                                  ELSE CASE wf[k] = "owed" -> "resolved"
                                         [] wf[k] = "requeued" -> "requeued"
                                         [] OTHER -> "twice"]
        BY <1>10 DEF Report, Resolve
    <2>2. /\ DOMAIN la_info' = DOMAIN la_info \ {l}
          /\ \A k \in DOMAIN la_info' : la_info'[k] = la_info[k]
        BY <1>10 DEF Report, Without
    <2>3. Types'
        <3>1. wf' \in [Las -> {"new", "owed", "requeued", "resolved", "twice"}]
            BY <2>1 DEF Inv, Types
        <3> QED
            BY <1>4, <2>1, <2>2, <3>1 DEF Inv, Types
    <2>4. TokensOwned'
        BY <1>4, <1>7, <2>2 DEF Inv, TokensOwned
    <2>5. ToldAgrees'
        <3> SUFFICES ASSUME NEW k \in Las
                     PROVE  Told(k)'
            BY DEF ToldAgrees
        <3>1. CASE k # l
            <4>1. LeftBehind(k)' <=> LeftBehind(k)
                BY <2>1 DEF LeftBehind
            <4>2. k \in DOMAIN la_info' /\ Executing(k)' => Executing(k)
                BY <1>4, <2>2 DEF Executing
            <4> QED
                BY <1>8, <2>1, <2>2, <3>1, <4>1, <4>2, ToldFrame DEF Inv
        <3>2. CASE k = l
            BY <1>1, <1>2, <2>1, <2>2, <3>2, SMTT(30) DEF Told
        <3> QED
            BY <3>1, <3>2
    <2>6. ShutdownInv'
        BY <1>5, <2>2, SMTT(30) DEF ShutdownInv, NothingPending
    <2> QED
        BY <1>3, <1>6, <2>3, <2>4, <2>5, <2>6 DEF Inv
<1> QED
    BY <1>9, <1>10 DEF CompleteTracked

\* A request is sent: only its activity has one more.
LEMMA RequestSent ==
    ASSUME Types, NEW req \in [la : Las, attempt : Nat], act_req' = Append(act_req, req)
    PROVE  /\ act_req' \in Seq([la : Las, attempt : Nat])
           /\ \A k \in Las : k # req.la =>
                 (Requested(k)' <=> Requested(k)) /\ (OneRequest(k)' <=> OneRequest(k))
           /\ ~Requested(req.la) => OneRequest(req.la)'
<1>1. /\ act_req' \in Seq([la : Las, attempt : Nat])
      /\ Len(act_req) \in Nat /\ Len(act_req') = Len(act_req) + 1
      /\ \A i \in 1..Len(act_req) : act_req'[i] = act_req[i]
      /\ act_req'[Len(act_req) + 1] = req
    BY AppendFacts DEF Types
<1> QED
    BY <1>1 DEF Requested, OneRequest

\* A request is taken: its activity has one less.
LEMMA RequestTaken ==
    ASSUME Types, act_req # <<>>, act_req' = Tail(act_req), NEW l, l = Head(act_req).la
    PROVE  /\ act_req' \in Seq([la : Las, attempt : Nat])
           /\ Head(act_req) \in [la : Las, attempt : Nat]
           /\ Requested(l)
           /\ OneRequest(l) => ~Requested(l)'
           /\ \A k \in Las : (Requested(k)' => Requested(k)) /\ (OneRequest(k) => OneRequest(k)')
<1>1. /\ act_req' \in Seq([la : Las, attempt : Nat])
      /\ Len(act_req) \in Nat /\ Len(act_req) > 0
      /\ Len(act_req') = Len(act_req) - 1
      /\ \A i \in 1..Len(act_req') : act_req'[i] = act_req[i + 1]
      /\ Head(act_req) = act_req[1] /\ Head(act_req) \in [la : Las, attempt : Nat]
    <2> DEFINE T == [la : Las, attempt : Nat]
    <2>1. act_req \in Seq(T)
        BY DEF Types
    <2> HIDE DEF T
    <2>2. /\ Tail(act_req) \in Seq(T)
          /\ Len(act_req) \in Nat /\ Len(act_req) > 0
          /\ Len(Tail(act_req)) = Len(act_req) - 1
          /\ \A i \in 1..Len(Tail(act_req)) : Tail(act_req)[i] = act_req[i + 1]
          /\ Head(act_req) = act_req[1] /\ Head(act_req) \in T
        BY <2>1, TailFacts
    <2> QED
        BY <2>2 DEF T
<1>2. Requested(l)
    BY <1>1 DEF Requested
<1>3. OneRequest(l) => ~Requested(l)'
    BY <1>1 DEF Requested, OneRequest
<1>4. \A k \in Las : (Requested(k)' => Requested(k)) /\ (OneRequest(k) => OneRequest(k)')
    BY <1>1 DEF Requested, OneRequest
<1> QED
    BY <1>1, <1>2, <1>3, <1>4

\* A backoff ends: its activity was in no other place.
LEMMA BackoffElapsesInv ==
    ASSUME Inv, NEW l \in Las, BackoffElapses(l)
    PROVE  Inv'
<1> DEFINE req == [la |-> l, attempt |-> la_info[l].attempt]
<1> USE DEF Attempts
<1>1. /\ l \in DOMAIN la_info /\ la_info[l].backing_off = "sleeping"
      /\ req \in [la : Las, attempt : Nat]
      /\ act_req' = Append(act_req, req)
      /\ UNCHANGED <<outstanding_activity_tasks, next_tt_num, detached, wf, evicting, dbg_panics,
                     workflows_have_shut_down, shutdown_complete>>
    BY DEF BackoffElapses, Inv, Types, env, shut
<1>2. /\ DOMAIN la_info' = DOMAIN la_info
      /\ \A k \in DOMAIN la_info : k # l => la_info'[k] = la_info[k]
      /\ la_info'[l] = [la_info[l] EXCEPT !.backing_off = "sent"]
    BY <1>1 DEF BackoffElapses
<1>3. /\ la_info'[l] \in [task_token : 1..next_tt_num, queued_for_dispatch : BOOLEAN,
                          backing_off : {"no", "sleeping", "sent"}, attempt : Nat, bag : BOOLEAN]
      /\ la_info'[l].task_token = la_info[l].task_token
      /\ la_info'[l].queued_for_dispatch = la_info[l].queued_for_dispatch
      /\ la_info'[l].backing_off = "sent"
    BY <1>1, <1>2, Zenon DEF Inv, Types
<1>4. /\ act_req' \in Seq([la : Las, attempt : Nat])
      /\ \A k \in Las : k # l =>
            (Requested(k)' <=> Requested(k)) /\ (OneRequest(k)' <=> OneRequest(k))
      /\ ~Requested(l) => OneRequest(l)'
    BY <1>1, RequestSent, Zenon DEF Inv
<1>5. Types'
    BY <1>1, <1>2, <1>3, <1>4, ZenonT(30) DEF Inv, Types
<1>6. ~Executing(l) /\ \A t \in DOMAIN Attempts : Attempts[t].la # l
    BY <1>1 DEF Inv, TokensOwned, Executing
<1>7. TokensOwned'
    BY <1>1, <1>2, <1>3, <1>6 DEF Inv, TokensOwned
<1>8. ToldAgrees'
    <2> SUFFICES ASSUME NEW k \in Las
                 PROVE  Told(k)'
        BY DEF ToldAgrees
    <2>1. /\ LeftBehind(k)' <=> LeftBehind(k)
          /\ k \in DOMAIN la_info' => (Executing(k)' <=> Executing(k))
        BY <1>1, <1>2, <1>3 DEF LeftBehind, Executing
    <2>2. CASE k # l
        BY <1>1, <1>2, <1>4, <2>1, <2>2, ToldFrame DEF Inv
    <2>3. CASE k = l
        BY <1>1, <1>2, <1>3, <1>4, <1>6, <2>1, <2>3 DEF Inv, ToldAgrees, Told
    <2> QED
        BY <2>2, <2>3
<1>9. IssuedIsQuiet'
    BY <1>1 DEF Inv, IssuedIsQuiet, has_undelivered_cancels
<1>10. ShutdownInv'
    BY <1>1, <1>2, <1>3, SMTT(30) DEF Inv, ShutdownInv, NothingPending
<1> QED
    BY <1>1, <1>5, <1>7, <1>8, <1>9, <1>10 DEF Inv

\* The same, of a task that was left behind: no workflow waits for it.
LEMMA DetachedBackoffElapsesInv ==
    ASSUME Inv, NEW s \in detached, DetachedBackoffElapses(s)
    PROVE  Inv'
<1> DEFINE req == [la |-> s.la, attempt |-> s.attempt]
<1> USE DEF Attempts
<1>1. /\ req \in [la : Las, attempt : Nat] /\ s.la \in Las /\ LeftBehind(s.la)
      /\ act_req' = Append(act_req, req)
      /\ detached' = detached \ {s}
      /\ UNCHANGED <<la_info, outstanding_activity_tasks, next_tt_num, wf, evicting, dbg_panics,
                     workflows_have_shut_down, shutdown_complete>>
    BY DEF DetachedBackoffElapses, Inv, Types, env, shut, LeftBehind
<1>2. /\ act_req' \in Seq([la : Las, attempt : Nat])
      /\ \A k \in Las : k # s.la =>
            (Requested(k)' <=> Requested(k)) /\ (OneRequest(k)' <=> OneRequest(k))
    BY <1>1, RequestSent, Zenon DEF Inv
<1>3. Types'
    BY <1>1, <1>2 DEF Inv, Types
<1>4. ToldAgrees'
    <2> SUFFICES ASSUME NEW k \in Las
                 PROVE  Told(k)'
        BY SMTT(30) DEF ToldAgrees
    <2>1. /\ LeftBehind(k)' => LeftBehind(k)
          /\ Executing(k)' <=> Executing(k)
        BY <1>1, SMTT(30) DEF LeftBehind, Executing
    <2>2. CASE k # s.la
        BY <1>1, <1>2, <2>1, <2>2, ToldFrame, SMTT(30) DEF Inv
    <2>3. CASE k = s.la
        BY <1>1, <2>3, SMTT(30) DEF Inv, ToldAgrees, Told
    <2> QED
        BY <2>2, <2>3
<1>5. TokensOwned' /\ IssuedIsQuiet' /\ ShutdownInv'
    BY <1>1 DEF Inv, TokensOwned, IssuedIsQuiet, has_undelivered_cancels, ShutdownInv, NothingPending
<1> QED
    BY <1>1, <1>3, <1>4, <1>5, SMTT(30) DEF Inv

\* The attempts still belong to the entries that name them when neither changes.
LEMMA TokensFrame ==
    ASSUME TokensOwned, la_info' = la_info,
           DOMAIN Attempts' = DOMAIN Attempts,
           \A t \in DOMAIN Attempts : Attempts'[t].la = Attempts[t].la
    PROVE  TokensOwned'
BY DEF TokensOwned, Attempts

\* A cancel task is handed to lang.
LEMMA NextCancelInv ==
    ASSUME Inv, NextCancel
    PROVE  Inv'
<1> USE DEF Attempts
<1>1. UNCHANGED <<la_info, next_tt_num, detached, act_req, wf, evicting, dbg_panics,
                  workflows_have_shut_down, shutdown_complete>>
    BY DEF NextCancel, shut
<1>2. /\ DOMAIN Attempts' = DOMAIN Attempts
      /\ \A t \in DOMAIN Attempts :
            /\ Attempts'[t] \in [la : Las, attempt : Nat, cancel : {"no", "queued", "delivered"}]
            /\ Attempts'[t].la = Attempts[t].la
            /\ Attempts'[t].cancel = "queued" => Attempts[t].cancel = "queued"
    <2>1. PICK tok : tok = Head(cancels_req).tok
        OBVIOUS
    <2>2. CASE tok \in DOMAIN Attempts
        <3>1. Attempts' = [Attempts EXCEPT ![tok].cancel = "delivered"]
            BY <2>1, <2>2 DEF NextCancel
        <3>2. \A t \in DOMAIN Attempts :
                Attempts[t] \in [la : Las, attempt : Nat, cancel : {"no", "queued", "delivered"}]
            BY Zenon DEF Inv, Types
        <3> HIDE DEF Attempts
        <3> QED
            BY <3>1, <3>2
    <2>3. CASE tok \notin DOMAIN Attempts
        BY <2>1, <2>3 DEF NextCancel, Inv, Types
    <2> QED
        BY <2>2, <2>3
<1>3. Types'
    BY <1>1, <1>2, ZenonT(30) DEF Inv, Types
<1>4. TokensOwned' /\ IssuedIsQuiet' /\ ShutdownInv'
    <2>1. TokensOwned'
        BY <1>1, <1>2, TokensFrame, Zenon DEF Inv
    <2>2. IssuedIsQuiet'
        BY <1>1, <1>2, Zenon DEF Inv, IssuedIsQuiet, has_undelivered_cancels
    <2>3. ShutdownInv'
        BY <1>1, <1>2, Zenon DEF Inv, ShutdownInv, NothingPending
    <2> QED
        BY <2>1, <2>2, <2>3, Zenon
<1>5. ToldAgrees'
    <2> SUFFICES ASSUME NEW k \in Las
                 PROVE  Told(k)'
        BY DEF ToldAgrees
    <2>1. /\ Requested(k)' <=> Requested(k)
          /\ OneRequest(k)' <=> OneRequest(k)
          /\ LeftBehind(k)' <=> LeftBehind(k)
          /\ Executing(k)' <=> Executing(k)
        BY <1>1, <1>2 DEF Requested, OneRequest, LeftBehind, Executing
    <2> QED
        BY <1>1, <2>1, ToldFrame DEF Inv
<1> QED
    BY <1>1, <1>3, <1>4, <1>5 DEF Inv

\* A step that leaves alone what the invariant is about keeps it.
LEMMA Frame ==
    ASSUME Inv, UNCHANGED <<la_info, outstanding_activity_tasks, next_tt_num, detached, act_req,
                            wf, evicting, dbg_panics, workflows_have_shut_down, shutdown_complete>>
    PROVE  Inv'
<1>1. Types' /\ TokensOwned' /\ IssuedIsQuiet' /\ ShutdownInv' /\ dbg_panics' = {}
    BY SMTT(30) DEF Inv, Types, TokensOwned, IssuedIsQuiet, ShutdownInv, Attempts, has_undelivered_cancels,
           NothingPending
<1>2. ToldAgrees'
    BY DEF Inv, ToldAgrees, Told, Requested, OneRequest, LeftBehind, Executing, Attempts
<1> QED
    BY <1>1, <1>2, SMTT(30) DEF Inv

\* A completion, or an elapsed timeout, of an attempt that may be gone.
LEMMA CompleteInv ==
    ASSUME Inv, NEW tok, NEW status, complete(tok, status),
           UNCHANGED <<act_req, workflows_have_shut_down, evicting>>
    PROVE  Inv'
<1>1. CASE tok \in DOMAIN Attempts
    BY <1>1, CompleteTrackedInv DEF complete, Attempts
<1>2. CASE tok \notin DOMAIN Attempts
    BY <1>2, Frame DEF complete, Untracked, mgr, Attempts
<1> QED
    BY <1>1, <1>2

\* The poll takes an elapsed timeout, which completes the attempt it names.
LEMMA NextTimeoutInv ==
    ASSUME Inv, NextTimeout
    PROVE  Inv'
<1> DEFINE m == Head(cancels_req)
<1>1. CASE m.la \in DOMAIN la_info
    <2>1. PICK tok : tok = la_info[m.la].task_token
        OBVIOUS
    <2>2. PICK status : status = [result |-> "timed_out", kind |-> m.kind, failure |-> {}]
        BY Zenon
    <2>3. complete(tok, status) /\ UNCHANGED <<act_req, workflows_have_shut_down, evicting>>
        BY <1>1, <2>1, <2>2 DEF NextTimeout
    <2> QED
        BY <2>3, CompleteInv
<1>2. CASE m.la \notin DOMAIN la_info
    BY <1>2, Frame, SMTT(30) DEF NextTimeout, Untracked, mgr
<1> QED
    BY <1>1, <1>2

\* The poll takes a request.  If its workflow waits for the activity, this was
\* the activity's only request, and the activity slept nowhere and lang had none
\* of its attempts.
LEMMA NextStartInv ==
    ASSUME Inv, NextStart
    PROVE  Inv'
<1> DEFINE started(l) == [la_info EXCEPT ![l].queued_for_dispatch = FALSE, ![l].backing_off = "no",
                                         ![l].attempt = 0]
<1> USE DEF Attempts
<1>1. PICK l : l = Head(act_req).la
    OBVIOUS
<1>2. PICK n : n = Head(act_req).attempt
    OBVIOUS
<1>3. PICK tok : tok = la_info[l].task_token
    OBVIOUS
<1>4. /\ act_req' \in Seq([la : Las, attempt : Nat])
      /\ l \in Las /\ n \in Nat
      /\ Requested(l)
      /\ OneRequest(l) => ~Requested(l)'
      /\ \A k \in Las : (Requested(k)' => Requested(k)) /\ (OneRequest(k) => OneRequest(k)')
    <2>1. act_req # <<>> /\ act_req' = Tail(act_req)
        BY Zenon DEF NextStart
    <2>2. /\ act_req' \in Seq([la : Las, attempt : Nat])
          /\ Head(act_req) \in [la : Las, attempt : Nat]
          /\ Requested(l)
          /\ OneRequest(l) => ~Requested(l)'
          /\ \A k \in Las : (Requested(k)' => Requested(k)) /\ (OneRequest(k) => OneRequest(k)')
        BY <1>1, <2>1, RequestTaken, Zenon DEF Inv
    <2> QED
        BY <1>1, <1>2, <2>2, SMTT(30)
<1>5. UNCHANGED <<next_tt_num, evicting, workflows_have_shut_down, dbg_panics>> /\ ~shutdown_complete
    BY Zenon DEF NextStart, PollYields, mgr
<1>6. CASE /\ l \notin DOMAIN la_info
           /\ UNCHANGED <<la_info, outstanding_activity_tasks, detached, shutdown_complete, wf>>
    <2>1. Types' /\ TokensOwned' /\ IssuedIsQuiet' /\ ShutdownInv'
        <3>1. Types'
            BY <1>4, <1>5, <1>6, Zenon DEF Inv, Types, Attempts
        <3>2. TokensOwned'
            BY <1>4, <1>5, <1>6, Zenon DEF Inv, TokensOwned, Attempts
        <3>3. IssuedIsQuiet'
            BY <1>4, <1>5, <1>6, Zenon DEF Inv, IssuedIsQuiet, has_undelivered_cancels, Attempts
        <3>4. ShutdownInv'
            BY <1>4, <1>5, <1>6, Zenon DEF Inv, ShutdownInv, NothingPending, Attempts
        <3> QED
            BY <3>1, <3>2, <3>3, <3>4
    <2>2. ToldAgrees'
        <3> SUFFICES ASSUME NEW k \in Las
                     PROVE  Told(k)'
            BY DEF ToldAgrees
        <3>1. (LeftBehind(k)' <=> LeftBehind(k)) /\ (Executing(k)' <=> Executing(k))
            BY <1>6 DEF LeftBehind, Executing
        <3> QED
            BY <1>4, <1>6, <3>1, ToldFrame, Zenon DEF Inv
    <2> QED
        BY <1>5, <2>1, <2>2, SMTT(30) DEF Inv
<1>7. ASSUME l \in DOMAIN la_info, la_info' = started(l), detached' = detached \cup Detached(l)
      PROVE  /\ DOMAIN la_info' = DOMAIN la_info
             /\ \A k \in DOMAIN la_info : k # l => la_info'[k] = la_info[k]
             /\ \A k \in DOMAIN la_info : la_info'[k].task_token = la_info[k].task_token
             /\ la_info'[l].backing_off = "no" /\ ~la_info'[l].queued_for_dispatch
             /\ \A k \in DOMAIN la_info' :
                  la_info'[k] \in [task_token : 1..next_tt_num, queued_for_dispatch : BOOLEAN,
                                   backing_off : {"no", "sleeping", "sent"}, attempt : Nat,
                                   bag : BOOLEAN]
             /\ detached' \subseteq [la : Las, attempt : Nat, tok : Nat]
             /\ \A k \in Las : k # l => (LeftBehind(k)' <=> LeftBehind(k))
             /\ la_info[l].backing_off # "sleeping" => (LeftBehind(l)' <=> LeftBehind(l))
             /\ \A k \in DOMAIN la_info :
                  ~la_info[k].queued_for_dispatch => ~la_info'[k].queued_for_dispatch
    <2>1. /\ DOMAIN la_info' = DOMAIN la_info
          /\ \A k \in DOMAIN la_info : k # l => la_info'[k] = la_info[k]
          /\ la_info'[l] = [la_info[l] EXCEPT !.queued_for_dispatch = FALSE, !.backing_off = "no",
                                              !.attempt = 0]
        BY <1>7
    <2>2. la_info[l] \in [task_token : 1..next_tt_num, queued_for_dispatch : BOOLEAN,
                          backing_off : {"no", "sleeping", "sent"}, attempt : Nat, bag : BOOLEAN]
        BY <1>7 DEF Inv, Types
    <2>3. /\ la_info'[l] \in [task_token : 1..next_tt_num, queued_for_dispatch : BOOLEAN,
                              backing_off : {"no", "sleeping", "sent"}, attempt : Nat, bag : BOOLEAN]
          /\ la_info'[l].task_token = la_info[l].task_token
          /\ la_info'[l].backing_off = "no" /\ ~la_info'[l].queued_for_dispatch
        <3> DEFINE R == [task_token : 1..next_tt_num, queued_for_dispatch : BOOLEAN,
                         backing_off : {"no", "sleeping", "sent"}, attempt : Nat, bag : BOOLEAN]
        <3>1. PICK e0 \in R : e0 = la_info[l]
            BY <2>2
        <3>2. PICK e1 \in R : e1 = [e0 EXCEPT !.queued_for_dispatch = FALSE]
            BY Zenon
        <3>3. PICK e2 \in R : e2 = [e1 EXCEPT !.backing_off = "no"]
            BY Zenon
        <3>4. PICK e3 \in R : e3 = [e2 EXCEPT !.attempt = 0]
            BY Zenon
        <3>5. la_info'[l] = e3
            BY <2>1, <3>1, <3>2, <3>3, <3>4
        <3> QED
            BY <3>1, <3>2, <3>3, <3>4, <3>5, SMTT(30)
    <2>4. detached' \subseteq [la : Las, attempt : Nat, tok : Nat]
        BY <1>4, <1>7, <2>2 DEF Inv, Types, Detached
    <2>5. /\ \A k \in Las : k # l => (LeftBehind(k)' <=> LeftBehind(k))
          /\ la_info[l].backing_off # "sleeping" => (LeftBehind(l)' <=> LeftBehind(l))
        BY <1>7 DEF LeftBehind, Detached
    <2>6. \A k \in DOMAIN la_info' :
             la_info'[k] \in [task_token : 1..next_tt_num, queued_for_dispatch : BOOLEAN,
                              backing_off : {"no", "sleeping", "sent"}, attempt : Nat, bag : BOOLEAN]
        BY <2>1, <2>3, Zenon DEF Inv, Types
    <2>7. \A k \in DOMAIN la_info : la_info'[k].task_token = la_info[k].task_token
        BY <2>1, <2>3, Zenon
    <2>8. \A k \in DOMAIN la_info :
             ~la_info[k].queued_for_dispatch => ~la_info'[k].queued_for_dispatch
        BY <2>1, <2>3, Zenon
    <2> QED
        BY <2>1, <2>3, <2>4, <2>5, <2>6, <2>7, <2>8
<1>8. CASE /\ l \in DOMAIN la_info
           /\ la_info' = started(l) /\ detached' = detached \cup Detached(l)
           /\ set_shutdown_complete_if_ready(Attempts, started(l))
           /\ Resolve({l})
           /\ UNCHANGED outstanding_activity_tasks
    <2>1. wf' = [k \in Las |-> IF k # l THEN wf[k]
                               ELSE CASE wf[k] = "owed" -> "resolved"
                                      [] wf[k] = "requeued" -> "requeued"
                                      [] OTHER -> "twice"]
        BY <1>8 DEF Resolve
    <2>2. Types'
        <3>1. wf' \in [Las -> {"new", "owed", "requeued", "resolved", "twice"}]
            BY <2>1 DEF Inv, Types
        <3> QED
            BY <1>4, <1>5, <1>7, <1>8, <3>1, SMTT(30) DEF Inv, Types
    <2>3. TokensOwned'
        BY <1>7, <1>8 DEF Inv, TokensOwned
    <2>4. ToldAgrees'
        <3> SUFFICES ASSUME NEW k \in Las
                     PROVE  Told(k)'
            BY DEF ToldAgrees
        <3>1. k \in DOMAIN la_info => (Executing(k)' <=> Executing(k))
            BY <1>7, <1>8 DEF Executing
        <3>2. CASE k # l
            BY <1>4, <1>7, <1>8, <2>1, <3>1, <3>2, ToldFrame DEF Inv
        <3>3. CASE k = l
            <4>1. wf[l] \in {"owed", "requeued"}
                BY <1>4, <1>8, SMTT(30) DEF Inv, Types, ToldAgrees, Told
            <4>2. CASE wf[l] = "owed"
                <5>1. ~LeftBehind(l) /\ OneRequest(l) /\ la_info[l].backing_off # "sleeping" /\ ~Executing(l)
                    BY <1>4, <1>8, <4>2 DEF Inv, ToldAgrees, Told
                <5>2. wf'[l] = "resolved"
                    BY <1>4, <2>1, <4>2
                <5>3. /\ ~LeftBehind(l)' /\ ~Requested(l)' /\ ~Executing(l)'
                      /\ la_info'[l].backing_off = "no" /\ ~la_info'[l].queued_for_dispatch
                    BY <1>4, <1>7, <1>8, <3>1, <3>3, <5>1
                <5> QED
                    BY <3>3, <5>2, <5>3 DEF Told
            <4>3. CASE wf[l] = "requeued"
                BY <1>4, <2>1, <3>3, <4>3 DEF Told
            <4> QED
                BY <4>1, <4>2, <4>3
        <3> QED
            BY <3>2, <3>3
    <2>5. IssuedIsQuiet'
        BY <1>5, <1>8 DEF Inv, IssuedIsQuiet, has_undelivered_cancels
    <2>6. ShutdownInv'
        BY <1>5, <1>8, Zenon DEF ShutdownInv, set_shutdown_complete_if_ready
    <2> QED
        BY <1>5, <2>2, <2>3, <2>4, <2>5, <2>6 DEF Inv
<1>9. CASE /\ l \in DOMAIN la_info
           /\ la_info' = started(l) /\ detached' = detached \cup Detached(l)
           /\ Attempts' = With(Attempts, tok, [la |-> l, attempt |-> n, cancel |-> "no"])
           /\ UNCHANGED <<shutdown_complete, wf>>
    <2>1. /\ DOMAIN Attempts' = DOMAIN Attempts \cup {tok}
          /\ Attempts'[tok] = [la |-> l, attempt |-> n, cancel |-> "no"]
          /\ \A t \in DOMAIN Attempts : t # tok => Attempts'[t] = Attempts[t]
        BY <1>9, SMTT(30) DEF With
    <2>2. \A t \in DOMAIN Attempts' : t # tok => t \in DOMAIN Attempts /\ Attempts[t].la # l
        BY <1>3, <2>1 DEF Inv, TokensOwned
    <2>3. Types'
        <3>1. tok \in 1..next_tt_num
            BY <1>3, <1>9, SMTT(30) DEF Inv, Types
        <3>2. \A t \in DOMAIN Attempts' :
                 Attempts'[t] \in [la : Las, attempt : Nat, cancel : {"no", "queued", "delivered"}]
            BY <1>4, <2>1, SMTT(30) DEF Inv, Types
        <3> QED
            BY <1>4, <1>5, <1>7, <1>9, <2>1, <3>1, <3>2 DEF Inv, Types
    <2>4. TokensOwned'
        <3>1. \A j, k \in DOMAIN la_info' : la_info'[j].task_token = la_info'[k].task_token => j = k
            BY <1>7, <1>9, SMTT(30) DEF Inv, TokensOwned
        <3>2. ASSUME NEW t \in DOMAIN Attempts'
              PROVE  /\ Attempts'[t].la \in DOMAIN la_info'
                     /\ la_info'[Attempts'[t].la].task_token = t
                     /\ la_info'[Attempts'[t].la].backing_off = "no"
                     /\ ~la_info'[Attempts'[t].la].queued_for_dispatch
            <4>1. CASE t = tok
                BY <1>3, <1>7, <1>9, <2>1, <4>1, SMTT(30)
            <4>2. CASE t # tok
                BY <1>7, <1>9, <2>1, <2>2, <4>2, SMTT(30) DEF Inv, TokensOwned
            <4> QED
                BY <4>1, <4>2, SMTT(30)
        <3> QED
            BY <3>1, <3>2 DEF TokensOwned
    <2>5. ToldAgrees'
        <3> SUFFICES ASSUME NEW k \in Las
                     PROVE  Told(k)'
            BY DEF ToldAgrees
        <3>1. CASE k # l
            <4>1. k \in DOMAIN la_info' /\ Executing(k)' => Executing(k)
                BY <1>3, <1>7, <1>9, <2>1, <3>1, SMTT(30) DEF Executing, Inv, TokensOwned
            <4> QED
                BY <1>4, <1>7, <1>9, <3>1, <4>1, ToldFrame DEF Inv
        <3>2. CASE k = l
            <4>1. wf[l] # "owed" => wf[l] = "requeued"
                BY <1>4, <1>9 DEF Inv, Types, ToldAgrees, Told
            <4>2. wf[l] = "owed" => ~LeftBehind(l)' /\ OneRequest(l)' /\ ~Requested(l)'
                BY <1>4, <1>7, <1>9, SMTT(30) DEF Inv, ToldAgrees, Told
            <4> QED
                BY <1>9, <3>2, <4>1, <4>2 DEF Told
        <3> QED
            BY <3>1, <3>2
    <2>6. IssuedIsQuiet'
        BY <1>5, <2>1 DEF Inv, IssuedIsQuiet, has_undelivered_cancels
    <2>7. ShutdownInv'
        BY <1>5, <1>9 DEF ShutdownInv
    <2> QED
        BY <1>5, <2>3, <2>4, <2>5, <2>6, <2>7 DEF Inv
<1> QED
    BY <1>1, <1>2, <1>3, <1>6, <1>8, <1>9, Zenon DEF NextStart, mgr

\* Every step keeps the invariant.
LEMMA StepInv == Inv /\ [Next]_vars => Inv'
<1> SUFFICES ASSUME Inv, [Next]_vars
             PROVE  Inv'
    OBVIOUS
<1>1. CASE Request
    BY <1>1, NewInv DEF Request
<1>2. CASE CancelOne
    BY <1>2, CancelInv DEF CancelOne
<1>3. CASE \E r \in Runs : CancelAllInRun(r) \/ InvalidateRun(r)
    BY <1>3, CancelAllInRunInv, InvalidateRunInv, SMTT(30)
<1>4. CASE \E t \in timers : TimerElapses(t)
    BY <1>4, Frame DEF TimerElapses, shut, env
<1>5. CASE \E l \in Las : BackoffElapses(l)
    BY <1>5, BackoffElapsesInv
<1>6. CASE \E s \in detached : DetachedBackoffElapses(s)
    BY <1>6, DetachedBackoffElapsesInv
<1>7. CASE NextCancel
    BY <1>7, NextCancelInv
<1>8. CASE NextTimeout
    BY <1>8, NextTimeoutInv
<1>9. CASE NextStart
    BY <1>9, NextStartInv
<1>10. CASE Complete
    <2>1. PICK tok \in DOMAIN lang, s \in Statuses : LangCompletes(tok, s)
        BY <1>10 DEF Complete
    <2>2. complete(tok, s) /\ UNCHANGED <<act_req, workflows_have_shut_down, evicting>>
        BY <2>1 DEF LangCompletes
    <2> QED
        BY <2>2, CompleteInv
<1>11. CASE workflows_have_shutdown \/ WaiterLooks
    <2>1. /\ UNCHANGED <<la_info, outstanding_activity_tasks, next_tt_num, detached, act_req, wf,
                         evicting, dbg_panics>>
          /\ shutdown_complete' => /\ workflows_have_shut_down'
                                   /\ NothingPending(Attempts, la_info)
        BY <1>11, Zenon DEF workflows_have_shutdown, WaiterLooks, set_shutdown_complete_if_ready, Inv,
                     ShutdownInv, mgr, env, Attempts
    <2>2. Types' /\ TokensOwned' /\ IssuedIsQuiet' /\ dbg_panics' = {}
        <3>1. Types' /\ dbg_panics' = {}
            BY <2>1, Zenon DEF Inv, Types, Attempts
        <3>2. TokensOwned' /\ IssuedIsQuiet'
            BY <2>1, Zenon DEF Inv, TokensOwned, IssuedIsQuiet, Attempts, has_undelivered_cancels
        <3> QED
            BY <3>1, <3>2
    <2>3. ToldAgrees'
        BY <2>1, ZenonT(30) DEF Inv, ToldAgrees, Told, Requested, OneRequest, LeftBehind, Executing, Attempts
    <2>4. ShutdownInv'
        BY <2>1 DEF ShutdownInv, NothingPending, Attempts
    <2> QED
        BY <2>2, <2>3, <2>4, SMTT(30) DEF Inv
<1>12. CASE WaiterReplacesStream
    BY <1>12, Frame DEF WaiterReplacesStream, mgr, env
<1>13. CASE UNCHANGED vars
    BY <1>13, Frame DEF vars, mgr, env, shut
<1> QED
    BY <1>1, <1>2, <1>3, <1>4, <1>5, <1>6, <1>7, <1>8, <1>9, <1>10, <1>11, <1>12, <1>13 DEF Next

\* The invariant always holds.
LEMMA InvAlways == Spec => []Inv
BY InitInv, StepInv, PTL DEF Spec

-----------------------------------------------------------------------------
(* The theorems                                                             *)

\* No debug assertion of the manager fails: no activity is requested twice, no
\* completed attempt belongs to one that backs off, and no run is invalidated
\* while a cancel of it is on its way (local_activities.rs:238, 397, 452).
THEOREM AssertionsAlwaysHold == Spec => []AssertionsHold
<1>1. Inv => AssertionsHold
    BY SMTT(30) DEF Inv, AssertionsHold
<1> QED
    BY <1>1, InvAlways, PTL

\* A workflow is told of each local activity at most once, whatever cancels,
\* timeouts, retries and completions race for it, as long as it asked for the
\* activity while no request of an earlier instance was left.
THEOREM WorkflowToldOnce == Spec => []ResolvedOnce
<1>1. Inv => ResolvedOnce
    BY DEF Inv, ToldAgrees, Told, ResolvedOnce
<1> QED
    BY <1>1, InvAlways, PTL

\* The shutdown token is cancelled only when the workflows have shut down, lang
\* holds no attempt and nothing waits to be dispatched.
THEOREM NothingLostAtShutdown == Spec => []ShutdownLosesNothing
<1>1. Inv => ShutdownLosesNothing
    BY DEF Inv, ShutdownInv, NothingPending, ShutdownLosesNothing, Attempts
<1> QED
    BY <1>1, InvAlways, PTL
=============================================================================
