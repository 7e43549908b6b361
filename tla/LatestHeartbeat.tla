--------------------------- MODULE LatestHeartbeat ---------------------------
(***************************************************************************)
(* What heartbeating promises, whatever the throttling: a mailbox per         *)
(* activity that holds its latest heartbeat.  Each report is newer than every *)
(* report before it and was given by the activity, and while the activity     *)
(* runs, each heartbeat or a newer one is reported.                           *)
(***************************************************************************)
EXTENDS Naturals

CONSTANTS
    Tokens,
    MaxHeartbeats       \* bound: heartbeats of one activity

VARIABLES
    given,      \* the number of the activity's latest heartbeat
    sent,       \* the number of the latest one reported
    open        \* the activity runs

mailbox == <<given, sent, open>>

Init ==
    /\ given = [t \in Tokens |-> 0]
    /\ sent = [t \in Tokens |-> 0]
    /\ open = [t \in Tokens |-> TRUE]

Give(t) ==
    /\ open[t]
    /\ given' = [given EXCEPT ![t] = @ + 1]
    /\ UNCHANGED <<sent, open>>

Send(t) ==
    /\ \E n \in (sent[t] + 1)..given[t] : sent' = [sent EXCEPT ![t] = n]
    /\ UNCHANGED <<given, open>>

Close(t) ==
    /\ open' = [open EXCEPT ![t] = FALSE]
    /\ UNCHANGED <<given, sent>>

Next == \E t \in Tokens : Give(t) \/ Send(t) \/ Close(t)

\* While the activity runs, its n-th heartbeat or a newer one is reported.
Delivery ==
    \A t \in Tokens, n \in 1..MaxHeartbeats :
        (open[t] /\ given[t] = n) ~> (~open[t] \/ sent[t] >= n)

Safety == Init /\ [][Next]_mailbox

Spec == Safety /\ Delivery
=============================================================================
