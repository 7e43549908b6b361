------------------------- MODULE MeteredPermitDealer -------------------------
(***************************************************************************)
(* MeteredPermitDealer (abstractions.rs): hands out task-slot permits, each *)
(* backed by a slot of a SlotSupplier (here the fixed-size supplier, a      *)
(* counting semaphore), and refuses to ask the supplier for a slot while    *)
(* max_permits permits are extant.                                          *)
(*                                                                          *)
(* An acquirer is one concurrent caller: for workflow tasks the sticky and  *)
(* the normal queue's long-poll loops and the eager workflow start, which   *)
(* share one dealer through clones.  An acquirer's permits outlive the      *)
(* call: each goes to the poll that was spawned for it, so one acquirer can *)
(* own many.                                                                *)
(*                                                                          *)
(* The limit check and the supplier's reservation are separate steps, since *)
(* an await (acquire_owned) or another thread (try_acquire_owned) can come  *)
(* between them; so are the two halves of a permit's drop.                  *)
(***************************************************************************)
EXTENDS Integers, FiniteSets

CONSTANTS
    Acquirers,      \* the concurrent callers of acquire_owned / try_acquire_owned
    Slots,          \* size of the supplier's semaphore
    MaxPermits      \* max_permits; 0 stands for None

ASSUME AcquirersAssumption == IsFiniteSet(Acquirers) /\ Acquirers # {}
ASSUME SlotsAssumption == Slots \in Nat
ASSUME MaxPermitsAssumption == MaxPermits \in Nat

VARIABLES
    pc,             \* where each acquirer stands in its call
    available,      \* free slots of the supplier
    extant,         \* extant_permits, the watch channel's value
    unused,         \* unused_claimants
    fresh,          \* live permits whose holder has not called into_used
    used,           \* live permits that went through into_used
    releasing       \* permits being dropped: counted out, supplier permit still alive

vars == <<pc, available, extant, unused, fresh, used, releasing>>

Init ==
    /\ pc = [a \in Acquirers |-> "idle"]
    /\ available = Slots
    /\ extant = 0
    /\ unused = 0
    /\ fresh = 0
    /\ used = 0
    /\ releasing = 0

BelowMax == MaxPermits = 0 \/ extant < MaxPermits

\* acquire_owned: the wait on the extant count is over.
PassLimit(a) ==
    /\ pc[a] = "idle"
    /\ BelowMax
    /\ pc' = [pc EXCEPT ![a] = "reserving"]
    /\ UNCHANGED <<available, extant, unused, fresh, used, releasing>>

\* try_acquire_owned: the extant count is below the limit.  A caller that finds
\* it at the limit returns Err at once and changes nothing.
TryPassLimit(a) ==
    /\ pc[a] = "idle"
    /\ BelowMax
    /\ pc' = [pc EXCEPT ![a] = "trying"]
    /\ UNCHANGED <<available, extant, unused, fresh, used, releasing>>

\* The supplier granted a slot (reserve_slot or try_reserve_slot); build_owned
\* counts the permit and hands it out.
BuildOwned(a) ==
    /\ pc[a] # "idle"
    /\ available > 0
    /\ available' = available - 1
    /\ unused' = unused + 1
    /\ extant' = extant + 1
    /\ fresh' = fresh + 1
    /\ pc' = [pc EXCEPT ![a] = "idle"]
    /\ UNCHANGED <<used, releasing>>

\* try_acquire_owned: the supplier had no slot and the call returns Err.
TryReserveFails(a) ==
    /\ pc[a] = "trying"
    /\ available = 0
    /\ pc' = [pc EXCEPT ![a] = "idle"]
    /\ UNCHANGED <<available, extant, unused, fresh, used, releasing>>

\* The future of acquire_owned is dropped while it waits (the select of a poll
\* loop takes its shutdown branch).
Abandon(a) ==
    /\ pc[a] # "trying"
    /\ pc' = [pc EXCEPT ![a] = "idle"]
    /\ UNCHANGED <<available, extant, unused, fresh, used, releasing>>

\* into_used: the poll that held the permit received its task.
IntoUsed ==
    /\ fresh > 0
    /\ fresh' = fresh - 1
    /\ used' = used + 1
    /\ unused' = unused - 1
    /\ UNCHANGED <<pc, available, extant, releasing>>

\* Drop of a permit that never got a task (the poll failed or was cancelled).
DropFresh ==
    /\ fresh > 0
    /\ fresh' = fresh - 1
    /\ unused' = unused - 1
    /\ extant' = extant - 1
    /\ releasing' = releasing + 1
    /\ UNCHANGED <<pc, available, used>>

\* Drop of a used permit.
DropUsed ==
    /\ used > 0
    /\ used' = used - 1
    /\ extant' = extant - 1
    /\ releasing' = releasing + 1
    /\ UNCHANGED <<pc, available, fresh, unused>>

\* The supplier permit inside the release context is dropped last.
ReleaseSlot ==
    /\ releasing > 0
    /\ releasing' = releasing - 1
    /\ available' = available + 1
    /\ UNCHANGED <<pc, extant, unused, fresh, used>>

Next ==
    \/ \E a \in Acquirers : \/ PassLimit(a)
                            \/ TryPassLimit(a)
                            \/ BuildOwned(a)
                            \/ TryReserveFails(a)
                            \/ Abandon(a)
    \/ IntoUsed
    \/ DropFresh
    \/ DropUsed
    \/ ReleaseSlot

Spec == Init /\ [][Next]_vars

-----------------------------------------------------------------------------
TypeOK ==
    /\ pc \in [Acquirers -> {"idle", "reserving", "trying"}]
    /\ available \in 0..Slots
    /\ {extant, unused, fresh, used, releasing} \subseteq 0..Slots

\* The callers past the limit check.
Past == {a \in Acquirers : pc[a] # "idle"}

\* Every slot of the supplier is free, held by a live permit or about to be
\* returned, and the two counters the metrics are computed from (extant_permits,
\* unused_claimants) agree with the live permits: no path through into_used or
\* drop counts a permit twice or not at all.
SlotsConserved ==
    /\ available + fresh + used + releasing = Slots
    /\ extant = fresh + used
    /\ unused = fresh

\* What the limit guarantees when several callers share the dealer: each caller
\* that is past the check can push the count one further, so the number of
\* extant permits exceeds max_permits by at most the number of callers less one
\* (two, for the sticky and the normal poller and the eager start).
ExtantBounded ==
    MaxPermits > 0 => extant <= MaxPermits + Cardinality(Acquirers) - 1

\* The inductive form: callers past the check count as if they had their permit.
ExtantBoundedInv ==
    MaxPermits > 0 =>
        extant + Cardinality(Past) <= MaxPermits + Cardinality(Acquirers) - 1

\* The field comment of max_permits (abstractions.rs:30-31): "The maximum number
\* of extant permits which are allowed. Once the number of extant permits is at
\* this number, no more permits will be requested from the supplier until one is
\* freed."
MaxPermitsRespected ==
    MaxPermits > 0 => extant <= MaxPermits
=============================================================================
