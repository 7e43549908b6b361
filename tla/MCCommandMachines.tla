-------------------------- MODULE MCCommandMachines --------------------------
(* Instances of CommandMachines: which operations the workflow runs.       *)
EXTENDS CommandMachines

Op(kind, type) == [kind |-> kind, type |-> type]

ActivityOps == {Op("activity", t) : t \in {"TryCancel", "WaitCancellationCompleted", "Abandon"}}
CancelTypes == {"TryCancel", "WaitCancellationCompleted", "WaitCancellationRequested", "Abandon"}
ChildOps == {Op("child", t) : t \in CancelTypes}
NexusOps == {Op("nexus", t) : t \in CancelTypes}
OtherOps == {Op(k, "none") : k \in {"timer", "signal", "cancel_external", "upsert", "update"}}
AllOps == ActivityOps \cup ChildOps \cup NexusOps \cup OtherOps

Singles == {<<op>> : op \in AllOps}

(* Two operations at once: of one kind, so that only their order tells     *)
(* them apart, and of kinds whose cancellations differ.                    *)
Pairs == {<<Op("timer", "none"), Op("timer", "none")>>,
          <<Op("child", "TryCancel"), Op("cancel_external", "none")>>,
          <<Op("signal", "none"), Op("signal", "none")>>,
          <<Op("nexus", "WaitCancellationCompleted"), Op("signal", "none")>>,
          <<Op("activity", "TryCancel"), Op("upsert", "none")>>,
          <<Op("activity", "TryCancel"), Op("update", "none")>>,
          <<Op("activity", "WaitCancellationCompleted"), Op("timer", "none")>>}

SinglesAndPairs == Singles \cup Pairs

(* Single operations for the disagreements.                                *)
AbandonedNexus == {<<Op("nexus", "Abandon")>>}
AbandonedActivity == {<<Op("activity", "Abandon")>>}
SomeChild == {<<Op("child", "TryCancel")>>}
SomeSignal == {<<Op("signal", "none")>>}
SomeNexus == {<<Op("nexus", "TryCancel")>>}
==============================================================================
