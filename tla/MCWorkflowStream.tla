-------------------------- MODULE MCWorkflowStream --------------------------
(***************************************************************************)
(* Model checking of WorkflowStream.  The runs are interchangeable; what     *)
(* follows a result that reached the wrong instance of its run (shown by the *)
(* run that checks ResultsDieWithRun) is not explored.                       *)
(***************************************************************************)
EXTENDS WorkflowStream, TLC

Symmetry == Permutations(Runs)
=============================================================================
