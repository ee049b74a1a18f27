---------------------------- MODULE MCExecution ----------------------------
(***************************************************************************)
(* Finite instances of Execution.  Orders are interchangeable, so runs of  *)
(* safety properties may take them up to symmetry.                         *)
(***************************************************************************)
EXTENDS ExecutionInv, TLC

OutsideFaults == {"unknown", "definite", "reject", "query", "wipe", "reconcile"}
Interruptions == {"unknown", "query", "cancel", "stop"}
Symmetry == Permutations(Orders)

=============================================================================
