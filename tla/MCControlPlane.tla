---------------------------- MODULE MCControlPlane ----------------------------
(* Instances of ControlPlane for TLC. *)
EXTENDS OperatorViews, ExecutionLineage

CONSTANT m1

OneMonitor == {m1}

ShippedWorker == {TRUE}
AnyWorker == BOOLEAN
===============================================================================
