-------------------------- MODULE MCReconciliation --------------------------
(* Instances of Reconciliation. *)
EXTENDS Reconciliation

OneSource == [s \in {"s"} |-> "a"]
============================================================================
