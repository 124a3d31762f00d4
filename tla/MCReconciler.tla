---------------------------- MODULE MCReconciler ----------------------------
(* Reconciler for TLC. *)
EXTENDS Reconciler
=============================================================================
