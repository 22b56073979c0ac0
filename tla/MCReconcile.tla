------------------------------ MODULE MCReconcile ------------------------------
(***************************************************************************)
(* Reconcile-at-write for TLC: two sessions, one of which tells two facts. *)
(***************************************************************************)
EXTENDS Reconcile, TLC

CONSTANTS anna, ben, a1, a2, b1

MCOwner == a1 :> anna @@ a2 :> anna @@ b1 :> ben
================================================================================
