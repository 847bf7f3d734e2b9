---------------------------- MODULE MCLifecycle ----------------------------
(* The instances of Lifecycle that TLC checks: bounds are in the .cfg files. *)
EXTENDS Lifecycle
=============================================================================
