---------------------------- MODULE MCClassifier ----------------------------
(* The instances of Classifier that TLC checks: bounds are in the .cfg files. *)
EXTENDS Classifier
=============================================================================
