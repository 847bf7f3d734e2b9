--------------------------- MODULE MCEventBuffer ---------------------------
(* The instances of EventBuffer that TLC checks; their bounds are in the    *)
(* .cfg files.                                                              *)
EXTENDS EventBuffer
=============================================================================
