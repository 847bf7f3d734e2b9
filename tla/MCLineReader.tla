---------------------------- MODULE MCLineReader ----------------------------
(* Every stream of up to MaxBytes bytes.                                    *)
EXTENDS LineReader

CONSTANT MaxBytes

MCStreams == UNION {[1..n -> {"byte", "newline"}] : n \in 0..MaxBytes}
=============================================================================
