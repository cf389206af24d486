---------------------------- MODULE MCWakeBridge ----------------------------
(* WakeBridge on small sets. No symmetry: one thread is Fresh and the other *)
(* is not, and there is one message and one request.                        *)
EXTENDS WakeBridge, TLC
=============================================================================
