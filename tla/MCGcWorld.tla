------------------------------ MODULE MCGcWorld -----------------------------
(* Three threads: the main thread, a heartbeat and one more. *)
EXTENDS GcWorld
CONSTANTS t1, t2, t3
MCThreads == {t1, t2, t3}
=============================================================================
