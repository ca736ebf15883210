----------------------------- MODULE GcThreads -----------------------------
(***************************************************************************)
(* The threads that the garbage collector knows: those that registered     *)
(* with ep_gc_register_thread and have a place in ep_gc_threads.           *)
(***************************************************************************)
CONSTANT Threads
=============================================================================
