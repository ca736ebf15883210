------------------------------ MODULE MCTasks -------------------------------
(* Tasks for TLC. *)
EXTENDS Tasks
=============================================================================
