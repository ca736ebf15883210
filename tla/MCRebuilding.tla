--------------------------- MODULE MCRebuilding ---------------------------
(* Rebuilds that follow one another over restarts. *)
EXTENDS Rebuilding
=============================================================================
