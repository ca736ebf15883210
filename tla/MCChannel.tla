------------------------------ MODULE MCChannel -----------------------------
(* Two senders, two receivers and a ring of two slots. *)
EXTENDS Channel
CONSTANTS s1, s2, r1, r2
MCSenders == {s1, s2}
MCReceivers == {r1, r2}
MCValues == {7, 8}
=============================================================================
