----------------------------- MODULE MCAccounts ----------------------------
(* Two names and two passwords, any of which can be exchanged. *)
EXTENDS Accounts, TLC
CONSTANTS anna, ben, sunrise, moonset
MCNames == {anna, ben}
MCSecrets == {sunrise, moonset}
MCSymmetry == Permutations(MCNames) \cup Permutations(MCSecrets)
=============================================================================
