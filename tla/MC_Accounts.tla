---------------------------- MODULE MC_Accounts ----------------------------
(* An instance of Accounts for TLC. *)
EXTENDS Accounts, TLC

CONSTANTS u1, u2, n1, n2, n3, c1, c2, e1, none

Symmetric == Permutations(Call) \cup Permutations(Nonce)
=============================================================================
