----------------------------- MODULE MC_Payment -----------------------------
(* Instances of Payment for TLC. *)
EXTENDS Payment, TLC

CONSTANTS s1, s2, p1, p2, i1, i2, none

Symmetric == Permutations({s1, s2}) \cup Permutations({p1, p2}) \cup Permutations({i1, i2})
=============================================================================
