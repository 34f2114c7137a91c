----------------------------- MODULE MCFreshness -----------------------------
(* Small instances of Freshness for TLC.                                    *)
EXTENDS Freshness, TLC

CONSTANTS v1, v2, a1, a2, main, next

Symmetry == Permutations(Visitor) \cup Permutations(Admin) \cup Permutations(Branch)
=============================================================================
