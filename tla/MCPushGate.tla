----------------------------- MODULE MCPushGate -----------------------------
(* Small instances of PushGate for TLC.                                     *)
EXTENDS PushGate, TLC

CONSTANTS p1, p2, main, feature

Symmetry == Permutations(Push) \cup Permutations(Branch)
=============================================================================
