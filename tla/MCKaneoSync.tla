----------------------------- MODULE MCKaneoSync -----------------------------
(* Small instances of KaneoSync for TLC.                                    *)
EXTENDS KaneoSync, TLC

CONSTANTS w1, w2, t1, t2

Symmetry == Permutations(Worker) \cup Permutations(Task)
=============================================================================
