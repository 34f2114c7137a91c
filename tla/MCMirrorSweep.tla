--------------------------- MODULE MCMirrorSweep ---------------------------
(* Small instances of MirrorSweep for TLC.                                  *)
EXTENDS MirrorSweep, TLC
=============================================================================
