----------------------------- MODULE MCLockPool -----------------------------
(* Small instances of LockPool for TLC.                                     *)
EXTENDS LockPool, TLC

CONSTANTS r1, r2, r3, k1, k2
=============================================================================
