------------------------------ MODULE MCBackup ------------------------------
(* Small instances of Backup for TLC.                                       *)
EXTENDS Backup, TLC

CONSTANTS x1, x2
=============================================================================
