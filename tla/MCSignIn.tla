------------------------------ MODULE MCSignIn ------------------------------
(* Small instances of SignIn for TLC.                                       *)
EXTENDS SignIn, TLC

CONSTANTS h1, h2, h3, h4, a1, a2, n1
=============================================================================
