------------------------------ MODULE MCSignIn ------------------------------
(***************************************************************************)
(* Instances of SignIn for TLC.                                            *)
(***************************************************************************)
EXTENDS SignIn, TLC

CONSTANTS b1, b2, d1, preferred, fallback

BothPorts == <<preferred, fallback>>
=============================================================================
