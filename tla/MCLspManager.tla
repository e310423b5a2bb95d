---------------------------- MODULE MCLspManager ----------------------------
(***************************************************************************)
(* Instances of LspManager for TLC.                                        *)
(***************************************************************************)
EXTENDS LspManager, TLC

CONSTANTS k1, k2
=============================================================================
