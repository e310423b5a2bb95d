---------------------------- MODULE MCMcpClient -----------------------------
(***************************************************************************)
(* Instances of McpClient for TLC.                                         *)
(***************************************************************************)
EXTENDS McpClient, TLC

CONSTANTS t1, t2, main
=============================================================================
