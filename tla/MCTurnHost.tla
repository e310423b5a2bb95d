----------------------------- MODULE MCTurnHost -----------------------------
(***************************************************************************)
(* Instances of TurnHost for TLC.                                          *)
(***************************************************************************)
EXTENDS TurnHost, TLC

CONSTANTS t1, t2, read_file, shell, lsp, todo_write

Plain(tool) == [name |-> tool, action |-> "unknown"]

\* Under StrictEngine one is allowed, one denied, and about one the user is asked
\* until it is approved for the session.
EachDecision ==
    {Plain(read_file), Plain(shell), [name |-> lsp, action |-> "mutation"]}

Unset == [t \in Tools |-> "unset"]

\* [permissions.tools] shell = "deny", and a label that means nothing.
StrictEngine ==
    WithOverrides("build", [Unset EXCEPT ![shell] = "deny", ![lsp] = "sometimes"])

Symmetry == Permutations(Turns)
=============================================================================
