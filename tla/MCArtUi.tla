----------------------------- MODULE MCArtUi --------------------------------
(***************************************************************************)
(* Instances of ArtUi for TLC.                                             *)
(***************************************************************************)
EXTENDS ArtUi, TLC

CONSTANTS t1, t2, read_file, shell, lsp, todo_write

Plain(tool) == [name |-> tool, action |-> "unknown"]

\* A call the user is asked about and one that is allowed at once.
AskAndAllow == {Plain(todo_write), Plain(read_file)}

AskOnly == {Plain(todo_write)}

WriteOnly == {Plain(shell)}

Unset == [t \in Tools |-> "unset"]

DefaultEngine == WithOverrides("build", Unset)

Symmetry == Permutations(Turns)
=============================================================================
