--------------------------- MODULE MCCredentials ----------------------------
(***************************************************************************)
(* Instances of Credentials for TLC: two tasks and the user interface.     *)
(***************************************************************************)
EXTENDS Credentials, TLC

CONSTANTS k1, k2, ui

\* Bound: once two saves have overlapped, behaviours are followed only if no
\* more than two tasks or commands were started.
OverlapBound == overlap => left.starts >= MaxStarts - 2

Symmetry == Permutations({k1, k2})
=============================================================================
