--------------------------- MODULE MCClientSessions ---------------------------
(***************************************************************************)
(* Small instances of ClientSessions for the model checker.                *)
(***************************************************************************)
EXTENDS ClientSessions, TLC

CONSTANTS c1, c2, b1, b2, b3

\* Neither connections nor blocks are told apart.
Symmetry == Permutations(Conns) \cup Permutations(Blocks)
=============================================================================
