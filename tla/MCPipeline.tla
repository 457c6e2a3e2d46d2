----------------------------- MODULE MCPipeline -----------------------------
(* Small instances of Pipeline for TLC. *)
EXTENDS Pipeline, TLC

CONSTANTS c1, c2, w1, w2

Symmetry == Permutations({c1, c2}) \cup Permutations({w1, w2})
=============================================================================
