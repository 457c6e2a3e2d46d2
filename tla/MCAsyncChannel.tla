--------------------------- MODULE MCAsyncChannel ---------------------------
(* Instances of AsyncChannel for TLC. *)
EXTENDS AsyncChannel, TLC

CONSTANTS p1, p2, tw, pt, b1

\* Two collect workers are interchangeable, and so are the batches.
Symmetry == Permutations(Producers)
=============================================================================
