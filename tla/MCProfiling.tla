---------------------------- MODULE MCProfiling ----------------------------
(* Two processes of one program, with and without a whitelist, for TLC. *)
EXTENDS Profiling, TLC

CONSTANTS p1, p2

SameComm == [p \in {p1, p2} |-> "worker"]
\* No filter, and a whitelist of one process.
Choices == {{}, {p1}}
\* CPUs are alike.
Symmetry == Permutations(Cpus)
=============================================================================
