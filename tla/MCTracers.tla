----------------------------- MODULE MCTracers -----------------------------
(* Every kind of source, for TLC. *)
EXTENDS Tracers

\* Kernel events: a wake-up or a switch of one task, a switch off the CPU and
\* back, and room for one more where the state space allows it.
MCMaxTime == [tracer |-> 4, detailed |-> 4, aggregate |-> 3, offcpu |-> 6, bio |-> 6]

\* One failing step of Start where the state space allows it; Start is the same for
\* all kinds but for the number of programs.
MCMaxFaults == [tracer |-> 1, detailed |-> 0, aggregate |-> 0, offcpu |-> 1, bio |-> 1]

MCRingSize == [tracer |-> 1, detailed |-> 1, aggregate |-> 1, offcpu |-> 1, bio |-> 2]

\* Two requests with one sector number: on two disks, or overlapping.
MCSectorOf == <<1, 1>>
=============================================================================
