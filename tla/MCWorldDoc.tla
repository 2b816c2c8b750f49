----------------------------- MODULE MCWorldDoc -----------------------------
(* Constants of the runs of WorldDoc. *)
EXTENDS WorldDoc

CONSTANTS stone, ore, glass

MCGenerated == [c \in Cells |-> stone]

\* An older build, which does not know glass, and a newer one.
MCBuilds == {{stone, ore}, {stone, ore, glass}}
=============================================================================
