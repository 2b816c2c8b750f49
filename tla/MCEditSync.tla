----------------------------- MODULE MCEditSync -----------------------------
(* EditSync on a world of a few cells: the ground is stone and the rest    *)
(* air, and clients are interchangeable.                                   *)
EXTENDS EditSync, TLC

CONSTANT Stone

MCGenerated == [c \in Cells |-> Stone]

MCSymmetry == Permutations(Clients)
=============================================================================
