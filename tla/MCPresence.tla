----------------------------- MODULE MCPresence -----------------------------
(* Presence with two players who want the same name, and one who does not. *)
EXTENDS Presence

CONSTANTS p1, p2, p3, here, away

MCNameOf == [p \in Players |-> IF p = p2 THEN "ada" ELSE "bob"]
=============================================================================
