----------------------------- MODULE SavedWorld -----------------------------
(***************************************************************************)
(* What saving promises, without files, threads or failures: one saved     *)
(* generation of the world, replaced all at once by a newer one, found     *)
(* again whenever the program starts, and lost only to damage done to the  *)
(* disk while the program is not running.                                  *)
(***************************************************************************)
EXTENDS Integers

VARIABLES
    up,             \* whether the world is being played
    world,          \* the generation in memory; 0 when not up
    stored          \* the generation a start would find: 0 nothing, Lost unreadable

vars == <<up, world, stored>>

Lost == -1

Init == up = FALSE /\ world = 0 /\ stored = 0

(* A world that was never saved starts anew. *)
Start ==
    /\ ~up /\ stored # Lost
    /\ up' = TRUE
    /\ IF stored = 0 THEN world' > 0 ELSE world' = stored
    /\ UNCHANGED stored

Edit ==
    /\ up
    /\ world' > world
    /\ UNCHANGED <<up, stored>>

(* Some generation between the last one saved and the one in memory.       *)
Save ==
    /\ up
    /\ stored < stored' /\ stored' <= world
    /\ UNCHANGED <<up, world>>

(* A clean exit or a crash. *)
Halt ==
    /\ up
    /\ up' = FALSE /\ world' = 0
    /\ UNCHANGED stored

(* What is left may be older, cut, or unreadable.                          *)
Damage ==
    /\ ~up
    /\ stored' # stored
    /\ UNCHANGED <<up, world>>

Next == Start \/ Edit \/ Save \/ Halt \/ Damage

Spec == Init /\ [][Next]_vars
=============================================================================
