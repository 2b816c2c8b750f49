----------------------------- MODULE CellHistory -----------------------------
(***************************************************************************)
(* What the edit protocol promises, without queues, locks or predictions:  *)
(* every cell is a compare-and-set register whose past never changes, and  *)
(* each client learns of a cell's revisions in order, none of them before  *)
(* it is committed.                                                        *)
(***************************************************************************)
EXTENDS Naturals, Sequences

CONSTANTS Clients, Cells, World

VARIABLES
    history,        \* [Cells -> Seq(commit)]: who committed each revision, expecting which
    seen            \* [Clients -> [Cells -> Nat]]: the newest revision each client knows

vars == <<history, seen>>

Init ==
    /\ history = [c \in Cells |-> <<>>]
    /\ seen = [p \in Clients |-> [c \in Cells |-> 0]]

(* One commit on top of a cell's past. A player's must have expected       *)
(* exactly the revision it replaces.                                       *)
Extends(new, old) ==
    \E e \in {new[Len(new)]} :
        /\ new = Append(old, e)
        /\ e.by = World \/ e.expect = Len(old)

(* One player's commit, or the world's, on one cell or on two at once.     *)
Commit ==
    /\ \A c \in Cells : history'[c] = history[c] \/ Extends(history'[c], history[c])
    /\ UNCHANGED seen

(* A client learns of a later revision of one cell. *)
Learn(p, c) ==
    /\ seen'[p][c] \in (seen[p][c] + 1) .. Len(history[c])
    /\ seen' = [seen EXCEPT ![p][c] = seen'[p][c]]
    /\ UNCHANGED history

Next == Commit \/ \E p \in Clients, c \in Cells : Learn(p, c)

Spec == Init /\ [][Next]_vars
=============================================================================
