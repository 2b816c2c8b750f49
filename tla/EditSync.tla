------------------------------ MODULE EditSync ------------------------------
(***************************************************************************)
(* Optimistic block editing: every client of EditSession against the one   *)
(* server of EditLedger, over the streams of EditWire. Clients are joined  *)
(* and ready; joining is another module's.                                 *)
(***************************************************************************)
EXTENDS EditLedger, EditSession

vars == <<wire, ledgerVars, sessionVars>>

Init == WireInit /\ LedgerInit /\ SessionInit

ServerStep ==
    /\ Reactions \/ \E p \in Clients : Handler(p) \/ Depart(p)
    /\ UNCHANGED sessionVars

ClientStep ==
    /\ \E p \in Clients : Player(p) \/ Poll(p)
    /\ UNCHANGED ledgerVars

Next == ServerStep \/ ClientStep

Spec == Init /\ [][Next]_vars

(* A thread with work does it: each connection's own, the reaction thread  *)
(* once it holds the lock, and each client's poll, which runs every frame. *)
(* A kicked client's thread wakes and leaves. Nobody has to edit.          *)
Fairness ==
    /\ \A p \in Clients :
        /\ WF_vars(Handler(p) /\ UNCHANGED sessionVars)
        /\ WF_vars(p \in kicked /\ Depart(p) /\ UNCHANGED sessionVars)
        /\ WF_vars(Poll(p) /\ UNCHANGED ledgerVars)
    /\ WF_vars(Reactions /\ tick # "off" /\ UNCHANGED sessionVars)

FairSpec == Spec /\ Fairness

-----------------------------------------------------------------------------
(* State properties.                                                       *)

TypeOK == WireTypeOK /\ LedgerTypeOK /\ SessionTypeOK

(* A player's edit or tool use commits only on top of the revision it      *)
(* expected, although its handler gives up the lock between the first look *)
(* at that revision and the write (on_edit, on_tool_use).                  *)
CommitsAtExpected ==
    \A c \in Cells : \A i \in DOMAIN log[c] :
        log[c][i].by # World => log[c][i].expect = i - 1

(* The distinct blocks that edited cells name never outgrow the spec pool, *)
(* although players intern one block before releasing another and a        *)
(* reaction writes two cells on one admission (State::write, set_pair).    *)
PoolHolds == Cardinality({BlockAt(c) : c \in Edited}) <= MaxSpecPool

(* The commit a request made, in the ledger's past.                        *)
Commits(p, r) ==
    UNION {{<<c, i>> : i \in {j \in DOMAIN log[c] : log[c][j].by = p /\ log[c][j].req = r}} : c \in Cells}

(* A verdict on the way to a client tells the truth: an accepted request   *)
(* is the commit at the revision named, with the content named, and a      *)
(* rejected one never committed anywhere (on_edit's several reject paths). *)
VerdictsTrue ==
    \A p \in connected : \A i \in DOMAIN toClient[p] :
        LET m == toClient[p][i] IN
        /\ m.kind = "EditAck" =>
                Commits(p, m.req) = IF m.accepted THEN {<<m.cell, m.rev>>} ELSE {}
        /\ m.kind = "ToolResult" =>
                /\ Commits(p, m.req) = IF m.reacted THEN {<<m.cell, m.rev>>} ELSE {}
                /\ m.reacted => log[m.cell][m.rev].block = m.block

(* Frames that tell a client of a revision it does not know yet. A tool    *)
(* result does so only while the use is in flight.                         *)
Tells(p, m) ==
    \/ m.kind \in {"Snapshot", "Edit"}
    \/ m.kind = "ToolResult" /\ m.reacted /\ \E q \in pending[p] : q.req = m.req

(* The revisions of one cell reach a client in commit order, each once, so *)
(* none is dropped as stale: every frame is queued under the lock that     *)
(* committed it.                                                           *)
StreamInOrder ==
    \A p \in connected : \A i \in DOMAIN toClient[p] :
        LET m == toClient[p][i] IN
        Tells(p, m) =>
            /\ known[p][m.cell] < m.rev /\ m.rev <= Rev(m.cell)
            /\ \A j \in 1 .. i - 1 :
                    Tells(p, toClient[p][j]) /\ toClient[p][j].cell = m.cell
                        => toClient[p][j].rev < m.rev

(* A client that is not being kicked misses no commit: it knows a cell's   *)
(* latest revision, or a frame that tells it is queued, or the reaction    *)
(* tick still holds the lock over it.                                      *)
NothingMissed ==
    \A p \in connected \ kicked : \A c \in Cells :
        \/ known[p][c] = Rev(c)
        \/ \E i \in DOMAIN toClient[p] :
                Tells(p, toClient[p][i]) /\ toClient[p][i].cell = c /\ toClient[p][i].rev = Rev(c)
        \/ c \in touched

(* The block a cell held at a revision. *)
ContentAt(c, r) == IF r = 0 THEN Generated[c] ELSE log[c][r].block

(* A client with nothing in flight on a cell shows what the ledger held at *)
(* the revision it has confirmed: predictions and their rollbacks leave    *)
(* nothing behind.                                                         *)
MirrorFaithful ==
    \A p \in connected \ kicked : \A c \in Cells :
        OnCell(pending[p], c) = {} => view[p][c] = ContentAt(c, known[p][c])

-----------------------------------------------------------------------------
(* Refinement.                                                             *)

Abstract == INSTANCE CellHistory WITH history <- log, seen <- known

(* The whole protocol is a set of compare-and-set registers that every     *)
(* client follows forward.                                                 *)
ImplementsHistory == Abstract!Spec

-----------------------------------------------------------------------------
(* Liveness, under FairSpec.                                               *)

Shows(p) == \A c \in Cells : view[p][c] = BlockAt(c)

(* When the editing stops, every client that is still connected comes to   *)
(* show the server's world and keeps showing it.                           *)
Converges == <>[](\A p \in connected : Shows(p))

(* Every request is decided, for good or by timeout, or its sender leaves: *)
(* no rejected chain waits forever for a verdict that was lost.            *)
RequestsSettle ==
    \A p \in Clients : pending[p] # {} ~> (pending[p] = {} \/ p \notin connected)
=============================================================================
