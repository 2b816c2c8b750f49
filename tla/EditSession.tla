----------------------------- MODULE EditSession -----------------------------
(***************************************************************************)
(* The client's side of block edits: the world it shows, the revisions it  *)
(* has confirmed, and the edits it has shown before the server decided.    *)
(* A rejected edit is undone only together with every other request in     *)
(* flight on its cell, once they are all rejected.                         *)
(*                                                                         *)
(* Session::pending_edits and the game's map of optimistic edits hold the  *)
(* same requests for the same time, so one set stands for both. Requests   *)
(* are sent in `req` order.                                                *)
(***************************************************************************)
EXTENDS EditWire

CONSTANTS
    Air,            \* the empty block: what a break leaves
    OutQueue,       \* OUT_QUEUE: a full queue to the writer thread drops a frame
    ExpiryOn,       \* whether requests reach PENDING_TTL in this run
    ToolsOn,        \* whether clients use tools in this run
    MaxReq          \* bound: requests one session sends

ASSUME SessionConstants ==
    /\ Air \in Blocks
    /\ OutQueue \in Nat
    /\ ExpiryOn \in BOOLEAN
    /\ ToolsOn \in BOOLEAN
    /\ MaxReq \in Nat

VARIABLES
    known,          \* cell_revs: the confirmed revision of each cell
    view,           \* the block each client's world shows in each cell
    pending,        \* the requests in flight, rejected ones that wait included
    nextReq         \* the last request number used

sessionVars == <<known, view, pending, nextReq>>

(* `base` is the confirmed revision at the time of the prediction, and     *)
(* `prev` what the cell showed before it.                                  *)
PendingReq == [kind : {"Edit", "Tool", "Rejected"}, req : Nat, cell : Cells,
               expect : Nat, base : Nat, prev : Blocks]

SessionInit ==
    /\ known = [p \in Clients |-> [c \in Cells |-> 0]]
    /\ view = [p \in Clients |-> Generated]
    /\ pending = [p \in Clients |-> {}]
    /\ nextReq = [p \in Clients |-> 0]

SessionTypeOK ==
    /\ known \in [Clients -> [Cells -> Nat]]
    /\ view \in [Clients -> [Cells -> Blocks]]
    /\ pending \in [Clients -> SUBSET PendingReq]
    /\ nextReq \in [Clients -> Nat]

-----------------------------------------------------------------------------
(* Sending.                                                                *)

OnCell(reqs, c) == {q \in reqs : q.cell = c}

(* next_cell_revision is the largest of these.                             *)
ExpectCandidates(p, c) ==
    {known[p][c]} \cup {q.expect + 1 : q \in {r \in OnCell(pending[p], c) : r.kind # "Rejected"}}

(* Note the request, then hand its frame to the writer thread.             *)
Send(p, c, kind, wireKind, b) ==
    /\ p \in connected
    /\ nextReq[p] < MaxReq
    /\ nextReq' = [nextReq EXCEPT ![p] = @ + 1]
    /\ \E e \in ExpectCandidates(p, c) :
        /\ \A other \in ExpectCandidates(p, c) : other <= e
        /\ pending' = [pending EXCEPT ![p] = @ \cup
                {[kind |-> kind, req |-> nextReq[p] + 1, cell |-> c, expect |-> e,
                  base |-> known[p][c], prev |-> view[p][c]]}]
        /\ \/ toServer' = [toServer EXCEPT ![p] = Append(@,
                    [kind |-> wireKind, req |-> nextReq[p] + 1, cell |-> c,
                     expect |-> e, block |-> b])]
           \/ Len(toServer[p]) >= OutQueue /\ UNCHANGED toServer
    /\ UNCHANGED <<connected, toClient, known>>

(* A break or a place shows its outcome at once.                           *)
Predict(p, c, b) ==
    /\ view' = [view EXCEPT ![p][c] = b]
    /\ Send(p, c, "Edit", "Edit", b)

Break(p, c) == view[p][c] # Air /\ Predict(p, c, Air)

Place(p, c, b) == view[p][c] = Air /\ b # Air /\ Predict(p, c, b)

(* A tool's outcome is the server's to decide: nothing is shown. The tools *)
(* themselves are not told apart, so the request carries no block.         *)
UseTool(p, c) ==
    /\ ToolsOn
    /\ Send(p, c, "Tool", "ToolUse", Air)
    /\ UNCHANGED view

-----------------------------------------------------------------------------
(* flush_rejections.                                                       *)

(* Mutant: a rejection is settled only when nothing else was in flight.    *)
LostSingly(reqs) ==
    {c \in Cells : Cardinality(OnCell(reqs, c)) = 1 /\ \A q \in OnCell(reqs, c) : q.kind = "Rejected"}

(* The cells whose requests in flight are all rejected.                    *)
Lost(reqs) ==
    {c \in Cells : OnCell(reqs, c) # {} /\ \A q \in OnCell(reqs, c) : q.kind = "Rejected"}

(* Mutant: a lost chain gives back what it covered whatever came since.    *)
RestoredAlways(p, reqs, revs) ==
    [c \in Cells |->
        IF c \in Lost(reqs)
        THEN (CHOOSE q \in OnCell(reqs, c) : \A r \in OnCell(reqs, c) : q.req <= r.req).prev
        ELSE view[p][c]]

(* A lost chain gives back what its oldest request covered, unless a       *)
(* revision newer than any of its bases has been confirmed.                *)
Restored(p, reqs, revs) ==
    [c \in Cells |->
        IF c \in Lost(reqs) /\ \A q \in OnCell(reqs, c) : revs[c] <= q.base
        THEN (CHOOSE q \in OnCell(reqs, c) : \A r \in OnCell(reqs, c) : q.req <= r.req).prev
        ELSE view[p][c]]

Flush(p, reqs, revs) ==
    /\ pending' = [pending EXCEPT ![p] = {q \in reqs : q.cell \notin Lost(reqs)}]
    /\ view' = [view EXCEPT ![p] = Restored(p, reqs, revs)]

-----------------------------------------------------------------------------
(* Receiving.                                                              *)

Hears(p, kinds) ==
    /\ p \in connected
    /\ toClient[p] # <<>>
    /\ Head(toClient[p]).kind \in kinds
    /\ toClient' = [toClient EXCEPT ![p] = Tail(@)]
    /\ UNCHANGED <<connected, toServer, nextReq>>

(* An Edit must be strictly newer than what is confirmed; a Snapshot may   *)
(* repeat it.                                                              *)
HearContent(p) ==
    /\ Hears(p, {"Snapshot", "Edit"})
    /\ LET m == Head(toClient[p])
           lands == m.rev > known[p][m.cell] \/ (m.kind = "Snapshot" /\ m.rev = known[p][m.cell])
       IN  IF lands
           THEN /\ known' = [known EXCEPT ![p][m.cell] = m.rev]
                /\ view' = [view EXCEPT ![p][m.cell] = m.block]
           ELSE UNCHANGED <<known, view>>
    /\ UNCHANGED pending

Matching(p, m) == {q \in pending[p] : q.req = m.req}

Confirm(p, c, r) == [known EXCEPT ![p][c] = IF r > @ THEN r ELSE @]

(* A verdict on a request that is no longer in flight is ignored.          *)
HearAck(p) ==
    /\ Hears(p, {"EditAck"})
    /\ LET m == Head(toClient[p])
           mine == Matching(p, m)
       IN  IF mine = {} THEN UNCHANGED <<known, view, pending>>
           ELSE IF m.accepted
           THEN /\ known' = Confirm(p, m.cell, m.rev)
                /\ Flush(p, pending[p] \ mine, known'[p])
           ELSE /\ Flush(p, (pending[p] \ mine) \cup {[q EXCEPT !.kind = "Rejected"] : q \in mine},
                         known[p])
                /\ UNCHANGED known

(* The result of a tool use. Only a use still in flight is written.        *)
HearTool(p) ==
    /\ Hears(p, {"ToolResult"})
    /\ LET m == Head(toClient[p])
           mine == Matching(p, m)
       IN  /\ pending' = [pending EXCEPT ![p] = @ \ mine]
           /\ IF mine # {} /\ m.reacted
              THEN /\ known' = Confirm(p, m.cell, m.rev)
                   /\ view' = [view EXCEPT ![p][m.cell] = m.block]
              ELSE UNCHANGED <<known, view>>

(* Requests age in the order they were sent in.                            *)
Aged(p, old) == {q \in pending[p] : q.req <= old}

(* The end of a poll: the requests up to number `old` have waited for      *)
(* PENDING_TTL. An edit counts as rejected; a tool use is given up.        *)
EndPoll(p, old) ==
    LET gone   == {q \in Aged(p, old) : q.kind = "Tool"}
        failed == {q \in Aged(p, old) : q.kind = "Edit"}
        after  == (pending[p] \ (gone \cup failed)) \cup {[q EXCEPT !.kind = "Rejected"] : q \in failed}
    IN  /\ p \in connected
        /\ old = 0 \/ ExpiryOn
        /\ gone \cup failed # {} \/ Lost(pending[p]) # {}
        /\ Flush(p, after, known[p])
        /\ UNCHANGED <<wire, known, nextReq>>

Player(p) ==
    \E c \in Cells :
        \/ Break(p, c)
        \/ \E b \in Blocks : Place(p, c, b)
        \/ UseTool(p, c)

Poll(p) ==
    \/ HearContent(p)
    \/ HearAck(p)
    \/ HearTool(p)
    \/ \E old \in 0 .. nextReq[p] : EndPoll(p, old)
=============================================================================
