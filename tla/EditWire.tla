------------------------------ MODULE EditWire ------------------------------
(***************************************************************************)
(* What the edit server and its clients share: the cells and blocks of the *)
(* world, the frames of the wire protocol that carry edits, and the two    *)
(* ordered streams of each connection.                                     *)
(*                                                                         *)
(* A stream stands for everything between the two ends that keeps order:   *)
(* the bounded queue in front of the writer thread, the QUIC stream and    *)
(* the inbox of the reader thread.                                         *)
(***************************************************************************)
EXTENDS Naturals, Sequences, FiniteSets

CONSTANTS
    Clients,        \* one joined session each
    Cells,          \* world cells
    Blocks,         \* block configurations a cell may hold
    Generated,      \* what the terrain generator puts in each cell
    World           \* WORLD_PLAYER: the author of the reaction scheduler's commits

ASSUME WireConstants ==
    /\ Generated \in [Cells -> Blocks]
    /\ World \notin Clients

VARIABLES
    connected,      \* clients whose session is up: the server's roster, and Session::alive
    toServer,       \* [Clients -> Seq(Request)]: frames a client sent, unread
    toClient        \* [Clients -> Seq(Frame)]: frames the server queued, unread

wire == <<connected, toServer, toClient>>

(* Requests of a client. `expect` is the revision the sender believes the  *)
(* cell will have when the request is decided.                             *)
Request == [kind : {"Edit", "ToolUse"}, req : Nat, cell : Cells, expect : Nat, block : Blocks]

(* Frames of the server. A Snapshot or Edit carries the content of a       *)
(* committed revision; EditAck and ToolResult answer one request. On the   *)
(* wire an EditAck names only its request: `cell` is that request's cell.  *)
ContentFrame == [kind : {"Snapshot", "Edit"}, cell : Cells, rev : Nat, block : Blocks]
AckFrame     == [kind : {"EditAck"}, req : Nat, accepted : BOOLEAN, cell : Cells, rev : Nat]
ToolFrame    == [kind : {"ToolResult"}, req : Nat, reacted : BOOLEAN, cell : Cells, rev : Nat, block : Blocks]
Frame        == ContentFrame \cup AckFrame \cup ToolFrame

Snapshot(c, r, b)         == [kind |-> "Snapshot", cell |-> c, rev |-> r, block |-> b]
EditMsg(c, r, b)          == [kind |-> "Edit", cell |-> c, rev |-> r, block |-> b]
(* Mutant: the verdict echoes the revision its request expected.           *)
EditAckEchoed(q, ok, r)   == [kind |-> "EditAck", req |-> q.req, accepted |-> ok, cell |-> q.cell, rev |-> q.expect]

EditAck(q, ok, r)         == [kind |-> "EditAck", req |-> q.req, accepted |-> ok, cell |-> q.cell, rev |-> r]
ToolResult(q, ok, r, b)   == [kind |-> "ToolResult", req |-> q.req, reacted |-> ok, cell |-> q.cell, rev |-> r, block |-> b]

WireTypeOK ==
    /\ connected \in SUBSET Clients
    /\ toServer \in [Clients -> Seq(Request)]
    /\ toClient \in [Clients -> Seq(Frame)]

WireInit ==
    /\ connected = Clients
    /\ toServer = [p \in Clients |-> <<>>]
    /\ toClient = [p \in Clients |-> <<>>]
=============================================================================
