----------------------------- MODULE EditLedger -----------------------------
(***************************************************************************)
(* The authoritative server's side of block edits: the revisioned ledger,  *)
(* the edit and tool handlers that every client's own thread runs, and the *)
(* commits of the reaction tick. One lock guards all of it. A handler      *)
(* releases that lock to read the generator or to call the hooks, and      *)
(* other threads run there; `phase` says where each thread is parked.      *)
(*                                                                         *)
(* Revisions are u32 and saturate in the code. Here they do not: no run of *)
(* a world commits 2^32 times to one cell.                                 *)
(***************************************************************************)
EXTENDS EditWire

CONSTANTS
    OutCapacity,    \* OUT_CAPACITY: frames an outbox holds
    MaxSpecPool,    \* MAX_SPEC_POOL: distinct blocks the ledger may name
    HooksInstalled, \* whether Config::hooks is non-empty
    MayRefuse,      \* whether rates, reach, quotas, hooks or laws refuse requests in this run
    MaxRev          \* bound: the reaction tick leaves a cell alone from this revision on

ASSUME LedgerConstants ==
    /\ OutCapacity \in Nat \ {0}
    /\ MaxSpecPool \in Nat \ {0}
    /\ HooksInstalled \in BOOLEAN
    /\ MayRefuse \in BOOLEAN
    /\ MaxRev \in Nat

VARIABLES
    log,            \* [Cells -> Seq(Entry)]: each cell's commits; the last is State::edits
    kicked,         \* connected clients whose `kicked` flag is set
    phase,          \* where each client's handler thread is in its current request
    tick,           \* the reaction tick: "off", committing "turns", or in its "sends"
    touched         \* cells the tick committed and has not sent yet

ledgerVars == <<log, kicked, phase, tick, touched>>

(* `req` and `expect` are the request's own; the tick's commits have 0.    *)
Entry == [by : Clients \cup {World}, req : Nat, expect : Nat, block : Blocks]

Rev(c)     == Len(log[c])
BlockAt(c) == IF log[c] = <<>> THEN Generated[c] ELSE log[c][Len(log[c])].block

LedgerInit ==
    /\ log = [c \in Cells |-> <<>>]
    /\ kicked = {}
    /\ phase = [p \in Clients |-> "idle"]
    /\ tick = "off"
    /\ touched = {}

LedgerTypeOK ==
    /\ log \in [Cells -> Seq(Entry)]
    /\ kicked \in SUBSET connected
    /\ phase \in [Clients -> {"idle", "terrain", "hook", "refuse"}]
    /\ tick \in {"off", "turns", "sends"}
    /\ touched \in SUBSET Cells

-----------------------------------------------------------------------------
(* The spec pool counts the blocks that live cells name.                   *)

Edited == {c \in Cells : log[c] # <<>>}

(* State::intern, called before the cell's old block is released.          *)
PoolAdmits(b) ==
    LET named == {BlockAt(c) : c \in Edited}
    IN  b \in named \/ Cardinality(named) < MaxSpecPool

(* Mutant: each product is admitted as if it were written alone.           *)
PoolAdmitsEach(new) == \A c \in DOMAIN new : PoolAdmits(new[c])

(* ServerCells::set_pair counts what would be named after both writes.     *)
PoolAdmitsPair(new) ==
    LET kept == {BlockAt(c) : c \in Edited \ DOMAIN new}
    IN  Cardinality(kept \cup {new[c] : c \in DOMAIN new}) <= MaxSpecPool

-----------------------------------------------------------------------------
(* Queueing. An outbox that never emptied is full at OutCapacity; what the *)
(* writer already took is in toClient too, so fullness is possible, not    *)
(* certain, from there on.                                                 *)

MayBeFull(p) == Len(toClient[p]) >= OutCapacity
Lagging      == {p \in connected : MayBeFull(p)}

(* Mutant: the author is sent the broadcast as well.                       *)
PublishToAll(p, mine, theirs, full) ==
    /\ toClient' = [q \in Clients |->
            IF q \notin connected \ full THEN toClient[q]
            ELSE IF q = p THEN toClient[q] \o mine \o <<theirs>>
            ELSE Append(toClient[q], theirs)]
    /\ kicked' = kicked \cup full

(* Mutant: a full outbox drops the frame and its owner stays.              *)
PublishLossy(p, mine, theirs, full) ==
    /\ toClient' = [q \in Clients |->
            IF q \notin connected \ full THEN toClient[q]
            ELSE IF q = p THEN toClient[q] \o mine
            ELSE Append(toClient[q], theirs)]
    /\ UNCHANGED kicked

(* A commit's frames: `mine` to its author, the Edit broadcast to all the  *)
(* others, nothing to the outboxes in `full`, whose owners are kicked.     *)
Publish(p, mine, theirs, full) ==
    /\ toClient' = [q \in Clients |->
            IF q \notin connected \ full THEN toClient[q]
            ELSE IF q = p THEN toClient[q] \o mine
            ELSE Append(toClient[q], theirs)]
    /\ kicked' = kicked \cup full

(* An answer that is lost, with nothing else, when the outbox is full.     *)
AnswerOrLose(p, frame) ==
    /\ \/ toClient' = [toClient EXCEPT ![p] = Append(@, frame)]
       \/ MayBeFull(p) /\ UNCHANGED toClient
    /\ UNCHANGED kicked

(* An answer whose loss kicks its receiver.                                *)
AnswerOrKick(p, frame) ==
    \/ /\ toClient' = [toClient EXCEPT ![p] = Append(@, frame)]
       /\ UNCHANGED kicked
    \/ /\ MayBeFull(p)
       /\ kicked' = kicked \cup {p}
       /\ UNCHANGED toClient

-----------------------------------------------------------------------------
(* The handlers. A thread's current request stays at the head of its       *)
(* stream until the handler is done with it.                               *)

LockFree == tick = "off"

Handles(p, kind) ==
    /\ LockFree
    /\ p \in connected
    /\ toServer[p] # <<>>
    /\ Head(toServer[p]).kind = kind

(* Mutant: the revision is not looked at again after the lock was released. *)
CurrentAtEntry(p) == LET m == Head(toServer[p]) IN phase[p] # "idle" \/ m.expect = Rev(m.cell)

Current(p) == LET m == Head(toServer[p]) IN m.expect = Rev(m.cell)

Done(p) ==
    /\ toServer' = [toServer EXCEPT ![p] = Tail(@)]
    /\ phase' = [phase EXCEPT ![p] = "idle"]
    /\ UNCHANGED connected

(* Mutant: a write that changes nothing takes no revision.                 *)
WriteChanges(p, m, b) ==
    log' = IF b = BlockAt(m.cell) THEN log
           ELSE [log EXCEPT ![m.cell] =
                    Append(@, [by |-> p, req |-> m.req, expect |-> m.expect, block |-> b])]

Write(p, m, b) ==
    log' = [log EXCEPT ![m.cell] =
                Append(@, [by |-> p, req |-> m.req, expect |-> m.expect, block |-> b])]

Park(p, where) ==
    /\ phase' = [phase EXCEPT ![p] = where]
    /\ UNCHANGED <<wire, log, kicked, tick, touched>>

(* The generated block is not cached: the lock is released to read it.     *)
ReadTerrain(p) ==
    /\ Handles(p, "Edit")
    /\ phase[p] = "idle" /\ Current(p)
    /\ Park(p, "terrain")

(* The lock is released to call validate_edit.                             *)
CallHooks(p) ==
    /\ HooksInstalled
    /\ \/ Handles(p, "Edit") /\ phase[p] = "terrain"
       \/ Handles(p, "Edit") /\ phase[p] = "idle" /\ Current(p)
       \/ Handles(p, "ToolUse") /\ phase[p] = "idle" /\ Current(p)
    /\ Park(p, "hook")

(* Nothing releases the lock between here and the write.                   *)
AtLastGate(p) ==
    \/ phase[p] = "hook"
    \/ ~HooksInstalled /\ phase[p] \in {"idle", "terrain"}

(* Every way on_edit, or the rate budget before it, says no: a stale       *)
(* expectation, a full pool, or a policy (rate, reach, spec, quota, hook). *)
EditRefused(p) ==
    /\ Handles(p, "Edit")
    /\ phase[p] = "idle" \/ AtLastGate(p)
    /\ \/ ~Current(p)
       \/ MayRefuse
       \/ AtLastGate(p) /\ ~PoolAdmits(Head(toServer[p]).block)
    /\ LET m == Head(toServer[p]) IN AnswerOrLose(p, EditAck(m, FALSE, Rev(m.cell)))
    /\ Done(p)
    /\ UNCHANGED <<log, tick, touched>>

(* The author gets the content, then the verdict. A lost verdict is        *)
(* ignored; lost content kicks.                                            *)
EditCommit(p, full) ==
    /\ Handles(p, "Edit")
    /\ AtLastGate(p) /\ Current(p)
    /\ LET m == Head(toServer[p])
           r == Rev(m.cell) + 1
           content == Snapshot(m.cell, r, m.block)
       IN  /\ PoolAdmits(m.block)
           /\ Write(p, m, m.block)
           /\ \/ Publish(p, <<content, EditAck(m, TRUE, r)>>, EditMsg(m.cell, r, m.block), full)
              \/ /\ Len(toClient[p]) + 1 >= OutCapacity
                 /\ Publish(p, <<content>>, EditMsg(m.cell, r, m.block), full)
    /\ Done(p)
    /\ UNCHANGED <<tick, touched>>

(* refuse_tool: the cell as it is now. For a cell never edited it may      *)
(* first release the lock to read the generator.                           *)
RefuseTool(p) ==
    LET m == Head(toServer[p])
    IN  /\ AnswerOrKick(p, ToolResult(m, FALSE, Rev(m.cell), BlockAt(m.cell)))
        /\ Done(p)
        /\ UNCHANGED <<log, tick, touched>>

(* Every way on_tool_use, or the rate budget before it, says no: a stale   *)
(* revision, at the first look or after the hook, a pool with no room for  *)
(* what the law makes, or a policy (a law that finds nothing to do is one).*)
ToolRefused(p) ==
    /\ Handles(p, "ToolUse")
    /\ phase[p] \in {"idle", "hook"}
    /\ \/ ~Current(p)
       \/ MayRefuse
       \/ AtLastGate(p) /\ \E b \in Blocks : ~PoolAdmits(b)
    /\ \/ RefuseTool(p)
       \/ Rev(Head(toServer[p]).cell) = 0 /\ Park(p, "refuse")

ToolAnswered(p) ==
    /\ Handles(p, "ToolUse")
    /\ phase[p] = "refuse"
    /\ RefuseTool(p)

(* The law turned the cell into b. Its author gets the result, the others  *)
(* the edit.                                                               *)
ToolCommit(p, b, full) ==
    /\ Handles(p, "ToolUse")
    /\ phase[p] = "hook" \/ (~HooksInstalled /\ phase[p] = "idle")
    /\ Current(p)
    /\ PoolAdmits(b)
    /\ LET m == Head(toServer[p])
           r == Rev(m.cell) + 1
       IN  /\ Write(p, m, b)
           /\ Publish(p, <<ToolResult(m, TRUE, r, b)>>, EditMsg(m.cell, r, b), full)
    /\ Done(p)
    /\ UNCHANGED <<tick, touched>>

(* Mutant: a departed client is still marked for its kick.                 *)
DepartKicked(p) ==
    /\ LockFree
    /\ p \in connected /\ phase[p] = "idle"
    /\ connected' = connected \ {p}
    /\ toServer' = [toServer EXCEPT ![p] = <<>>]
    /\ toClient' = [toClient EXCEPT ![p] = <<>>]
    /\ UNCHANGED <<log, kicked, phase, tick, touched>>

(* A slow client, or one that closed its connection: its own thread leaves *)
(* the loop, so never in the middle of a request.                          *)
Depart(p) ==
    /\ LockFree
    /\ p \in connected /\ phase[p] = "idle"
    /\ connected' = connected \ {p}
    /\ kicked' = kicked \ {p}
    /\ toServer' = [toServer EXCEPT ![p] = <<>>]
    /\ toClient' = [toClient EXCEPT ![p] = <<>>]
    /\ UNCHANGED <<log, phase, tick, touched>>

-----------------------------------------------------------------------------
(* The reaction tick holds the lock from its first commit to its last      *)
(* send. A turn rewrites the cells of a contact that are in Cells. A cell  *)
(* committed by several turns is sent once, as it is at the end.           *)

ReactionTurn(new) ==
    /\ tick \in {"off", "turns"}
    /\ \A c \in DOMAIN new : new[c] # BlockAt(c) /\ Rev(c) < MaxRev
    /\ PoolAdmitsPair(new)
    /\ log' = [c \in Cells |->
            IF c \in DOMAIN new
            THEN Append(log[c], [by |-> World, req |-> 0, expect |-> 0, block |-> new[c]])
            ELSE log[c]]
    /\ touched' = touched \cup DOMAIN new
    /\ tick' = "turns"
    /\ UNCHANGED <<wire, kicked, phase>>

SendMutation(c, full) ==
    /\ tick \in {"turns", "sends"}
    /\ c \in touched
    /\ toClient' = [q \in Clients |->
            IF q \in connected \ full THEN Append(toClient[q], Snapshot(c, Rev(c), BlockAt(c)))
            ELSE toClient[q]]
    /\ kicked' = kicked \cup full
    /\ touched' = touched \ {c}
    /\ tick' = IF touched = {c} THEN "off" ELSE "sends"
    /\ UNCHANGED <<connected, toServer, log, phase>>

(* One client's thread takes a step. *)
Handler(p) ==
    \/ ReadTerrain(p)
    \/ CallHooks(p)
    \/ EditRefused(p)
    \/ ToolRefused(p)
    \/ ToolAnswered(p)
    \/ \E full \in SUBSET Lagging : EditCommit(p, full)
    \/ \E full \in SUBSET Lagging, b \in Blocks : ToolCommit(p, b, full)

(* The cells one contact rewrites: two neighbours, or the one of them that *)
(* is in Cells. A reaction of the law always changes both.                 *)
Contacts == {{c, d} : c, d \in Cells}

Reactions ==
    \/ \E S \in Contacts : \E new \in [S -> Blocks] : ReactionTurn(new)
    \/ \E c \in Cells, full \in SUBSET Lagging : SendMutation(c, full)
=============================================================================
