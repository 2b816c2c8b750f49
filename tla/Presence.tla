------------------------------ MODULE Presence ------------------------------
(***************************************************************************)
(* Joining, leaving and seeing each other: the server's roster, the join   *)
(* of each connection's thread step by step, the interest sets, and what   *)
(* each client makes of the frames it is sent.                             *)
(*                                                                         *)
(* A player id is one join; ids are never used again. What clients see of  *)
(* the world is one counter, the commits so far: edits have a module of    *)
(* their own (EditLedger).                                                 *)
(***************************************************************************)
EXTENDS Naturals, FiniteSets, SequencesExt

CONSTANTS
    Players,        \* ids, each of one connection
    NameOf,         \* the name each asks for
    Places,         \* where a player may stand; players in one place are in range
    Spawn,          \* where a player is put
    MaxPlayers,     \* MAX_PLAYERS
    OutCapacity,    \* OUT_CAPACITY: frames an outbox holds
    MaxMoves,       \* bound: moves of all players
    MaxRev          \* bound: commits to the world

ASSUME PresenceConstants ==
    /\ Spawn \in Places
    /\ MaxPlayers \in Nat
    /\ OutCapacity \in Nat \ {0}
    /\ MaxMoves \in Nat
    /\ MaxRev \in Nat

VARIABLES
    stage,          \* [Players -> where the connection's thread is]
    joining,        \* State::joining: ids that hold a name and a seat
    roster,         \* the domain of State::players
    ready,          \* those who take frames directly
    kicked,         \* those whose `kicked` flag is set
    announced,      \* [Players -> peers of its join roster whose PeerJoined is still to come]
    boot,           \* [Players -> the overlay and roster taken at admission]
    backlog,        \* [Players -> Seq(Frame)]: what was broadcast since, not ready yet
    place,          \* [Players -> Places]: the last accepted pose
    visible,        \* [Players -> SUBSET Players]: mutual interest
    moved,          \* players whose pose changed since the last pose tick
    rev,            \* commits to the world
    moves,          \* moves so far
    stream,         \* [Players -> Seq(Frame)]: queued for each client, unread
    view            \* [Players -> what each client knows]

joinVars  == <<stage, joining, roster, ready, kicked, announced, boot, backlog>>
worldVars == <<place, visible, moved, rev, moves>>
wireVars  == <<stream, view>>
vars      == <<joinVars, worldVars, wireVars>>

(* `who` are the players a frame is about. A Boot frame stands for Welcome,*)
(* the overlay, SnapshotEnd, the clock and the roster.                     *)
Frame == [kind : {"Boot", "Joined", "Left", "Poses", "Exited", "Edit"}, who : SUBSET Players, rev : Nat]

About(kind, who) == [kind |-> kind, who |-> who, rev |-> 0]
Edited(r)        == [kind |-> "Edit", who |-> {}, rev |-> r]
Boot(who, r)     == [kind |-> "Boot", who |-> who, rev |-> r]

NoBoot == Boot({}, 0)

View   == [peers : SUBSET Players, shown : SUBSET Players, rev : Nat]
NoView == [peers |-> {}, shown |-> {}, rev |-> 0]

Stages == {"new", "held", "placed", "booted", "live", "looping", "failed", "removed", "gone"}

Init ==
    /\ stage = [p \in Players |-> "new"]
    /\ joining = {} /\ roster = {} /\ ready = {} /\ kicked = {}
    /\ announced = [p \in Players |-> {}]
    /\ boot = [p \in Players |-> NoBoot]
    /\ backlog = [p \in Players |-> <<>>]
    /\ place = [p \in Players |-> Spawn]
    /\ visible = [p \in Players |-> {}]
    /\ moved = {} /\ rev = 0 /\ moves = 0
    /\ stream = [p \in Players |-> <<>>]
    /\ view = [p \in Players |-> NoView]

Goes(p, to) == stage' = [stage EXCEPT ![p] = to]

-----------------------------------------------------------------------------
(* Getting frames out.                                                     *)

(* The outbox is what of `stream` has not been written to the wire, so it   *)
(* may be full once that much is unread.                                   *)
MayBeFull(q, n) == Len(stream[q]) + n > OutCapacity

(* enqueue_backlog refuses a kicked joiner, and may refuse one whose        *)
(* backlog already holds a frame: one too old, or too many bytes.          *)
Refusable(q) == IF q \in ready THEN MayBeFull(q, 1) ELSE q \in kicked \/ backlog[q] # <<>>

(* Mutant: a joiner who is not ready yet is passed over, not buffered for. *)
BroadcastToReady(frame, to) ==
    \E slow \in SUBSET {q \in to \cap ready : Refusable(q)} :
        /\ stream' = [q \in Players |->
                IF q \in (to \cap ready) \ slow THEN Append(stream[q], frame) ELSE stream[q]]
        /\ kicked' = kicked \cup slow
        /\ UNCHANGED backlog

(* broadcast_frame to the players in `to`: those in `slow` miss it and are *)
(* kicked.                                                                 *)
Broadcast(frame, to) ==
    \E slow \in SUBSET {q \in to : Refusable(q)} :
        /\ (to \cap kicked) \ ready \subseteq slow
        /\ stream' = [q \in Players |->
                IF q \in (to \cap ready) \ slow THEN Append(stream[q], frame) ELSE stream[q]]
        /\ backlog' = [q \in Players |->
                IF q \in to \ (ready \cup slow) THEN Append(backlog[q], frame) ELSE backlog[q]]
        /\ kicked' = kicked \cup slow

(* queue: the frames of a handler, in order; a full outbox kicks. What else *)
(* of them a kicked client gets is left out.                               *)
Queue(sends) ==
    \E slow \in SUBSET {q \in roster : sends[q] # <<>> /\ MayBeFull(q, Len(sends[q]))} :
        /\ stream' = [q \in Players |-> IF q \in roster \ slow THEN stream[q] \o sends[q] ELSE stream[q]]
        /\ kicked' = kicked \cup slow

-----------------------------------------------------------------------------
(* Joining.                                                                *)

(* Mutant: joins still being prepared hold no name and no seat.            *)
ReserveByRoster(p) ==
    /\ stage[p] = "new"
    /\ IF \/ \E q \in roster : NameOf[q] = NameOf[p]
          \/ Cardinality(roster) >= MaxPlayers
       THEN Goes(p, "gone") /\ UNCHANGED joining
       ELSE Goes(p, "held") /\ joining' = joining \cup {p}
    /\ UNCHANGED <<roster, ready, kicked, announced, boot, backlog, worldVars, wireVars>>

(* reserve: the name and the seat are held while the spawn is searched for *)
(* without the lock.                                                       *)
Reserve(p) ==
    /\ stage[p] = "new"
    /\ IF \/ \E q \in roster \cup joining : NameOf[q] = NameOf[p]
          \/ Cardinality(roster) + Cardinality(joining) >= MaxPlayers
       THEN Goes(p, "gone") /\ UNCHANGED joining
       ELSE Goes(p, "held") /\ joining' = joining \cup {p}
    /\ UNCHANGED <<roster, ready, kicked, announced, boot, backlog, worldVars, wireVars>>

(* The thread dies in the search: Reserved gives back what it held.        *)
Abandon(p) ==
    /\ stage[p] = "held"
    /\ Goes(p, "gone")
    /\ joining' = joining \ {p}
    /\ UNCHANGED <<roster, ready, kicked, announced, boot, backlog, worldVars, wireVars>>

(* place and State::admit: the roster, the overlay and the grid in one hold *)
(* of the lock.                                                            *)
Admit(p) ==
    /\ stage[p] = "held"
    /\ Goes(p, "placed")
    /\ joining' = joining \ {p}
    /\ announced' = [announced EXCEPT ![p] = roster]
    /\ boot' = [boot EXCEPT ![p] = Boot(roster, rev)]
    /\ roster' = roster \cup {p}
    /\ UNCHANGED <<ready, kicked, backlog, worldVars, wireVars>>

(* send_join, all of it. *)
Bootstrap(p) ==
    /\ stage[p] = "placed" /\ p \notin kicked
    /\ Goes(p, "booted")
    /\ stream' = [stream EXCEPT ![p] = Append(@, boot[p])]
    /\ boot' = [boot EXCEPT ![p] = NoBoot]
    /\ UNCHANGED <<joining, roster, ready, kicked, announced, backlog, worldVars, view>>

(* A kick, a closed connection, or a send that missed its deadline.        *)
BootstrapFails(p) ==
    /\ stage[p] = "placed"
    /\ Goes(p, "failed")
    /\ kicked' = kicked \cup {p}
    /\ boot' = [boot EXCEPT ![p] = NoBoot]
    /\ UNCHANGED <<joining, roster, ready, announced, backlog, worldVars, wireVars>>

(* Mutant: the backlog is forgotten when the client goes live.             *)
GoLiveForgetting(p) ==
    /\ stage[p] = "booted"
    /\ Goes(p, "live")
    /\ ready' = ready \cup {p}
    /\ backlog' = [backlog EXCEPT ![p] = <<>>]
    /\ UNCHANGED <<joining, roster, kicked, announced, boot, worldVars, wireVars>>

(* The backlog follows what was sent, as far as the outbox takes it.       *)
GoLive(p) ==
    /\ stage[p] = "booted"
    /\ Goes(p, "live")
    /\ ready' = ready \cup {p}
    /\ backlog' = [backlog EXCEPT ![p] = <<>>]
    /\ \E n \in 0 .. Len(backlog[p]) :
        /\ n < Len(backlog[p]) => Len(stream[p]) + n >= OutCapacity
        /\ stream' = [stream EXCEPT ![p] = @ \o SubSeq(backlog[p], 1, n)]
        /\ kicked' = IF n < Len(backlog[p]) THEN kicked \cup {p} ELSE kicked
    /\ UNCHANGED <<joining, roster, announced, boot, worldVars, view>>

(* Mutant: PeerJoined goes to those too who had p in their join roster.    *)
AnnounceToAll(p) ==
    /\ stage[p] = "live"
    /\ Goes(p, "looping")
    /\ Broadcast(About("Joined", {p}), roster \ {p})
    /\ announced' = [q \in Players |-> announced[q] \ {p}]
    /\ UNCHANGED <<joining, roster, ready, boot, worldVars, view>>

(* PeerJoined, to all who did not have p in their own join roster.         *)
Announce(p) ==
    /\ stage[p] = "live"
    /\ Goes(p, "looping")
    /\ Broadcast(About("Joined", {p}), {q \in roster \ {p} : p \notin announced[q]})
    /\ announced' = [q \in Players |-> announced[q] \ {p}]
    /\ UNCHANGED <<joining, roster, ready, boot, worldVars, view>>

-----------------------------------------------------------------------------
(* Leaving.                                                                *)

(* Mutant: those who saw the player keep it in their interest.             *)
RemoveKeepsInterest(p) ==
    /\ stage[p] \in {"failed", "looping"}
    /\ Goes(p, "removed")
    /\ roster' = roster \ {p} /\ ready' = ready \ {p} /\ kicked' = kicked \ {p}
    /\ announced' = [q \in Players |-> IF q = p THEN {} ELSE announced[q] \ {p}]
    /\ visible' = [visible EXCEPT ![p] = {}]
    /\ backlog' = [backlog EXCEPT ![p] = <<>>]
    /\ stream' = [stream EXCEPT ![p] = <<>>]
    /\ view' = [view EXCEPT ![p] = NoView]
    /\ place' = [place EXCEPT ![p] = Spawn]
    /\ moved' = moved \ {p}
    /\ UNCHANGED <<joining, boot, rev, moves>>

(* remove_player: nothing on the server names p any more, and its client's *)
(* connection closes.                                                      *)
RemovePlayer(p) ==
    /\ stage[p] \in {"failed", "looping"}
    /\ Goes(p, "removed")
    /\ roster' = roster \ {p} /\ ready' = ready \ {p} /\ kicked' = kicked \ {p}
    /\ announced' = [q \in Players |-> IF q = p THEN {} ELSE announced[q] \ {p}]
    /\ visible' = [q \in Players |-> IF q = p THEN {} ELSE visible[q] \ {p}]
    /\ backlog' = [backlog EXCEPT ![p] = <<>>]
    /\ stream' = [stream EXCEPT ![p] = <<>>]
    /\ view' = [view EXCEPT ![p] = NoView]
    /\ place' = [place EXCEPT ![p] = Spawn]
    /\ moved' = moved \ {p}
    /\ UNCHANGED <<joining, boot, rev, moves>>

(* Mutant: PeerLeft reaches only those who are ready.                      *)
FarewellToReady(p) ==
    /\ stage[p] = "removed"
    /\ Goes(p, "gone")
    /\ Broadcast(About("Left", {p}), ready)
    /\ UNCHANGED <<joining, roster, ready, announced, boot, worldVars, view>>

(* PeerLeft, to everyone left. *)
Farewell(p) ==
    /\ stage[p] = "removed"
    /\ Goes(p, "gone")
    /\ Broadcast(About("Left", {p}), roster)
    /\ UNCHANGED <<joining, roster, ready, announced, boot, worldVars, view>>

-----------------------------------------------------------------------------
(* The world, and seeing each other in it.                                 *)

(* Some commit, broadcast to all.                                          *)
Commit ==
    /\ rev < MaxRev
    /\ rev' = rev + 1
    /\ Broadcast(Edited(rev + 1), roster)
    /\ UNCHANGED <<stage, joining, roster, ready, announced, boot, place, visible, moved, moves, view>>

(* visible_from: ready players in range, by the grid.                      *)
InRange(p, at) == {q \in ready \ {p} : place[q] = at}

(* Mutant: of a move out of range only the mover is told.                  *)
MoveTellsMover(p, to) ==
    LET near  == InRange(p, to)
        gone  == visible[p] \ near
        fresh == near \ visible[p]
        mine  == (IF gone = {} THEN <<>> ELSE <<About("Exited", gone)>>)
                 \o (IF fresh = {} THEN <<>> ELSE <<About("Poses", fresh)>>)
    IN  /\ stage[p] = "looping"
        /\ moves < MaxMoves /\ moves' = moves + 1
        /\ place' = [place EXCEPT ![p] = to]
        /\ moved' \in IF to = place[p] THEN {moved, moved \cup {p}} ELSE {moved \cup {p}}
        /\ visible' = [q \in Players |->
                IF q = p THEN near
                ELSE IF q \in gone THEN visible[q] \ {p}
                ELSE IF q \in fresh THEN visible[q] \cup {p}
                ELSE visible[q]]
        /\ Queue([q \in Players |->
                IF q = p THEN mine
                ELSE IF q \in fresh THEN <<About("Poses", {p})>>
                ELSE <<>>])
        /\ UNCHANGED <<stage, joining, roster, ready, announced, boot, backlog, rev, view>>

(* on_move and commit_pose. A move within one place need not change the    *)
(* pose; the visible set is compared all the same.                         *)
Move(p, to) ==
    LET near  == InRange(p, to)
        gone  == visible[p] \ near
        fresh == near \ visible[p]
        mine  == (IF gone = {} THEN <<>> ELSE <<About("Exited", gone)>>)
                 \o (IF fresh = {} THEN <<>> ELSE <<About("Poses", fresh)>>)
    IN  /\ stage[p] = "looping"
        /\ moves < MaxMoves /\ moves' = moves + 1
        /\ place' = [place EXCEPT ![p] = to]
        /\ moved' \in IF to = place[p] THEN {moved, moved \cup {p}} ELSE {moved \cup {p}}
        /\ visible' = [q \in Players |->
                IF q = p THEN near
                ELSE IF q \in gone THEN visible[q] \ {p}
                ELSE IF q \in fresh THEN visible[q] \cup {p}
                ELSE visible[q]]
        /\ Queue([q \in Players |->
                IF q = p THEN mine
                ELSE IF q \in gone THEN <<About("Exited", {p})>>
                ELSE IF q \in fresh THEN <<About("Poses", {p})>>
                ELSE <<>>])
        /\ UNCHANGED <<stage, joining, roster, ready, announced, boot, backlog, rev, view>>

(* broadcast_poses: each ready player is sent the visible peers that moved. *)
PoseTick ==
    /\ moved # {}
    /\ moved' = {}
    /\ Queue([q \in Players |->
            IF q \in ready /\ visible[q] \cap moved # {}
            THEN <<About("Poses", visible[q] \cap moved)>> ELSE <<>>])
    /\ UNCHANGED <<stage, joining, roster, ready, announced, boot, backlog, place, visible, rev, moves, view>>

-----------------------------------------------------------------------------
(* The client.                                                             *)

(* Session::apply. Poses of unknown peers are dropped, a second PeerJoined *)
(* is ignored, and an edit must be newer than what is known.               *)
Apply(v, m) ==
    CASE m.kind = "Boot"   -> [peers |-> m.who, shown |-> {}, rev |-> m.rev]
      [] m.kind = "Joined" -> [v EXCEPT !.peers = @ \cup m.who]
      [] m.kind = "Left"   -> [v EXCEPT !.peers = @ \ m.who, !.shown = @ \ m.who]
      [] m.kind = "Poses"  -> [v EXCEPT !.shown = @ \cup (m.who \cap v.peers)]
      [] m.kind = "Exited" -> [v EXCEPT !.shown = @ \ m.who]
      [] m.kind = "Edit"   -> [v EXCEPT !.rev = IF m.rev > @ THEN m.rev ELSE @]

Hear(p) ==
    /\ p \in roster /\ stream[p] # <<>>
    /\ view' = [view EXCEPT ![p] = Apply(@, Head(stream[p]))]
    /\ stream' = [stream EXCEPT ![p] = Tail(@)]
    /\ UNCHANGED <<joinVars, worldVars>>

-----------------------------------------------------------------------------

(* A connection's thread once it holds a seat, until its message loop.     *)
JoinStep(p) ==
    \/ Abandon(p) \/ Admit(p) \/ Bootstrap(p) \/ BootstrapFails(p) \/ GoLive(p)
    \/ Announce(p)

LeaveStep(p) == RemovePlayer(p) \/ Farewell(p)

Next ==
    \/ \E p \in Players : Reserve(p) \/ JoinStep(p) \/ LeaveStep(p) \/ Hear(p)
    \/ \E p \in Players, to \in Places : Move(p, to)
    \/ Commit \/ PoseTick

Spec == Init /\ [][Next]_vars

(* A thread goes on with a join or a departure it has begun; a kicked      *)
(* client's thread leaves its loop; clients read. Nobody has to join, move *)
(* or leave.                                                               *)
FairSpec ==
    /\ Spec
    /\ \A p \in Players :
        /\ WF_vars(JoinStep(p))
        /\ WF_vars(stage[p] # "looping" /\ LeaveStep(p))
        /\ WF_vars(p \in kicked /\ RemovePlayer(p))
        /\ WF_vars(Hear(p))

-----------------------------------------------------------------------------
(* Properties.                                                             *)

TypeOK ==
    /\ stage \in [Players -> Stages]
    /\ joining = {p \in Players : stage[p] = "held"}
    /\ roster = {p \in Players : stage[p] \in {"placed", "booted", "live", "looping", "failed"}}
    /\ ready = {p \in Players : stage[p] \in {"live", "looping"}}
    /\ kicked \subseteq roster
    /\ announced \in [Players -> SUBSET Players]
    /\ boot \in [Players -> Frame]
    /\ backlog \in [Players -> Seq(Frame)]
    /\ place \in [Players -> Places]
    /\ visible \in [Players -> SUBSET Players]
    /\ moved \subseteq roster
    /\ rev \in Nat /\ moves \in Nat
    /\ stream \in [Players -> Seq(Frame)]
    /\ view \in [Players -> View]

(* No two players hold one name, and there are never more than the server  *)
(* takes, though a joiner's checks and its place on the roster are two     *)
(* holds of the lock (reserve, place).                                     *)
SeatsAndNames ==
    /\ Cardinality(roster \cup joining) <= MaxPlayers
    /\ \A p, q \in roster \cup joining : NameOf[p] = NameOf[q] => p = q

(* Everything that is on its way to a client, in the order it will come.   *)
Incoming(p) == stream[p] \o (IF stage[p] = "placed" THEN <<boot[p]>> ELSE <<>>) \o backlog[p]

(* Players the server owes every frame.                                    *)
Followers == {p \in roster : p \notin kicked}

(* What a client knows once it has heard the frames of s.                  *)
Heard(v, s) == FoldLeft(Apply, v, s)

(* ... of what comes before the i-th that is on its way.                   *)
Before(p, i) == Heard(view[p], SubSeq(Incoming(p), 1, i - 1))

After(p) == Heard(view[p], Incoming(p))

(* A client's edits start from the overlay it was sent and miss or repeat  *)
(* nothing after it, up to the world's latest commit.                      *)
JoinerMissesNothing ==
    \A p \in Followers :
        /\ After(p).rev = rev
        /\ \A i \in 1 .. Len(Incoming(p)) :
            Incoming(p)[i].kind = "Edit" =>
                Before(p, i).rev + 1 = Incoming(p)[i].rev

(* A client ends up with exactly the players on the roster that have been  *)
(* announced, to all or to it alone, and those whose PeerLeft is about to  *)
(* be broadcast.                                                           *)
RosterAgrees ==
    \A p \in Followers :
        /\ After(p).peers \cap roster = {q \in roster \ {p} : stage[q] = "looping" \/ q \in announced[p]}
        /\ \A q \in After(p).peers \ roster : stage[q] = "removed"

(* No client is told twice that a player joined (PlayerHandle::announced). *)
HeardOnce ==
    \A p \in Followers : \A i \in 1 .. Len(Incoming(p)) :
        Incoming(p)[i].kind = "Joined" =>
            Incoming(p)[i].who \cap Before(p, i).peers = {}

(* Interest is mutual, between players on the roster that are in range.    *)
InterestMutual ==
    \A p \in Players : \A q \in visible[p] :
        {p, q} \subseteq ready /\ p \in visible[q] /\ place[p] = place[q]

(* No client keeps drawing a player who went out of range; one that left   *)
(* is drawn until its PeerLeft.                                            *)
NoGhosts ==
    \A p \in Followers : \A q \in After(p).shown : q \in visible[p] \/ stage[q] = "removed"

(* The rosters of server and clients come to agree, and every join to an   *)
(* end.                                                                    *)
RostersConverge ==
    <>[](\A p \in Players :
            /\ stage[p] \in {"new", "looping", "gone"}
            /\ p \in roster => view[p].peers = roster \ {p})
=============================================================================
