--------------------------- MODULE PresenceProofs ---------------------------
(***************************************************************************)
(* Theorems of Presence, for any players, names and places, any limit on   *)
(* players and any size of outbox: types, and with them that a player's    *)
(* stage says where it counts; names and seats; mutual interest; and what  *)
(* every client will know once it has heard what is on its way to it: the  *)
(* commits, the roster and the players in range.                           *)
(***************************************************************************)
EXTENDS Presence, FiniteSetTheorems, SequenceTheorems, WellFoundedInduction, TLAPS

-----------------------------------------------------------------------------
(* Frames and what a client makes of them.                                 *)

LEMMA FramesTyped ==
    ASSUME NEW who \in SUBSET Players, NEW r \in Nat
    PROVE  /\ \A kind \in {"Joined", "Left", "Poses", "Exited"} : About(kind, who) \in Frame
           /\ Edited(r) \in Frame /\ Boot(who, r) \in Frame /\ NoBoot \in Frame
BY DEF About, Edited, Boot, NoBoot, Frame

LEMMA ApplyTyped ==
    ASSUME NEW v \in View, NEW m \in Frame
    PROVE  Apply(v, m) \in View
<1>1. m.kind \in {"Boot", "Joined", "Left", "Poses", "Exited", "Edit"}
    BY DEF Frame
<1> QED BY <1>1 DEF Apply, View, Frame

LEMMA BroadcastTyped ==
    ASSUME TypeOK, NEW frame \in Frame, NEW to \in SUBSET roster, Broadcast(frame, to)
    PROVE  /\ stream' \in [Players -> Seq(Frame)] /\ backlog' \in [Players -> Seq(Frame)]
           /\ kicked' \subseteq roster
<1>1. \A q \in Players : Append(stream[q], frame) \in Seq(Frame) /\ Append(backlog[q], frame) \in Seq(Frame)
    BY DEF TypeOK
<1>2. PICK slow \in SUBSET {q \in to : Refusable(q)} :
        /\ stream' = [q \in Players |->
                IF q \in (to \cap ready) \ slow THEN Append(stream[q], frame) ELSE stream[q]]
        /\ backlog' = [q \in Players |->
                IF q \in to \ (ready \cup slow) THEN Append(backlog[q], frame) ELSE backlog[q]]
        /\ kicked' = kicked \cup slow
    BY DEF Broadcast
<1> QED BY <1>1, <1>2 DEF TypeOK

LEMMA QueueTyped ==
    ASSUME TypeOK, NEW sends \in [Players -> Seq(Frame)], Queue(sends)
    PROVE  stream' \in [Players -> Seq(Frame)] /\ kicked' \subseteq roster
<1>1. \A q \in Players : stream[q] \o sends[q] \in Seq(Frame)
    BY ConcatProperties DEF TypeOK
<1> QED BY <1>1 DEF Queue, TypeOK

-----------------------------------------------------------------------------
(* Types.                                                                  *)

\* What the stages of the connections' threads say of the roster.
StagesAgree ==
    /\ stage \in [Players -> Stages]
    /\ joining = {p \in Players : stage[p] = "held"}
    /\ roster = {p \in Players : stage[p] \in {"placed", "booted", "live", "looping", "failed"}}
    /\ ready = {p \in Players : stage[p] \in {"live", "looping"}}

Rest ==
    /\ kicked \subseteq roster
    /\ announced \in [Players -> SUBSET Players]
    /\ boot \in [Players -> Frame]
    /\ backlog \in [Players -> Seq(Frame)]
    /\ place \in [Players -> Places]
    /\ visible \in [Players -> SUBSET Players]
    /\ moved \subseteq roster
    /\ rev \in Nat /\ moves \in Nat
    /\ stream \in [Players -> Seq(Frame)]
    /\ view \in [Players -> View]

\* A thread's step moves its own player between the stages.
LEMMA StageMoved ==
    ASSUME TypeOK, NEW p \in Players, NEW to \in Stages, stage' = [stage EXCEPT ![p] = to],
           to = "held" => joining' = joining \cup {p},
           to # "held" => joining' = joining \ {p},
           to \in {"placed", "booted", "live", "looping", "failed"} => roster' = roster \cup {p},
           to \notin {"placed", "booted", "live", "looping", "failed"} => roster' = roster \ {p},
           to \in {"live", "looping"} => ready' = ready \cup {p},
           to \notin {"live", "looping"} => ready' = ready \ {p}
    PROVE  StagesAgree'
<1>1. stage' \in [Players -> Stages] /\ stage'[p] = to
      /\ \A q \in Players : q # p => stage'[q] = stage[q]
    BY DEF TypeOK
<1>2. \A q : q \in joining' <=> q \in Players /\ stage'[q] = "held"
    BY <1>1 DEF TypeOK
<1>3. \A q : q \in roster' <=>
        q \in Players /\ stage'[q] \in {"placed", "booted", "live", "looping", "failed"}
    BY <1>1 DEF TypeOK
<1>4. \A q : q \in ready' <=> q \in Players /\ stage'[q] \in {"live", "looping"}
    BY <1>1 DEF TypeOK
<1> QED BY <1>1, <1>2, <1>3, <1>4 DEF StagesAgree

LEMMA InitTyped == Init => TypeOK
<1> SUFFICES ASSUME Init PROVE TypeOK
    OBVIOUS
<1>1. StagesAgree
    BY DEF Init, StagesAgree, Stages
<1>2. NoBoot \in Frame /\ NoView \in View /\ <<>> \in Seq(Frame) /\ Spawn \in Places
    BY FramesTyped, EmptySeq, PresenceConstants DEF NoView, View, NoBoot, Boot, Frame
<1>3. Rest
    BY <1>2 DEF Init, Rest
<1> QED BY <1>1, <1>3 DEF TypeOK, StagesAgree, Rest

LEMMA ReserveTyped ==
    ASSUME TypeOK, NEW p \in Players, Reserve(p) \/ Abandon(p)
    PROVE  TypeOK'
<1>1. /\ \/ stage[p] = "new" /\ Goes(p, "gone") /\ joining' = joining
         \/ stage[p] = "new" /\ Goes(p, "held") /\ joining' = joining \cup {p}
         \/ stage[p] = "held" /\ Goes(p, "gone") /\ joining' = joining \ {p}
      /\ UNCHANGED <<roster, ready, kicked, announced, boot, backlog, worldVars, wireVars>>
    BY DEF Reserve, Abandon
<1>2. "gone" \in Stages /\ "held" \in Stages
    BY DEF Stages
<1>3. StagesAgree'
    <2>1. p \notin roster /\ p \notin ready /\ (stage[p] = "new" => p \notin joining)
        BY <1>1 DEF TypeOK
    <2>2. CASE Goes(p, "gone")
        <3>1. joining' = joining \ {p} /\ roster' = roster \ {p} /\ ready' = ready \ {p}
            BY <1>1, <2>1, <2>2 DEF Goes, TypeOK
        <3> QED BY <1>2, <2>2, <3>1, StageMoved DEF Goes
    <2>3. CASE stage[p] = "new" /\ Goes(p, "held") /\ joining' = joining \cup {p}
        <3>1. roster' = roster \ {p} /\ ready' = ready \ {p}
            BY <1>1, <2>1
        <3> QED BY <1>2, <2>3, <3>1, StageMoved DEF Goes
    <2> QED BY <1>1, <2>2, <2>3
<1>4. Rest'
    BY <1>1 DEF Rest, TypeOK, worldVars, wireVars
<1> QED BY <1>3, <1>4 DEF TypeOK, StagesAgree, Rest

LEMMA AdmitTyped ==
    ASSUME TypeOK, NEW p \in Players, Admit(p)
    PROVE  TypeOK'
<1>1. /\ stage[p] = "held" /\ Goes(p, "placed") /\ joining' = joining \ {p}
      /\ announced' = [announced EXCEPT ![p] = roster]
      /\ boot' = [boot EXCEPT ![p] = Boot(roster, rev)]
      /\ roster' = roster \cup {p}
      /\ UNCHANGED <<ready, kicked, backlog, worldVars, wireVars>>
    BY DEF Admit
<1>2. StagesAgree'
    <2>1. "placed" \in Stages
        BY DEF Stages
    <2>2. ready' = ready \ {p}
        BY <1>1 DEF TypeOK
    <2> QED BY <1>1, <2>1, <2>2, StageMoved DEF Goes
<1>3. roster \in SUBSET Players /\ Boot(roster, rev) \in Frame
    BY FramesTyped DEF TypeOK
<1>4. Rest'
    BY <1>1, <1>3 DEF Rest, TypeOK, worldVars, wireVars
<1> QED BY <1>2, <1>4 DEF TypeOK, StagesAgree, Rest

LEMMA BootstrapTyped ==
    ASSUME TypeOK, NEW p \in Players, Bootstrap(p) \/ BootstrapFails(p)
    PROVE  TypeOK'
<1>1. /\ stage[p] = "placed" /\ (Goes(p, "booted") \/ Goes(p, "failed"))
      /\ boot' = [boot EXCEPT ![p] = NoBoot]
      /\ kicked' \subseteq kicked \cup {p}
      /\ UNCHANGED <<joining, roster, ready, announced, backlog, worldVars, view>>
    BY DEF Bootstrap, BootstrapFails, wireVars
<1>2. stream' \in [Players -> Seq(Frame)]
    <2>1. Append(stream[p], boot[p]) \in Seq(Frame)
        BY DEF TypeOK
    <2> QED BY ZenonT(60), <2>1 DEF Bootstrap, BootstrapFails, TypeOK, wireVars
<1>3. StagesAgree'
    <2>1. "booted" \in Stages /\ "failed" \in Stages
        BY DEF Stages
    <2>2. joining' = joining \ {p} /\ roster' = roster \cup {p} /\ ready' = ready \ {p}
        BY <1>1 DEF TypeOK
    <2>3. CASE Goes(p, "booted")
        BY <2>1, <2>2, <2>3, StageMoved DEF Goes
    <2>4. CASE Goes(p, "failed")
        BY <2>1, <2>2, <2>4, StageMoved DEF Goes
    <2> QED BY <1>1, <2>3, <2>4
<1>4. p \in roster /\ NoBoot \in Frame
    BY <1>1 DEF TypeOK, NoBoot, Boot, Frame
<1>5. Rest'
    BY <1>1, <1>2, <1>4 DEF Rest, TypeOK, worldVars
<1> QED BY <1>3, <1>5 DEF TypeOK, StagesAgree, Rest

LEMMA GoLiveTyped ==
    ASSUME TypeOK, NEW p \in Players, GoLive(p)
    PROVE  TypeOK'
<1>1. /\ stage[p] = "booted" /\ Goes(p, "live") /\ ready' = ready \cup {p}
      /\ backlog' = [backlog EXCEPT ![p] = <<>>]
      /\ UNCHANGED <<joining, roster, announced, boot, worldVars, view>>
    BY DEF GoLive
<1>2. PICK n \in 0..Len(backlog[p]) :
        /\ stream' = [stream EXCEPT ![p] = @ \o SubSeq(backlog[p], 1, n)]
        /\ kicked' = IF n < Len(backlog[p]) THEN kicked \cup {p} ELSE kicked
    BY DEF GoLive
<1>3. SubSeq(backlog[p], 1, n) \in Seq(Frame)
    <2>1. backlog[p] \in Seq(Frame) /\ Len(backlog[p]) \in Nat
        BY LenProperties DEF TypeOK
    <2>2. 1 \in Int /\ n \in Int /\ \A i \in 1..n : backlog[p][i] \in Frame
        BY <2>1, ElementOfSeq
    <2> QED BY <2>2, SubSeqProperties
<1>4. stream[p] \o SubSeq(backlog[p], 1, n) \in Seq(Frame)
    BY <1>3, ConcatProperties DEF TypeOK
<1>5. <<>> \in Seq(Frame) /\ p \in roster
    BY <1>1, EmptySeq DEF TypeOK
<1>6. StagesAgree'
    <2>1. "live" \in Stages
        BY DEF Stages
    <2>2. joining' = joining \ {p} /\ roster' = roster \cup {p}
        BY <1>1 DEF TypeOK
    <2> QED BY <1>1, <2>1, <2>2, StageMoved DEF Goes
<1>7. Rest'
    BY <1>1, <1>2, <1>4, <1>5 DEF Rest, TypeOK, worldVars
<1> QED BY <1>6, <1>7 DEF TypeOK, StagesAgree, Rest

LEMMA AnnounceTyped ==
    ASSUME TypeOK, NEW p \in Players, Announce(p)
    PROVE  TypeOK'
<1> DEFINE to == {q \in roster \ {p} : p \notin announced[q]}
<1>1. /\ stage[p] = "live" /\ Goes(p, "looping")
      /\ Broadcast(About("Joined", {p}), to)
      /\ announced' = [q \in Players |-> announced[q] \ {p}]
      /\ UNCHANGED <<joining, roster, ready, boot, worldVars, view>>
    BY DEF Announce
<1>2. About("Joined", {p}) \in Frame /\ to \in SUBSET roster
    BY FramesTyped
<1> HIDE DEF to
<1>3. /\ stream' \in [Players -> Seq(Frame)] /\ backlog' \in [Players -> Seq(Frame)]
      /\ kicked' \subseteq roster
    BY <1>1, <1>2, BroadcastTyped
<1>4. StagesAgree'
    <2>1. "looping" \in Stages
        BY DEF Stages
    <2>2. joining' = joining \ {p} /\ roster' = roster \cup {p} /\ ready' = ready \cup {p}
        BY <1>1 DEF TypeOK
    <2> QED BY <1>1, <2>1, <2>2, StageMoved DEF Goes
<1>5. Rest'
    BY <1>1, <1>3 DEF Rest, TypeOK, worldVars
<1> QED BY <1>4, <1>5 DEF TypeOK, StagesAgree, Rest

LEMMA RemoveTyped ==
    ASSUME TypeOK, NEW p \in Players, RemovePlayer(p)
    PROVE  TypeOK'
<1>1. /\ stage[p] \in {"failed", "looping"} /\ Goes(p, "removed")
      /\ roster' = roster \ {p} /\ ready' = ready \ {p} /\ kicked' = kicked \ {p}
      /\ announced' = [q \in Players |-> IF q = p THEN {} ELSE announced[q] \ {p}]
      /\ visible' = [q \in Players |-> IF q = p THEN {} ELSE visible[q] \ {p}]
      /\ backlog' = [backlog EXCEPT ![p] = <<>>]
      /\ stream' = [stream EXCEPT ![p] = <<>>]
      /\ view' = [view EXCEPT ![p] = NoView]
      /\ place' = [place EXCEPT ![p] = Spawn]
      /\ moved' = moved \ {p}
      /\ UNCHANGED <<joining, boot, rev, moves>>
    BY DEF RemovePlayer
<1>2. StagesAgree'
    <2>1. "removed" \in Stages
        BY DEF Stages
    <2>2. joining' = joining \ {p}
        BY <1>1 DEF TypeOK
    <2> QED BY <1>1, <2>1, <2>2, StageMoved DEF Goes
<1>3. <<>> \in Seq(Frame) /\ NoView \in View /\ Spawn \in Places
    BY EmptySeq, PresenceConstants DEF NoView, View
<1>4. Rest'
    BY <1>1, <1>3 DEF Rest, TypeOK
<1> QED BY <1>2, <1>4 DEF TypeOK, StagesAgree, Rest

LEMMA FarewellTyped ==
    ASSUME TypeOK, NEW p \in Players, Farewell(p)
    PROVE  TypeOK'
<1>1. /\ stage[p] = "removed" /\ Goes(p, "gone") /\ Broadcast(About("Left", {p}), roster)
      /\ UNCHANGED <<joining, roster, ready, announced, boot, worldVars, view>>
    BY DEF Farewell
<1>2. About("Left", {p}) \in Frame
    BY FramesTyped
<1>3. /\ stream' \in [Players -> Seq(Frame)] /\ backlog' \in [Players -> Seq(Frame)]
      /\ kicked' \subseteq roster
    BY <1>1, <1>2, BroadcastTyped
<1>4. StagesAgree'
    <2>1. "gone" \in Stages
        BY DEF Stages
    <2>2. joining' = joining \ {p} /\ roster' = roster \ {p} /\ ready' = ready \ {p}
        BY <1>1 DEF TypeOK
    <2> QED BY <1>1, <2>1, <2>2, StageMoved DEF Goes
<1>5. Rest'
    BY <1>1, <1>3 DEF Rest, TypeOK, worldVars
<1> QED BY <1>4, <1>5 DEF TypeOK, StagesAgree, Rest

LEMMA CommitTyped ==
    ASSUME TypeOK, Commit
    PROVE  TypeOK'
<1>1. /\ rev' = rev + 1 /\ Broadcast(Edited(rev + 1), roster)
      /\ UNCHANGED <<stage, joining, roster, ready, announced, boot, place, visible, moved,
                     moves, view>>
    BY DEF Commit
<1>2. Edited(rev + 1) \in Frame
    BY DEF TypeOK, Edited, Frame
<1>3. /\ stream' \in [Players -> Seq(Frame)] /\ backlog' \in [Players -> Seq(Frame)]
      /\ kicked' \subseteq roster
    BY <1>1, <1>2, BroadcastTyped
<1> QED BY <1>1, <1>3 DEF TypeOK

LEMMA HearTyped ==
    ASSUME TypeOK, NEW p \in Players, Hear(p)
    PROVE  TypeOK'
<1>1. /\ stream[p] # <<>>
      /\ view' = [view EXCEPT ![p] = Apply(@, Head(stream[p]))]
      /\ stream' = [stream EXCEPT ![p] = Tail(@)]
      /\ UNCHANGED <<joinVars, worldVars>>
    BY DEF Hear
<1>2. Head(stream[p]) \in Frame /\ Tail(stream[p]) \in Seq(Frame)
    BY <1>1, HeadTailProperties DEF TypeOK
<1>3. Apply(view[p], Head(stream[p])) \in View
    BY <1>2, ApplyTyped DEF TypeOK
<1> QED BY <1>1, <1>2, <1>3 DEF TypeOK, joinVars, worldVars

LEMMA MoveTyped ==
    ASSUME TypeOK, NEW p \in Players, NEW to \in Places, Move(p, to)
    PROVE  TypeOK'
<1> DEFINE near == InRange(p, to)
           left == visible[p] \ near
           fresh == near \ visible[p]
           mine == (IF left = {} THEN <<>> ELSE <<About("Exited", left)>>)
                   \o (IF fresh = {} THEN <<>> ELSE <<About("Poses", fresh)>>)
           sends == [q \in Players |->
                       IF q = p THEN mine
                       ELSE IF q \in left THEN <<About("Exited", {p})>>
                       ELSE IF q \in fresh THEN <<About("Poses", {p})>>
                       ELSE <<>>]
<1>1. /\ stage[p] = "looping" /\ moves' = moves + 1
      /\ place' = [place EXCEPT ![p] = to]
      /\ moved' \subseteq moved \cup {p}
      /\ visible' = [q \in Players |->
                IF q = p THEN near
                ELSE IF q \in left THEN visible[q] \ {p}
                ELSE IF q \in fresh THEN visible[q] \cup {p}
                ELSE visible[q]]
      /\ Queue(sends)
      /\ UNCHANGED <<stage, joining, roster, ready, announced, boot, backlog, rev, view>>
    BY DEF Move
<1>2. near \in SUBSET Players /\ left \in SUBSET Players /\ fresh \in SUBSET Players
    BY DEF InRange, TypeOK
<1>3. sends \in [Players -> Seq(Frame)]
    <2>1. /\ About("Exited", left) \in Frame /\ About("Poses", fresh) \in Frame
          /\ About("Exited", {p}) \in Frame /\ About("Poses", {p}) \in Frame
        <3> HIDE DEF left, fresh
        <3> QED BY <1>2, FramesTyped
    <2>2. \A f \in Frame : <<f>> \in Seq(Frame)
        OBVIOUS
    <2>3. <<>> \in Seq(Frame)
        BY EmptySeq
    <2>4. mine \in Seq(Frame)
        <3>1. /\ (IF left = {} THEN <<>> ELSE <<About("Exited", left)>>) \in Seq(Frame)
              /\ (IF fresh = {} THEN <<>> ELSE <<About("Poses", fresh)>>) \in Seq(Frame)
            BY <2>1, <2>2, <2>3
        <3> QED BY <3>1, ConcatProperties
    <2> HIDE DEF mine, left, fresh
    <2> QED BY <2>1, <2>2, <2>3, <2>4
<1> HIDE DEF near, left, fresh, sends
<1>4. stream' \in [Players -> Seq(Frame)] /\ kicked' \subseteq roster
    BY <1>1, <1>3, QueueTyped
<1>5. visible' \in [Players -> SUBSET Players]
    BY <1>1, <1>2 DEF TypeOK
<1>6. moved' \subseteq roster
    BY <1>1 DEF TypeOK
<1>7. place' \in [Players -> Places] /\ moves' \in Nat
    BY <1>1 DEF TypeOK
<1>8. UNCHANGED <<stage, joining, roster, ready, announced, boot, backlog, rev, view>>
    BY <1>1
<1> QED BY <1>4, <1>5, <1>6, <1>7, <1>8 DEF TypeOK

LEMMA PoseTickTyped ==
    ASSUME TypeOK, PoseTick
    PROVE  TypeOK'
<1> DEFINE sends == [q \in Players |->
                       IF q \in ready /\ visible[q] \cap moved # {}
                       THEN <<About("Poses", visible[q] \cap moved)>> ELSE <<>>]
<1>1. /\ moved' = {} /\ Queue(sends)
      /\ UNCHANGED <<stage, joining, roster, ready, announced, boot, backlog, place, visible,
                     rev, moves, view>>
    BY DEF PoseTick
<1>2. sends \in [Players -> Seq(Frame)]
    <2>1. \A q \in Players : About("Poses", visible[q] \cap moved) \in Frame
        BY FramesTyped DEF TypeOK
    <2>2. \A f \in Frame : <<f>> \in Seq(Frame)
        OBVIOUS
    <2>3. <<>> \in Seq(Frame)
        BY EmptySeq
    <2> QED BY <2>1, <2>2, <2>3
<1> HIDE DEF sends
<1>3. stream' \in [Players -> Seq(Frame)] /\ kicked' \subseteq roster
    BY <1>1, <1>2, QueueTyped
<1> QED BY <1>1, <1>3 DEF TypeOK

LEMMA StepTyped ==
    ASSUME TypeOK, [Next]_vars
    PROVE  TypeOK'
<1>1. CASE \E p \in Players : Reserve(p) \/ JoinStep(p) \/ LeaveStep(p) \/ Hear(p)
    <2> PICK p \in Players : Reserve(p) \/ JoinStep(p) \/ LeaveStep(p) \/ Hear(p)
        BY <1>1
    <2>1. CASE Reserve(p) \/ Abandon(p)
        BY <2>1, ReserveTyped
    <2>2. CASE Admit(p)
        BY <2>2, AdmitTyped
    <2>3. CASE Bootstrap(p) \/ BootstrapFails(p)
        BY <2>3, BootstrapTyped
    <2>4. CASE GoLive(p)
        BY <2>4, GoLiveTyped
    <2>5. CASE Announce(p)
        BY <2>5, AnnounceTyped
    <2>6. CASE RemovePlayer(p)
        BY <2>6, RemoveTyped
    <2>7. CASE Farewell(p)
        BY <2>7, FarewellTyped
    <2>8. CASE Hear(p)
        BY <2>8, HearTyped
    <2> QED BY <2>1, <2>2, <2>3, <2>4, <2>5, <2>6, <2>7, <2>8 DEF JoinStep, LeaveStep
<1>2. CASE \E p \in Players, to \in Places : Move(p, to)
    BY <1>2, MoveTyped
<1>3. CASE Commit
    BY <1>3, CommitTyped
<1>4. CASE PoseTick
    BY <1>4, PoseTickTyped
<1>5. CASE UNCHANGED vars
    BY <1>5 DEF TypeOK, vars, joinVars, worldVars, wireVars
<1> QED BY <1>1, <1>2, <1>3, <1>4, <1>5 DEF Next

(* Every variable keeps its type, and who holds a seat, is on the roster    *)
(* or takes frames is what the connections' threads have come to (reserve,  *)
(* admit, finish_join, remove_player).                                      *)
THEOREM TypeCorrect == Spec => []TypeOK
<1>1. TypeOK /\ [Next]_vars => TypeOK'
    BY StepTyped
<1> QED BY InitTyped, <1>1, PTL DEF Spec

-----------------------------------------------------------------------------
(* Names and seats.                                                        *)

Seated == roster \cup joining

SeatsInv == IsFiniteSet(Seated) /\ SeatsAndNames

\* A step that seats nobody keeps them.
LEMMA NobodySeated ==
    ASSUME SeatsInv, Seated' \subseteq Seated
    PROVE  SeatsInv'
<1>1. /\ IsFiniteSet(Seated') /\ Cardinality(Seated') \in Nat /\ Cardinality(Seated) \in Nat
      /\ Cardinality(Seated') <= Cardinality(Seated)
    BY FS_Subset, FS_CardinalityType DEF SeatsInv
<1>2. Cardinality(Seated') <= MaxPlayers
    BY <1>1, PresenceConstants DEF SeatsInv, SeatsAndNames, Seated
<1>3. \A p, q \in Seated' : NameOf[p] = NameOf[q] => p = q
    BY DEF SeatsInv, SeatsAndNames, Seated
<1> QED BY <1>1, <1>2, <1>3 DEF SeatsInv, SeatsAndNames, Seated

LEMMA OneSeated ==
    ASSUME TypeOK, SeatsInv, NEW p \in Players, Reserve(p)
    PROVE  SeatsInv'
<1>1. CASE joining' = joining
    <2>1. Seated' \subseteq Seated
        BY <1>1 DEF Reserve, Seated
    <2> QED BY <2>1, NobodySeated
<1>2. CASE joining' # joining
    <2>1. /\ stage[p] = "new" /\ joining' = joining \cup {p} /\ roster' = roster
          /\ \A q \in Seated : NameOf[q] # NameOf[p]
          /\ ~(Cardinality(roster) + Cardinality(joining) >= MaxPlayers)
        BY <1>2 DEF Reserve, Seated
    <2>2. p \notin Seated
        BY <2>1
    <2>3. Seated' = Seated \cup {p}
        BY <2>1 DEF Seated
    <2>4. IsFiniteSet(roster) /\ IsFiniteSet(joining)
        BY FS_Subset DEF SeatsInv, Seated
    <2>5. /\ Cardinality(roster) \in Nat /\ Cardinality(joining) \in Nat
          /\ Cardinality(roster \cap joining) \in Nat
          /\ Cardinality(Seated) = Cardinality(roster) + Cardinality(joining)
                                   - Cardinality(roster \cap joining)
        BY <2>4, FS_Union, FS_CardinalityType, FS_Intersection DEF Seated
    <2>6. IsFiniteSet(Seated') /\ Cardinality(Seated') = Cardinality(Seated) + 1
        BY <2>2, <2>3, FS_AddElement DEF SeatsInv
    <2>7. Cardinality(Seated') <= MaxPlayers
        BY <2>1, <2>5, <2>6, PresenceConstants
    <2>8. \A q, r \in Seated' : NameOf[q] = NameOf[r] => q = r
        BY <2>1, <2>3 DEF SeatsInv, SeatsAndNames, Seated
    <2> QED BY <2>6, <2>7, <2>8 DEF SeatsInv, SeatsAndNames, Seated
<1> QED BY <1>1, <1>2

LEMMA SeatsStep ==
    ASSUME TypeOK, SeatsInv, [Next]_vars
    PROVE  SeatsInv'
<1>1. CASE \E p \in Players : Reserve(p)
    BY <1>1, OneSeated
<1>2. CASE \E p \in Players : Abandon(p) \/ RemovePlayer(p)
    <2>1. Seated' \subseteq Seated
        BY <1>2 DEF Abandon, RemovePlayer, Seated
    <2> QED BY <2>1, NobodySeated
<1>3. CASE \E p \in Players : Admit(p)
    <2>1. Seated' \subseteq Seated
        BY <1>3 DEF Admit, Seated, TypeOK
    <2> QED BY <2>1, NobodySeated
<1>4. CASE UNCHANGED <<roster, joining>>
    <2>1. Seated' \subseteq Seated
        BY <1>4 DEF Seated
    <2> QED BY <2>1, NobodySeated
<1>5. \/ \E p \in Players : Reserve(p) \/ Abandon(p) \/ RemovePlayer(p) \/ Admit(p)
      \/ UNCHANGED <<roster, joining>>
    <2>1. CASE \E p \in Players : Bootstrap(p) \/ BootstrapFails(p) \/ GoLive(p) \/ Announce(p)
                                  \/ Farewell(p) \/ Hear(p)
        BY <2>1 DEF Bootstrap, BootstrapFails, GoLive, Announce, Farewell, Hear, joinVars
    <2>2. CASE \E p \in Players, to \in Places : Move(p, to)
        BY <2>2 DEF Move
    <2>3. CASE Commit \/ PoseTick \/ UNCHANGED vars
        BY <2>3 DEF Commit, PoseTick, vars, joinVars
    <2> QED BY <2>1, <2>2, <2>3 DEF Next, JoinStep, LeaveStep
<1> QED BY <1>1, <1>2, <1>3, <1>4, <1>5

(* No two players hold one name and no more are seated than the server      *)
(* takes, though a joiner is checked in one hold of the lock and put on the *)
(* roster in another (reserve, place): what `joining` is for.               *)
THEOREM SeatsHold == Spec => []SeatsAndNames
<1>1. Init => SeatsInv
    <2> SUFFICES ASSUME Init PROVE SeatsInv
        OBVIOUS
    <2>1. Seated = {} /\ IsFiniteSet(Seated) /\ Cardinality(Seated) = 0
        BY FS_EmptySet DEF Init, Seated
    <2> QED BY <2>1, PresenceConstants DEF SeatsInv, SeatsAndNames, Seated
<1>2. TypeOK /\ SeatsInv /\ [Next]_vars => SeatsInv'
    BY SeatsStep
<1>3. SeatsInv => SeatsAndNames
    BY DEF SeatsInv
<1> QED BY <1>1, <1>2, <1>3, TypeCorrect, PTL DEF Spec

-----------------------------------------------------------------------------
(* Interest.                                                               *)

LEMMA MoveMutual ==
    ASSUME TypeOK, InterestMutual, NEW p \in Players, NEW to \in Places, Move(p, to)
    PROVE  InterestMutual'
<1> DEFINE near == InRange(p, to)
           left == visible[p] \ near
           fresh == near \ visible[p]
<1>1. /\ near = {q \in ready \ {p} : place[q] = to}
      /\ left = visible[p] \ near /\ fresh = near \ visible[p]
      /\ stage[p] = "looping"
      /\ place' = [place EXCEPT ![p] = to]
      /\ visible' = [q \in Players |->
                IF q = p THEN near
                ELSE IF q \in left THEN visible[q] \ {p}
                ELSE IF q \in fresh THEN visible[q] \cup {p}
                ELSE visible[q]]
      /\ ready' = ready
    BY DEF Move, InRange
<1> HIDE DEF near, left, fresh
<1>2. p \in ready /\ near \subseteq Players /\ \A q \in Players : visible[q] \subseteq Players
    BY <1>1 DEF TypeOK
<1>3. /\ place'[p] = to /\ \A q \in Players : q # p => place'[q] = place[q]
      /\ visible'[p] = near
    BY <1>1 DEF TypeOK
<1>4. \A q, r \in Players : q # p /\ r # p => (r \in visible'[q] <=> r \in visible[q])
    BY <1>1
<1>5. \A q \in Players : q # p => (p \in visible'[q] <=> q \in near)
    <2> SUFFICES ASSUME NEW q \in Players, q # p PROVE p \in visible'[q] <=> q \in near
        OBVIOUS
    <2>1. p \in visible[q] <=> q \in visible[p]
        BY DEF InterestMutual
    <2> QED BY <1>1, <2>1
<1> SUFFICES ASSUME NEW q \in Players, NEW r \in visible'[q]
             PROVE  {q, r} \subseteq ready' /\ q \in visible'[r] /\ place'[q] = place'[r]
    BY DEF InterestMutual
<1>6. CASE q = p
    <2>1. r \in near /\ r \in Players /\ r # p
        BY <1>1, <1>2, <1>3, <1>6
    <2>2. r \in ready /\ place[r] = to
        BY <1>1, <2>1
    <2>3. q \in visible'[r]
        BY <1>5, <1>6, <2>1
    <2>4. place'[q] = place'[r]
        BY <1>3, <1>6, <2>1, <2>2
    <2> QED BY <1>1, <1>2, <1>6, <2>2, <2>3, <2>4
<1>7. CASE q # p /\ r = p
    BY <1>1, <1>2, <1>3, <1>5, <1>7
<1>8. CASE q # p /\ r # p
    <2>1. r \in visible[q] /\ r \in Players
        BY <1>1, <1>2, <1>8
    <2>2. {q, r} \subseteq ready /\ q \in visible[r] /\ place[q] = place[r]
        BY <2>1 DEF InterestMutual
    <2> QED BY <1>1, <1>3, <1>4, <1>8, <2>1, <2>2
<1> QED BY <1>6, <1>7, <1>8

LEMMA InterestStep ==
    ASSUME TypeOK, InterestMutual, [Next]_vars
    PROVE  InterestMutual'
<1>1. CASE \E p \in Players, to \in Places : Move(p, to)
    BY <1>1, MoveMutual
<1>2. CASE \E p \in Players : RemovePlayer(p)
    <2> PICK p \in Players : RemovePlayer(p)
        BY <1>2
    <2>1. /\ ready' = ready \ {p} /\ place' = [place EXCEPT ![p] = Spawn]
          /\ visible' = [q \in Players |-> IF q = p THEN {} ELSE visible[q] \ {p}]
        BY DEF RemovePlayer
    <2> SUFFICES ASSUME NEW q \in Players, NEW r \in visible'[q]
                 PROVE  {q, r} \subseteq ready' /\ q \in visible'[r] /\ place'[q] = place'[r]
        BY DEF InterestMutual
    <2>2. q # p /\ r # p /\ r \in visible[q] /\ r \in Players
        BY <2>1 DEF TypeOK
    <2>3. {q, r} \subseteq ready /\ q \in visible[r] /\ place[q] = place[r]
        BY <2>2 DEF InterestMutual
    <2> QED BY <2>1, <2>2, <2>3 DEF TypeOK
<1>3. CASE ready \subseteq ready' /\ UNCHANGED <<visible, place>>
    BY <1>3 DEF InterestMutual
<1>4. \/ \E p \in Players, to \in Places : Move(p, to)
      \/ \E p \in Players : RemovePlayer(p)
      \/ ready \subseteq ready' /\ UNCHANGED <<visible, place>>
    <2>1. CASE \E p \in Players : Reserve(p) \/ Abandon(p) \/ Admit(p) \/ Bootstrap(p)
                                  \/ BootstrapFails(p) \/ GoLive(p)
        BY <2>1 DEF Reserve, Abandon, Admit, Bootstrap, BootstrapFails, GoLive, worldVars
    <2>2. CASE \E p \in Players : Announce(p) \/ Farewell(p) \/ Hear(p)
        BY <2>2 DEF Announce, Farewell, Hear, worldVars, joinVars
    <2>3. CASE Commit \/ PoseTick \/ UNCHANGED vars
        BY <2>3 DEF Commit, PoseTick, vars, joinVars, worldVars
    <2> QED BY <2>1, <2>2, <2>3 DEF Next, JoinStep, LeaveStep
<1> QED BY <1>1, <1>2, <1>3, <1>4

(* Interest is mutual, between ready players in range of each other,        *)
(* through every move, join and departure (commit_pose, remove_player).     *)
THEOREM InterestHolds == Spec => []InterestMutual
<1>1. Init => InterestMutual
    BY DEF Init, InterestMutual
<1>2. TypeOK /\ InterestMutual /\ [Next]_vars => InterestMutual'
    BY InterestStep
<1> QED BY <1>1, <1>2, TypeCorrect, PTL DEF Spec

-----------------------------------------------------------------------------
(* Folds. The recursive function inside a fold is what its equation says,  *)
(* which takes induction; it is done by the least number for which a fact  *)
(* would fail.                                                             *)

LEMMA LeastNumber ==
    ASSUME NEW T \in SUBSET Nat, T # {}
    PROVE  \E x \in T : \A y \in T : x <= y
<1> DEFINE R == OpToRel(<, Nat)
<1>1. IsWellFoundedOn(R, Nat)
    BY NatLessThanWellFounded
<1>2. PICK x \in T : \A y \in T : ~(<<y, x>> \in R)
    <2> HIDE DEF R
    <2> QED BY <1>1, WFMin
<1>3. \A y \in T : ~(y < x)
    BY <1>2 DEF OpToRel
<1> QED BY <1>3

\* A set of numbers that holds 0, and with each the next one, holds all.
LEMMA AllNumbers ==
    ASSUME NEW T, 0 \in T, \A n \in Nat : n \in T => n + 1 \in T
    PROVE  Nat \subseteq T
<1> SUFFICES ASSUME Nat \ T # {} PROVE FALSE
    OBVIOUS
<1>1. PICK n \in Nat \ T : \A m \in Nat \ T : n <= m
    BY LeastNumber
<1>2. n # 0 /\ n - 1 \in Nat
    BY <1>1
<1>3. n - 1 \in T
    BY <1>1, <1>2
<1> QED BY <1>1, <1>2, <1>3

\* The equation that the fold from v, over the frames of s at some of the first
\* n places, is defined by.
Fold(g, v, s, n) ==
    [t \in SUBSET (1 .. n) |-> IF t = {} THEN v ELSE Apply(g[t \ {Max(t)}], s[Max(t)])]

LEMMA HighestOf ==
    ASSUME NEW k \in Nat, NEW t \in SUBSET (1 .. k + 1), k + 1 \in t
    PROVE  Max(t) = k + 1
<1>1. \A y \in t : y \in Int /\ k + 1 >= y
    OBVIOUS
<1>2. \E x \in t : \A y \in t : x >= y
    BY <1>1
<1>3. Max(t) \in t /\ \A y \in t : Max(t) >= y
    BY <1>2, Zenon DEF Max
<1>4. Max(t) \in Int /\ k + 1 >= Max(t)
    BY <1>1, <1>3
<1>5. Max(t) >= k + 1
    BY <1>3
<1> QED BY <1>4, <1>5

LEMMA FoldExists ==
    ASSUME NEW v, NEW s, NEW n \in Nat
    PROVE  \E g : g = Fold(g, v, s, n)
<1> DEFINE Upto(k) == SUBSET (1 .. k)
           Done == {k \in Nat : \E g : g = Fold(g, v, s, k)}
<1>1. 0 \in Done
    <2>1. Upto(0) = {{}}
        OBVIOUS
    <2> DEFINE g == [t \in Upto(0) |-> v]
    <2>2. g = Fold(g, v, s, 0)
        BY <2>1 DEF Fold
    <2> HIDE DEF g
    <2> QED BY <2>2
<1>2. ASSUME NEW k \in Nat, k \in Done PROVE k + 1 \in Done
    <2> PICK g : g = Fold(g, v, s, k)
        BY <1>2
    <2>0. \A t \in Upto(k) : g[t] = IF t = {} THEN v ELSE Apply(g[t \ {Max(t)}], s[Max(t)])
        <3>1. g = [t \in Upto(k) |-> IF t = {} THEN v ELSE Apply(g[t \ {Max(t)}], s[Max(t)])]
            BY DEF Fold
        <3> QED BY <3>1
    <2> DEFINE h == [t \in Upto(k + 1) |->
                       IF k + 1 \in t THEN Apply(g[t \ {k + 1}], s[k + 1]) ELSE g[t]]
    <2>1. \A t \in Upto(k + 1) : k + 1 \notin t => t \in Upto(k)
        OBVIOUS
    <2>2. \A t \in Upto(k) : h[t] = g[t]
        <3>1. \A t \in Upto(k) : t \in Upto(k + 1) /\ k + 1 \notin t
            OBVIOUS
        <3> QED BY <3>1
    <2>3. \A t \in Upto(k + 1) : h[t] = IF t = {} THEN v ELSE Apply(h[t \ {Max(t)}], s[Max(t)])
        <3> SUFFICES ASSUME NEW t \in Upto(k + 1)
                     PROVE  h[t] = IF t = {} THEN v ELSE Apply(h[t \ {Max(t)}], s[Max(t)])
            OBVIOUS
        <3>1. CASE k + 1 \in t
            <4>1. Max(t) = k + 1
                BY <3>1, HighestOf
            <4>2. t \ {k + 1} \in Upto(k)
                BY <2>1
            <4>3. h[t \ {k + 1}] = g[t \ {k + 1}]
                BY <2>2, <4>2
            <4>4. h[t] = Apply(g[t \ {k + 1}], s[k + 1])
                BY <3>1
            <4> HIDE DEF h
            <4> QED BY <3>1, <4>1, <4>3, <4>4
        <3>2. CASE k + 1 \notin t
            <4>1. t \in Upto(k) /\ t \ {Max(t)} \in Upto(k)
                BY <2>1, <3>2
            <4>2. h[t] = g[t] /\ h[t \ {Max(t)}] = g[t \ {Max(t)}]
                BY <2>2, <4>1
            <4> HIDE DEF h
            <4> QED BY <2>0, <4>1, <4>2
        <3> QED BY <3>1, <3>2
    <2>4. h = Fold(h, v, s, k + 1)
        <3>1. h = [t \in Upto(k + 1) |-> h[t]]
            OBVIOUS
        <3> HIDE DEF h
        <3> QED BY <2>3, <3>1, Zenon DEF Fold
    <2> HIDE DEF h
    <2> QED BY <2>4
<1> HIDE DEF Done
<1>3. n \in Done
    BY <1>1, <1>2, AllNumbers
<1> QED BY <1>3 DEF Done

\* What is known after each frame of s.
Course(r, v, s) == r[0] = v /\ \A k \in 1 .. Len(s) : r[k] = Apply(r[k - 1], s[k])

LEMMA HeardIsCourse ==
    ASSUME NEW v, NEW s \in Seq(Frame)
    PROVE  \E r : Course(r, v, s) /\ Heard(v, s) = r[Len(s)]
<1> DEFINE n == Len(s)
           iter == CHOOSE g : g = Fold(g, v, s, n)
           r == [k \in 0 .. n |-> iter[1 .. k]]
<1>1. n \in Nat /\ DOMAIN s = 1 .. n
    BY LenProperties
<1>2. Heard(v, s) = iter[1 .. n]
    BY <1>1 DEF Heard, FoldLeft, MapThenFoldSet, Fold
<1>3. iter = Fold(iter, v, s, n)
    <2>1. \E g : g = Fold(g, v, s, n)
        <3> HIDE DEF n
        <3> QED BY <1>1, FoldExists, Zenon
    <2> HIDE DEF n
    <2> QED BY <2>1, Zenon
<1> HIDE DEF iter, n
<1>4. \A t \in SUBSET (1 .. n) :
        iter[t] = IF t = {} THEN v ELSE Apply(iter[t \ {Max(t)}], s[Max(t)])
    BY <1>3 DEF Fold
<1>5. r[0] = v
    <2>1. 1 .. 0 = {} /\ 0 \in 0 .. n
        BY <1>1
    <2> QED BY <1>4, <2>1
<1>6. ASSUME NEW k \in 1 .. n PROVE r[k] = Apply(r[k - 1], s[k])
    <2>1. k - 1 \in Nat /\ 1 .. k \in SUBSET (1 .. (k - 1) + 1) /\ (k - 1) + 1 \in 1 .. k
        BY <1>1
    <2>2. Max(1 .. k) = k
        <3>1. Max(1 .. k) = (k - 1) + 1
            BY <2>1, HighestOf, Zenon
        <3> QED BY <3>1
    <2>3. (1 .. k) \ {k} = 1 .. k - 1 /\ 1 .. k # {} /\ 1 .. k \in SUBSET (1 .. n)
        BY <1>1
    <2>4. iter[1 .. k] = Apply(iter[1 .. k - 1], s[k])
        BY <1>4, <2>2, <2>3
    <2>5. k \in 0 .. n /\ k - 1 \in 0 .. n
        BY <1>1
    <2> QED BY <2>4, <2>5
<1>7. r[n] = iter[1 .. n]
    BY <1>1
<1> HIDE DEF r
<1> QED BY <1>2, <1>5, <1>6, <1>7 DEF Course, n

\* Two courses agree for as long as their frames do.
LEMMA CoursesAgree ==
    ASSUME NEW v, NEW s, NEW u, NEW q, NEW r, NEW n \in Nat,
           Course(q, v, s), Course(r, v, u),
           Len(s) \in Nat, Len(u) \in Nat, n <= Len(s), n <= Len(u),
           \A k \in 1 .. n : s[k] = u[k]
    PROVE  q[n] = r[n]
<1> DEFINE T == {k \in Nat : k <= n => q[k] = r[k]}
<1>1. 0 \in T
    BY DEF Course
<1>2. ASSUME NEW k \in Nat, k \in T PROVE k + 1 \in T
    <2> SUFFICES ASSUME k + 1 <= n PROVE q[k + 1] = r[k + 1]
        OBVIOUS
    <2>1. k + 1 \in 1 .. Len(s) /\ k + 1 \in 1 .. Len(u) /\ k + 1 \in 1 .. n
        OBVIOUS
    <2>2. q[k + 1] = Apply(q[(k + 1) - 1], s[k + 1]) /\ r[k + 1] = Apply(r[(k + 1) - 1], u[k + 1])
        BY <2>1 DEF Course
    <2>3. (k + 1) - 1 = k /\ q[k] = r[k]
        BY <1>2
    <2> QED BY <2>1, <2>2, <2>3
<1> HIDE DEF T
<1>3. n \in T
    BY <1>1, <1>2, AllNumbers
<1> QED BY <1>3 DEF T

LEMMA HeardNothing ==
    ASSUME NEW v
    PROVE  Heard(v, <<>>) = v
<1>1. PICK s \in Seq(Frame) : s = <<>> /\ Len(s) = 0
    BY EmptySeq
<1>2. PICK r : Course(r, v, s) /\ Heard(v, s) = r[Len(s)]
    BY HeardIsCourse
<1>3. r[0] = v
    BY <1>2 DEF Course
<1> QED BY <1>1, <1>2, <1>3

LEMMA HeardMore ==
    ASSUME NEW v, NEW s \in Seq(Frame), NEW m \in Frame
    PROVE  Heard(v, Append(s, m)) = Apply(Heard(v, s), m)
<1> DEFINE u == Append(s, m)
<1>1. /\ u \in Seq(Frame) /\ Len(s) \in Nat /\ Len(u) = Len(s) + 1 /\ u[Len(s) + 1] = m
      /\ \A k \in 1 .. Len(s) : s[k] = u[k]
    BY AppendProperties, LenProperties
<1> HIDE DEF u
<1>2. PICK q : Course(q, v, s) /\ Heard(v, s) = q[Len(s)]
    BY HeardIsCourse
<1>3. PICK r : Course(r, v, u) /\ Heard(v, u) = r[Len(u)]
    BY <1>1, HeardIsCourse
<1>4. q[Len(s)] = r[Len(s)]
    BY <1>1, <1>2, <1>3, CoursesAgree
<1>5. r[Len(s) + 1] = Apply(r[Len(s)], m)
    <2>1. Len(s) + 1 \in 1 .. Len(u) /\ (Len(s) + 1) - 1 = Len(s)
        BY <1>1
    <2> QED BY <1>1, <1>3, <2>1 DEF Course
<1> QED BY <1>1, <1>2, <1>3, <1>4, <1>5 DEF u

LEMMA HeardNext ==
    ASSUME NEW v, NEW s \in Seq(Frame), s # <<>>
    PROVE  Heard(v, s) = Heard(Apply(v, Head(s)), Tail(s))
<1> DEFINE u == Tail(s)
<1>1. /\ u \in Seq(Frame) /\ Len(s) \in Nat /\ Len(u) \in Nat /\ Len(s) = Len(u) + 1 /\ Head(s) = s[1]
      /\ \A k \in 1 .. Len(u) : u[k] = s[k + 1]
    BY HeadTailProperties, LenProperties, EmptySeq
<1> HIDE DEF u
<1>2. PICK q : Course(q, v, s) /\ Heard(v, s) = q[Len(s)]
    BY HeardIsCourse
<1>3. PICK r : Course(r, Apply(v, Head(s)), u) /\ Heard(Apply(v, Head(s)), u) = r[Len(u)]
    BY <1>1, HeardIsCourse
<1> DEFINE p == [k \in 0 .. Len(u) |-> q[k + 1]]
<1>4. Course(p, Apply(v, Head(s)), u)
    <2>1. p[0] = Apply(v, Head(s))
        <3>1. 1 \in 1 .. Len(s) /\ 1 - 1 = 0 /\ p[0] = q[1]
            BY <1>1
        <3> QED BY <1>1, <1>2, <3>1 DEF Course
    <2>2. ASSUME NEW k \in 1 .. Len(u) PROVE p[k] = Apply(p[k - 1], u[k])
        <3>1. k + 1 \in 1 .. Len(s) /\ (k + 1) - 1 = k /\ (k - 1) + 1 = k
            BY <1>1
        <3>2. q[k + 1] = Apply(q[k], s[k + 1])
            BY <1>2, <3>1 DEF Course
        <3>3. p[k] = q[k + 1] /\ p[k - 1] = q[k]
            BY <1>1, <3>1
        <3> QED BY <1>1, <3>2, <3>3
    <2> HIDE DEF p
    <2> QED BY <2>1, <2>2 DEF Course
<1>5. p[Len(u)] = q[Len(s)]
    BY <1>1
<1> HIDE DEF p
<1>6. p[Len(u)] = r[Len(u)]
    BY <1>1, <1>3, <1>4, CoursesAgree
<1> QED BY <1>2, <1>3, <1>5, <1>6 DEF u

LEMMA HeardTyped ==
    ASSUME NEW v \in View, NEW s \in Seq(Frame)
    PROVE  Heard(v, s) \in View
<1>1. PICK r : Course(r, v, s) /\ Heard(v, s) = r[Len(s)]
    BY HeardIsCourse
<1>2. Len(s) \in Nat /\ \A k \in 1 .. Len(s) : s[k] \in Frame
    BY LenProperties, ElementOfSeq
<1> DEFINE T == {k \in Nat : k <= Len(s) => r[k] \in View}
<1>3. 0 \in T
    BY <1>1 DEF Course
<1>4. ASSUME NEW k \in Nat, k \in T PROVE k + 1 \in T
    <2> SUFFICES ASSUME k + 1 <= Len(s) PROVE r[k + 1] \in View
        OBVIOUS
    <2>1. k + 1 \in 1 .. Len(s) /\ (k + 1) - 1 = k
        BY <1>2
    <2>2. r[k + 1] = Apply(r[k], s[k + 1])
        BY <1>1, <2>1 DEF Course
    <2>3. r[k] \in View
        BY <1>2, <1>4
    <2> QED BY <1>2, <2>1, <2>2, <2>3, ApplyTyped
<1> HIDE DEF T
<1>5. Len(s) \in T
    BY <1>2, <1>3, <1>4, AllNumbers
<1> QED BY <1>1, <1>2, <1>5 DEF T

-----------------------------------------------------------------------------
(* What is on its way to a client.                                         *)

\* Neither a commit missed or repeated, nor a player announced twice.
Fits(known, m) ==
    /\ m.kind = "Edit" => known.rev + 1 = m.rev
    /\ m.kind = "Joined" => m.who \cap known.peers = {}

Clean(v, s) == \A i \in 1 .. Len(s) : Fits(Heard(v, SubSeq(s, 1, i - 1)), s[i])

LEMMA CleanMore ==
    ASSUME NEW v, NEW s \in Seq(Frame), NEW m \in Frame, Clean(v, s), Fits(Heard(v, s), m)
    PROVE  Clean(v, Append(s, m))
<1> DEFINE u == Append(s, m)
<1>1. /\ u \in Seq(Frame) /\ Len(s) \in Nat /\ Len(u) = Len(s) + 1 /\ u[Len(s) + 1] = m
      /\ \A k \in 1 .. Len(s) : u[k] = s[k]
    BY AppendProperties, LenProperties
<1> HIDE DEF u
<1>2. ASSUME NEW n \in 0 .. Len(s) PROVE SubSeq(u, 1, n) = SubSeq(s, 1, n)
    <2>1. n \in Int /\ 1 \in Int /\ \A i \in 1 .. n : u[i] \in Frame /\ s[i] \in Frame
        BY <1>1, ElementOfSeq
    <2>2. /\ SubSeq(u, 1, n) \in Seq(Frame) /\ SubSeq(s, 1, n) \in Seq(Frame)
          /\ Len(SubSeq(u, 1, n)) = n /\ Len(SubSeq(s, 1, n)) = n
          /\ \A i \in 1 .. n : SubSeq(u, 1, n)[i] = u[i] /\ SubSeq(s, 1, n)[i] = s[i]
        <3>1. /\ SubSeq(u, 1, n) \in Seq(Frame)
              /\ Len(SubSeq(u, 1, n)) = IF 1 <= n THEN n - 1 + 1 ELSE 0
              /\ \A i \in 1 .. n - 1 + 1 : SubSeq(u, 1, n)[i] = u[1 + i - 1]
            BY <2>1, SubSeqProperties
        <3>2. /\ SubSeq(s, 1, n) \in Seq(Frame)
              /\ Len(SubSeq(s, 1, n)) = IF 1 <= n THEN n - 1 + 1 ELSE 0
              /\ \A i \in 1 .. n - 1 + 1 : SubSeq(s, 1, n)[i] = s[1 + i - 1]
            BY <2>1, SubSeqProperties
        <3>3. n - 1 + 1 = n /\ (IF 1 <= n THEN n - 1 + 1 ELSE 0) = n /\ \A i \in 1 .. n : 1 + i - 1 = i
            BY <1>1
        <3> QED BY <3>1, <3>2, <3>3
    <2>3. \A i \in 1 .. n : SubSeq(u, 1, n)[i] = SubSeq(s, 1, n)[i]
        BY <1>1, <2>2
    <2> QED BY <2>2, <2>3, SeqEqual
<1>3. ASSUME NEW i \in 1 .. Len(u) PROVE Fits(Heard(v, SubSeq(u, 1, i - 1)), u[i])
    <2>1. CASE i \in 1 .. Len(s)
        <3>1. i - 1 \in 0 .. Len(s)
            BY <1>1, <2>1
        <3> QED BY <1>1, <1>2, <2>1, <3>1 DEF Clean
    <2>2. CASE i = Len(s) + 1
        <3>1. i - 1 = Len(s) /\ Len(s) \in 0 .. Len(s) /\ SubSeq(s, 1, Len(s)) = s
            BY <1>1, <2>2, SubSeqFull
        <3> QED BY <1>1, <1>2, <2>2, <3>1
    <2> QED BY <1>1, <2>1, <2>2
<1> QED BY <1>3 DEF Clean, u

LEMMA CleanNext ==
    ASSUME NEW v, NEW s \in Seq(Frame), s # <<>>, Clean(v, s)
    PROVE  Clean(Apply(v, Head(s)), Tail(s))
<1> DEFINE u == Tail(s)
<1>1. /\ u \in Seq(Frame) /\ Len(s) \in Nat /\ Len(u) \in Nat /\ Len(s) = Len(u) + 1 /\ Head(s) = s[1]
      /\ \A k \in 1 .. Len(u) : u[k] = s[k + 1]
    BY HeadTailProperties, LenProperties, EmptySeq
<1> SUFFICES ASSUME NEW i \in 1 .. Len(u)
             PROVE  Fits(Heard(Apply(v, Head(s)), SubSeq(u, 1, i - 1)), u[i])
    BY DEF Clean
<1>2. Fits(Heard(v, SubSeq(s, 1, i)), s[i + 1])
    <2>1. i + 1 \in 1 .. Len(s) /\ (i + 1) - 1 = i
        BY <1>1
    <2> QED BY <2>1 DEF Clean
<1>3. SubSeq(s, 1, i) \in Seq(Frame) /\ SubSeq(s, 1, i) # <<>>
    <2>1. 1 \in Int /\ i \in Int /\ 1 <= i /\ \A k \in 1 .. i : s[k] \in Frame
        BY <1>1, ElementOfSeq
    <2>2. SubSeq(s, 1, i) \in Seq(Frame) /\ Len(SubSeq(s, 1, i)) = i - 1 + 1
        BY <2>1, SubSeqProperties
    <2> QED BY <2>1, <2>2, EmptySeq
<1>4. Head(SubSeq(s, 1, i)) = s[1] /\ Tail(SubSeq(s, 1, i)) = SubSeq(s, 2, i)
    <2>1. 1 \in 1 .. Len(s) /\ i \in 1 .. Len(s) /\ 1 + 1 = 2
        BY <1>1
    <2> QED BY <2>1, HeadTailOfSubSeq
<1>5. SubSeq(u, 1, i - 1) = SubSeq(s, 2, i)
    <2>1. /\ 2 \in Int /\ i \in Int /\ 1 \in Int /\ i - 1 \in Int
          /\ \A k \in 2 .. i : s[k] \in Frame
          /\ \A k \in 1 .. i - 1 : u[k] \in Frame
        <3>1. \A k \in 2 .. i : k \in 1 .. Len(s)
            BY <1>1
        <3>2. \A k \in 1 .. i - 1 : k \in 1 .. Len(u)
            BY <1>1
        <3> QED BY <1>1, <3>1, <3>2, ElementOfSeq
    <2>2. /\ SubSeq(s, 2, i) \in Seq(Frame)
          /\ Len(SubSeq(s, 2, i)) = IF 2 <= i THEN i - 2 + 1 ELSE 0
          /\ \A k \in 1 .. i - 2 + 1 : SubSeq(s, 2, i)[k] = s[2 + k - 1]
        BY <2>1, SubSeqProperties
    <2>3. /\ SubSeq(u, 1, i - 1) \in Seq(Frame)
          /\ Len(SubSeq(u, 1, i - 1)) = IF 1 <= i - 1 THEN i - 1 - 1 + 1 ELSE 0
          /\ \A k \in 1 .. i - 1 - 1 + 1 : SubSeq(u, 1, i - 1)[k] = u[1 + k - 1]
        BY <2>1, SubSeqProperties
    <2>4. Len(SubSeq(u, 1, i - 1)) = i - 1 /\ Len(SubSeq(s, 2, i)) = i - 1
        BY <2>2, <2>3
    <2>5. ASSUME NEW k \in 1 .. i - 1 PROVE SubSeq(u, 1, i - 1)[k] = SubSeq(s, 2, i)[k]
        <3>1. k \in 1 .. i - 2 + 1 /\ k \in 1 .. i - 1 - 1 + 1 /\ 2 + k - 1 = k + 1 /\ 1 + k - 1 = k
              /\ k \in 1 .. Len(u)
            BY <1>1
        <3> QED BY <1>1, <2>2, <2>3, <3>1
    <2> QED BY <2>2, <2>3, <2>4, <2>5, SeqEqual
<1>6. Heard(v, SubSeq(s, 1, i)) = Heard(Apply(v, Head(s)), SubSeq(u, 1, i - 1))
    BY <1>1, <1>3, <1>4, <1>5, HeardNext
<1> QED BY <1>1, <1>2, <1>6

LEMMA IncomingTyped ==
    ASSUME TypeOK, NEW p \in Players
    PROVE  Incoming(p) \in Seq(Frame) /\ After(p) \in View
<1>1. stream[p] \in Seq(Frame) /\ backlog[p] \in Seq(Frame) /\ view[p] \in View
    BY DEF TypeOK
<1>2. (IF stage[p] = "placed" THEN <<boot[p]>> ELSE <<>>) \in Seq(Frame)
    <2>1. boot[p] \in Frame /\ <<>> \in Seq(Frame)
        BY EmptySeq DEF TypeOK
    <2>2. \A f \in Frame : <<f>> \in Seq(Frame)
        OBVIOUS
    <2> QED BY <2>1, <2>2
<1>3. Incoming(p) \in Seq(Frame)
    BY <1>1, <1>2, ConcatProperties DEF Incoming
<1> QED BY <1>1, <1>3, HeardTyped DEF After

CleanAt(p) == Clean(view[p], Incoming(p))

\* The step makes no difference to what p will know.
Keeps(p) == After(p)' = After(p) /\ (CleanAt(p) => CleanAt(p)')

\* It adds m to what p will hear.
Takes(p, m) ==
    /\ After(p)' = Apply(After(p), m)
    /\ CleanAt(p) /\ Fits(After(p), m) => CleanAt(p)'

LEMMA KeepsIt ==
    ASSUME NEW p, Incoming(p)' = Incoming(p), view'[p] = view[p]
    PROVE  Keeps(p)
BY DEF Keeps, After, CleanAt

LEMMA TakesIt ==
    ASSUME TypeOK, NEW p \in Players, NEW m \in Frame,
           Incoming(p)' = Append(Incoming(p), m), view'[p] = view[p]
    PROVE  Takes(p, m)
<1>1. Incoming(p) \in Seq(Frame)
    BY IncomingTyped
<1> QED BY <1>1, HeardMore, CleanMore DEF Takes, After, CleanAt

LEMMA FirstOfBoth ==
    ASSUME NEW s \in Seq(Frame), NEW t \in Seq(Frame), s # <<>>
    PROVE  /\ s \o t \in Seq(Frame) /\ s \o t # <<>>
           /\ Head(s \o t) = Head(s) /\ Tail(s \o t) = Tail(s) \o t
<1> DEFINE u == Tail(s)
<1>1. /\ u \in Seq(Frame) /\ Head(s) \in Frame /\ s = <<Head(s)>> \o u
    BY HeadTailProperties
<1> QED BY <1>1

LEMMA Pair ==
    ASSUME NEW l \in Frame, NEW m \in Frame
    PROVE  <<l>> \o <<m>> = <<l, m>>
<1>1. <<l>> \in Seq(Frame) /\ <<m>> \in Seq(Frame) /\ <<l, m>> \in Seq(Frame)
    OBVIOUS
<1>2. Len(<<l>>) = 1 /\ Len(<<m>>) = 1 /\ Len(<<l, m>>) = 2
    OBVIOUS
<1>3. <<l>>[1] = l /\ <<m>>[1] = m /\ <<l, m>>[1] = l /\ <<l, m>>[2] = m
    OBVIOUS
<1>4. /\ <<l>> \o <<m>> \in Seq(Frame) /\ Len(<<l>> \o <<m>>) = 2
      /\ (<<l>> \o <<m>>)[1] = l /\ (<<l>> \o <<m>>)[2] = m
    BY <1>1, <1>2, <1>3, ConcatProperties
<1> PICK both : both = <<l>> \o <<m>>
    OBVIOUS
<1> PICK pair : pair = <<l, m>>
    OBVIOUS
<1>5. \A i \in 1 .. Len(both) : both[i] = pair[i]
    <2>1. \A i \in 1 .. 2 : i = 1 \/ i = 2
        OBVIOUS
    <2> QED BY <1>2, <1>3, <1>4, <2>1
<1>6. both \in Seq(Frame) /\ pair \in Seq(Frame) /\ Len(both) = Len(pair)
    BY <1>1, <1>2, <1>4
<1>7. both = pair
    BY <1>5, <1>6, SeqEqual
<1> QED BY <1>7

LEMMA AppendedLast ==
    ASSUME NEW s \in Seq(Frame), NEW t \in Seq(Frame), NEW u \in Seq(Frame), NEW m \in Frame
    PROVE  s \o t \o Append(u, m) = Append(s \o t \o u, m)
<1>1. <<m>> \in Seq(Frame)
    OBVIOUS
<1>2. s \o t \in Seq(Frame) /\ (s \o t) \o u \in Seq(Frame)
    BY ConcatProperties
<1>3. Append(u, m) = u \o <<m>> /\ Append((s \o t) \o u, m) = ((s \o t) \o u) \o <<m>>
    BY <1>2, AppendIsConcat
<1>4. (s \o t) \o (u \o <<m>>) = ((s \o t) \o u) \o <<m>>
    BY SMTT(60), <1>1, <1>2, ConcatAssociative
<1> QED BY <1>3, <1>4

\* What a client that is ready is waiting for is in its stream.
LEMMA ReadyIncoming ==
    ASSUME TypeOK, NEW p \in ready, backlog[p] = <<>>
    PROVE  Incoming(p) = stream[p]
<1>1. stage[p] # "placed" /\ stream[p] \in Seq(Frame)
    BY DEF TypeOK
<1>2. Incoming(p) = stream[p] \o <<>> \o <<>>
    BY <1>1 DEF Incoming
<1>3. stream[p] \o <<>> = stream[p]
    BY <1>1, ConcatEmptySeq
<1> QED BY <1>2, <1>3

\* Nothing is queued for nobody, and nothing waits behind a client that is ready.
Settled ==
    /\ \A p \in ready : backlog[p] = <<>>
    /\ \A p \in Players \ roster : stream[p] = <<>> /\ backlog[p] = <<>> /\ view[p] = NoView
    /\ \A p \in Players : announced[p] \subseteq roster

LEMMA BroadcastHeard ==
    ASSUME TypeOK, Settled, NEW frame \in Frame, NEW to \in SUBSET roster, Broadcast(frame, to),
           UNCHANGED <<roster, ready, boot, view>>,
           \A q \in Players : stage'[q] = "placed" <=> stage[q] = "placed",
           NEW p \in Followers'
    PROVE  p \in Followers /\ (p \in to => Takes(p, frame)) /\ (p \notin to => Keeps(p))
<1>1. PICK slow \in SUBSET {q \in to : Refusable(q)} :
        /\ stream' = [q \in Players |->
                IF q \in (to \cap ready) \ slow THEN Append(stream[q], frame) ELSE stream[q]]
        /\ backlog' = [q \in Players |->
                IF q \in to \ (ready \cup slow) THEN Append(backlog[q], frame) ELSE backlog[q]]
        /\ kicked' = kicked \cup slow
    BY DEF Broadcast
<1>2. p \in Players /\ p \in Followers /\ p \notin slow
    BY <1>1 DEF Followers, TypeOK
<1>3. /\ stream[p] \in Seq(Frame) /\ backlog[p] \in Seq(Frame) /\ boot[p] \in Frame
      /\ <<>> \in Seq(Frame)
    BY <1>2, EmptySeq DEF TypeOK
<1>4. view'[p] = view[p] /\ boot'[p] = boot[p] /\ (stage'[p] = "placed" <=> stage[p] = "placed")
    BY <1>2
<1>5. CASE p \notin to
    <2>1. stream'[p] = stream[p] /\ backlog'[p] = backlog[p]
        BY <1>1, <1>2, <1>5
    <2>2. Incoming(p)' = Incoming(p)
        BY <1>4, <2>1 DEF Incoming
    <2> QED BY <1>2, <1>4, <1>5, <2>2, KeepsIt
<1>6. CASE p \in to /\ p \in ready
    <2>1. stream'[p] = Append(stream[p], frame) /\ backlog'[p] = <<>> /\ stage[p] # "placed"
        BY <1>1, <1>2, <1>6 DEF Settled, TypeOK
    <2>2. Incoming(p)' = Append(stream[p], frame) \o <<>> \o <<>>
        BY <1>4, <2>1 DEF Incoming
    <2>3. Append(stream[p], frame) \o <<>> = Append(stream[p], frame)
        BY <1>3, AppendProperties, ConcatEmptySeq
    <2>4. Incoming(p) = stream[p]
        BY <1>6, ReadyIncoming DEF Settled
    <2>5. Incoming(p)' = Append(Incoming(p), frame)
        BY <2>2, <2>3, <2>4
    <2> QED BY <1>2, <1>4, <1>6, <2>5, TakesIt
<1>7. CASE p \in to /\ p \notin ready
    <2>1. stream'[p] = stream[p] /\ backlog'[p] = Append(backlog[p], frame)
        BY <1>1, <1>2, <1>7
    <2> DEFINE first == IF stage[p] = "placed" THEN <<boot[p]>> ELSE <<>>
    <2>2. first \in Seq(Frame)
        <3>1. \A f \in Frame : <<f>> \in Seq(Frame)
            OBVIOUS
        <3> QED BY <1>3, <3>1
    <2>3. Incoming(p) = stream[p] \o first \o backlog[p]
        BY DEF Incoming
    <2>4. Incoming(p)' = stream[p] \o first \o Append(backlog[p], frame)
        BY <1>4, <2>1 DEF Incoming
    <2> HIDE DEF first
    <2>5. Incoming(p)' = Append(Incoming(p), frame)
        <3>1. PICK s \in Seq(Frame), u \in Seq(Frame) : s = stream[p] /\ u = backlog[p]
            BY <1>3
        <3>2. s \o first \o Append(u, frame) = Append(s \o first \o u, frame)
            BY <2>2, AppendedLast
        <3> QED BY <2>3, <2>4, <3>1, <3>2
    <2> QED BY <1>2, <1>4, <1>7, <2>5, TakesIt
<1> QED BY <1>5, <1>6, <1>7

\* Frames that say nothing of edits or of joins.
Plain(m) == m \in Frame /\ m.kind \notin {"Edit", "Joined"}

LEMMA QueueHeard ==
    ASSUME TypeOK, Settled, NEW sends \in [Players -> Seq(Frame)], Queue(sends),
           \A q \in Players : sends[q] # <<>> => q \in ready,
           UNCHANGED <<stage, roster, ready, boot, backlog, view>>,
           NEW p \in Followers'
    PROVE  /\ p \in Followers
           /\ sends[p] = <<>> => Keeps(p)
           /\ \A m \in Frame : sends[p] = <<m>> => Takes(p, m)
           /\ \A l, m : sends[p] = <<l, m>> /\ Plain(l) /\ Plain(m) =>
                /\ After(p)' = Apply(Apply(After(p), l), m)
                /\ CleanAt(p) => CleanAt(p)'
<1>1. PICK slow \in SUBSET {q \in roster : sends[q] # <<>> /\ MayBeFull(q, Len(sends[q]))} :
        /\ stream' = [q \in Players |-> IF q \in roster \ slow THEN stream[q] \o sends[q] ELSE stream[q]]
        /\ kicked' = kicked \cup slow
    BY DEF Queue
<1>2. p \in Players /\ p \in Followers /\ p \in roster \ slow
    BY <1>1 DEF Followers, TypeOK
<1>3. stream'[p] = stream[p] \o sends[p] /\ view'[p] = view[p] /\ stream[p] \in Seq(Frame)
    BY <1>1, <1>2 DEF TypeOK
<1>4. sends[p] = <<>> => Keeps(p)
    <2> SUFFICES ASSUME sends[p] = <<>> PROVE Keeps(p)
        OBVIOUS
    <2>1. stream'[p] = stream[p]
        BY <1>3, ConcatEmptySeq
    <2>2. Incoming(p)' = Incoming(p)
        BY <2>1 DEF Incoming
    <2> QED BY <1>3, <2>2, KeepsIt
<1>5. sends[p] # <<>> => Incoming(p) = stream[p] /\ Incoming(p)' = stream[p] \o sends[p]
    <2> SUFFICES ASSUME sends[p] # <<>>
                 PROVE  Incoming(p) = stream[p] /\ Incoming(p)' = stream[p] \o sends[p]
        OBVIOUS
    <2>1. p \in ready /\ backlog[p] = <<>> /\ stage[p] # "placed"
        BY <1>2 DEF Settled, TypeOK
    <2>2. Incoming(p)' = (stream[p] \o sends[p]) \o <<>> \o <<>>
        BY <1>3, <2>1 DEF Incoming
    <2>3. stream[p] \o sends[p] \in Seq(Frame)
        BY <1>2, <1>3, ConcatProperties
    <2>4. (stream[p] \o sends[p]) \o <<>> = stream[p] \o sends[p]
        BY <2>3, ConcatEmptySeq
    <2> QED BY <2>1, <2>2, <2>4, ReadyIncoming
<1>6. ASSUME NEW m \in Frame, sends[p] = <<m>> PROVE Takes(p, m)
    <2>1. stream[p] \o <<m>> = Append(stream[p], m)
        BY <1>3, AppendIsConcat
    <2>2. Incoming(p)' = Append(Incoming(p), m)
        BY <1>5, <1>6, <2>1
    <2> QED BY <1>2, <1>3, <2>2, TakesIt
<1>7. ASSUME NEW l, NEW m, sends[p] = <<l, m>>, Plain(l), Plain(m)
      PROVE  After(p)' = Apply(Apply(After(p), l), m) /\ (CleanAt(p) => CleanAt(p)')
    <2>1. l \in Frame /\ m \in Frame
        BY <1>7 DEF Plain
    <2>2. stream[p] \o <<l, m>> = Append(Append(stream[p], l), m)
        BY <1>3, <2>1
    <2> DEFINE s == Append(stream[p], l)
    <2>3. s \in Seq(Frame) /\ Incoming(p) = stream[p] /\ Incoming(p)' = Append(s, m)
        BY <1>3, <1>5, <1>7, <2>1, <2>2, AppendProperties
    <2>4. Heard(view[p], s) = Apply(Heard(view[p], stream[p]), l)
        BY <1>3, <2>1, HeardMore
    <2>5. Heard(view[p], Append(s, m)) = Apply(Heard(view[p], s), m)
        <3> HIDE DEF s
        <3> QED BY <2>1, <2>3, HeardMore
    <2>6. \A known : Fits(known, l) /\ Fits(known, m)
        BY <1>7 DEF Plain, Fits
    <2>7. Clean(view[p], stream[p]) => Clean(view[p], s)
        BY <1>3, <2>1, <2>6, CleanMore
    <2>8. Clean(view[p], s) => Clean(view[p], Append(s, m))
        <3> HIDE DEF s
        <3> QED BY <2>1, <2>3, <2>6, CleanMore
    <2> HIDE DEF s
    <2> QED BY <1>3, <2>3, <2>4, <2>5, <2>7, <2>8 DEF After, CleanAt
<1> QED BY <1>2, <1>4, <1>6, <1>7

LEMMA SettledStep ==
    ASSUME TypeOK, Settled, [Next]_vars
    PROVE  Settled'
<1>1. \A p \in Players : p \notin roster => p \notin ready
    BY DEF TypeOK
<1>2. CASE \E p \in Players : Reserve(p) \/ Abandon(p)
    BY <1>2 DEF Reserve, Abandon, worldVars, wireVars, Settled
<1>3. CASE \E p \in Players : Admit(p)
    BY <1>3 DEF Admit, worldVars, wireVars, Settled, TypeOK
<1>4. CASE \E p \in Players : Bootstrap(p) \/ BootstrapFails(p)
    <2> PICK p \in Players : Bootstrap(p) \/ BootstrapFails(p)
        BY <1>4
    <2>1. p \in roster /\ \A q \in Players : q # p => stream'[q] = stream[q]
        BY DEF Bootstrap, BootstrapFails, TypeOK, wireVars
    <2>2. UNCHANGED <<roster, ready, announced, backlog, view>>
        BY DEF Bootstrap, BootstrapFails, wireVars
    <2> QED BY <2>1, <2>2 DEF Settled
<1>5. CASE \E p \in Players : GoLive(p)
    <2> PICK p \in Players : GoLive(p)
        BY <1>5
    <2>1. /\ ready' = ready \cup {p} /\ backlog' = [backlog EXCEPT ![p] = <<>>]
          /\ UNCHANGED <<roster, announced, view>> /\ stage[p] = "booted"
          /\ \A q \in Players : q # p => stream'[q] = stream[q]
        BY DEF GoLive, TypeOK
    <2>2. p \in roster
        BY <2>1 DEF TypeOK
    <2> QED BY <2>1, <2>2 DEF Settled, TypeOK
<1>6. CASE \E p \in Players : Announce(p) \/ Farewell(p)
    <2> PICK p \in Players : Announce(p) \/ Farewell(p)
        BY <1>6
    <2>1. \E frame, to : to \subseteq roster /\ Broadcast(frame, to)
        BY DEF Announce, Farewell
    <2>2. UNCHANGED <<roster, ready, view>> /\ \A q \in Players : announced'[q] \subseteq announced[q]
        BY DEF Announce, Farewell, TypeOK
    <2>3. \A q \in Players : /\ q \notin roster => stream'[q] = stream[q] /\ backlog'[q] = backlog[q]
                             /\ q \in ready => backlog'[q] = backlog[q]
        BY <2>1 DEF Broadcast
    <2>4. ready \subseteq Players
        BY DEF TypeOK
    <2> QED BY <2>2, <2>3, <2>4 DEF Settled
<1>7. CASE \E p \in Players : RemovePlayer(p)
    <2> PICK p \in Players : RemovePlayer(p)
        BY <1>7
    <2>1. /\ roster' = roster \ {p} /\ ready' = ready \ {p}
          /\ announced' = [q \in Players |-> IF q = p THEN {} ELSE announced[q] \ {p}]
          /\ backlog' = [backlog EXCEPT ![p] = <<>>]
          /\ stream' = [stream EXCEPT ![p] = <<>>]
          /\ view' = [view EXCEPT ![p] = NoView]
        BY DEF RemovePlayer
    <2>2. \A q \in Players : announced'[q] \subseteq roster'
        BY <2>1 DEF Settled
    <2>3. \A q \in ready' : backlog'[q] = <<>>
        BY <2>1 DEF Settled, TypeOK
    <2>4. \A q \in Players \ roster' : stream'[q] = <<>> /\ backlog'[q] = <<>> /\ view'[q] = NoView
        BY <2>1 DEF Settled, TypeOK
    <2> QED BY <2>2, <2>3, <2>4 DEF Settled
<1>8. CASE \E p \in Players : Hear(p)
    BY <1>8 DEF Hear, joinVars, worldVars, Settled, TypeOK
<1>9. CASE Commit
    <2>1. \A q \in Players : /\ q \notin roster => stream'[q] = stream[q] /\ backlog'[q] = backlog[q]
                             /\ q \in ready => backlog'[q] = backlog[q]
        BY <1>9 DEF Commit, Broadcast
    <2>2. ready \subseteq Players
        BY DEF TypeOK
    <2> QED BY <1>9, <2>1, <2>2 DEF Commit, Settled
<1>10. CASE PoseTick \/ \E p \in Players, to \in Places : Move(p, to)
    <2>1. /\ \E sends : Queue(sends)
          /\ UNCHANGED <<roster, ready, announced, backlog, view>>
        BY <1>10 DEF PoseTick, Move
    <2>2. \A q \in Players : q \notin roster => stream'[q] = stream[q]
        BY <2>1 DEF Queue
    <2> QED BY <2>1, <2>2 DEF Settled
<1>11. CASE UNCHANGED vars
    BY <1>11 DEF Settled, vars, joinVars, worldVars, wireVars
<1> QED BY <1>2, <1>3, <1>4, <1>5, <1>6, <1>7, <1>8, <1>9, <1>10, <1>11 DEF Next, JoinStep, LeaveStep

-----------------------------------------------------------------------------
(* What a client the server owes every frame will have made of them.       *)

\* What p will know is what the server says of the others.
Agrees(p, known) ==
    /\ known.rev = rev
    /\ \A q \in roster : q \in known.peers <=> q # p /\ (stage[q] = "looping" \/ q \in announced[p])
    /\ \A q \in known.peers \ roster : stage[q] = "removed"
    /\ \A q \in known.shown : q \in visible[p] \/ stage[q] = "removed"

Informed(p) == CleanAt(p) /\ Agrees(p, After(p))

ClientsInv == Settled /\ \A p \in Followers : Informed(p)

\* A step of p's own thread that is not about what anybody knows.
LEMMA StageOnly ==
    ASSUME TypeOK, NEW p \in Players, NEW q \in Followers, Informed(q), Keeps(q),
           UNCHANGED <<roster, announced, rev, visible>>,
           \A r \in Players : r # p => stage'[r] = stage[r],
           stage[p] \notin {"looping", "removed"}, stage'[p] # "looping"
    PROVE  Informed(q)'
<1> PICK known : known = After(q)
    OBVIOUS
<1>1. roster \subseteq Players
    BY DEF TypeOK
<1>2. After(q)' = known /\ CleanAt(q)'
    BY DEF Keeps, Informed
<1>3. known \in View /\ q \in Players
    BY <1>1, IncomingTyped DEF Followers
<1>4. Agrees(q, known)
    BY DEF Informed
<1>5. known.peers \subseteq Players /\ known.shown \subseteq Players
    BY <1>3 DEF View
<1>6. Agrees(q, After(q))'
    BY <1>1, <1>2, <1>3, <1>4, <1>5 DEF Agrees
<1> QED BY <1>2, <1>6 DEF Informed

LEMMA JoinInformed ==
    ASSUME TypeOK, ClientsInv, NEW p \in Players,
           Reserve(p) \/ Abandon(p) \/ Bootstrap(p) \/ BootstrapFails(p) \/ GoLive(p),
           NEW q \in Followers'
    PROVE  Informed(q)'
<1>1. /\ UNCHANGED <<roster, announced, view, rev, visible>> /\ kicked \subseteq kicked'
      /\ \E to \in {"held", "gone", "booted", "failed", "live"} : Goes(p, to)
      /\ stage[p] \in {"new", "held", "placed", "booted"}
    BY DEF Reserve, Abandon, Bootstrap, BootstrapFails, GoLive, worldVars, wireVars
<1>2. /\ stage'[p] # "looping" /\ stage'[p] # "placed"
      /\ \A r \in Players : r # p => stage'[r] = stage[r]
    BY <1>1 DEF Goes, TypeOK
<1>3. q \in Followers /\ q \in roster /\ q \in Players
    BY <1>1 DEF Followers, TypeOK
<1>4. stream[q] \in Seq(Frame) /\ backlog[q] \in Seq(Frame) /\ boot[q] \in Frame
    BY <1>3 DEF TypeOK
<1>6. ASSUME q = p, Bootstrap(p) PROVE Keeps(q)
    <2>1. /\ stage[q] = "placed" /\ stream'[q] = Append(stream[q], boot[q]) /\ backlog'[q] = backlog[q]
        BY <1>3, <1>6 DEF Bootstrap, TypeOK
    <2>2. Append(stream[q], boot[q]) = stream[q] \o <<boot[q]>> /\ Append(stream[q], boot[q]) \in Seq(Frame)
        BY <1>4, AppendIsConcat, AppendProperties
    <2>3. Incoming(q)' = Append(stream[q], boot[q]) \o <<>> \o backlog[q]
        BY <1>2, <1>6, <2>1 DEF Incoming
    <2>4. Incoming(q) = stream[q] \o <<boot[q]>> \o backlog[q]
        BY <2>1 DEF Incoming
    <2>5. Append(stream[q], boot[q]) \o <<>> = Append(stream[q], boot[q])
        BY <2>2, ConcatEmptySeq
    <2>6. Incoming(q)' = Incoming(q)
        BY <2>2, <2>3, <2>4, <2>5
    <2> QED BY <1>1, <2>6, KeepsIt
<1>7. ASSUME q = p, GoLive(p) PROVE Keeps(q)
    <2>1. stage[q] = "booted" /\ backlog'[q] = <<>>
        BY <1>3, <1>7 DEF GoLive, TypeOK
    <2>2. PICK n \in 0 .. Len(backlog[p]) :
            /\ stream' = [stream EXCEPT ![p] = @ \o SubSeq(backlog[p], 1, n)]
            /\ kicked' = IF n < Len(backlog[p]) THEN kicked \cup {p} ELSE kicked
        BY <1>7 DEF GoLive
    <2>3. n = Len(backlog[q])
        <3>1. Len(backlog[p]) \in Nat /\ p \notin kicked'
            BY <1>4, <1>7, LenProperties DEF Followers
        <3> QED BY <1>7, <2>2, <3>1
    <2>4. stream'[q] = stream[q] \o backlog[q]
        BY <1>3, <1>4, <1>7, <2>2, <2>3, SubSeqFull DEF TypeOK
    <2>5. Incoming(q)' = (stream[q] \o backlog[q]) \o <<>> \o <<>>
        BY <1>2, <1>7, <2>1, <2>4 DEF Incoming
    <2>6. Incoming(q) = stream[q] \o <<>> \o backlog[q]
        BY <2>1 DEF Incoming
    <2>7. stream[q] \o backlog[q] \in Seq(Frame)
        BY <1>4, ConcatProperties
    <2>8. (stream[q] \o backlog[q]) \o <<>> = stream[q] \o backlog[q] /\ stream[q] \o <<>> = stream[q]
        BY <1>4, <2>7, ConcatEmptySeq
    <2>9. Incoming(q)' = Incoming(q)
        BY <2>5, <2>6, <2>8
    <2> QED BY <1>1, <2>9, KeepsIt
<1>8. q = p => Bootstrap(p) \/ GoLive(p)
    <2> SUFFICES ASSUME q = p PROVE Bootstrap(p) \/ GoLive(p)
        OBVIOUS
    <2>1. stage[p] \notin {"new", "held"}
        BY <1>3 DEF TypeOK
    <2>2. p \notin kicked'
        BY DEF Followers
    <2> QED BY <2>1, <2>2 DEF Reserve, Abandon, BootstrapFails
<1>9. Keeps(q)
    <2>1. ASSUME q # p PROVE Keeps(q)
        <3>1. stream'[q] = stream[q] /\ backlog'[q] = backlog[q] /\ boot'[q] = boot[q]
            BY <1>3, <2>1 DEF Reserve, Abandon, Bootstrap, BootstrapFails, GoLive, wireVars, TypeOK
        <3>2. Incoming(q)' = Incoming(q)
            BY <1>2, <1>3, <2>1, <3>1 DEF Incoming
        <3> QED BY <1>1, <3>2, KeepsIt
    <2> QED BY <1>6, <1>7, <1>8, <2>1
<1>10. Informed(q)
    BY <1>3 DEF ClientsInv
<1>12. stage[p] \notin {"looping", "removed"}
    BY <1>1
<1> QED BY <1>2, <1>3, <1>1, <1>9, <1>10, <1>12, StageOnly

LEMMA AdmitInformed ==
    ASSUME TypeOK, ClientsInv, NEW p \in Players, Admit(p), NEW q \in Followers'
    PROVE  Informed(q)'
<1>1. /\ stage[p] = "held" /\ Goes(p, "placed")
      /\ announced' = [announced EXCEPT ![p] = roster]
      /\ boot' = [boot EXCEPT ![p] = Boot(roster, rev)]
      /\ roster' = roster \cup {p}
      /\ UNCHANGED <<kicked, backlog, rev, visible, stream, view>>
    BY DEF Admit, worldVars, wireVars
<1>2. /\ stage'[p] = "placed" /\ \A r \in Players : r # p => stage'[r] = stage[r]
      /\ p \notin roster /\ roster \subseteq Players
    BY <1>1 DEF Goes, TypeOK
<1>3. CASE q = p
    <2>1. stream[p] = <<>> /\ backlog[p] = <<>> /\ view[p] = NoView
        BY <1>2 DEF ClientsInv, Settled
    <2> DEFINE b == Boot(roster, rev)
    <2>2. b \in Frame /\ boot'[p] = b /\ <<>> \in Seq(Frame) /\ b.kind = "Boot" /\ b.who = roster /\ b.rev = rev
        BY <1>1, <1>2, FramesTyped, EmptySeq DEF TypeOK, Boot
    <2> HIDE DEF b
    <2>3. Incoming(p)' = <<>> \o <<b>> \o <<>>
        BY <1>1, <1>2, <2>1, <2>2 DEF Incoming
    <2>4. <<b>> \in Seq(Frame) /\ <<>> \o <<b>> = <<b>> /\ <<b>> \o <<>> = <<b>> /\ Append(<<>>, b) = <<b>>
        <3>1. <<b>> \in Seq(Frame)
            BY <2>2
        <3> QED BY <2>2, <3>1, ConcatEmptySeq, AppendIsConcat
    <2>5. Incoming(p)' = Append(<<>>, b)
        BY <2>3, <2>4
    <2>6. Heard(NoView, Append(<<>>, b)) = Apply(NoView, b)
        <3>1. Heard(NoView, <<>>) = NoView
            BY HeardNothing
        <3>2. Heard(NoView, Append(<<>>, b)) = Apply(Heard(NoView, <<>>), b)
            BY <2>2, HeardMore, Zenon
        <3> QED BY <3>1, <3>2
    <2>7. After(p)' = [peers |-> roster, shown |-> {}, rev |-> rev]
        BY <1>1, <2>1, <2>2, <2>5, <2>6 DEF After, Apply
    <2>8. CleanAt(p)'
        <3>1. Clean(NoView, <<>>)
            <4>1. Len(<<>>) = 0
                BY EmptySeq
            <4> QED BY <4>1 DEF Clean
        <3>2. Fits(Heard(NoView, <<>>), b)
            BY <2>2 DEF Fits
        <3>3. Clean(NoView, Append(<<>>, b))
            BY <2>2, <3>1, <3>2, CleanMore
        <3> QED BY <1>1, <2>1, <2>5, <3>3 DEF CleanAt
    <2>9. Agrees(p, After(p))'
        <3>1. announced'[p] = roster
            BY <1>1 DEF TypeOK
        <3> QED BY <1>1, <1>2, <2>7, <3>1 DEF Agrees
    <2> QED BY <1>3, <2>8, <2>9 DEF Informed
<1>4. CASE q # p
    <2>1. q \in Followers /\ q \in Players /\ q \in roster
        BY <1>1, <1>2, <1>4 DEF Followers
    <2>2. Incoming(q)' = Incoming(q)
        BY <1>1, <1>2, <1>4, <2>1 DEF Incoming, TypeOK
    <2>3. Keeps(q)
        BY <1>1, <2>2, KeepsIt
    <2> PICK known : known = After(q)
        OBVIOUS
    <2>4. After(q)' = known /\ CleanAt(q)' /\ Agrees(q, known) /\ known \in View
        BY <2>1, <2>3, IncomingTyped DEF Keeps, ClientsInv, Informed
    <2>5. p \notin known.peers /\ announced'[q] = announced[q] /\ p \notin announced[q]
        BY <1>1, <1>2, <1>4, <2>1, <2>4 DEF Agrees, ClientsInv, Settled, TypeOK
    <2>6. known.peers \subseteq Players /\ known.shown \subseteq Players
        BY <2>4 DEF View
    <2>7. Agrees(q, After(q))'
        BY <1>1, <1>2, <2>1, <2>4, <2>5, <2>6 DEF Agrees
    <2> QED BY <2>4, <2>7 DEF Informed
<1> QED BY <1>3, <1>4

LEMMA AnnounceInformed ==
    ASSUME TypeOK, ClientsInv, NEW p \in Players, Announce(p), NEW q \in Followers'
    PROVE  Informed(q)'
<1> DEFINE to == {r \in roster \ {p} : p \notin announced[r]}
           joined == About("Joined", {p})
<1>1. /\ stage[p] = "live" /\ Goes(p, "looping") /\ Broadcast(joined, to)
      /\ announced' = [r \in Players |-> announced[r] \ {p}]
      /\ UNCHANGED <<roster, ready, boot, rev, visible, view>>
    BY DEF Announce, worldVars
<1>2. /\ stage'[p] = "looping" /\ \A r \in Players : r # p => stage'[r] = stage[r]
      /\ p \in roster /\ roster \subseteq Players
    BY <1>1 DEF Goes, TypeOK
<1>3. /\ joined \in Frame /\ joined.kind = "Joined" /\ joined.who = {p}
      /\ to \in SUBSET roster
    BY FramesTyped DEF About
<1>4. \A r \in Players : stage'[r] = "placed" <=> stage[r] = "placed"
    BY <1>1, <1>2
<1>5. \A r : r \in to <=> r \in roster /\ r # p /\ p \notin announced[r]
    OBVIOUS
<1> HIDE DEF to, joined
<1>6. q \in Followers /\ (q \in to => Takes(q, joined)) /\ (q \notin to => Keeps(q))
    BY <1>1, <1>3, <1>4, BroadcastHeard DEF ClientsInv
<1>7. q \in Players /\ q \in roster
    BY <1>2, <1>6 DEF Followers
<1> PICK known : known = After(q)
    OBVIOUS
<1>8. /\ Agrees(q, known) /\ CleanAt(q) /\ known \in View
      /\ known.peers \subseteq Players /\ known.shown \subseteq Players
    <2>1. Agrees(q, known) /\ CleanAt(q) /\ known \in View
        BY <1>6, <1>7, IncomingTyped DEF ClientsInv, Informed
    <2> QED BY <2>1 DEF View
<1>9. announced'[q] = announced[q] \ {p}
    BY <1>1, <1>7
<1>10. CASE q \in to
    <2>1. p \notin known.peers
        BY <1>1, <1>2, <1>5, <1>8, <1>10 DEF Agrees
    <2>2. Fits(known, joined)
        BY <1>3, <2>1 DEF Fits
    <2>3. After(q)' = [known EXCEPT !.peers = @ \cup {p}] /\ CleanAt(q)'
        BY <1>3, <1>6, <1>8, <1>10, <2>2 DEF Takes, Apply
    <2>4. /\ After(q)'.rev = known.rev /\ After(q)'.peers = known.peers \cup {p}
          /\ After(q)'.shown = known.shown
        BY <1>8, <2>3 DEF View
    <2>5. Agrees(q, After(q))'
        BY <1>1, <1>2, <1>5, <1>8, <1>9, <1>10, <2>4 DEF Agrees
    <2> QED BY <2>3, <2>5 DEF Informed
<1>11. CASE q \notin to
    <2>1. After(q)' = known /\ CleanAt(q)'
        BY <1>6, <1>8, <1>11 DEF Keeps
    <2>2. q = p \/ p \in announced[q]
        BY <1>5, <1>7, <1>11
    <2>3. Agrees(q, After(q))'
        BY <1>1, <1>2, <1>8, <1>9, <2>1, <2>2 DEF Agrees
    <2> QED BY <2>1, <2>3 DEF Informed
<1> QED BY <1>10, <1>11

LEMMA RemoveInformed ==
    ASSUME TypeOK, ClientsInv, NEW p \in Players, RemovePlayer(p), NEW q \in Followers'
    PROVE  Informed(q)'
<1>1. /\ Goes(p, "removed")
      /\ roster' = roster \ {p} /\ kicked' = kicked \ {p}
      /\ announced' = [r \in Players |-> IF r = p THEN {} ELSE announced[r] \ {p}]
      /\ visible' = [r \in Players |-> IF r = p THEN {} ELSE visible[r] \ {p}]
      /\ backlog' = [backlog EXCEPT ![p] = <<>>]
      /\ stream' = [stream EXCEPT ![p] = <<>>]
      /\ view' = [view EXCEPT ![p] = NoView]
      /\ UNCHANGED <<boot, rev>>
    BY DEF RemovePlayer
<1>2. /\ stage'[p] = "removed" /\ \A r \in Players : r # p => stage'[r] = stage[r]
      /\ roster \subseteq Players
    BY <1>1 DEF Goes, TypeOK
<1>3. q # p /\ q \in Followers /\ q \in roster /\ q \in Players
    BY <1>1, <1>2 DEF Followers
<1>4. Keeps(q)
    <2>1. stream'[q] = stream[q] /\ backlog'[q] = backlog[q] /\ view'[q] = view[q] /\ stage'[q] = stage[q]
        BY <1>1, <1>2, <1>3 DEF TypeOK
    <2>2. Incoming(q)' = Incoming(q)
        BY <1>1, <2>1 DEF Incoming
    <2> QED BY <2>1, <2>2, KeepsIt
<1> PICK known : known = After(q)
    OBVIOUS
<1>5. Agrees(q, known) /\ CleanAt(q) /\ known \in View
    BY <1>3, IncomingTyped DEF ClientsInv, Informed
<1>6. known.peers \subseteq Players /\ known.shown \subseteq Players
    BY <1>5 DEF View
<1>7. After(q)' = known /\ CleanAt(q)'
    BY <1>4, <1>5 DEF Keeps
<1>8. announced'[q] = announced[q] \ {p} /\ visible'[q] = visible[q] \ {p}
    BY <1>1, <1>3
<1>9. Agrees(q, After(q))'
    BY <1>1, <1>2, <1>3, <1>5, <1>6, <1>7, <1>8 DEF Agrees
<1> QED BY <1>7, <1>9 DEF Informed

LEMMA FarewellInformed ==
    ASSUME TypeOK, ClientsInv, NEW p \in Players, Farewell(p), NEW q \in Followers'
    PROVE  Informed(q)'
<1> DEFINE left == About("Left", {p})
<1>1. /\ stage[p] = "removed" /\ Goes(p, "gone") /\ Broadcast(left, roster)
      /\ UNCHANGED <<roster, ready, announced, boot, rev, visible, view>>
    BY DEF Farewell, worldVars
<1>2. /\ stage'[p] = "gone" /\ \A r \in Players : r # p => stage'[r] = stage[r]
      /\ p \notin roster /\ roster \subseteq Players
    BY <1>1 DEF Goes, TypeOK
<1>3. left \in Frame /\ left.kind = "Left" /\ left.who = {p} /\ roster \in SUBSET roster
    BY FramesTyped DEF About
<1>4. \A r \in Players : stage'[r] = "placed" <=> stage[r] = "placed"
    BY <1>1, <1>2
<1> HIDE DEF left
<1>5. q \in Followers /\ (q \in roster => Takes(q, left))
    BY <1>1, <1>3, <1>4, BroadcastHeard DEF ClientsInv
<1>6. q \in roster /\ q \in Players
    BY <1>2, <1>5 DEF Followers
<1> PICK known : known = After(q)
    OBVIOUS
<1>7. Agrees(q, known) /\ CleanAt(q) /\ known \in View
    BY <1>5, <1>6, IncomingTyped DEF ClientsInv, Informed
<1>8. known.peers \subseteq Players /\ known.shown \subseteq Players
    BY <1>7 DEF View
<1>9. After(q)' = [known EXCEPT !.peers = @ \ {p}, !.shown = @ \ {p}] /\ CleanAt(q)'
    BY <1>3, <1>5, <1>6, <1>7 DEF Takes, Apply, Fits
<1>10. /\ After(q)'.rev = known.rev /\ After(q)'.peers = known.peers \ {p}
       /\ After(q)'.shown = known.shown \ {p}
    BY <1>7, <1>9 DEF View
<1>11. Agrees(q, After(q))'
    BY <1>1, <1>2, <1>6, <1>7, <1>8, <1>10 DEF Agrees
<1> QED BY <1>9, <1>11 DEF Informed

LEMMA CommitInformed ==
    ASSUME TypeOK, ClientsInv, Commit, NEW q \in Followers'
    PROVE  Informed(q)'
<1> DEFINE edited == Edited(rev + 1)
<1>1. /\ rev' = rev + 1 /\ Broadcast(edited, roster)
      /\ UNCHANGED <<stage, roster, ready, announced, boot, visible, view>>
    BY DEF Commit
<1>2. /\ edited \in Frame /\ edited.kind = "Edit" /\ edited.rev = rev + 1 /\ rev \in Nat
      /\ roster \in SUBSET roster /\ roster \subseteq Players
    BY DEF Edited, Frame, TypeOK
<1> HIDE DEF edited
<1>3. q \in Followers /\ (q \in roster => Takes(q, edited))
    BY <1>1, <1>2, BroadcastHeard DEF ClientsInv
<1>4. q \in roster /\ q \in Players
    BY <1>2, <1>3 DEF Followers
<1> PICK known : known = After(q)
    OBVIOUS
<1>5. Agrees(q, known) /\ CleanAt(q) /\ known \in View
    BY <1>3, <1>4, IncomingTyped DEF ClientsInv, Informed
<1>6. known.rev = rev
    BY <1>5 DEF Agrees
<1>7. Fits(known, edited)
    BY <1>2, <1>6 DEF Fits
<1>8. After(q)' = [known EXCEPT !.rev = rev + 1] /\ CleanAt(q)'
    BY <1>2, <1>3, <1>4, <1>5, <1>6, <1>7 DEF Takes, Apply
<1>9. /\ After(q)'.rev = rev + 1 /\ After(q)'.peers = known.peers /\ After(q)'.shown = known.shown
    BY <1>5, <1>8 DEF View
<1>10. Agrees(q, After(q))'
    BY <1>1, <1>5, <1>9 DEF Agrees
<1> QED BY <1>8, <1>10 DEF Informed

\* What p draws may change, as long as it is in range or on its way out.
LEMMA SeenInformed ==
    ASSUME NEW q \in Followers, Informed(q), CleanAt(q)',
           UNCHANGED <<stage, roster, announced, rev>>,
           After(q)'.rev = After(q).rev, After(q)'.peers = After(q).peers,
           \A r \in After(q)'.shown : r \in visible'[q] \/ stage[r] = "removed"
    PROVE  Informed(q)'
<1> PICK known : known = After(q)
    OBVIOUS
<1> PICK next : next = After(q)'
    OBVIOUS
<1>1. Agrees(q, known)
    BY DEF Informed
<1>2. Agrees(q, next)'
    BY <1>1 DEF Agrees
<1>3. Agrees(q, After(q))'
    BY <1>2 DEF Agrees
<1> QED BY <1>3 DEF Informed

LEMMA MoveInformed ==
    ASSUME TypeOK, InterestMutual, ClientsInv, NEW p \in Players, NEW to \in Places, Move(p, to),
           NEW q \in Followers'
    PROVE  Informed(q)'
<1> DEFINE near == InRange(p, to)
           left == visible[p] \ near
           fresh == near \ visible[p]
           out == About("Exited", left)
           in == About("Poses", fresh)
           mine == (IF left = {} THEN <<>> ELSE <<out>>) \o (IF fresh = {} THEN <<>> ELSE <<in>>)
           sends == [r \in Players |->
                       IF r = p THEN mine
                       ELSE IF r \in left THEN <<About("Exited", {p})>>
                       ELSE IF r \in fresh THEN <<About("Poses", {p})>>
                       ELSE <<>>]
<1>1. /\ stage[p] = "looping"
      /\ visible' = [r \in Players |->
                IF r = p THEN near
                ELSE IF r \in left THEN visible[r] \ {p}
                ELSE IF r \in fresh THEN visible[r] \cup {p}
                ELSE visible[r]]
      /\ Queue(sends)
      /\ UNCHANGED <<stage, joining, roster, ready, announced, boot, backlog, rev, view>>
    BY DEF Move
<1>2. near \in SUBSET Players /\ left \in SUBSET Players /\ fresh \in SUBSET Players
      /\ left \subseteq visible[p] /\ visible[p] \subseteq left \cup near /\ fresh \subseteq near
    BY DEF InRange, TypeOK
<1>3. p \in ready /\ left \subseteq ready /\ fresh \subseteq ready
    <2>1. p \in ready /\ near \subseteq ready
        BY <1>1 DEF InRange, TypeOK
    <2>2. visible[p] \subseteq ready
        BY DEF InterestMutual
    <2> QED BY <2>1, <2>2
<1>4. \A kind \in {"Exited", "Poses"}, who \in SUBSET Players :
        /\ Plain(About(kind, who)) /\ About(kind, who) \in Frame
        /\ About(kind, who).kind = kind /\ About(kind, who).who = who
    <2> SUFFICES ASSUME NEW kind \in {"Exited", "Poses"}, NEW who \in SUBSET Players
                 PROVE  /\ Plain(About(kind, who)) /\ About(kind, who) \in Frame
                        /\ About(kind, who).kind = kind /\ About(kind, who).who = who
        OBVIOUS
    <2>1. About(kind, who) \in Frame
        BY FramesTyped
    <2> QED BY <2>1 DEF Plain, About
<1>5. /\ Plain(out) /\ out \in Frame /\ out.kind = "Exited" /\ out.who = left
      /\ Plain(in) /\ in \in Frame /\ in.kind = "Poses" /\ in.who = fresh
    <2> HIDE DEF left, fresh
    <2> QED BY <1>2, <1>4
<1> HIDE DEF near, left, fresh, out, in
<1>6. /\ left = {} /\ fresh = {} => mine = <<>>
      /\ left # {} /\ fresh = {} => mine = <<out>>
      /\ left = {} /\ fresh # {} => mine = <<in>>
      /\ left # {} /\ fresh # {} => mine = <<out, in>>
    <2>1. <<out>> \in Seq(Frame) /\ <<in>> \in Seq(Frame) /\ <<>> \in Seq(Frame)
        BY <1>5, EmptySeq
    <2>2. <<out>> \o <<>> = <<out>> /\ <<>> \o <<in>> = <<in>> /\ <<>> \o <<>> = <<>>
        BY <2>1, ConcatEmptySeq
    <2>3. <<out>> \o <<in>> = <<out, in>>
        BY <1>5, Pair
    <2> QED BY <2>2, <2>3
<1>7. mine \in Seq(Frame)
    <2>1. <<out>> \in Seq(Frame) /\ <<in>> \in Seq(Frame) /\ <<out, in>> \in Seq(Frame) /\ <<>> \in Seq(Frame)
        BY <1>5, EmptySeq
    <2> HIDE DEF mine
    <2> QED BY <1>6, <2>1
<1> HIDE DEF mine
<1>8. sends \in [Players -> Seq(Frame)]
    <2>1. <<About("Exited", {p})>> \in Seq(Frame) /\ <<About("Poses", {p})>> \in Seq(Frame)
          /\ <<>> \in Seq(Frame)
        <3>1. About("Exited", {p}) \in Frame /\ About("Poses", {p}) \in Frame
            BY <1>4
        <3> QED BY <3>1, EmptySeq
    <2> QED BY <1>7, <2>1
<1>9. \A r \in Players : sends[r] # <<>> => r \in ready
    BY <1>3
<1>10. /\ sends[p] = mine
       /\ \A r \in Players : /\ r # p /\ r \in left => sends[r] = <<About("Exited", {p})>>
                             /\ r # p /\ r \notin left /\ r \in fresh => sends[r] = <<About("Poses", {p})>>
                             /\ r # p /\ r \notin left /\ r \notin fresh => sends[r] = <<>>
    OBVIOUS
<1> HIDE DEF sends
<1>11. /\ q \in Followers
       /\ sends[q] = <<>> => Keeps(q)
       /\ \A m \in Frame : sends[q] = <<m>> => Takes(q, m)
       /\ \A l, m : sends[q] = <<l, m>> /\ Plain(l) /\ Plain(m) =>
            /\ After(q)' = Apply(Apply(After(q), l), m)
            /\ CleanAt(q) => CleanAt(q)'
    BY <1>1, <1>8, <1>9, QueueHeard DEF ClientsInv
<1>12. q \in Players
    BY <1>11 DEF Followers, TypeOK
<1> PICK known : known = After(q)
    OBVIOUS
<1>13. Informed(q) /\ Agrees(q, known) /\ CleanAt(q) /\ known \in View
    BY <1>11, <1>12, IncomingTyped DEF ClientsInv, Informed
<1>14. \A m : Plain(m) => Fits(known, m)
    BY DEF Plain, Fits
<1>15. \A r \in known.shown : r \in visible[q] \/ stage[r] = "removed"
    BY <1>13 DEF Agrees
<1>16. \A v \in View, m \in Frame :
        /\ m.kind = "Exited" => /\ Apply(v, m).rev = v.rev /\ Apply(v, m).peers = v.peers
                                /\ Apply(v, m).shown = v.shown \ m.who
        /\ m.kind = "Poses"  => /\ Apply(v, m).rev = v.rev /\ Apply(v, m).peers = v.peers
                                /\ Apply(v, m).shown \subseteq v.shown \cup m.who
    BY DEF Apply, View
<1>17. /\ CleanAt(q)' /\ After(q)'.rev = known.rev /\ After(q)'.peers = known.peers
       /\ \A r \in After(q)'.shown : r \in visible'[q] \/ stage[r] = "removed"
    <2>1. CASE q = p
        <3>1. visible'[p] = near
            BY <1>1, <1>12, <2>1
        <3>2. CASE left = {} /\ fresh = {}
            <4>1. After(q)' = known /\ CleanAt(q)'
                BY <1>6, <1>10, <1>11, <1>13, <2>1, <3>2 DEF Keeps
            <4> QED BY <1>2, <1>15, <2>1, <3>1, <3>2, <4>1
        <3>3. CASE left # {} /\ fresh = {}
            <4>1. After(q)' = Apply(known, out) /\ CleanAt(q)'
                BY <1>5, <1>6, <1>10, <1>11, <1>13, <1>14, <2>1, <3>3 DEF Takes
            <4> QED BY <1>2, <1>5, <1>13, <1>15, <1>16, <2>1, <3>1, <4>1
        <3>4. CASE left = {} /\ fresh # {}
            <4>1. After(q)' = Apply(known, in) /\ CleanAt(q)'
                BY <1>5, <1>6, <1>10, <1>11, <1>13, <1>14, <2>1, <3>4 DEF Takes
            <4> QED BY <1>2, <1>5, <1>13, <1>15, <1>16, <2>1, <3>1, <3>4, <4>1
        <3>5. CASE left # {} /\ fresh # {}
            <4>1. After(q)' = Apply(Apply(known, out), in) /\ CleanAt(q)'
                BY <1>5, <1>6, <1>10, <1>11, <1>13, <2>1, <3>5
            <4> PICK half : half = Apply(known, out)
                OBVIOUS
            <4>2. half \in View /\ half.rev = known.rev /\ half.peers = known.peers
                  /\ half.shown = known.shown \ left
                BY <1>5, <1>13, <1>16, ApplyTyped
            <4>3. /\ After(q)'.rev = half.rev /\ After(q)'.peers = half.peers
                  /\ After(q)'.shown \subseteq half.shown \cup fresh
                BY <1>5, <1>16, <4>1, <4>2
            <4> QED BY <1>2, <1>15, <2>1, <3>1, <4>1, <4>2, <4>3
        <3> QED BY <3>2, <3>3, <3>4, <3>5
    <2>2. CASE q # p /\ q \in left
        <3>1. visible'[q] = visible[q] \ {p} /\ sends[q] = <<About("Exited", {p})>>
            BY <1>1, <1>10, <1>12, <2>2
        <3> PICK m : m = About("Exited", {p})
            OBVIOUS
        <3>2. m \in Frame /\ Plain(m) /\ m.kind = "Exited" /\ m.who = {p}
            BY <1>4
        <3>3. After(q)' = Apply(known, m) /\ CleanAt(q)'
            BY <1>11, <1>13, <1>14, <3>1, <3>2 DEF Takes
        <3>4. /\ Apply(known, m).rev = known.rev /\ Apply(known, m).peers = known.peers
              /\ Apply(known, m).shown = known.shown \ {p}
            BY ZenonT(60), <1>13, <1>16, <3>2
        <3> QED BY <1>15, <3>1, <3>3, <3>4
    <2>3. CASE q # p /\ q \notin left /\ q \in fresh
        <3>1. visible'[q] = visible[q] \cup {p} /\ sends[q] = <<About("Poses", {p})>>
            BY <1>1, <1>10, <1>12, <2>3
        <3> PICK m : m = About("Poses", {p})
            OBVIOUS
        <3>2. m \in Frame /\ Plain(m) /\ m.kind = "Poses" /\ m.who = {p}
            BY <1>4
        <3>3. After(q)' = Apply(known, m) /\ CleanAt(q)'
            BY <1>11, <1>13, <1>14, <3>1, <3>2 DEF Takes
        <3>4. /\ Apply(known, m).rev = known.rev /\ Apply(known, m).peers = known.peers
              /\ Apply(known, m).shown \subseteq known.shown \cup {p}
            BY <1>13, <1>16, <3>2
        <3> QED BY <1>15, <3>1, <3>3, <3>4
    <2>4. CASE q # p /\ q \notin left /\ q \notin fresh
        <3>1. visible'[q] = visible[q] /\ sends[q] = <<>>
            BY <1>1, <1>10, <1>12, <2>4
        <3>2. After(q)' = known /\ CleanAt(q)'
            BY <1>11, <1>13, <3>1 DEF Keeps
        <3> QED BY <1>15, <3>1, <3>2
    <2> QED BY <2>1, <2>2, <2>3, <2>4
<1> QED BY <1>1, <1>11, <1>13, <1>17, SeenInformed

LEMMA PoseTickInformed ==
    ASSUME TypeOK, ClientsInv, PoseTick, NEW q \in Followers'
    PROVE  Informed(q)'
<1> DEFINE sends == [r \in Players |->
                       IF r \in ready /\ visible[r] \cap moved # {}
                       THEN <<About("Poses", visible[r] \cap moved)>> ELSE <<>>]
<1>1. /\ Queue(sends)
      /\ UNCHANGED <<stage, joining, roster, ready, announced, boot, backlog, visible, rev, view>>
    BY DEF PoseTick
<1>2. \A r \in Players : /\ About("Poses", visible[r] \cap moved) \in Frame
                         /\ About("Poses", visible[r] \cap moved).kind = "Poses"
                         /\ About("Poses", visible[r] \cap moved).who \subseteq visible[r]
    <2> SUFFICES ASSUME NEW r \in Players
                 PROVE  /\ About("Poses", visible[r] \cap moved) \in Frame
                        /\ About("Poses", visible[r] \cap moved).kind = "Poses"
                        /\ About("Poses", visible[r] \cap moved).who \subseteq visible[r]
        OBVIOUS
    <2>1. About("Poses", visible[r] \cap moved) \in Frame
        BY FramesTyped DEF TypeOK
    <2> QED BY <2>1 DEF About
<1>3. sends \in [Players -> Seq(Frame)]
    <2>1. \A f \in Frame : <<f>> \in Seq(Frame)
        OBVIOUS
    <2> QED BY <1>2, <2>1, EmptySeq
<1>4. \A r \in Players : /\ sends[r] # <<>> => r \in ready
                         /\ sends[r] = <<>> \/ sends[r] = <<About("Poses", visible[r] \cap moved)>>
    OBVIOUS
<1> HIDE DEF sends
<1>5. /\ q \in Followers
      /\ sends[q] = <<>> => Keeps(q)
      /\ \A m \in Frame : sends[q] = <<m>> => Takes(q, m)
    BY <1>1, <1>3, <1>4, QueueHeard DEF ClientsInv
<1>6. q \in Players
    BY <1>5 DEF Followers, TypeOK
<1> PICK known : known = After(q)
    OBVIOUS
<1>7. Informed(q) /\ Agrees(q, known) /\ CleanAt(q) /\ known \in View
    BY <1>5, <1>6, IncomingTyped DEF ClientsInv, Informed
<1>8. \A r \in known.shown : r \in visible[q] \/ stage[r] = "removed"
    BY <1>7 DEF Agrees
<1>9. /\ CleanAt(q)' /\ After(q)'.rev = known.rev /\ After(q)'.peers = known.peers
      /\ \A r \in After(q)'.shown : r \in visible'[q] \/ stage[r] = "removed"
    <2>1. CASE sends[q] = <<>>
        BY <1>1, <1>5, <1>7, <1>8, <2>1 DEF Keeps
    <2>2. CASE sends[q] = <<About("Poses", visible[q] \cap moved)>>
        <3> PICK m : m = About("Poses", visible[q] \cap moved)
            OBVIOUS
        <3>1. m \in Frame /\ m.kind = "Poses" /\ m.who \subseteq visible[q]
            BY <1>2, <1>6
        <3>2. After(q)' = Apply(known, m) /\ CleanAt(q)'
            BY <1>5, <1>7, <2>2, <3>1 DEF Takes, Fits
        <3>3. /\ Apply(known, m).rev = known.rev /\ Apply(known, m).peers = known.peers
              /\ Apply(known, m).shown \subseteq known.shown \cup m.who
            BY <1>7, <3>1 DEF Apply, View
        <3> QED BY <1>1, <1>8, <3>1, <3>2, <3>3
    <2> QED BY <1>4, <1>6, <2>1, <2>2
<1> QED BY <1>1, <1>5, <1>7, <1>9, SeenInformed

\* Hearing the first frame leaves what will be known as it was.
LEMMA HearKeeps ==
    ASSUME TypeOK, NEW p \in Players, Hear(p)
    PROVE  Keeps(p)
<1> DEFINE rest == IF stage[p] = "placed" THEN <<boot[p]>> ELSE <<>>
<1>1. /\ stream[p] # <<>> /\ view'[p] = Apply(view[p], Head(stream[p]))
      /\ stream'[p] = Tail(stream[p])
      /\ UNCHANGED <<stage, boot, backlog>>
    BY DEF Hear, joinVars, TypeOK
<1>2. stream[p] \in Seq(Frame) /\ backlog[p] \in Seq(Frame)
    BY DEF TypeOK
<1>3. rest \in Seq(Frame)
    <2>1. boot[p] \in Frame /\ <<>> \in Seq(Frame)
        BY EmptySeq DEF TypeOK
    <2>2. \A f \in Frame : <<f>> \in Seq(Frame)
        OBVIOUS
    <2> QED BY <2>1, <2>2
<1>4. Incoming(p) = stream[p] \o rest \o backlog[p] /\ Incoming(p)' = Tail(stream[p]) \o rest \o backlog[p]
    BY <1>1 DEF Incoming
<1> HIDE DEF rest
<1>5. /\ stream[p] \o rest \in Seq(Frame) /\ stream[p] \o rest # <<>>
      /\ Head(stream[p] \o rest) = Head(stream[p]) /\ Tail(stream[p] \o rest) = Tail(stream[p]) \o rest
    BY <1>1, <1>2, <1>3, FirstOfBoth
<1>6. /\ Incoming(p) # <<>>
      /\ Head(Incoming(p)) = Head(stream[p]) /\ Tail(Incoming(p)) = Incoming(p)'
    <2> PICK both : both = stream[p] \o rest
        OBVIOUS
    <2>1. both \o backlog[p] # <<>> /\ Head(both \o backlog[p]) = Head(both)
          /\ Tail(both \o backlog[p]) = Tail(both) \o backlog[p]
        BY <1>2, <1>5, FirstOfBoth
    <2> QED BY <1>4, <1>5, <2>1
<1>7. Incoming(p) \in Seq(Frame)
    BY IncomingTyped
<1> QED BY <1>1, <1>6, <1>7, HeardNext, CleanNext DEF Keeps, After, CleanAt

LEMMA HearInformed ==
    ASSUME TypeOK, ClientsInv, NEW p \in Players, Hear(p), NEW q \in Followers'
    PROVE  Informed(q)'
<1>1. /\ view' = [view EXCEPT ![p] = Apply(@, Head(stream[p]))]
      /\ stream' = [stream EXCEPT ![p] = Tail(@)]
      /\ UNCHANGED <<stage, roster, kicked, announced, boot, backlog, rev, visible>>
    BY DEF Hear, joinVars, worldVars
<1>2. q \in Followers /\ q \in Players
    BY <1>1 DEF Followers, TypeOK
<1>3. Keeps(q)
    <2>1. CASE q = p
        BY <2>1, HearKeeps
    <2>2. CASE q # p
        <3>1. stream'[q] = stream[q] /\ view'[q] = view[q]
            BY <1>1, <1>2, <2>2 DEF TypeOK
        <3>2. Incoming(q)' = Incoming(q)
            BY <1>1, <3>1 DEF Incoming
        <3> QED BY <3>1, <3>2, KeepsIt
    <2> QED BY <2>1, <2>2
<1>4. Informed(q) /\ \A r \in After(q).shown : r \in visible[q] \/ stage[r] = "removed"
    BY <1>2 DEF ClientsInv, Informed, Agrees
<1> PICK known : known = After(q)
    OBVIOUS
<1>5. After(q)' = known /\ CleanAt(q)'
    BY <1>3, <1>4 DEF Keeps, Informed
<1> QED BY <1>1, <1>2, <1>4, <1>5, SeenInformed

LEMMA ClientsStep ==
    ASSUME TypeOK, InterestMutual, ClientsInv, [Next]_vars
    PROVE  ClientsInv'
<1>1. Settled'
    BY SettledStep DEF ClientsInv
<1> SUFFICES ASSUME NEW q \in Followers' PROVE Informed(q)'
    BY <1>1 DEF ClientsInv
<1>2. CASE \E p \in Players : Reserve(p) \/ JoinStep(p) \/ LeaveStep(p) \/ Hear(p)
    <2> PICK p \in Players : Reserve(p) \/ JoinStep(p) \/ LeaveStep(p) \/ Hear(p)
        BY <1>2
    <2>1. CASE Reserve(p) \/ Abandon(p) \/ Bootstrap(p) \/ BootstrapFails(p) \/ GoLive(p)
        BY <2>1, JoinInformed
    <2>2. CASE Admit(p)
        BY <2>2, AdmitInformed
    <2>3. CASE Announce(p)
        BY <2>3, AnnounceInformed
    <2>4. CASE RemovePlayer(p)
        BY <2>4, RemoveInformed
    <2>5. CASE Farewell(p)
        BY <2>5, FarewellInformed
    <2>6. CASE Hear(p)
        BY <2>6, HearInformed
    <2> QED BY <2>1, <2>2, <2>3, <2>4, <2>5, <2>6 DEF JoinStep, LeaveStep
<1>3. CASE \E p \in Players, to \in Places : Move(p, to)
    BY <1>3, MoveInformed
<1>4. CASE Commit
    BY <1>4, CommitInformed
<1>5. CASE PoseTick
    BY <1>5, PoseTickInformed
<1>6. CASE UNCHANGED vars
    <2>1. Followers' = Followers /\ After(q)' = After(q)
        BY <1>6 DEF Followers, After, Incoming, vars, joinVars, worldVars, wireVars
    <2>2. CleanAt(q)' <=> CleanAt(q)
        BY <1>6 DEF CleanAt, Incoming, vars, joinVars, worldVars, wireVars
    <2>3. Informed(q)
        BY <2>1 DEF ClientsInv
    <2> QED BY <1>6, <2>1, <2>2, <2>3 DEF Informed, Agrees, vars, joinVars, worldVars, wireVars
<1> QED BY <1>2, <1>3, <1>4, <1>5, <1>6 DEF Next

(* Whatever is still on its way to it, a client the server owes every frame *)
(* will have made of them what the server says: that is kept by every step  *)
(* of a join, a departure, a commit, a move and a pose tick (State::admit,  *)
(* send_join, finish_join, remove_player, broadcast_frame, commit_pose).    *)
THEOREM ClientsInformed == Spec => []ClientsInv
<1>1. Init => ClientsInv
    BY DEF Init, ClientsInv, Settled, Followers
<1>2. TypeOK /\ InterestMutual /\ ClientsInv /\ [Next]_vars => ClientsInv'
    BY ClientsStep
<1> QED BY <1>1, <1>2, TypeCorrect, InterestHolds, PTL DEF Spec

LEMMA IncomingNumbered ==
    ASSUME TypeOK, NEW p \in Followers, Informed(p), NEW i \in 1 .. Len(Incoming(p))
    PROVE  Fits(Before(p, i), Incoming(p)[i])
BY DEF Informed, CleanAt, Clean, Before

(* A client's edits start from the overlay it was admitted with and miss or *)
(* repeat none after it, though it was admitted, sent its overlay and made  *)
(* ready in three holds of the lock with commits between them (State::admit,*)
(* send_join, finish_join, enqueue_backlog).                                *)
THEOREM JoinersCaughtUp == Spec => []JoinerMissesNothing
<1>1. TypeOK /\ ClientsInv => JoinerMissesNothing
    <2> SUFFICES ASSUME TypeOK, ClientsInv, NEW p \in Followers
                 PROVE  /\ After(p).rev = rev
                        /\ \A i \in 1 .. Len(Incoming(p)) :
                            Incoming(p)[i].kind = "Edit" =>
                                Before(p, i).rev + 1 = Incoming(p)[i].rev
        BY DEF JoinerMissesNothing
    <2>1. Informed(p)
        BY DEF ClientsInv
    <2>2. After(p).rev = rev
        BY <2>1 DEF Informed, Agrees
    <2> QED BY <2>1, <2>2, IncomingNumbered DEF Fits
<1> QED BY <1>1, TypeCorrect, ClientsInformed, PTL

(* A client ends up with just the players on the roster that were announced,*)
(* to all or to it in its join roster, and those whose PeerLeft is about to *)
(* go out: joins and departures that overlap neither lose nor leave a peer  *)
(* (State::admit, finish_join, remove_player).                              *)
THEOREM RostersAgree == Spec => []RosterAgrees
<1>1. TypeOK /\ ClientsInv => RosterAgrees
    <2> SUFFICES ASSUME TypeOK, ClientsInv, NEW p \in Followers
                 PROVE  /\ After(p).peers \cap roster
                            = {q \in roster \ {p} : stage[q] = "looping" \/ q \in announced[p]}
                        /\ \A q \in After(p).peers \ roster : stage[q] = "removed"
        BY DEF RosterAgrees
    <2>1. Agrees(p, After(p))
        BY DEF ClientsInv, Informed
    <2> QED BY <2>1 DEF Agrees
<1> QED BY <1>1, TypeCorrect, ClientsInformed, PTL

(* No client is told that a player joined whom it already counts as a peer: *)
(* those who had it in their join roster are passed over                    *)
(* (PlayerHandle::announced, finish_join).                                  *)
THEOREM ToldOnce == Spec => []HeardOnce
<1>1. TypeOK /\ ClientsInv => HeardOnce
    BY IncomingNumbered DEF ClientsInv, HeardOnce, Fits
<1> QED BY <1>1, TypeCorrect, ClientsInformed, PTL

(* No client keeps drawing a player who went out of range, whatever moves,  *)
(* pose ticks and joins are on their way to it at once; one that left is    *)
(* drawn until its PeerLeft (commit_pose, broadcast_poses, remove_player).  *)
THEOREM GhostFree == Spec => []NoGhosts
<1>1. ClientsInv => NoGhosts
    BY DEF ClientsInv, Informed, Agrees, NoGhosts
<1> QED BY <1>1, ClientsInformed, PTL
=============================================================================
