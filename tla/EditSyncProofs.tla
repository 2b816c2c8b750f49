--------------------------- MODULE EditSyncProofs ---------------------------
(***************************************************************************)
(* What holds of EditSync for any number of clients, cells, blocks and     *)
(* requests: its types, that every commit sits on the revision it          *)
(* expected, that no client is ahead of the ledger, that the whole         *)
(* protocol implements CellHistory, that the spec pool holds, that streams *)
(* are in commit order, that verdicts are true, that nobody who stays      *)
(* misses a commit, and that failed predictions leave nothing behind.      *)
(***************************************************************************)
EXTENDS EditSync, TLAPS, SequenceTheorems, FiniteSetTheorems, WellFoundedInduction

-----------------------------------------------------------------------------
(* Facts about states of the right types.                                  *)

LEMMA LedgerRead ==
    ASSUME LedgerTypeOK, NEW c \in Cells
    PROVE  /\ log[c] \in Seq(Entry)
           /\ Rev(c) \in Nat
           /\ BlockAt(c) \in Blocks
<1>1. log[c] \in Seq(Entry)
  BY DEF LedgerTypeOK
<1>2. Len(log[c]) \in Nat /\ (log[c] # <<>> => Len(log[c]) \in 1 .. Len(log[c]))
  BY <1>1, EmptySeq
<1>3. log[c] # <<>> => log[c][Len(log[c])] \in Entry
  BY <1>1, <1>2, ElementOfSeq
<1>4. log[c] # <<>> => log[c][Len(log[c])].block \in Blocks
  BY <1>3 DEF Entry
<1>5. Generated[c] \in Blocks
  BY WireConstants DEF WireConstants
<1> QED
  BY <1>1, <1>2, <1>4, <1>5 DEF Rev, BlockAt

LEMMA RequestRead ==
    ASSUME WireTypeOK, NEW p \in Clients, toServer[p] # <<>>
    PROVE  /\ Head(toServer[p]) \in Request
           /\ Tail(toServer[p]) \in Seq(Request)
<1>1. toServer[p] \in Seq(Request)
  BY DEF WireTypeOK
<1> QED
  BY <1>1, HeadTailProperties

LEMMA FrameRead ==
    ASSUME WireTypeOK, NEW p \in Clients, toClient[p] # <<>>
    PROVE  /\ Head(toClient[p]) \in Frame
           /\ Tail(toClient[p]) \in Seq(Frame)
           /\ Len(Tail(toClient[p])) = Len(toClient[p]) - 1
           /\ Head(toClient[p]) = toClient[p][1]
           /\ \A i \in 1 .. Len(Tail(toClient[p])) : Tail(toClient[p])[i] = toClient[p][i + 1]
<1>1. toClient[p] \in Seq(Frame)
  BY DEF WireTypeOK
<1>2. Head(toClient[p]) = toClient[p][1]
  BY <1>1
<1> QED
  BY <1>1, <1>2, HeadTailProperties

LEMMA ContentTyped ==
    ASSUME NEW c \in Cells, NEW r \in Nat, NEW b \in Blocks
    PROVE  /\ Snapshot(c, r, b) \in Frame /\ Snapshot(c, r, b).cell = c /\ Snapshot(c, r, b).rev = r
           /\ EditMsg(c, r, b) \in Frame /\ EditMsg(c, r, b).cell = c /\ EditMsg(c, r, b).rev = r
<1>1. Snapshot(c, r, b) \in ContentFrame /\ EditMsg(c, r, b) \in ContentFrame
  BY DEF Snapshot, EditMsg, ContentFrame
<1> QED
  BY <1>1 DEF Frame, Snapshot, EditMsg

LEMMA AckTyped ==
    ASSUME NEW q \in Request, NEW ok \in BOOLEAN, NEW r \in Nat
    PROVE  EditAck(q, ok, r) \in Frame /\ EditAck(q, ok, r).cell = q.cell /\ EditAck(q, ok, r).rev = r
<1>1. EditAck(q, ok, r) \in AckFrame
  BY DEF EditAck, AckFrame, Request
<1> QED
  BY <1>1 DEF Frame, EditAck

LEMMA ToolTyped ==
    ASSUME NEW q \in Request, NEW ok \in BOOLEAN, NEW r \in Nat, NEW b \in Blocks
    PROVE  /\ ToolResult(q, ok, r, b) \in Frame
           /\ ToolResult(q, ok, r, b).cell = q.cell /\ ToolResult(q, ok, r, b).rev = r
<1>1. ToolResult(q, ok, r, b) \in ToolFrame
  BY DEF ToolResult, ToolFrame, Request
<1> QED
  BY <1>1 DEF Frame, ToolResult

LEMMA FrameFields ==
    ASSUME NEW m \in Frame
    PROVE  m.cell \in Cells /\ m.rev \in Nat
BY DEF Frame, ContentFrame, AckFrame, ToolFrame

-----------------------------------------------------------------------------
(* What a step does to the streams of the clients: nothing but append      *)
(* frames of a set G.                                                      *)

Adds(G) ==
    /\ toClient' \in [Clients -> Seq(Frame)]
    /\ \A q \in Clients : \A i \in 1 .. Len(toClient'[q]) :
        \/ i \in 1 .. Len(toClient[q]) /\ toClient'[q][i] = toClient[q][i]
        \/ toClient'[q][i] \in G

LEMMA AddsAppend ==
    ASSUME NEW s \in Seq(Frame), NEW m \in Frame
    PROVE  /\ Append(s, m) \in Seq(Frame)
           /\ \A i \in 1 .. Len(Append(s, m)) :
                \/ i \in 1 .. Len(s) /\ Append(s, m)[i] = s[i]
                \/ Append(s, m)[i] = m
OBVIOUS

LEMMA AddsConcat ==
    ASSUME NEW G \in SUBSET Frame, NEW s \in Seq(Frame), NEW t \in Seq(G)
    PROVE  /\ s \o t \in Seq(Frame)
           /\ \A i \in 1 .. Len(s \o t) :
                \/ i \in 1 .. Len(s) /\ (s \o t)[i] = s[i]
                \/ (s \o t)[i] \in G
<1>1. t \in Seq(Frame)
  BY SeqMonotonic
<1>2. /\ s \o t \in Seq(Frame)
      /\ Len(s \o t) = Len(s) + Len(t)
      /\ \A i \in 1 .. Len(s) + Len(t) : (s \o t)[i] = IF i <= Len(s) THEN s[i] ELSE t[i - Len(s)]
  BY <1>1, ConcatProperties
<1>3. \A i \in 1 .. Len(t) : t[i] \in G
  BY ElementOfSeq
<1>4. Len(s) \in Nat /\ Len(t) \in Nat
  OBVIOUS
<1> QED
  BY <1>2, <1>3, <1>4

LEMMA PublishAdds ==
    ASSUME WireTypeOK, NEW G \in SUBSET Frame, NEW p \in Clients,
           NEW mine \in Seq(G), NEW theirs \in G, NEW full \in SUBSET Clients,
           Publish(p, mine, theirs, full)
    PROVE  Adds(G) /\ kicked' = kicked \cup full
<1>1. \A q \in Clients : toClient[q] \in Seq(Frame)
  BY DEF WireTypeOK
<1>2. theirs \in Frame
  OBVIOUS
<1>3. SUFFICES ASSUME NEW q \in Clients
               PROVE  /\ toClient'[q] \in Seq(Frame)
                      /\ \A i \in 1 .. Len(toClient'[q]) :
                            \/ i \in 1 .. Len(toClient[q]) /\ toClient'[q][i] = toClient[q][i]
                            \/ toClient'[q][i] \in G
  BY DEF Publish, Adds
<1>4. \/ toClient'[q] = toClient[q]
      \/ toClient'[q] = toClient[q] \o mine
      \/ toClient'[q] = Append(toClient[q], theirs)
  BY DEF Publish
<1>5. CASE toClient'[q] = toClient[q]
  BY <1>1, <1>5
<1>6. CASE toClient'[q] = toClient[q] \o mine
  <2> DEFINE s == toClient[q]
  <2>1. s \in Seq(Frame)
    BY <1>1
  <2> HIDE DEF s
  <2>2. /\ s \o mine \in Seq(Frame)
        /\ \A i \in 1 .. Len(s \o mine) :
                \/ i \in 1 .. Len(s) /\ (s \o mine)[i] = s[i]
                \/ (s \o mine)[i] \in G
    BY <2>1, AddsConcat
  <2> QED
    BY <1>6, <2>2 DEF s
<1>7. CASE toClient'[q] = Append(toClient[q], theirs)
  <2> DEFINE s == toClient[q]
  <2>1. s \in Seq(Frame)
    BY <1>1
  <2> HIDE DEF s
  <2>2. /\ Append(s, theirs) \in Seq(Frame)
        /\ \A i \in 1 .. Len(Append(s, theirs)) :
                \/ i \in 1 .. Len(s) /\ Append(s, theirs)[i] = s[i]
                \/ Append(s, theirs)[i] = theirs
    BY <1>2, <2>1, AddsAppend
  <2> QED
    BY <1>7, <2>2 DEF s
<1> QED
  BY <1>4, <1>5, <1>6, <1>7

(* One more frame on one stream, or none.                                  *)
LEMMA AppendAdds ==
    ASSUME WireTypeOK, NEW m \in Frame, NEW R \in SUBSET Clients,
           toClient' = [q \in Clients |->
                IF q \in R THEN Append(toClient[q], m) ELSE toClient[q]]
    PROVE  Adds({m})
<1>1. SUFFICES ASSUME NEW q \in Clients
               PROVE  /\ toClient'[q] \in Seq(Frame)
                      /\ \A i \in 1 .. Len(toClient'[q]) :
                            \/ i \in 1 .. Len(toClient[q]) /\ toClient'[q][i] = toClient[q][i]
                            \/ toClient'[q][i] \in {m}
  BY DEF Adds
<1> DEFINE s == toClient[q]
<1>2. s \in Seq(Frame)
  BY DEF WireTypeOK
<1>3. toClient'[q] = s \/ toClient'[q] = Append(s, m)
  OBVIOUS
<1> HIDE DEF s
<1>4. /\ Append(s, m) \in Seq(Frame)
      /\ \A i \in 1 .. Len(Append(s, m)) :
            \/ i \in 1 .. Len(s) /\ Append(s, m)[i] = s[i]
            \/ Append(s, m)[i] = m
  BY <1>2, AddsAppend
<1> QED
  BY <1>2, <1>3, <1>4 DEF s

LEMMA AnswerAdds ==
    ASSUME WireTypeOK, NEW p \in Clients, NEW m \in Frame,
           AnswerOrLose(p, m) \/ AnswerOrKick(p, m)
    PROVE  Adds({m}) /\ kicked' \in SUBSET (kicked \cup {p})
<1>1. kicked' \in SUBSET (kicked \cup {p})
  BY DEF AnswerOrLose, AnswerOrKick
<1>2. toClient' = [toClient EXCEPT ![p] = Append(toClient[p], m)] \/ toClient' = toClient
  BY DEF AnswerOrLose, AnswerOrKick
<1>3. toClient \in [Clients -> Seq(Frame)]
  BY DEF WireTypeOK
<1>4. CASE toClient' = toClient
  <2>1. Adds({m})
    BY <1>3, <1>4 DEF Adds
  <2> QED
    BY <1>1, <2>1
<1>5. CASE toClient' = [toClient EXCEPT ![p] = Append(toClient[p], m)]
  <2>1. toClient' = [q \in Clients |-> IF q \in {p} THEN Append(toClient[q], m) ELSE toClient[q]]
    <3>1. toClient' = [q \in Clients |-> IF q = p THEN Append(toClient[q], m) ELSE toClient[q]]
      BY <1>3, <1>5, Zenon
    <3>2. \A q \in Clients : q = p <=> q \in {p}
      OBVIOUS
    <3> QED
      BY <3>1, <3>2, Zenon
  <2>2. Adds({m})
    BY <2>1, AppendAdds, {p} \in SUBSET Clients
  <2> QED
    BY <1>1, <2>2
<1> QED
  BY <1>2, <1>4, <1>5

-----------------------------------------------------------------------------
(* The inductive invariant: beside the types, every frame on its way and   *)
(* every revision a client has confirmed is of the ledger's past.          *)

FramesBehind ==
    \A p \in Clients : \A i \in 1 .. Len(toClient[p]) :
        toClient[p][i].rev <= Rev(toClient[p][i].cell)

KnownBehind == \A p \in Clients, c \in Cells : known[p][c] <= Rev(c)

IInv == TypeOK /\ FramesBehind /\ KnownBehind

-----------------------------------------------------------------------------
(* What a step does to the ledger: at most one commit on top of each cell, *)
(* a player's on the revision it expected.                                 *)

Extended(c) ==
    \E e \in Entry :
        /\ log'[c] = Append(log[c], e)
        /\ e.by = World \/ e.expect = Len(log[c])

LogStep ==
    /\ log' \in [Cells -> Seq(Entry)]
    /\ \A c \in Cells : log'[c] = log[c] \/ Extended(c)

LEMMA NoCommit ==
    ASSUME LedgerTypeOK, UNCHANGED log
    PROVE  LogStep
BY DEF LedgerTypeOK, LogStep

LEMMA LogStepGrows ==
    ASSUME LedgerTypeOK, LogStep, NEW c \in Cells
    PROVE  Rev(c) \in Nat /\ Rev(c)' \in Nat /\ Rev(c) <= Rev(c)'
<1>1. log[c] \in Seq(Entry) /\ log'[c] \in Seq(Entry)
  BY DEF LedgerTypeOK, LogStep
<1>2. Rev(c) \in Nat /\ Rev(c)' \in Nat
  BY <1>1 DEF Rev
<1>3. CASE log'[c] = log[c]
  BY <1>2, <1>3 DEF Rev
<1>4. CASE Extended(c)
  <2>1. PICK e \in Entry : log'[c] = Append(log[c], e)
    BY <1>4 DEF Extended
  <2>2. Len(log'[c]) = Len(log[c]) + 1
    BY <1>1, <2>1
  <2> QED
    BY <1>2, <2>2 DEF Rev
<1> QED
  BY <1>3, <1>4 DEF LogStep

LEMMA LogStepExpected ==
    ASSUME LedgerTypeOK, LogStep, CommitsAtExpected
    PROVE  CommitsAtExpected'
<1>1. SUFFICES ASSUME NEW c \in Cells, NEW i \in DOMAIN log'[c], log'[c][i].by # World
               PROVE  log'[c][i].expect = i - 1
  BY DEF CommitsAtExpected
<1>2. log[c] \in Seq(Entry)
  BY DEF LedgerTypeOK
<1>3. \A j \in DOMAIN log[c] : log[c][j].by # World => log[c][j].expect = j - 1
  BY DEF CommitsAtExpected
<1>4. CASE log'[c] = log[c]
  BY <1>1, <1>3, <1>4
<1>5. CASE Extended(c)
  <2>1. PICK e \in Entry : /\ log'[c] = Append(log[c], e)
                           /\ e.by = World \/ e.expect = Len(log[c])
    BY <1>5 DEF Extended
  <2>2. DOMAIN log[c] = 1 .. Len(log[c]) /\ DOMAIN log'[c] = 1 .. Len(log[c]) + 1 /\ Len(log[c]) \in Nat
    BY <1>2, <2>1
  <2>3. CASE i = Len(log[c]) + 1
    <3>1. log'[c][i] = e
      BY <1>2, <2>1, <2>3
    <3> QED
      BY <1>1, <2>1, <2>2, <2>3, <3>1
  <2>4. CASE i # Len(log[c]) + 1
    <3>1. i \in DOMAIN log[c]
      BY <2>2, <2>4
    <3>2. log'[c][i] = log[c][i]
      BY <1>2, <2>1, <3>1
    <3> QED
      BY <1>1, <1>3, <3>1, <3>2
  <2> QED
    BY <2>3, <2>4
<1> QED
  BY <1>4, <1>5 DEF LogStep

(* A player's write, after its last look at the revision. *)
LEMMA WriteStep ==
    ASSUME TypeOK, NEW p \in Clients, toServer[p] # <<>>, Current(p), NEW b \in Blocks,
           Write(p, Head(toServer[p]), b)
    PROVE  /\ LogStep
           /\ Len(log'[Head(toServer[p]).cell]) = Rev(Head(toServer[p]).cell) + 1
<1> DEFINE m == Head(toServer[p])
           e == [by |-> p, req |-> m.req, expect |-> m.expect, block |-> b]
<1>1. m \in Request
  BY RequestRead DEF TypeOK
<1>2. m.cell \in Cells /\ m.req \in Nat /\ m.expect \in Nat
  BY <1>1 DEF Request
<1>3. e \in Entry
  BY <1>2 DEF Entry
<1>4. log \in [Cells -> Seq(Entry)]
  BY DEF TypeOK, LedgerTypeOK
<1>5. log' = [log EXCEPT ![m.cell] = Append(log[m.cell], e)]
  BY DEF Write
<1>6. m.expect = Len(log[m.cell])
  BY DEF Current, Rev
<1>7. e.expect = m.expect
  OBVIOUS
<1> HIDE DEF m, e
<1>8. log[m.cell] \in Seq(Entry) /\ Append(log[m.cell], e) \in Seq(Entry)
  BY <1>2, <1>3, <1>4
<1>9. log' \in [Cells -> Seq(Entry)]
  BY <1>2, <1>4, <1>5, <1>8
<1>10. log'[m.cell] = Append(log[m.cell], e) /\ \A c \in Cells : c # m.cell => log'[c] = log[c]
  BY <1>2, <1>4, <1>5
<1>11. Extended(m.cell)
  BY <1>3, <1>6, <1>7, <1>10 DEF Extended
<1>12. LogStep
  BY <1>9, <1>10, <1>11 DEF LogStep
<1>13. Len(log'[m.cell]) = Rev(m.cell) + 1
  BY <1>3, <1>8, <1>10 DEF Rev
<1> QED
  BY <1>12, <1>13 DEF m

-----------------------------------------------------------------------------
(* The frames a step adds are behind the ledger it leaves.                 *)

Behind(G) == \A m \in G : m.rev <= Len(log'[m.cell])

LEMMA FramesStayBehind ==
    ASSUME TypeOK, FramesBehind, LogStep, NEW G \in SUBSET Frame, Adds(G), Behind(G)
    PROVE  FramesBehind'
<1>1. SUFFICES ASSUME NEW q \in Clients, NEW i \in 1 .. Len(toClient'[q])
               PROVE  toClient'[q][i].rev <= Len(log'[toClient'[q][i].cell])
  BY DEF FramesBehind, Rev
<1>2. CASE i \in 1 .. Len(toClient[q]) /\ toClient'[q][i] = toClient[q][i]
  <2> DEFINE m == toClient[q][i]
  <2>1. m \in Frame
    BY <1>2, ElementOfSeq DEF TypeOK, WireTypeOK
  <2>2. m.cell \in Cells /\ m.rev \in Nat
    BY <2>1, FrameFields
  <2>3. m.rev <= Rev(m.cell)
    BY <1>2 DEF FramesBehind
  <2> HIDE DEF m
  <2>4. \A c \in Cells : Rev(c) \in Nat /\ Len(log'[c]) \in Nat /\ Rev(c) <= Len(log'[c])
    BY LogStepGrows DEF TypeOK, Rev
  <2>5. m.rev <= Len(log'[m.cell])
    BY <2>2, <2>3, <2>4
  <2> QED
    BY <1>2, <2>5 DEF m
<1>3. CASE toClient'[q][i] \in G
  BY <1>3 DEF Behind
<1> QED
  BY <1>2, <1>3 DEF Adds

LEMMA KnownStaysBehind ==
    ASSUME TypeOK, KnownBehind, LogStep, UNCHANGED known
    PROVE  KnownBehind'
<1>1. SUFFICES ASSUME NEW p \in Clients, NEW c \in Cells
               PROVE  known[p][c] <= Rev(c)'
  BY DEF KnownBehind
<1>2. known[p][c] \in Nat
  BY DEF TypeOK, SessionTypeOK
<1> QED
  BY <1>2, LogStepGrows DEF TypeOK, KnownBehind

(* A server step keeps the invariant if it moves the ledger and the        *)
(* streams as LogStep and Adds allow and leaves the clients alone.         *)
LEMMA ServerStepKeeps ==
    ASSUME IInv, LogStep, NEW G \in SUBSET Frame, Adds(G), Behind(G), UNCHANGED sessionVars,
           connected' \in SUBSET Clients, toServer' \in [Clients -> Seq(Request)],
           kicked' \in SUBSET connected', tick' \in {"off", "turns", "sends"},
           phase' \in [Clients -> {"idle", "terrain", "hook", "refuse"}],
           touched' \in SUBSET Cells
    PROVE  IInv'
<1>1. TypeOK'
  <2>1. WireTypeOK'
    BY DEF WireTypeOK, Adds
  <2>2. LedgerTypeOK'
    BY DEF LedgerTypeOK, LogStep
  <2>3. SessionTypeOK'
    BY DEF IInv, TypeOK, SessionTypeOK, sessionVars
  <2> QED
    BY <2>1, <2>2, <2>3 DEF TypeOK
<1>2. FramesBehind'
  BY FramesStayBehind DEF IInv
<1>3. KnownBehind'
  BY KnownStaysBehind DEF IInv, sessionVars
<1> QED
  BY <1>1, <1>2, <1>3 DEF IInv

LEMMA DoneTypes ==
    ASSUME TypeOK, NEW p \in Clients, toServer[p] # <<>>, Done(p)
    PROVE  /\ toServer' \in [Clients -> Seq(Request)]
           /\ phase' \in [Clients -> {"idle", "terrain", "hook", "refuse"}]
           /\ connected' = connected
<1>1. Tail(toServer[p]) \in Seq(Request)
  BY RequestRead DEF TypeOK
<1> QED
  BY <1>1 DEF Done, TypeOK, WireTypeOK, LedgerTypeOK

-----------------------------------------------------------------------------
(* The actions of the server, one lemma each.                              *)

LEMMA ParkKeeps ==
    ASSUME IInv, NEW p \in Clients, NEW where \in {"terrain", "hook", "refuse"},
           Park(p, where), UNCHANGED sessionVars
    PROVE  IInv' /\ LogStep
<1>1. LogStep
  BY NoCommit DEF Park, IInv, TypeOK
<1>2. Adds({})
  BY DEF Park, wire, Adds, IInv, TypeOK, WireTypeOK
<1>3. Behind({})
  BY DEF Behind
<1>4. phase' \in [Clients -> {"idle", "terrain", "hook", "refuse"}]
  BY DEF Park, IInv, TypeOK, LedgerTypeOK
<1> QED
  BY <1>1, <1>2, <1>3, <1>4, ServerStepKeeps DEF Park, wire, IInv, TypeOK, WireTypeOK, LedgerTypeOK

(* An answer that commits nothing. *)
LEMMA AnswerKeeps ==
    ASSUME IInv, NEW p \in connected, toServer[p] # <<>>, NEW m \in Frame,
           m.rev <= Rev(m.cell), AnswerOrLose(p, m) \/ AnswerOrKick(p, m), Done(p),
           UNCHANGED <<log, tick, touched>>, UNCHANGED sessionVars
    PROVE  IInv' /\ LogStep
<1>1. p \in Clients
  BY DEF IInv, TypeOK, WireTypeOK
<1>2. LogStep
  BY NoCommit DEF IInv, TypeOK
<1>3. Adds({m}) /\ kicked' \in SUBSET (kicked \cup {p})
  BY <1>1, AnswerAdds DEF IInv, TypeOK
<1>4. Behind({m})
  BY DEF Behind, Rev
<1>5. /\ toServer' \in [Clients -> Seq(Request)]
      /\ phase' \in [Clients -> {"idle", "terrain", "hook", "refuse"}]
      /\ connected' = connected
  BY <1>1, DoneTypes DEF IInv
<1>6. connected' \in SUBSET Clients
  BY <1>5 DEF IInv, TypeOK, WireTypeOK
<1>7. kicked' \in SUBSET connected'
  BY <1>3, <1>5 DEF IInv, TypeOK, LedgerTypeOK
<1>8. tick' \in {"off", "turns", "sends"} /\ touched' \in SUBSET Cells
  BY DEF IInv, TypeOK, LedgerTypeOK
<1> QED
  BY <1>2, <1>3, <1>4, <1>5, <1>6, <1>7, <1>8, ServerStepKeeps

LEMMA EditRefusedKeeps ==
    ASSUME IInv, NEW p \in Clients, EditRefused(p), UNCHANGED sessionVars
    PROVE  IInv' /\ LogStep
<1> DEFINE q == Head(toServer[p])
           m == EditAck(q, FALSE, Rev(q.cell))
<1>1. p \in connected /\ toServer[p] # <<>>
  BY DEF EditRefused, Handles
<1>2. q \in Request
  BY <1>1, RequestRead DEF IInv, TypeOK
<1>3. q.cell \in Cells
  BY <1>2 DEF Request
<1>4. Rev(q.cell) \in Nat /\ BlockAt(q.cell) \in Blocks
  BY <1>3, LedgerRead DEF IInv, TypeOK
<1>5. m \in Frame /\ m.cell = q.cell /\ m.rev = Rev(q.cell)
  BY <1>2, <1>3, <1>4, AckTyped
<1>6. AnswerOrLose(p, m) /\ Done(p) /\ UNCHANGED <<log, tick, touched>>
  BY DEF EditRefused
<1> HIDE DEF m
<1>7. m.rev <= Rev(m.cell)
  BY <1>4, <1>5
<1> QED
  BY <1>1, <1>5, <1>6, <1>7, AnswerKeeps

LEMMA RefuseToolKeeps ==
    ASSUME IInv, NEW p \in Clients, Handles(p, "ToolUse"), RefuseTool(p), UNCHANGED sessionVars
    PROVE  IInv' /\ LogStep
<1> DEFINE q == Head(toServer[p])
           m == ToolResult(q, FALSE, Rev(q.cell), BlockAt(q.cell))
<1>1. p \in connected /\ toServer[p] # <<>>
  BY DEF Handles
<1>2. q \in Request
  BY <1>1, RequestRead DEF IInv, TypeOK
<1>3. q.cell \in Cells
  BY <1>2 DEF Request
<1>4. Rev(q.cell) \in Nat /\ BlockAt(q.cell) \in Blocks
  BY <1>3, LedgerRead DEF IInv, TypeOK
<1>5. m \in Frame /\ m.cell = q.cell /\ m.rev = Rev(q.cell)
  BY ZenonT(60), <1>2, <1>3, <1>4, ToolTyped
<1>6. AnswerOrKick(p, m) /\ Done(p) /\ UNCHANGED <<log, tick, touched>>
  BY DEF RefuseTool
<1> HIDE DEF m
<1>7. m.rev <= Rev(m.cell)
  BY <1>4, <1>5
<1> QED
  BY <1>1, <1>5, <1>6, <1>7, AnswerKeeps

(* A player's commit of block b, answered with `mine`. *)
LEMMA CommitKeeps ==
    ASSUME IInv, NEW p \in Clients, p \in connected, toServer[p] # <<>>, Current(p),
           NEW b \in Blocks, NEW full \in SUBSET Lagging,
           NEW G \in SUBSET Frame, NEW mine \in Seq(G), NEW theirs \in G,
           \A m \in G : m.cell = Head(toServer[p]).cell /\ m.rev = Rev(Head(toServer[p]).cell) + 1,
           Write(p, Head(toServer[p]), b), Publish(p, mine, theirs, full), Done(p),
           UNCHANGED <<tick, touched>>, UNCHANGED sessionVars
    PROVE  IInv' /\ LogStep
<1> DEFINE q == Head(toServer[p])
<1>1. q \in Request
  BY RequestRead DEF IInv, TypeOK
<1>2. q.cell \in Cells
  BY <1>1 DEF Request
<1>3. LogStep /\ Len(log'[q.cell]) = Rev(q.cell) + 1 /\ Rev(q.cell) \in Nat
  BY <1>2, WriteStep, LedgerRead DEF IInv, TypeOK
<1>4. full \in SUBSET connected /\ full \in SUBSET Clients
  BY DEF Lagging, IInv, TypeOK, WireTypeOK
<1>5. Adds(G) /\ kicked' = kicked \cup full
  BY <1>4, PublishAdds DEF IInv, TypeOK
<1>6. Behind(G)
  BY <1>3 DEF Behind
<1>7. /\ toServer' \in [Clients -> Seq(Request)]
      /\ phase' \in [Clients -> {"idle", "terrain", "hook", "refuse"}]
      /\ connected' = connected
  BY DoneTypes DEF IInv
<1>8. connected' \in SUBSET Clients
  BY <1>7 DEF IInv, TypeOK, WireTypeOK
<1>9. kicked' \in SUBSET connected'
  BY <1>4, <1>5, <1>7 DEF IInv, TypeOK, LedgerTypeOK
<1>10. tick' \in {"off", "turns", "sends"} /\ touched' \in SUBSET Cells
  BY DEF IInv, TypeOK, LedgerTypeOK
<1> QED
  BY <1>3, <1>5, <1>6, <1>7, <1>8, <1>9, <1>10, ServerStepKeeps

LEMMA EditCommitKeeps ==
    ASSUME IInv, NEW p \in Clients, NEW full \in SUBSET Lagging,
           EditCommit(p, full), UNCHANGED sessionVars
    PROVE  IInv' /\ LogStep
<1> DEFINE q == Head(toServer[p])
           r == Rev(q.cell) + 1
           content == Snapshot(q.cell, r, q.block)
           theirs == EditMsg(q.cell, r, q.block)
           ack == EditAck(q, TRUE, r)
           G == {content, theirs, ack}
<1>1. p \in connected /\ toServer[p] # <<>> /\ Current(p)
  BY DEF EditCommit, Handles
<1>2. q \in Request
  BY <1>1, RequestRead DEF IInv, TypeOK
<1>3. q.cell \in Cells /\ q.block \in Blocks
  BY <1>2 DEF Request
<1>4. r \in Nat
  BY <1>3, LedgerRead DEF IInv, TypeOK
<1>5. /\ G \in SUBSET Frame
      /\ \A m \in G : m.cell = q.cell /\ m.rev = r
  <2> HIDE DEF q, r
  <2>1. /\ content \in Frame /\ content.cell = q.cell /\ content.rev = r
        /\ theirs \in Frame /\ theirs.cell = q.cell /\ theirs.rev = r
    BY <1>3, <1>4, ContentTyped
  <2>2. ack \in Frame /\ ack.cell = q.cell /\ ack.rev = r
    BY <1>2, <1>4, AckTyped
  <2> HIDE DEF content, theirs, ack
  <2> QED
    BY <2>1, <2>2
<1>6. /\ Write(p, q, q.block) /\ Done(p) /\ UNCHANGED <<tick, touched>>
      /\ Publish(p, <<content, ack>>, theirs, full) \/ Publish(p, <<content>>, theirs, full)
  BY DEF EditCommit
<1> HIDE DEF content, theirs, ack
<1>7. <<content, ack>> \in Seq(G) /\ <<content>> \in Seq(G) /\ theirs \in G
  OBVIOUS
<1> HIDE DEF G
<1>8. CASE Publish(p, <<content, ack>>, theirs, full)
  BY <1>1, <1>3, <1>5, <1>6, <1>7, <1>8, CommitKeeps
<1>9. CASE Publish(p, <<content>>, theirs, full)
  BY <1>1, <1>3, <1>5, <1>6, <1>7, <1>9, CommitKeeps
<1> QED
  BY <1>6, <1>8, <1>9

LEMMA ToolCommitKeeps ==
    ASSUME IInv, NEW p \in Clients, NEW b \in Blocks, NEW full \in SUBSET Lagging,
           ToolCommit(p, b, full), UNCHANGED sessionVars
    PROVE  IInv' /\ LogStep
<1> DEFINE q == Head(toServer[p])
           r == Rev(q.cell) + 1
           result == ToolResult(q, TRUE, r, b)
           theirs == EditMsg(q.cell, r, b)
           G == {result, theirs}
<1>1. p \in connected /\ toServer[p] # <<>> /\ Current(p)
  BY DEF ToolCommit, Handles
<1>2. q \in Request
  BY <1>1, RequestRead DEF IInv, TypeOK
<1>3. q.cell \in Cells
  BY <1>2 DEF Request
<1>4. r \in Nat
  BY <1>3, LedgerRead DEF IInv, TypeOK
<1>5. /\ G \in SUBSET Frame
      /\ \A m \in G : m.cell = q.cell /\ m.rev = r
  <2> HIDE DEF q, r
  <2>1. theirs \in Frame /\ theirs.cell = q.cell /\ theirs.rev = r
    BY <1>3, <1>4, ContentTyped
  <2>2. result \in Frame /\ result.cell = q.cell /\ result.rev = r
    BY ZenonT(60), <1>2, <1>4, ToolTyped
  <2> HIDE DEF result, theirs
  <2> QED
    BY <2>1, <2>2
<1>6. /\ Write(p, q, b) /\ Done(p) /\ UNCHANGED <<tick, touched>>
      /\ Publish(p, <<result>>, theirs, full)
  BY DEF ToolCommit
<1> HIDE DEF result, theirs
<1>7. <<result>> \in Seq(G) /\ theirs \in G
  OBVIOUS
<1> HIDE DEF G
<1> QED
  BY <1>1, <1>5, <1>6, <1>7, CommitKeeps

LEMMA DepartKeeps ==
    ASSUME IInv, NEW p \in Clients, Depart(p), UNCHANGED sessionVars
    PROVE  IInv' /\ LogStep
<1>1. LogStep
  BY NoCommit DEF Depart, IInv, TypeOK
<1>2. Adds({})
  <2>1. toClient' \in [Clients -> Seq(Frame)]
    BY DEF Depart, IInv, TypeOK, WireTypeOK
  <2>2. \A q \in Clients : toClient'[q] = toClient[q] \/ toClient'[q] = <<>>
    BY DEF Depart, IInv, TypeOK, WireTypeOK
  <2>3. \A q \in Clients : toClient'[q] = <<>> => 1 .. Len(toClient'[q]) = {}
    OBVIOUS
  <2> QED
    BY <2>1, <2>2, <2>3 DEF Adds
<1>3. Behind({})
  BY DEF Behind
<1>4. toServer' \in [Clients -> Seq(Request)]
  BY DEF Depart, IInv, TypeOK, WireTypeOK
<1>5. connected' \in SUBSET Clients /\ kicked' \in SUBSET connected'
  BY DEF Depart, IInv, TypeOK, WireTypeOK, LedgerTypeOK
<1> QED
  BY <1>1, <1>2, <1>3, <1>4, <1>5, ServerStepKeeps DEF Depart, IInv, TypeOK, LedgerTypeOK

LEMMA ReactionTurnKeeps ==
    ASSUME IInv, NEW S \in SUBSET Cells, NEW new \in [S -> Blocks],
           ReactionTurn(new), UNCHANGED sessionVars
    PROVE  IInv' /\ LogStep
<1>1. log \in [Cells -> Seq(Entry)]
  BY DEF IInv, TypeOK, LedgerTypeOK
<1>2. \A c \in Cells : log'[c] = log[c] \/
        \E e \in Entry : e.by = World /\ log'[c] = Append(log[c], e)
  <2> SUFFICES ASSUME NEW c \in Cells
               PROVE  log'[c] = log[c] \/ \E e \in Entry : e.by = World /\ log'[c] = Append(log[c], e)
    OBVIOUS
  <2>1. CASE c \in S
    <3> DEFINE e == [by |-> World, req |-> 0, expect |-> 0, block |-> new[c]]
    <3>1. e \in Entry /\ e.by = World
      BY <2>1 DEF Entry
    <3>2. log'[c] = Append(log[c], e)
      BY <2>1 DEF ReactionTurn
    <3> QED
      BY <3>1, <3>2
  <2>2. CASE c \notin S
    BY <2>2 DEF ReactionTurn
  <2> QED
    BY <2>1, <2>2
<1>3. LogStep
  <2>1. \A c \in Cells : log'[c] \in Seq(Entry)
    <3> TAKE c \in Cells
    <3>1. log[c] \in Seq(Entry)
      BY <1>1
    <3>2. \A e \in Entry : Append(log[c], e) \in Seq(Entry)
      BY <3>1
    <3> QED
      BY <1>2, <3>1, <3>2
  <2>2. log' \in [Cells -> Seq(Entry)]
    <3> DEFINE L == [c \in Cells |->
            IF c \in DOMAIN new
            THEN Append(log[c], [by |-> World, req |-> 0, expect |-> 0, block |-> new[c]])
            ELSE log[c]]
    <3>1. log' = L
      BY DEF ReactionTurn
    <3>2. \A c \in Cells : L[c] \in Seq(Entry)
      BY <2>1, <3>1
    <3> QED
      BY <3>1, <3>2
  <2>3. \A c \in Cells : log'[c] = log[c] \/ Extended(c)
    BY <1>2 DEF Extended
  <2> QED
    BY <2>1, <2>2, <2>3 DEF LogStep
<1>4. Adds({})
  BY DEF ReactionTurn, wire, Adds, IInv, TypeOK, WireTypeOK
<1>5. Behind({})
  BY DEF Behind
<1>6. touched' \in SUBSET Cells /\ tick' \in {"off", "turns", "sends"}
  BY DEF ReactionTurn, IInv, TypeOK, LedgerTypeOK
<1> QED
  BY <1>3, <1>4, <1>5, <1>6, ServerStepKeeps DEF ReactionTurn, wire, IInv, TypeOK, WireTypeOK, LedgerTypeOK

LEMMA SendMutationKeeps ==
    ASSUME IInv, NEW c \in Cells, NEW full \in SUBSET Lagging,
           SendMutation(c, full), UNCHANGED sessionVars
    PROVE  IInv' /\ LogStep
<1> DEFINE m == Snapshot(c, Rev(c), BlockAt(c))
<1>1. LogStep
  BY NoCommit DEF SendMutation, IInv, TypeOK
<1>2. Rev(c) \in Nat /\ BlockAt(c) \in Blocks
  BY LedgerRead DEF IInv, TypeOK
<1>3. m \in Frame /\ m.cell = c /\ m.rev = Rev(c)
  BY <1>2, ContentTyped
<1>4. toClient' = [q \in Clients |->
            IF q \in connected \ full THEN Append(toClient[q], m) ELSE toClient[q]]
  BY DEF SendMutation
<1> HIDE DEF m
<1>5. Adds({m})
  BY <1>3, <1>4, AppendAdds, connected \ full \in SUBSET Clients DEF IInv, TypeOK, WireTypeOK
<1>6. Behind({m})
  BY <1>2, <1>3 DEF Behind, Rev, SendMutation
<1>7. kicked' \in SUBSET connected' /\ touched' \in SUBSET Cells /\ tick' \in {"off", "turns", "sends"}
  BY DEF SendMutation, Lagging, IInv, TypeOK, WireTypeOK, LedgerTypeOK
<1> QED
  BY <1>1, <1>3, <1>5, <1>6, <1>7, ServerStepKeeps DEF SendMutation, IInv, TypeOK, WireTypeOK, LedgerTypeOK

LEMMA ServerKeeps ==
    ASSUME IInv, ServerStep
    PROVE  IInv' /\ LogStep /\ UNCHANGED known
<1>1. UNCHANGED sessionVars /\ UNCHANGED known
  BY DEF ServerStep, sessionVars
<1>2. CASE \E S \in Contacts : \E new \in [S -> Blocks] : ReactionTurn(new)
  BY <1>1, <1>2, ReactionTurnKeeps DEF Contacts
<1>3. CASE \E c \in Cells, full \in SUBSET Lagging : SendMutation(c, full)
  BY <1>1, <1>3, SendMutationKeeps
<1>4. CASE \E p \in Clients : Depart(p)
  BY <1>1, <1>4, DepartKeeps
<1>5. ASSUME NEW p \in Clients, Handler(p)
      PROVE  IInv' /\ LogStep
  <2>1. CASE ReadTerrain(p)
    BY <1>1, <2>1, ParkKeeps DEF ReadTerrain
  <2>2. CASE CallHooks(p)
    BY <1>1, <2>2, ParkKeeps DEF CallHooks
  <2>3. CASE EditRefused(p)
    BY <1>1, <2>3, EditRefusedKeeps
  <2>4. CASE ToolRefused(p)
    BY <1>1, <2>4, RefuseToolKeeps, ParkKeeps DEF ToolRefused
  <2>5. CASE ToolAnswered(p)
    BY <1>1, <2>5, RefuseToolKeeps DEF ToolAnswered
  <2>6. CASE \E full \in SUBSET Lagging : EditCommit(p, full)
    BY <1>1, <2>6, EditCommitKeeps
  <2>7. CASE \E full \in SUBSET Lagging, b \in Blocks : ToolCommit(p, b, full)
    BY <1>1, <2>7, ToolCommitKeeps
  <2> QED
    BY <1>5, <2>1, <2>2, <2>3, <2>4, <2>5, <2>6, <2>7 DEF Handler
<1> QED
  BY <1>1, <1>2, <1>3, <1>4, <1>5 DEF ServerStep, Reactions

-----------------------------------------------------------------------------
(* The clients. A chain in flight has an oldest request, so a rollback has *)
(* a block to give back.                                                   *)

LEMMA OldestExists ==
    ASSUME NEW reqs \in SUBSET PendingReq, reqs # {}
    PROVE  \E q \in reqs : \A r \in reqs : q.req <= r.req
<1> DEFINE T == {q.req : q \in reqs}
<1>1. \A q \in reqs : q.req \in Nat
  BY DEF PendingReq
<1>2. T \subseteq Nat /\ T # {}
  BY <1>1
<1> HIDE DEF T
<1>3. PICK x \in T : \A y \in T : ~(<<y, x>> \in OpToRel(<, Nat))
  BY <1>2, NatLessThanWellFounded, WFMin, Zenon
<1>4. \A y \in T : ~(y < x)
  BY <1>2, <1>3 DEF OpToRel
<1>5. \A y \in T : x <= y
  BY <1>2, <1>4
<1> QED
  BY <1>5 DEF T

LEMMA RestoredTyped ==
    ASSUME SessionTypeOK, NEW p \in Clients, NEW reqs \in SUBSET PendingReq, NEW revs
    PROVE  Restored(p, reqs, revs) \in [Cells -> Blocks]
<1> SUFFICES ASSUME NEW c \in Cells
             PROVE  Restored(p, reqs, revs)[c] \in Blocks
  BY DEF Restored
<1>1. view[p][c] \in Blocks
  BY DEF SessionTypeOK
<1>2. ASSUME c \in Lost(reqs)
      PROVE  (CHOOSE q \in OnCell(reqs, c) : \A r \in OnCell(reqs, c) : q.req <= r.req).prev \in Blocks
  <2> DEFINE Q == OnCell(reqs, c)
             o == CHOOSE q \in Q : \A r \in Q : q.req <= r.req
  <2>1. Q \in SUBSET PendingReq /\ Q # {}
    BY <1>2 DEF OnCell, Lost
  <2> HIDE DEF Q
  <2>2. \E q \in Q : \A r \in Q : q.req <= r.req
    BY <2>1, OldestExists
  <2>3. o \in Q
    BY <2>2
  <2>4. o.prev \in Blocks
    <3> HIDE DEF o
    <3> QED
      BY <2>1, <2>3 DEF PendingReq
  <2> QED
    BY <2>4 DEF Q
<1> QED
  BY <1>1, <1>2 DEF Restored

LEMMA FlushTyped ==
    ASSUME SessionTypeOK, NEW p \in Clients, NEW reqs \in SUBSET PendingReq, NEW revs,
           Flush(p, reqs, revs)
    PROVE  /\ pending' \in [Clients -> SUBSET PendingReq]
           /\ view' \in [Clients -> [Cells -> Blocks]]
<1>1. Restored(p, reqs, revs) \in [Cells -> Blocks]
  BY RestoredTyped
<1>2. {q \in reqs : q.cell \notin Lost(reqs)} \in SUBSET PendingReq
  OBVIOUS
<1> QED
  BY <1>1, <1>2 DEF Flush, SessionTypeOK

LEMMA RejectedTyped ==
    ASSUME NEW q \in PendingReq
    PROVE  [q EXCEPT !.kind = "Rejected"] \in PendingReq
BY DEF PendingReq

(* The clients move forward: one client learns one later revision of one   *)
(* cell, or nobody learns anything.                                        *)
Learns ==
    \/ UNCHANGED known
    \/ \E p \in Clients, c \in Cells : \E r \in (known[p][c] + 1) .. Rev(c) :
            known' = [known EXCEPT ![p][c] = r]

LEMMA LearnsKeeps ==
    ASSUME TypeOK, KnownBehind, Learns, UNCHANGED log
    PROVE  known' \in [Clients -> [Cells -> Nat]] /\ KnownBehind'
<1>1. known \in [Clients -> [Cells -> Nat]]
  BY DEF TypeOK, SessionTypeOK
<1>2. \A c \in Cells : Rev(c) \in Nat /\ Rev(c)' = Rev(c)
  BY LedgerRead DEF TypeOK, Rev
<1>3. CASE UNCHANGED known
  BY <1>1, <1>2, <1>3 DEF KnownBehind
<1>4. CASE \E p \in Clients, c \in Cells : \E r \in (known[p][c] + 1) .. Rev(c) :
            known' = [known EXCEPT ![p][c] = r]
  <2>0. PICK p \in Clients, c \in Cells :
            \E r \in (known[p][c] + 1) .. Rev(c) : known' = [known EXCEPT ![p][c] = r]
    BY <1>4
  <2>1. PICK r \in (known[p][c] + 1) .. Rev(c) : known' = [known EXCEPT ![p][c] = r]
    BY <2>0
  <2>2. r \in Nat /\ r <= Rev(c)
    BY <1>1, <1>2, <2>1
  <2>3. known' \in [Clients -> [Cells -> Nat]]
    BY <1>1, <2>1, <2>2
  <2>4. \A q \in Clients, d \in Cells : known'[q][d] = IF q = p /\ d = c THEN r ELSE known[q][d]
    BY <1>1, <2>1
  <2>5. KnownBehind'
    BY <1>2, <2>2, <2>4 DEF KnownBehind
  <2> QED
    BY <2>3, <2>5
<1> QED
  BY <1>3, <1>4 DEF Learns

(* A client step keeps the invariant if it only takes frames away and      *)
(* learns nothing but the ledger's past.                                   *)
LEMMA ClientStepKeeps ==
    ASSUME IInv, UNCHANGED ledgerVars, Learns, connected' = connected,
           toServer' \in [Clients -> Seq(Request)], toClient' \in [Clients -> Seq(Frame)],
           \A q \in Clients : \A i \in 1 .. Len(toClient'[q]) :
                \E j \in 1 .. Len(toClient[q]) : toClient'[q][i] = toClient[q][j],
           pending' \in [Clients -> SUBSET PendingReq],
           view' \in [Clients -> [Cells -> Blocks]],
           nextReq' \in [Clients -> Nat]
    PROVE  IInv' /\ UNCHANGED log
<1>1. UNCHANGED log
  BY DEF ledgerVars
<1>2. known' \in [Clients -> [Cells -> Nat]] /\ KnownBehind'
  BY <1>1, LearnsKeeps DEF IInv
<1>3. TypeOK'
  BY <1>2 DEF IInv, TypeOK, WireTypeOK, LedgerTypeOK, SessionTypeOK, ledgerVars
<1>4. FramesBehind'
  <2>1. SUFFICES ASSUME NEW q \in Clients, NEW i \in 1 .. Len(toClient'[q])
                 PROVE  toClient'[q][i].rev <= Len(log[toClient'[q][i].cell])
    BY <1>1 DEF FramesBehind, Rev
  <2>2. PICK j \in 1 .. Len(toClient[q]) : toClient'[q][i] = toClient[q][j]
    OBVIOUS
  <2>3. toClient[q][j].rev <= Len(log[toClient[q][j].cell])
    BY DEF IInv, FramesBehind, Rev
  <2> QED
    BY <2>2, <2>3
<1> QED
  BY <1>1, <1>2, <1>3, <1>4 DEF IInv

LEMMA SendKeeps ==
    ASSUME IInv, UNCHANGED ledgerVars, NEW p \in Clients, NEW c \in Cells,
           NEW kind \in {"Edit", "Tool"}, NEW wireKind \in {"Edit", "ToolUse"}, NEW b \in Blocks,
           Send(p, c, kind, wireKind, b), view' \in [Clients -> [Cells -> Blocks]]
    PROVE  IInv' /\ UNCHANGED log /\ Learns
<1>1. UNCHANGED <<connected, toClient, known>>
  BY DEF Send
<1>2. \A e \in ExpectCandidates(p, c) : e \in Nat
  BY DEF ExpectCandidates, OnCell, PendingReq, IInv, TypeOK, SessionTypeOK
<1>3. PICK e \in ExpectCandidates(p, c) :
        /\ pending' = [pending EXCEPT ![p] = @ \cup
                {[kind |-> kind, req |-> nextReq[p] + 1, cell |-> c, expect |-> e,
                  base |-> known[p][c], prev |-> view[p][c]]}]
        /\ \/ toServer' = [toServer EXCEPT ![p] = Append(@,
                    [kind |-> wireKind, req |-> nextReq[p] + 1, cell |-> c,
                     expect |-> e, block |-> b])]
           \/ UNCHANGED toServer
  BY DEF Send
<1>4. e \in Nat /\ nextReq[p] + 1 \in Nat /\ known[p][c] \in Nat /\ view[p][c] \in Blocks
  BY <1>2 DEF IInv, TypeOK, SessionTypeOK
<1>5. [kind |-> kind, req |-> nextReq[p] + 1, cell |-> c, expect |-> e,
       base |-> known[p][c], prev |-> view[p][c]] \in PendingReq
  BY <1>4 DEF PendingReq
<1>6. [kind |-> wireKind, req |-> nextReq[p] + 1, cell |-> c, expect |-> e, block |-> b] \in Request
  BY <1>4 DEF Request
<1>7. pending' \in [Clients -> SUBSET PendingReq]
  BY <1>3, <1>5 DEF IInv, TypeOK, SessionTypeOK
<1>8. toServer' \in [Clients -> Seq(Request)]
  <2> DEFINE m == [kind |-> wireKind, req |-> nextReq[p] + 1, cell |-> c, expect |-> e, block |-> b]
  <2>1. toServer \in [Clients -> Seq(Request)] /\ m \in Request
    BY <1>6 DEF IInv, TypeOK, WireTypeOK
  <2>2. toServer' = [toServer EXCEPT ![p] = Append(@, m)] \/ toServer' = toServer
    BY <1>3
  <2> HIDE DEF m
  <2>3. Append(toServer[p], m) \in Seq(Request)
    BY <2>1
  <2> QED
    BY <2>1, <2>2, <2>3
<1>9. nextReq' \in [Clients -> Nat]
  BY <1>4 DEF Send, IInv, TypeOK, SessionTypeOK
<1>10. toClient' \in [Clients -> Seq(Frame)] /\ Learns
  BY <1>1 DEF Learns, IInv, TypeOK, WireTypeOK
<1> QED
  BY <1>1, <1>7, <1>8, <1>9, <1>10, ClientStepKeeps

LEMMA PlayerKeeps ==
    ASSUME IInv, UNCHANGED ledgerVars, NEW p \in Clients, Player(p)
    PROVE  IInv' /\ UNCHANGED log /\ Learns
<1>1. view \in [Clients -> [Cells -> Blocks]]
  BY DEF IInv, TypeOK, SessionTypeOK
<1>2. Air \in Blocks
  BY SessionConstants DEF SessionConstants
<1>3. ASSUME NEW c \in Cells, NEW b \in Blocks, Predict(p, c, b)
      PROVE  IInv' /\ UNCHANGED log /\ Learns
  <2>1. view' \in [Clients -> [Cells -> Blocks]]
    BY <1>1, <1>3 DEF Predict
  <2> QED
    BY <1>3, <2>1, SendKeeps DEF Predict
<1>4. ASSUME NEW c \in Cells, UseTool(p, c)
      PROVE  IInv' /\ UNCHANGED log /\ Learns
  BY <1>1, <1>2, <1>4, SendKeeps DEF UseTool
<1> QED
  BY <1>2, <1>3, <1>4 DEF Player, Break, Place

LEMMA HearsKeeps ==
    ASSUME IInv, UNCHANGED ledgerVars, Learns, NEW p \in Clients, NEW kinds, Hears(p, kinds),
           pending' \in [Clients -> SUBSET PendingReq],
           view' \in [Clients -> [Cells -> Blocks]]
    PROVE  IInv' /\ UNCHANGED log
<1>1. toClient[p] # <<>> /\ UNCHANGED <<connected, toServer, nextReq>>
      /\ toClient' = [toClient EXCEPT ![p] = Tail(toClient[p])]
  BY DEF Hears
<1>2. /\ Tail(toClient[p]) \in Seq(Frame)
      /\ Len(Tail(toClient[p])) = Len(toClient[p]) - 1
      /\ \A i \in 1 .. Len(Tail(toClient[p])) : Tail(toClient[p])[i] = toClient[p][i + 1]
  BY <1>1, FrameRead DEF IInv, TypeOK
<1>3. toClient' \in [Clients -> Seq(Frame)]
  BY <1>1, <1>2 DEF IInv, TypeOK, WireTypeOK
<1>4. ASSUME NEW q \in Clients, NEW i \in 1 .. Len(toClient'[q])
      PROVE  \E j \in 1 .. Len(toClient[q]) : toClient'[q][i] = toClient[q][j]
  <2>1. toClient[q] \in Seq(Frame)
    BY DEF IInv, TypeOK, WireTypeOK
  <2>2. CASE q = p
    <3>1. toClient'[q] = Tail(toClient[p])
      BY <1>1, <2>2 DEF IInv, TypeOK, WireTypeOK
    <3>2. i + 1 \in 1 .. Len(toClient[p])
      BY <1>2, <2>1, <2>2, <3>1
    <3>3. toClient'[q][i] = toClient[p][i + 1]
      BY <1>2, <3>1
    <3> QED
      BY <2>2, <3>2, <3>3
  <2>3. CASE q # p
    BY <1>1, <2>3 DEF IInv, TypeOK, WireTypeOK
  <2> QED
    BY <2>2, <2>3
<1> QED
  BY <1>1, <1>3, <1>4, ClientStepKeeps DEF IInv, TypeOK, WireTypeOK, SessionTypeOK

LEMMA HearContentKeeps ==
    ASSUME IInv, UNCHANGED ledgerVars, NEW p \in Clients, HearContent(p)
    PROVE  IInv' /\ UNCHANGED log /\ Learns
<1> DEFINE m == Head(toClient[p])
           lands == m.rev > known[p][m.cell] \/ (m.kind = "Snapshot" /\ m.rev = known[p][m.cell])
<1>1. Hears(p, {"Snapshot", "Edit"}) /\ toClient[p] # <<>> /\ m.kind \in {"Snapshot", "Edit"}
  BY DEF HearContent, Hears
<1>2. m \in Frame /\ m = toClient[p][1] /\ toClient[p] \in Seq(Frame)
  BY <1>1, FrameRead DEF IInv, TypeOK, WireTypeOK
<1>3. m.cell \in Cells /\ m.rev \in Nat /\ m.block \in Blocks
  BY <1>1, <1>2 DEF Frame, ContentFrame, AckFrame, ToolFrame
<1>4. m.rev <= Rev(m.cell)
  <2>1. 1 \in 1 .. Len(toClient[p])
    BY <1>1, <1>2
  <2> QED
    BY <1>2, <2>1 DEF IInv, FramesBehind
<1>5. Rev(m.cell) \in Nat /\ known[p][m.cell] \in Nat
  BY <1>3, LedgerRead DEF IInv, TypeOK, SessionTypeOK
<1>6. pending' \in [Clients -> SUBSET PendingReq]
  BY DEF HearContent, IInv, TypeOK, SessionTypeOK
<1>7. IF lands
      THEN /\ known' = [known EXCEPT ![p][m.cell] = m.rev]
           /\ view' = [view EXCEPT ![p][m.cell] = m.block]
      ELSE UNCHANGED <<known, view>>
  BY DEF HearContent
<1> HIDE DEF m
<1>8. view' \in [Clients -> [Cells -> Blocks]]
  <2>1. view \in [Clients -> [Cells -> Blocks]]
    BY DEF IInv, TypeOK, SessionTypeOK
  <2>2. view' = [view EXCEPT ![p][m.cell] = m.block] \/ view' = view
    BY <1>7
  <2> QED
    BY <1>3, <2>1, <2>2
<1>9. Learns
  <2>1. CASE lands /\ m.rev > known[p][m.cell]
    <3>1. m.rev \in (known[p][m.cell] + 1) .. Rev(m.cell)
      BY <1>3, <1>4, <1>5, <2>1
    <3> QED
      BY <1>3, <1>7, <2>1, <3>1 DEF Learns
  <2>2. CASE lands /\ m.rev = known[p][m.cell]
    <3>1. known' = known
      BY <1>3, <1>7, <2>2 DEF IInv, TypeOK, SessionTypeOK
    <3> QED
      BY <3>1 DEF Learns
  <2>3. CASE ~lands
    BY <1>7, <2>3 DEF Learns
  <2> QED
    BY <2>1, <2>2, <2>3
<1> QED
  BY <1>1, <1>6, <1>8, <1>9, HearsKeeps

(* A verdict's revision, taken as the newest of one cell. *)
LEMMA ConfirmLearns ==
    ASSUME IInv, NEW p \in Clients, NEW c \in Cells, NEW r \in Nat, r <= Rev(c),
           known' = Confirm(p, c, r)
    PROVE  Learns
<1>1. Rev(c) \in Nat /\ known \in [Clients -> [Cells -> Nat]]
  BY LedgerRead DEF IInv, TypeOK, SessionTypeOK
<1>2. CASE r > known[p][c]
  <2>1. r \in (known[p][c] + 1) .. Rev(c)
    BY <1>1, <1>2
  <2>2. known' = [known EXCEPT ![p][c] = r]
    BY <1>1, <1>2 DEF Confirm
  <2> QED
    BY <2>1, <2>2 DEF Learns
<1>3. CASE ~(r > known[p][c])
  <2>1. known' = known
    BY <1>1, <1>3 DEF Confirm
  <2> QED
    BY <2>1 DEF Learns
<1> QED
  BY <1>2, <1>3

LEMMA HearAckKeeps ==
    ASSUME IInv, UNCHANGED ledgerVars, NEW p \in Clients, HearAck(p)
    PROVE  IInv' /\ UNCHANGED log /\ Learns
<1> DEFINE m == Head(toClient[p])
           mine == Matching(p, m)
           rejected == {[q EXCEPT !.kind = "Rejected"] : q \in mine}
<1>1. Hears(p, {"EditAck"}) /\ toClient[p] # <<>>
  BY DEF HearAck, Hears
<1>2. m \in Frame /\ m = toClient[p][1] /\ toClient[p] \in Seq(Frame)
  BY <1>1, FrameRead DEF IInv, TypeOK, WireTypeOK
<1>3. m.cell \in Cells /\ m.rev \in Nat
  BY <1>2, FrameFields
<1>4. m.rev <= Rev(m.cell)
  <2>1. 1 \in 1 .. Len(toClient[p])
    BY <1>1, <1>2
  <2> QED
    BY <1>2, <2>1 DEF IInv, FramesBehind
<1>5. SessionTypeOK /\ pending[p] \in SUBSET PendingReq /\ mine \in SUBSET PendingReq
  BY DEF IInv, TypeOK, SessionTypeOK, Matching
<1>6. rejected \in SUBSET PendingReq
  BY <1>5, RejectedTyped
<1>7. CASE mine = {}
  <2>1. UNCHANGED <<known, view, pending>>
    BY <1>7 DEF HearAck
  <2> QED
    BY <1>1, <1>5, <2>1, HearsKeeps DEF SessionTypeOK, Learns
<1>8. CASE mine # {} /\ m.accepted
  <2>1. known' = Confirm(p, m.cell, m.rev) /\ Flush(p, pending[p] \ mine, known'[p])
    BY <1>8 DEF HearAck
  <2>2. Learns
    BY <1>3, <1>4, <2>1, ConfirmLearns
  <2>3. pending[p] \ mine \in SUBSET PendingReq
    BY <1>5
  <2>4. pending' \in [Clients -> SUBSET PendingReq] /\ view' \in [Clients -> [Cells -> Blocks]]
    BY <1>5, <2>1, <2>3, FlushTyped
  <2> QED
    BY <1>1, <2>2, <2>4, HearsKeeps
<1>9. CASE mine # {} /\ ~m.accepted
  <2>1. UNCHANGED known /\ Flush(p, (pending[p] \ mine) \cup rejected, known[p])
    BY <1>9 DEF HearAck
  <2>2. (pending[p] \ mine) \cup rejected \in SUBSET PendingReq
    BY <1>5, <1>6
  <2>3. pending' \in [Clients -> SUBSET PendingReq] /\ view' \in [Clients -> [Cells -> Blocks]]
    BY <1>5, <2>1, <2>2, FlushTyped
  <2> QED
    BY <1>1, <2>1, <2>3, HearsKeeps DEF Learns
<1> QED
  BY <1>7, <1>8, <1>9

LEMMA HearToolKeeps ==
    ASSUME IInv, UNCHANGED ledgerVars, NEW p \in Clients, HearTool(p)
    PROVE  IInv' /\ UNCHANGED log /\ Learns
<1> DEFINE m == Head(toClient[p])
           mine == Matching(p, m)
<1>1. Hears(p, {"ToolResult"}) /\ toClient[p] # <<>> /\ m.kind \in {"ToolResult"}
  BY DEF HearTool, Hears
<1>2. m \in Frame /\ m = toClient[p][1] /\ toClient[p] \in Seq(Frame)
  BY <1>1, FrameRead DEF IInv, TypeOK, WireTypeOK
<1>3. m.cell \in Cells /\ m.rev \in Nat /\ m.block \in Blocks
  BY <1>1, <1>2 DEF Frame, ContentFrame, AckFrame, ToolFrame
<1>4. m.rev <= Rev(m.cell)
  <2>1. 1 \in 1 .. Len(toClient[p])
    BY <1>1, <1>2
  <2> QED
    BY <1>2, <2>1 DEF IInv, FramesBehind
<1>5. pending' \in [Clients -> SUBSET PendingReq]
  <2>1. pending' = [pending EXCEPT ![p] = @ \ mine]
    BY DEF HearTool
  <2> QED
    BY <2>1 DEF IInv, TypeOK, SessionTypeOK
<1>6. IF mine # {} /\ m.reacted
      THEN /\ known' = Confirm(p, m.cell, m.rev)
           /\ view' = [view EXCEPT ![p][m.cell] = m.block]
      ELSE UNCHANGED <<known, view>>
  BY DEF HearTool
<1> HIDE DEF m, mine
<1>7. view' \in [Clients -> [Cells -> Blocks]]
  <2>1. view \in [Clients -> [Cells -> Blocks]]
    BY DEF IInv, TypeOK, SessionTypeOK
  <2>2. view' = [view EXCEPT ![p][m.cell] = m.block] \/ view' = view
    BY <1>6
  <2> QED
    BY <1>3, <2>1, <2>2
<1>8. Learns
  BY <1>3, <1>4, <1>6, ConfirmLearns DEF Learns
<1> QED
  BY <1>1, <1>5, <1>7, <1>8, HearsKeeps

LEMMA EndPollKeeps ==
    ASSUME IInv, UNCHANGED ledgerVars, NEW p \in Clients, NEW old \in Nat, EndPoll(p, old)
    PROVE  IInv' /\ UNCHANGED log /\ Learns
<1> DEFINE gone   == {q \in Aged(p, old) : q.kind = "Tool"}
           failed == {q \in Aged(p, old) : q.kind = "Edit"}
           rejected == {[q EXCEPT !.kind = "Rejected"] : q \in failed}
           after  == (pending[p] \ (gone \cup failed)) \cup rejected
<1>1. Flush(p, after, known[p]) /\ UNCHANGED <<wire, known, nextReq>>
  BY DEF EndPoll
<1>2. SessionTypeOK /\ pending[p] \in SUBSET PendingReq
  BY DEF IInv, TypeOK, SessionTypeOK
<1>3. failed \in SUBSET PendingReq
  BY <1>2 DEF Aged
<1>4. rejected \in SUBSET PendingReq
  BY <1>3, RejectedTyped
<1>5. after \in SUBSET PendingReq
  BY <1>2, <1>4
<1> HIDE DEF after
<1>6. pending' \in [Clients -> SUBSET PendingReq] /\ view' \in [Clients -> [Cells -> Blocks]]
  BY <1>1, <1>2, <1>5, FlushTyped
<1>7. Learns
  BY <1>1 DEF Learns
<1>8. /\ connected' = connected /\ nextReq' \in [Clients -> Nat]
      /\ toServer' \in [Clients -> Seq(Request)] /\ toClient' \in [Clients -> Seq(Frame)]
      /\ toClient' = toClient
  BY <1>1 DEF wire, IInv, TypeOK, WireTypeOK, SessionTypeOK
<1> QED
  BY <1>6, <1>7, <1>8, ClientStepKeeps

LEMMA ClientKeeps ==
    ASSUME IInv, ClientStep
    PROVE  IInv' /\ UNCHANGED log /\ Learns
<1>1. UNCHANGED ledgerVars
  BY DEF ClientStep
<1>2. PICK p \in Clients : Player(p) \/ Poll(p)
  BY DEF ClientStep
<1>3. CASE Player(p)
  BY <1>1, <1>3, PlayerKeeps
<1>4. CASE HearContent(p)
  BY <1>1, <1>4, HearContentKeeps
<1>5. CASE HearAck(p)
  BY <1>1, <1>5, HearAckKeeps
<1>6. CASE HearTool(p)
  BY <1>1, <1>6, HearToolKeeps
<1>7. CASE \E old \in 0 .. nextReq[p] : EndPoll(p, old)
  <2>1. PICK old \in 0 .. nextReq[p] : EndPoll(p, old)
    BY <1>7
  <2>2. old \in Nat
    BY <2>1 DEF IInv, TypeOK, SessionTypeOK
  <2> QED
    BY <1>1, <2>1, <2>2, EndPollKeeps
<1> QED
  BY <1>2, <1>3, <1>4, <1>5, <1>6, <1>7 DEF Poll

-----------------------------------------------------------------------------
(* The theorems.                                                           *)

LEMMA InitHolds ==
    ASSUME Init
    PROVE  IInv /\ CommitsAtExpected /\ Abstract!Init
<1>1. /\ log = [c \in Cells |-> <<>>] /\ known = [p \in Clients |-> [c \in Cells |-> 0]]
      /\ toClient = [p \in Clients |-> <<>>]
  BY DEF Init, WireInit, LedgerInit, SessionInit
<1>2. TypeOK
  <2>1. Generated \in [Cells -> Blocks]
    BY WireConstants DEF WireConstants
  <2>2. WireTypeOK
    BY DEF Init, WireInit, WireTypeOK
  <2>3. LedgerTypeOK
    BY DEF Init, LedgerInit, LedgerTypeOK
  <2>4. SessionTypeOK
    BY <2>1 DEF Init, SessionInit, SessionTypeOK
  <2> QED
    BY <2>2, <2>3, <2>4 DEF TypeOK
<1>3. \A c \in Cells : Rev(c) = 0
  BY <1>1 DEF Rev
<1>4. FramesBehind
  BY <1>1 DEF FramesBehind
<1>5. KnownBehind
  BY <1>1, <1>3 DEF KnownBehind
<1>6. CommitsAtExpected
  BY <1>1 DEF CommitsAtExpected
<1> QED
  BY <1>1, <1>2, <1>4, <1>5, <1>6 DEF IInv, Abstract!Init

(* A step of the protocol keeps the invariant, and moves the ledger or the *)
(* knowledge of the clients, not both.                                     *)
LEMMA NextKeeps ==
    ASSUME IInv, [Next]_vars
    PROVE  IInv' /\ LogStep /\ (UNCHANGED known \/ (UNCHANGED log /\ Learns))
<1>1. CASE ServerStep
  BY <1>1, ServerKeeps
<1>2. CASE ClientStep
  BY <1>2, ClientKeeps, NoCommit DEF IInv, TypeOK
<1>3. CASE UNCHANGED vars
  <2>1. LogStep /\ UNCHANGED known
    BY <1>3, NoCommit DEF vars, ledgerVars, sessionVars, IInv, TypeOK
  <2>2. TypeOK'
    BY <1>3 DEF vars, wire, ledgerVars, sessionVars, IInv, TypeOK, WireTypeOK, LedgerTypeOK, SessionTypeOK
  <2>3. FramesBehind' /\ KnownBehind'
    BY <1>3 DEF vars, wire, ledgerVars, sessionVars, IInv, FramesBehind, KnownBehind, Rev
  <2> QED
    BY <2>1, <2>2, <2>3 DEF IInv
<1> QED
  BY <1>1, <1>2, <1>3 DEF Next

(* In every reachable state the variables have their types, every frame    *)
(* tells of the ledger's past and no client is ahead of the ledger.        *)
THEOREM InvariantHolds == Spec => []IInv
<1>1. Init => IInv
  BY InitHolds
<1>2. IInv /\ [Next]_vars => IInv'
  BY NextKeeps
<1> QED
  BY <1>1, <1>2, PTL DEF Spec

(* The types of all variables, for any number of clients and cells.        *)
THEOREM TypeCorrect == Spec => []TypeOK
<1>1. IInv => TypeOK
  BY DEF IInv
<1> QED
  BY <1>1, InvariantHolds, PTL

(* A player's commit replaces exactly the revision its author expected,    *)
(* whatever ran while its handler had released the lock.                   *)
THEOREM CommitsCorrect == Spec => []CommitsAtExpected
<1>1. Init => CommitsAtExpected
  BY InitHolds
<1>2. IInv /\ CommitsAtExpected /\ [Next]_vars => CommitsAtExpected'
  BY NextKeeps, LogStepExpected DEF IInv, TypeOK
<1> QED
  BY <1>1, <1>2, InvariantHolds, PTL DEF Spec

(* The protocol of queues, parked handlers, predictions and kicks is a set *)
(* of compare-and-set registers that every client follows forward.         *)
THEOREM Implements == Spec => ImplementsHistory
<1>1. Init => Abstract!Init
  BY InitHolds
<1>2. IInv /\ [Next]_vars => [Abstract!Next]_(Abstract!vars)
  <2> SUFFICES ASSUME IInv, [Next]_vars
               PROVE  Abstract!Next \/ UNCHANGED Abstract!vars
    OBVIOUS
  <2>1. LogStep /\ (UNCHANGED known \/ (UNCHANGED log /\ Learns))
    BY NextKeeps
  <2>2. CASE UNCHANGED known
    <3>1. ASSUME NEW c \in Cells, Extended(c)
          PROVE  Abstract!Extends(log'[c], log[c])
      <4>1. PICK e \in Entry : /\ log'[c] = Append(log[c], e)
                               /\ e.by = World \/ e.expect = Len(log[c])
        BY <3>1 DEF Extended
      <4>2. log[c] \in Seq(Entry)
        BY DEF IInv, TypeOK, LedgerTypeOK
      <4>3. log'[c][Len(log'[c])] = e
        BY <4>1, <4>2
      <4> QED
        BY <4>1, <4>3 DEF Abstract!Extends
    <3>2. Abstract!Commit
      BY <2>1, <2>2, <3>1 DEF LogStep, Abstract!Commit
    <3> QED
      BY <3>2 DEF Abstract!Next
  <2>3. CASE UNCHANGED log /\ Learns
    <3>1. CASE UNCHANGED known
      BY <2>3, <3>1 DEF Abstract!vars
    <3>2. CASE \E p \in Clients, c \in Cells : \E r \in (known[p][c] + 1) .. Rev(c) :
                known' = [known EXCEPT ![p][c] = r]
      <4>1. PICK p \in Clients, c \in Cells : \E r \in (known[p][c] + 1) .. Rev(c) :
                known' = [known EXCEPT ![p][c] = r]
        BY <3>2
      <4>2. PICK r \in (known[p][c] + 1) .. Rev(c) : known' = [known EXCEPT ![p][c] = r]
        BY <4>1
      <4>3. known \in [Clients -> [Cells -> Nat]]
        BY DEF IInv, TypeOK, SessionTypeOK
      <4>4. known'[p][c] = r
        BY <4>2, <4>3
      <4>5. Abstract!Learn(p, c)
        BY <2>3, <4>2, <4>4 DEF Abstract!Learn, Rev
      <4> QED
        BY <4>5 DEF Abstract!Next
    <3> QED
      BY <2>3, <3>1, <3>2 DEF Learns
  <2> QED
    BY <2>1, <2>2, <2>3
<1> QED
  BY <1>1, <1>2, InvariantHolds, PTL DEF Spec, ImplementsHistory, Abstract!Spec

-----------------------------------------------------------------------------
(* The spec pool: the blocks that edited cells name.                       *)

Named == {BlockAt(c) : c \in Edited}

PoolInv == IsFiniteSet(Named) /\ Cardinality(Named) <= MaxSpecPool

(* What a cell names after a step: its newest commit's block.              *)
LEMMA NamedAfter ==
    ASSUME NEW L, NEW s \in Seq(Entry), NEW e \in Entry, L = Append(s, e)
    PROVE  L # <<>> /\ L[Len(L)] = e
OBVIOUS

LEMMA WriteKeepsPool ==
    ASSUME LedgerTypeOK, PoolInv, NEW p \in Clients, NEW m \in Request, NEW b \in Blocks,
           Write(p, m, b), PoolAdmits(b)
    PROVE  PoolInv'
<1> DEFINE e == [by |-> p, req |-> m.req, expect |-> m.expect, block |-> b]
<1>1. m.cell \in Cells /\ e \in Entry
  BY DEF Request, Entry
<1>2. log \in [Cells -> Seq(Entry)]
  BY DEF LedgerTypeOK
<1>3. log'[m.cell] = Append(log[m.cell], e) /\ \A c \in Cells : c # m.cell => log'[c] = log[c]
  BY <1>1, <1>2 DEF Write
<1>4. e.block = b
  OBVIOUS
<1> HIDE DEF e
<1>5. log'[m.cell] # <<>> /\ log'[m.cell][Len(log'[m.cell])].block = b
  <2>1. log[m.cell] \in Seq(Entry) /\ e \in Entry
    BY <1>1, <1>2
  <2>2. log'[m.cell] # <<>> /\ log'[m.cell][Len(log'[m.cell])] = e
    BY <1>3, <2>1, NamedAfter
  <2> QED
    BY <1>4, <2>2
<1>6. Named' \subseteq Named \cup {b}
  <2>1. BlockAt(m.cell)' = b
    BY <1>5 DEF BlockAt
  <2>2. \A c \in Cells : c # m.cell => BlockAt(c)' = BlockAt(c)
    BY <1>3 DEF BlockAt
  <2>3. \A c \in Edited' : c \in Cells /\ (c = m.cell \/ c \in Edited)
    BY <1>3 DEF Edited
  <2> QED
    BY <2>1, <2>2, <2>3 DEF Named
<1>7. /\ IsFiniteSet(Named \cup {b})
      /\ Cardinality(Named \cup {b}) = IF b \in Named THEN Cardinality(Named) ELSE Cardinality(Named) + 1
  BY FS_AddElement DEF PoolInv
<1>8. Cardinality(Named) \in Nat /\ MaxSpecPool \in Nat
  BY FS_CardinalityType, LedgerConstants DEF PoolInv, LedgerConstants
<1>9. b \in Named \/ Cardinality(Named) < MaxSpecPool
  BY DEF PoolAdmits, Named
<1>10. Cardinality(Named \cup {b}) <= MaxSpecPool
  BY <1>7, <1>8, <1>9 DEF PoolInv
<1>11. IsFiniteSet(Named') /\ Cardinality(Named') <= Cardinality(Named \cup {b})
  BY <1>6, <1>7, FS_Subset
<1>12. Cardinality(Named') \in Nat /\ Cardinality(Named \cup {b}) \in Nat
  BY <1>7, <1>11, FS_CardinalityType
<1> QED
  BY <1>8, <1>10, <1>11, <1>12 DEF PoolInv

LEMMA TurnKeepsPool ==
    ASSUME LedgerTypeOK, PoolInv, NEW S \in Contacts, NEW new \in [S -> Blocks], ReactionTurn(new)
    PROVE  PoolInv'
<1> DEFINE kept == {BlockAt(c) : c \in Edited \ S}
           made == {new[c] : c \in S}
<1>1. PICK x \in Cells, y \in Cells : S = {x, y}
  BY DEF Contacts
<1>2. kept \subseteq Named
  BY DEF Named
<1>3. Named' \subseteq kept \cup made
  <2>1. SUFFICES ASSUME NEW c \in Edited'
                 PROVE  BlockAt(c)' \in kept \cup made
    BY DEF Named
  <2>2. c \in Cells /\ log'[c] # <<>> /\ log[c] \in Seq(Entry)
    BY DEF Edited, LedgerTypeOK
  <2>3. CASE c \in S
    <3> DEFINE e == [by |-> World, req |-> 0, expect |-> 0, block |-> new[c]]
    <3>1. e \in Entry /\ e.block = new[c]
      BY <2>3 DEF Entry
    <3>2. log'[c] = Append(log[c], e)
      BY <2>2, <2>3 DEF ReactionTurn
    <3> HIDE DEF e
    <3>3. log'[c][Len(log'[c])] = e
      BY <2>2, <3>1, <3>2, NamedAfter
    <3>4. BlockAt(c)' = new[c]
      BY <2>2, <3>1, <3>3 DEF BlockAt
    <3> QED
      BY <2>3, <3>4
  <2>4. CASE c \notin S
    <3>1. log'[c] = log[c]
      BY <2>2, <2>4 DEF ReactionTurn
    <3>2. c \in Edited /\ BlockAt(c)' = BlockAt(c)
      BY <2>2, <3>1 DEF Edited, BlockAt
    <3> QED
      BY <2>4, <3>2
  <2> QED
    BY <2>3, <2>4
<1>4. Cardinality(kept \cup made) <= MaxSpecPool
  BY DEF ReactionTurn, PoolAdmitsPair
<1>5. made = {new[x], new[y]}
  BY <1>1
<1> HIDE DEF kept, made
<1>6. IsFiniteSet(kept)
  BY <1>2, FS_Subset DEF PoolInv
<1>7. IsFiniteSet(kept \cup {new[x]})
  BY <1>6, FS_AddElement
<1>8. IsFiniteSet((kept \cup {new[x]}) \cup {new[y]})
  BY <1>7, FS_AddElement
<1>9. kept \cup made = (kept \cup {new[x]}) \cup {new[y]}
  BY <1>5
<1>10. IsFiniteSet(kept \cup made)
  BY <1>8, <1>9
<1>11. IsFiniteSet(Named') /\ Cardinality(Named') <= Cardinality(kept \cup made)
  BY <1>3, <1>10, FS_Subset
<1>12. Cardinality(Named') \in Nat /\ Cardinality(kept \cup made) \in Nat /\ MaxSpecPool \in Nat
  BY <1>10, <1>11, FS_CardinalityType, LedgerConstants DEF LedgerConstants
<1> QED
  BY <1>4, <1>11, <1>12 DEF PoolInv

LEMMA NextKeepsPool ==
    ASSUME TypeOK, PoolInv, [Next]_vars
    PROVE  PoolInv'
<1>1. CASE UNCHANGED log
  BY <1>1 DEF PoolInv, Named, Edited, BlockAt
<1>2. ASSUME NEW p \in Clients, NEW full, EditCommit(p, full)
      PROVE  PoolInv'
  <2>1. Head(toServer[p]) \in Request
    BY <1>2, RequestRead DEF EditCommit, Handles, TypeOK
  <2>2. Head(toServer[p]).block \in Blocks
    BY <2>1 DEF Request
  <2> QED
    BY <1>2, <2>1, <2>2, WriteKeepsPool DEF EditCommit, TypeOK
<1>3. ASSUME NEW p \in Clients, NEW full, NEW b \in Blocks, ToolCommit(p, b, full)
      PROVE  PoolInv'
  <2>1. Head(toServer[p]) \in Request
    BY <1>3, RequestRead DEF ToolCommit, Handles, TypeOK
  <2> QED
    BY <1>3, <2>1, WriteKeepsPool DEF ToolCommit, TypeOK
<1>4. ASSUME NEW S \in Contacts, NEW new \in [S -> Blocks], ReactionTurn(new)
      PROVE  PoolInv'
  BY <1>4, TurnKeepsPool DEF TypeOK
<1>5. ASSUME NEW p \in Clients, Handler(p) \/ Depart(p)
      PROVE  PoolInv'
  BY <1>1, <1>2, <1>3, <1>5 DEF Handler, Depart, ReadTerrain, CallHooks, Park, EditRefused, ToolRefused,
                                ToolAnswered, RefuseTool
<1>6. ASSUME Reactions
      PROVE  PoolInv'
  BY <1>1, <1>4, <1>6 DEF Reactions, SendMutation
<1> QED
  BY <1>1, <1>5, <1>6 DEF Next, ServerStep, ClientStep, ledgerVars, vars

(* The distinct blocks that edited cells name never outgrow the spec pool, *)
(* however commits of players and of the reaction tick are mixed.          *)
THEOREM PoolKept == Spec => []PoolHolds
<1>1. Init => PoolInv
  <2> SUFFICES ASSUME Init PROVE PoolInv
    OBVIOUS
  <2>1. Named = {}
    BY DEF Init, LedgerInit, Named, Edited
  <2> QED
    BY <2>1, FS_EmptySet, LedgerConstants DEF PoolInv, LedgerConstants
<1>2. TypeOK /\ PoolInv /\ [Next]_vars => PoolInv'
  BY NextKeepsPool
<1>3. PoolInv => PoolHolds
  BY DEF PoolInv, PoolHolds, Named
<1> QED
  BY <1>1, <1>2, <1>3, TypeCorrect, PTL DEF Spec

-----------------------------------------------------------------------------
(* One stream and what its client has confirmed.                           *)

(* Frames that carry a committed revision, and all that can confirm one.   *)
Carries(m) == m.kind \in {"Snapshot", "Edit"} \/ (m.kind = "ToolResult" /\ m.reacted)
Names(m)   == Carries(m) \/ (m.kind = "EditAck" /\ m.accepted)
Answers(m) == m.kind \in {"EditAck", "ToolResult"}

(* Every revision carried is above what is confirmed and what was named    *)
(* before it.                                                              *)
Ordered(s, k) ==
    \A i \in 1 .. Len(s) : Carries(s[i]) =>
        /\ k[s[i].cell] < s[i].rev
        /\ \A j \in 1 .. i - 1 : Names(s[j]) /\ s[j].cell = s[i].cell => s[j].rev < s[i].rev

Below(s, k, c, r) ==
    /\ k[c] < r
    /\ \A i \in 1 .. Len(s) : Names(s[i]) /\ s[i].cell = c => s[i].rev < r

LEMMA Appended ==
    ASSUME NEW s \in Seq(Frame), NEW m \in Frame
    PROVE  /\ Append(s, m) \in Seq(Frame) /\ Len(Append(s, m)) = Len(s) + 1 /\ Len(s) \in Nat
           /\ Append(s, m)[Len(s) + 1] = m
           /\ \A i \in 1 .. Len(s) : Append(s, m)[i] = s[i]
OBVIOUS

LEMMA OrderedAppend ==
    ASSUME NEW s \in Seq(Frame), NEW k, Ordered(s, k), NEW m \in Frame,
           Carries(m) => Below(s, k, m.cell, m.rev)
    PROVE  Ordered(Append(s, m), k)
<1> DEFINE t == Append(s, m)
<1>1. /\ Len(t) = Len(s) + 1 /\ Len(s) \in Nat /\ t[Len(s) + 1] = m
      /\ \A i \in 1 .. Len(s) : t[i] = s[i]
  BY Appended
<1> HIDE DEF t
<1>2. SUFFICES ASSUME NEW i \in 1 .. Len(t), Carries(t[i])
               PROVE  /\ k[t[i].cell] < t[i].rev
                      /\ \A j \in 1 .. i - 1 : Names(t[j]) /\ t[j].cell = t[i].cell => t[j].rev < t[i].rev
  BY DEF Ordered, t
<1>3. CASE i \in 1 .. Len(s)
  <2>1. t[i] = s[i] /\ \A j \in 1 .. i - 1 : t[j] = s[j]
    BY <1>1, <1>3
  <2> QED
    BY <1>2, <1>3, <2>1 DEF Ordered
<1>4. CASE i = Len(s) + 1
  <2>1. t[i] = m /\ \A j \in 1 .. i - 1 : j \in 1 .. Len(s) /\ t[j] = s[j]
    BY <1>1, <1>4
  <2> QED
    BY <1>2, <2>1 DEF Below
<1> QED
  BY <1>1, <1>3, <1>4

LEMMA BelowAppend ==
    ASSUME NEW s \in Seq(Frame), NEW k, NEW c, NEW r, Below(s, k, c, r), NEW m \in Frame,
           m.cell # c \/ m.rev < r \/ ~Names(m)
    PROVE  Below(Append(s, m), k, c, r)
<1> DEFINE t == Append(s, m)
<1>1. /\ Len(t) = Len(s) + 1 /\ Len(s) \in Nat /\ t[Len(s) + 1] = m
      /\ \A i \in 1 .. Len(s) : t[i] = s[i]
  BY Appended
<1> HIDE DEF t
<1>2. \A i \in 1 .. Len(t) : i \in 1 .. Len(s) \/ i = Len(s) + 1
  BY <1>1
<1>3. \A i \in 1 .. Len(t) : Names(t[i]) /\ t[i].cell = c => t[i].rev < r
  BY <1>1, <1>2 DEF Below
<1> QED
  BY <1>3 DEF Below, t

(* The frame at the head is heard, and confirms its revision at most.      *)
Heard(s, k, l) ==
    \A c \in Cells : l[c] = k[c] \/ (Names(Head(s)) /\ c = Head(s).cell /\ l[c] = Head(s).rev)

LEMMA TailIs ==
    ASSUME NEW s \in Seq(Frame), s # <<>>
    PROVE  /\ Tail(s) \in Seq(Frame) /\ Len(s) \in Nat /\ Len(Tail(s)) = Len(s) - 1 /\ Len(s) >= 1
           /\ Head(s) = s[1] /\ Head(s) \in Frame
           /\ \A i \in 1 .. Len(Tail(s)) : Tail(s)[i] = s[i + 1]
<1>1. Head(s) = s[1]
  OBVIOUS
<1> QED
  BY <1>1, HeadTailProperties, EmptySeq

LEMMA OrderedTail ==
    ASSUME NEW s \in Seq(Frame), s # <<>>, NEW k, NEW l, Ordered(s, k), Heard(s, k, l)
    PROVE  Ordered(Tail(s), l)
<1> DEFINE t == Tail(s)
<1>1. /\ Len(s) \in Nat /\ Len(t) = Len(s) - 1 /\ Len(s) >= 1 /\ Head(s) = s[1] /\ t \in Seq(Frame)
      /\ \A i \in 1 .. Len(t) : t[i] = s[i + 1]
  BY TailIs
<1> HIDE DEF t
<1>2. SUFFICES ASSUME NEW i \in 1 .. Len(t), Carries(t[i])
               PROVE  /\ l[t[i].cell] < t[i].rev
                      /\ \A j \in 1 .. i - 1 : Names(t[j]) /\ t[j].cell = t[i].cell => t[j].rev < t[i].rev
  BY DEF Ordered, t
<1>3. t[i] = s[i + 1] /\ i + 1 \in 1 .. Len(s) /\ \A j \in 1 .. i - 1 : t[j] = s[j + 1] /\ j + 1 \in 1 .. i
  BY <1>1
<1>4. t[i].cell \in Cells
  <2>1. t[i] \in Frame
    BY <1>1, ElementOfSeq
  <2> QED
    BY <2>1, FrameFields
<1>5. /\ k[t[i].cell] < t[i].rev
      /\ \A j \in 1 .. i : Names(s[j]) /\ s[j].cell = t[i].cell => s[j].rev < t[i].rev
  BY <1>2, <1>3 DEF Ordered
<1>6. 1 \in 1 .. i
  BY <1>1
<1>7. l[t[i].cell] < t[i].rev
  BY <1>1, <1>4, <1>5, <1>6 DEF Heard
<1> QED
  BY <1>3, <1>5, <1>7

LEMMA BelowTail ==
    ASSUME NEW s \in Seq(Frame), s # <<>>, NEW k, NEW l, NEW c \in Cells, NEW r,
           Below(s, k, c, r), Heard(s, k, l)
    PROVE  Below(Tail(s), l, c, r)
<1> DEFINE t == Tail(s)
<1>1. /\ Len(s) \in Nat /\ Len(t) = Len(s) - 1 /\ Len(s) >= 1 /\ Head(s) = s[1]
      /\ \A i \in 1 .. Len(t) : t[i] = s[i + 1]
  BY TailIs
<1> HIDE DEF t
<1>2. \A i \in 1 .. Len(t) : Names(t[i]) /\ t[i].cell = c => t[i].rev < r
  BY <1>1 DEF Below
<1>3. 1 \in 1 .. Len(s)
  BY <1>1
<1>4. l[c] < r
  BY <1>1, <1>3 DEF Below, Heard
<1> QED
  BY <1>2, <1>4 DEF Below, t

-----------------------------------------------------------------------------
(* The order of all streams.                                               *)

InOrder == \A p \in connected : Ordered(toClient[p], known[p])

(* While the tick holds a cell back nobody has heard of its last commit.   *)
HeldBack ==
    /\ tick = "off" => touched = {}
    /\ \A p \in connected, c \in touched : Below(toClient[p], known[p], c, Rev(c))

(* What everybody knows, and what is on its way, is below the next commit. *)
LEMMA NextIsAbove ==
    ASSUME IInv, NEW p \in Clients, NEW c \in Cells
    PROVE  Below(toClient[p], known[p], c, Rev(c) + 1)
<1>1. Rev(c) \in Nat /\ known[p][c] \in Nat /\ known[p][c] <= Rev(c)
  BY LedgerRead DEF IInv, TypeOK, SessionTypeOK, KnownBehind
<1>2. \A i \in 1 .. Len(toClient[p]) : toClient[p][i].cell = c => toClient[p][i].rev < Rev(c) + 1
  <2> TAKE i \in 1 .. Len(toClient[p])
  <2>1. toClient[p][i] \in Frame
    BY ElementOfSeq DEF IInv, TypeOK, WireTypeOK
  <2>2. toClient[p][i].rev \in Nat
    BY <2>1, FrameFields
  <2>3. toClient[p][i].rev <= Rev(toClient[p][i].cell)
    BY DEF IInv, FramesBehind
  <2> QED
    BY <1>1, <2>2, <2>3
<1> QED
  BY <1>1, <1>2 DEF Below

(* The ways a server step changes the stream of q.                         *)
Pushes(q, m) == toClient'[q] = Append(toClient[q], m)

Pushes2(q, m, n) == toClient'[q] = Append(Append(toClient[q], m), n)

(* One answer, or a revision of c with its verdict behind it.              *)
Grows(q, c, r) ==
    \/ toClient'[q] = toClient[q]
    \/ \E m \in Frame : Pushes(q, m) /\ (Carries(m) => m.cell = c /\ m.rev = r)
    \/ \E m, n \in Frame :
        /\ Pushes2(q, m, n) /\ ~Carries(n)
        /\ Carries(m) => m.cell = c /\ m.rev = r

LEMMA GrowsOrdered ==
    ASSUME TypeOK, NEW q \in connected, InOrder, NEW c \in Cells, NEW r, Grows(q, c, r),
           Below(toClient[q], known[q], c, r), known'[q] = known[q]
    PROVE  Ordered(toClient'[q], known'[q])
<1> DEFINE s == toClient[q]
           k == known[q]
<1>1. s \in Seq(Frame) /\ Ordered(s, k)
  BY DEF TypeOK, WireTypeOK, InOrder
<1>2. CASE toClient'[q] = s
  BY <1>1, <1>2
<1>3. CASE \E m \in Frame : Pushes(q, m) /\ (Carries(m) => m.cell = c /\ m.rev = r)
  <2>1. PICK m \in Frame : Pushes(q, m) /\ (Carries(m) => m.cell = c /\ m.rev = r)
    BY <1>3
  <2> HIDE DEF s, k
  <2>2. Carries(m) => Below(s, k, m.cell, m.rev)
    BY <2>1 DEF s, k
  <2>3. Ordered(Append(s, m), k)
    BY <1>1, <2>2, OrderedAppend
  <2> QED
    BY <2>1, <2>3 DEF Pushes, s, k
<1>4. CASE \E m, n \in Frame : Pushes2(q, m, n) /\ ~Carries(n) /\ (Carries(m) => m.cell = c /\ m.rev = r)
  <2>1. PICK m \in Frame, n \in Frame :
            Pushes2(q, m, n) /\ ~Carries(n) /\ (Carries(m) => m.cell = c /\ m.rev = r)
    BY <1>4
  <2> HIDE DEF s, k
  <2>2. Carries(m) => Below(s, k, m.cell, m.rev)
    BY <2>1 DEF s, k
  <2>3. Ordered(Append(s, m), k) /\ Append(s, m) \in Seq(Frame)
    BY <1>1, <2>2, OrderedAppend, Appended
  <2>4. Ordered(Append(Append(s, m), n), k)
    BY <2>1, <2>3, OrderedAppend
  <2> QED
    BY <2>1, <2>4 DEF Pushes2, s, k
<1> QED
  BY <1>2, <1>3, <1>4 DEF Grows

-----------------------------------------------------------------------------
(* What each step of the server does to the streams.                       *)

LEMMA ConcatTwo ==
    ASSUME NEW s \in Seq(Frame), NEW m \in Frame, NEW n \in Frame
    PROVE  s \o <<m>> = Append(s, m) /\ s \o <<m, n>> = Append(Append(s, m), n)
OBVIOUS

(* Of q's stream after a commit whose author p gets `mine`, or `mine` and  *)
(* `also`, and everybody else `theirs`.                                    *)
Published(p, mine, also, theirs, full) ==
    \A q \in Clients :
        IF q \notin connected \ full THEN toClient'[q] = toClient[q]
        ELSE IF q = p THEN Pushes(q, mine) \/ (also # mine /\ Pushes2(q, mine, also))
        ELSE Pushes(q, theirs)

LEMMA PublishIs ==
    ASSUME TypeOK, NEW p \in Clients, NEW mine \in Frame, NEW also \in Frame, NEW theirs \in Frame, NEW full,
           \/ Publish(p, <<mine>>, theirs, full)
           \/ also # mine /\ Publish(p, <<mine, also>>, theirs, full)
    PROVE  Published(p, mine, also, theirs, full)
<1>1. SUFFICES ASSUME NEW q \in Clients
               PROVE  IF q \notin connected \ full THEN toClient'[q] = toClient[q]
                      ELSE IF q = p THEN Pushes(q, mine) \/ (also # mine /\ Pushes2(q, mine, also))
                      ELSE Pushes(q, theirs)
  BY DEF Published
<1> DEFINE s == toClient[q]
<1>2. s \in Seq(Frame)
  BY DEF TypeOK, WireTypeOK
<1>3. IF q \notin connected \ full THEN toClient'[q] = s
      ELSE IF q = p THEN toClient'[q] = s \o <<mine>> \/ (also # mine /\ toClient'[q] = s \o <<mine, also>>)
      ELSE toClient'[q] = Append(s, theirs)
  BY DEF Publish
<1> HIDE DEF s
<1>4. s \o <<mine>> = Append(s, mine) /\ s \o <<mine, also>> = Append(Append(s, mine), also)
  BY <1>2, ConcatTwo
<1> QED
  BY <1>3, <1>4 DEF Pushes, Pushes2, s

(* The end of p's current request h, answered or not.                      *)
Concludes(p) ==
    /\ p \in connected /\ toServer[p] # <<>> /\ Head(toServer[p]) \in Request
    /\ tick = "off" /\ UNCHANGED <<tick, touched>>
    /\ Done(p)
    /\ UNCHANGED sessionVars

LEMMA EditRefusedIs ==
    ASSUME TypeOK, NEW p \in Clients, EditRefused(p), UNCHANGED sessionVars
    PROVE  /\ Concludes(p) /\ UNCHANGED <<log, kicked>>
           /\ LET h == Head(toServer[p])
                  a == EditAck(h, FALSE, Rev(h.cell))
              IN  /\ h.kind = "Edit" /\ a \in Frame
                  /\ \A q \in Clients \ {p} : toClient'[q] = toClient[q]
                  /\ toClient'[p] = toClient[p] \/ Pushes(p, a)
<1> DEFINE h == Head(toServer[p])
           a == EditAck(h, FALSE, Rev(h.cell))
<1>1. /\ p \in connected /\ toServer[p] # <<>> /\ tick = "off" /\ h.kind = "Edit"
      /\ UNCHANGED <<log, tick, touched>> /\ Done(p) /\ AnswerOrLose(p, a)
  BY DEF EditRefused, Handles, LockFree
<1>2. h \in Request
  BY <1>1, RequestRead DEF TypeOK
<1>3. h.cell \in Cells
  BY <1>2 DEF Request
<1>4. a \in Frame
  BY <1>2, <1>3, LedgerRead, AckTyped DEF TypeOK
<1> HIDE DEF h, a
<1>5. /\ UNCHANGED kicked
      /\ \A q \in Clients \ {p} : toClient'[q] = toClient[q]
      /\ toClient'[p] = toClient[p] \/ Pushes(p, a)
  BY <1>1 DEF AnswerOrLose, TypeOK, WireTypeOK, Pushes
<1> QED
  BY <1>1, <1>2, <1>4, <1>5 DEF Concludes, h, a

LEMMA RefuseToolIs ==
    ASSUME TypeOK, NEW p \in Clients, Handles(p, "ToolUse"), RefuseTool(p), UNCHANGED sessionVars
    PROVE  /\ Concludes(p) /\ UNCHANGED log
           /\ LET h == Head(toServer[p])
                  a == ToolResult(h, FALSE, Rev(h.cell), BlockAt(h.cell))
              IN  /\ h.kind = "ToolUse" /\ a \in Frame
                  /\ \A q \in Clients \ {p} : toClient'[q] = toClient[q]
                  /\ \/ toClient'[p] = toClient[p] /\ kicked' = kicked \cup {p}
                     \/ Pushes(p, a) /\ UNCHANGED kicked
<1> DEFINE h == Head(toServer[p])
           a == ToolResult(h, FALSE, Rev(h.cell), BlockAt(h.cell))
<1>1. /\ p \in connected /\ toServer[p] # <<>> /\ tick = "off" /\ h.kind = "ToolUse"
      /\ UNCHANGED <<log, tick, touched>> /\ Done(p) /\ AnswerOrKick(p, a)
  BY DEF RefuseTool, Handles, LockFree
<1>2. h \in Request
  BY <1>1, RequestRead DEF TypeOK
<1>3. h.cell \in Cells
  BY <1>2 DEF Request
<1>4. a \in Frame
  BY <1>2, <1>3, LedgerRead, ToolTyped DEF TypeOK
<1> HIDE DEF h, a
<1>5. /\ \A q \in Clients \ {p} : toClient'[q] = toClient[q]
      /\ \/ toClient'[p] = toClient[p] /\ kicked' = kicked \cup {p}
         \/ Pushes(p, a) /\ UNCHANGED kicked
  BY <1>1 DEF AnswerOrKick, TypeOK, WireTypeOK, Pushes
<1> QED
  BY <1>1, <1>2, <1>4, <1>5 DEF Concludes, h, a

LEMMA EditCommitIs ==
    ASSUME TypeOK, NEW p \in Clients, NEW full, EditCommit(p, full), UNCHANGED sessionVars
    PROVE  /\ Concludes(p) /\ kicked' = kicked \cup full
           /\ LET h == Head(toServer[p])
                  r == Rev(h.cell) + 1
                  mine == Snapshot(h.cell, r, h.block)
                  also == EditAck(h, TRUE, r)
                  theirs == EditMsg(h.cell, r, h.block)
              IN  /\ h.kind = "Edit" /\ Write(p, h, h.block) /\ Current(p)
                  /\ mine \in Frame /\ also \in Frame /\ theirs \in Frame
                  /\ Published(p, mine, also, theirs, full)
<1> DEFINE h == Head(toServer[p])
           r == Rev(h.cell) + 1
           mine == Snapshot(h.cell, r, h.block)
           also == EditAck(h, TRUE, r)
           theirs == EditMsg(h.cell, r, h.block)
<1>1. /\ p \in connected /\ toServer[p] # <<>> /\ tick = "off" /\ h.kind = "Edit"
      /\ UNCHANGED <<tick, touched>> /\ Done(p) /\ Write(p, h, h.block) /\ Current(p)
      /\ Publish(p, <<mine, also>>, theirs, full) \/ Publish(p, <<mine>>, theirs, full)
  BY DEF EditCommit, Handles, LockFree
<1>2. h \in Request
  BY <1>1, RequestRead DEF TypeOK
<1>3. h.cell \in Cells /\ h.block \in Blocks
  BY <1>2 DEF Request
<1>4. r \in Nat
  BY <1>3, LedgerRead DEF TypeOK
<1>5. mine \in Frame /\ also \in Frame /\ theirs \in Frame
  <2> HIDE DEF r, h
  <2> QED
    BY <1>2, <1>3, <1>4, ContentTyped, AckTyped
<1>6. also # mine
  BY DEF Snapshot, EditAck
<1>7. kicked' = kicked \cup full
  BY <1>1 DEF Publish
<1> HIDE DEF mine, also, theirs
<1>8. Published(p, mine, also, theirs, full)
  BY <1>1, <1>5, <1>6, PublishIs
<1> QED
  BY <1>1, <1>2, <1>5, <1>7, <1>8 DEF Concludes, mine, also, theirs

LEMMA ToolCommitIs ==
    ASSUME TypeOK, NEW p \in Clients, NEW b \in Blocks, NEW full, ToolCommit(p, b, full), UNCHANGED sessionVars
    PROVE  /\ Concludes(p) /\ kicked' = kicked \cup full
           /\ LET h == Head(toServer[p])
                  r == Rev(h.cell) + 1
                  mine == ToolResult(h, TRUE, r, b)
                  theirs == EditMsg(h.cell, r, b)
              IN  /\ h.kind = "ToolUse" /\ Write(p, h, b) /\ Current(p)
                  /\ mine \in Frame /\ theirs \in Frame
                  /\ Published(p, mine, mine, theirs, full)
<1> DEFINE h == Head(toServer[p])
           r == Rev(h.cell) + 1
           mine == ToolResult(h, TRUE, r, b)
           theirs == EditMsg(h.cell, r, b)
<1>1. /\ p \in connected /\ toServer[p] # <<>> /\ tick = "off" /\ h.kind = "ToolUse"
      /\ UNCHANGED <<tick, touched>> /\ Done(p) /\ Write(p, h, b) /\ Current(p)
      /\ Publish(p, <<mine>>, theirs, full)
  BY DEF ToolCommit, Handles, LockFree
<1>2. h \in Request
  BY <1>1, RequestRead DEF TypeOK
<1>3. h.cell \in Cells
  BY <1>2 DEF Request
<1>4. r \in Nat
  BY <1>3, LedgerRead DEF TypeOK
<1>5. mine \in Frame /\ theirs \in Frame
  <2> HIDE DEF r, h
  <2> QED
    BY <1>2, <1>3, <1>4, ContentTyped, ToolTyped
<1>7. kicked' = kicked \cup full
  BY <1>1 DEF Publish
<1> HIDE DEF mine, theirs
<1>8. Published(p, mine, mine, theirs, full)
  BY <1>1, <1>5, PublishIs
<1> QED
  BY <1>1, <1>2, <1>5, <1>7, <1>8 DEF Concludes, mine, theirs

LEMMA SendMutationIs ==
    ASSUME TypeOK, NEW c \in Cells, NEW full, SendMutation(c, full)
    PROVE  /\ Snapshot(c, Rev(c), BlockAt(c)) \in Frame
           /\ \A q \in Clients : IF q \in connected \ full THEN Pushes(q, Snapshot(c, Rev(c), BlockAt(c)))
                                 ELSE toClient'[q] = toClient[q]
<1>1. Rev(c) \in Nat /\ BlockAt(c) \in Blocks
  BY LedgerRead DEF TypeOK
<1>2. Snapshot(c, Rev(c), BlockAt(c)) \in Frame
  BY <1>1, ContentTyped
<1> QED
  BY <1>2 DEF SendMutation, Pushes

-----------------------------------------------------------------------------
(* Order is kept.                                                          *)

LEMMA ConcludeOrdered ==
    ASSUME IInv, InOrder, HeldBack, NEW c \in Cells, \A q \in connected : Grows(q, c, Rev(c) + 1),
           connected' = connected, known' = known, tick = "off", touched' = touched
    PROVE  InOrder' /\ HeldBack'
<1>1. ASSUME NEW q \in connected
      PROVE  Ordered(toClient'[q], known'[q])
  <2>1. Below(toClient[q], known[q], c, Rev(c) + 1)
    BY NextIsAbove DEF IInv, TypeOK, WireTypeOK
  <2> QED
    BY <2>1, GrowsOrdered DEF IInv
<1> QED
  BY <1>1 DEF InOrder, HeldBack

LEMMA SameOrdered ==
    ASSUME InOrder, HeldBack, connected' \subseteq connected, known' = known,
           \A q \in connected' : toClient'[q] = toClient[q],
           tick' = tick, touched' = touched, log' = log
    PROVE  InOrder' /\ HeldBack'
BY DEF InOrder, HeldBack, Rev

LEMMA HandlerOrdered ==
    ASSUME IInv, InOrder, HeldBack, NEW p \in Clients, Handler(p), UNCHANGED sessionVars
    PROVE  InOrder' /\ HeldBack'
<1>1. TypeOK /\ known' = known
  BY DEF IInv, sessionVars
<1>2. ASSUME NEW where, Park(p, where)
      PROVE  InOrder' /\ HeldBack'
  BY <1>1, <1>2, SameOrdered DEF Park, wire
<1> DEFINE h == Head(toServer[p])
           c == h.cell
<1>3. ASSUME Concludes(p), NEW a \in Frame, ~Carries(a),
             \A q \in Clients \ {p} : toClient'[q] = toClient[q],
             toClient'[p] = toClient[p] \/ Pushes(p, a)
      PROVE  InOrder' /\ HeldBack'
  <2>1. c \in Cells
    BY <1>3 DEF Concludes, Request
  <2>2. \A q \in connected : Grows(q, c, Rev(c) + 1)
    BY <1>1, <1>3 DEF Grows, TypeOK, WireTypeOK
  <2> HIDE DEF c
  <2> QED
    BY <1>1, <1>3, <2>1, <2>2, ConcludeOrdered DEF Concludes, Done
<1>4. ASSUME NEW full, Concludes(p), NEW mine \in Frame, NEW also \in Frame, NEW theirs \in Frame,
             Published(p, mine, also, theirs, full), also = mine \/ ~Carries(also),
             mine.cell = c, mine.rev = Rev(c) + 1, theirs.cell = c, theirs.rev = Rev(c) + 1
      PROVE  InOrder' /\ HeldBack'
  <2>1. c \in Cells
    BY <1>4 DEF Concludes, Request
  <2>2. \A q \in connected : Grows(q, c, Rev(c) + 1)
    <3> TAKE q \in connected
    <3>1. q \in Clients
      BY <1>1 DEF TypeOK, WireTypeOK
    <3>2. \/ toClient'[q] = toClient[q] \/ Pushes(q, mine) \/ Pushes(q, theirs)
          \/ also # mine /\ Pushes2(q, mine, also)
      BY <1>4, <3>1 DEF Published
    <3> QED
      BY <1>4, <3>2 DEF Grows
  <2> HIDE DEF c
  <2> QED
    BY <1>1, <1>4, <2>1, <2>2, ConcludeOrdered DEF Concludes, Done
<1>5. CASE EditRefused(p)
  BY <1>1, <1>3, <1>5, EditRefusedIs DEF Carries, EditAck
<1>6. ASSUME Handles(p, "ToolUse"), RefuseTool(p)
      PROVE  InOrder' /\ HeldBack'
  BY <1>1, <1>3, <1>6, RefuseToolIs DEF Carries, ToolResult
<1>7. ASSUME NEW full, EditCommit(p, full)
      PROVE  InOrder' /\ HeldBack'
  BY <1>1, <1>4, <1>7, EditCommitIs DEF Carries, Snapshot, EditMsg, EditAck
<1>8. ASSUME NEW full, NEW b \in Blocks, ToolCommit(p, b, full)
      PROVE  InOrder' /\ HeldBack'
  <2> DEFINE mine   == ToolResult(h, TRUE, Rev(h.cell) + 1, b)
             theirs == EditMsg(h.cell, Rev(h.cell) + 1, b)
  <2>1. /\ Concludes(p) /\ mine \in Frame /\ theirs \in Frame
        /\ Published(p, mine, mine, theirs, full)
    BY <1>1, <1>8, ToolCommitIs
  <2>2. /\ mine.cell = c /\ mine.rev = Rev(c) + 1
        /\ theirs.cell = c /\ theirs.rev = Rev(c) + 1
    BY DEF ToolResult, EditMsg
  <2> HIDE DEF mine, theirs, h, c
  <2> QED
    BY <1>4, <2>1, <2>2
<1> QED
  BY <1>2, <1>5, <1>6, <1>7, <1>8 DEF Handler, ReadTerrain, CallHooks, ToolRefused, ToolAnswered

LEMMA TurnOrdered ==
    ASSUME IInv, InOrder, HeldBack, NEW S \in SUBSET Cells, NEW new \in [S -> Blocks], ReactionTurn(new),
           UNCHANGED sessionVars
    PROVE  InOrder' /\ HeldBack'
<1>1. /\ connected' = connected /\ toClient' = toClient /\ known' = known /\ tick' = "turns"
      /\ touched' = touched \cup S
  BY DEF ReactionTurn, wire, sessionVars
<1>2. LogStep /\ touched \subseteq Cells /\ connected \subseteq Clients
  BY ReactionTurnKeeps DEF IInv, TypeOK, LedgerTypeOK, WireTypeOK
<1>3. ASSUME NEW q \in connected, NEW c \in touched'
      PROVE  Below(toClient[q], known[q], c, Rev(c)')
  <2>0. c \in Cells
    BY <1>1, <1>2
  <2>1. Rev(c) \in Nat /\ Rev(c)' \in Nat /\ Rev(c) <= Rev(c)'
    BY <1>2, <2>0, LogStepGrows DEF IInv, TypeOK
  <2>2. toClient[q] \in Seq(Frame) /\ known[q][c] \in Nat
    BY <1>2, <2>0 DEF IInv, TypeOK, WireTypeOK, SessionTypeOK
  <2>3. \A i \in 1 .. Len(toClient[q]) : toClient[q][i].rev \in Nat
    BY <2>2, ElementOfSeq, FrameFields
  <2>4. CASE c \in touched
    <3>1. Below(toClient[q], known[q], c, Rev(c))
      BY <2>4 DEF HeldBack
    <3> QED
      BY <2>1, <2>2, <2>3, <3>1 DEF Below
  <2>5. CASE c \in S
    <3>1. log'[c] = Append(log[c], [by |-> World, req |-> 0, expect |-> 0, block |-> new[c]])
      BY <2>0, <2>5 DEF ReactionTurn
    <3>2. log[c] \in Seq(Entry)
      BY <2>0 DEF IInv, TypeOK, LedgerTypeOK
    <3>3. Rev(c)' = Rev(c) + 1
      <4> DEFINE e == [by |-> World, req |-> 0, expect |-> 0, block |-> new[c]]
      <4>1. e \in Entry
        BY <2>5 DEF Entry
      <4> HIDE DEF e
      <4>2. log'[c] = Append(log[c], e)
        BY <3>1 DEF e
      <4> QED
        BY <3>2, <4>1, <4>2 DEF Rev
    <3>4. Below(toClient[q], known[q], c, Rev(c) + 1)
      BY <1>2, <2>0, NextIsAbove
    <3> QED
      BY <3>3, <3>4
  <2> QED
    BY <1>1, <2>4, <2>5
<1> QED
  BY <1>1, <1>3 DEF InOrder, HeldBack

LEMMA SendsOrdered ==
    ASSUME IInv, InOrder, HeldBack, NEW c \in Cells, NEW full, SendMutation(c, full), UNCHANGED sessionVars
    PROVE  InOrder' /\ HeldBack'
<1> DEFINE m == Snapshot(c, Rev(c), BlockAt(c))
<1>1. /\ m \in Frame
      /\ \A q \in Clients : IF q \in connected \ full THEN Pushes(q, m) ELSE toClient'[q] = toClient[q]
  BY SendMutationIs DEF IInv
<1>2. m.cell = c /\ m.rev = Rev(c)
  BY DEF Snapshot
<1> HIDE DEF m
<1>3. /\ c \in touched /\ touched' = touched \ {c} /\ tick' = IF touched = {c} THEN "off" ELSE "sends"
      /\ connected' = connected /\ log' = log /\ known' = known
      /\ connected \subseteq Clients
  BY DEF SendMutation, sessionVars, IInv, TypeOK, WireTypeOK
<1>4. ASSUME NEW q \in connected
      PROVE  /\ Ordered(toClient'[q], known[q])
             /\ \A d \in touched' : Below(toClient'[q], known[q], d, Rev(d))
  <2>1. toClient[q] \in Seq(Frame) /\ Ordered(toClient[q], known[q])
    BY <1>3 DEF IInv, TypeOK, WireTypeOK, InOrder
  <2>2. \A d \in touched : Below(toClient[q], known[q], d, Rev(d))
    BY DEF HeldBack
  <2>3. CASE toClient'[q] = toClient[q]
    BY <1>3, <2>1, <2>2, <2>3
  <2>4. CASE toClient'[q] = Append(toClient[q], m)
    <3>1. Ordered(Append(toClient[q], m), known[q])
      BY <1>1, <1>2, <1>3, <2>1, <2>2, OrderedAppend
    <3>2. ASSUME NEW d \in touched'
          PROVE  Below(Append(toClient[q], m), known[q], d, Rev(d))
      BY <1>1, <1>2, <1>3, <2>1, <2>2, BelowAppend
    <3> QED
      BY <2>4, <3>1, <3>2
  <2> QED
    BY <1>1, <1>3, <2>3, <2>4 DEF Pushes
<1> QED
  BY <1>3, <1>4 DEF InOrder, HeldBack, Rev

-----------------------------------------------------------------------------
(* What a client hears is in order.                                        *)

LEMMA HeardOrdered ==
    ASSUME IInv, InOrder, HeldBack, NEW p \in Clients, NEW kinds, Hears(p, kinds),
           Heard(toClient[p], known[p], known'[p]), \A q \in Clients \ {p} : known'[q] = known[q],
           UNCHANGED ledgerVars
    PROVE  InOrder' /\ HeldBack'
<1>1. /\ p \in connected /\ toClient[p] # <<>> /\ toClient[p] \in Seq(Frame)
      /\ toClient'[p] = Tail(toClient[p]) /\ \A q \in Clients \ {p} : toClient'[q] = toClient[q]
      /\ connected' = connected /\ connected \subseteq Clients
      /\ tick' = tick /\ touched' = touched /\ touched \subseteq Cells /\ log' = log
  BY DEF Hears, IInv, TypeOK, WireTypeOK, LedgerTypeOK, ledgerVars
<1>2. Ordered(toClient'[p], known'[p])
  BY <1>1, OrderedTail DEF InOrder
<1>3. \A c \in touched : Below(toClient'[p], known'[p], c, Rev(c))
  BY <1>1, BelowTail DEF HeldBack
<1>4. \A q \in connected \ {p} : Ordered(toClient'[q], known'[q])
  BY <1>1 DEF InOrder
<1>5. \A q \in connected \ {p}, c \in touched : Below(toClient'[q], known'[q], c, Rev(c))
  BY <1>1 DEF HeldBack
<1>6. HeldBack'
  BY <1>1, <1>3, <1>5 DEF HeldBack, Rev
<1> QED
  BY <1>1, <1>2, <1>4, <1>6 DEF InOrder

LEMMA ConfirmHeard ==
    ASSUME TypeOK, NEW p \in Clients, NEW c \in Cells, NEW r
    PROVE  /\ \A q \in Clients \ {p} : Confirm(p, c, r)[q] = known[q]
           /\ \A d \in Cells :
                Confirm(p, c, r)[p][d] = known[p][d] \/ (d = c /\ Confirm(p, c, r)[p][d] = r)
BY DEF TypeOK, SessionTypeOK, Confirm

LEMMA PollOrdered ==
    ASSUME IInv, InOrder, HeldBack, NEW p \in Clients, Poll(p), UNCHANGED ledgerVars
    PROVE  InOrder' /\ HeldBack'
<1> DEFINE m == Head(toClient[p])
<1>1. TypeOK
  BY DEF IInv
<1>2. ASSUME toClient[p] # <<>>
      PROVE  m \in Frame /\ m.cell \in Cells
  BY <1>1, <1>2, FrameRead, FrameFields DEF TypeOK
<1>3. CASE HearContent(p)
  <2>1. Hears(p, {"Snapshot", "Edit"}) /\ toClient[p] # <<>> /\ m.kind \in {"Snapshot", "Edit"}
    BY <1>3 DEF HearContent, Hears
  <2>2. known' = known \/ known' = [known EXCEPT ![p][m.cell] = m.rev]
    BY <1>3 DEF HearContent
  <2>3. Heard(toClient[p], known[p], known'[p]) /\ \A q \in Clients \ {p} : known'[q] = known[q]
    BY <1>1, <1>2, <2>1, <2>2 DEF Heard, Names, Carries, TypeOK, SessionTypeOK
  <2> QED
    BY <2>1, <2>3, HeardOrdered
<1>4. CASE HearAck(p)
  <2>1. Hears(p, {"EditAck"}) /\ toClient[p] # <<>> /\ m.kind = "EditAck"
    BY <1>4 DEF HearAck, Hears
  <2>2. known' = known \/ (m.accepted /\ known' = Confirm(p, m.cell, m.rev))
    BY <1>4 DEF HearAck
  <2>3. Heard(toClient[p], known[p], known'[p]) /\ \A q \in Clients \ {p} : known'[q] = known[q]
    BY <1>1, <1>2, <2>1, <2>2, ConfirmHeard DEF Heard, Names
  <2> QED
    BY <2>1, <2>3, HeardOrdered
<1>5. CASE HearTool(p)
  <2>1. Hears(p, {"ToolResult"}) /\ toClient[p] # <<>> /\ m.kind = "ToolResult"
    BY <1>5 DEF HearTool, Hears
  <2>2. known' = known \/ (m.reacted /\ known' = Confirm(p, m.cell, m.rev))
    BY <1>5 DEF HearTool
  <2>3. Heard(toClient[p], known[p], known'[p]) /\ \A q \in Clients \ {p} : known'[q] = known[q]
    BY <1>1, <1>2, <2>1, <2>2, ConfirmHeard DEF Heard, Names, Carries
  <2> QED
    BY <2>1, <2>3, HeardOrdered
<1>6. ASSUME NEW old, EndPoll(p, old)
      PROVE  InOrder' /\ HeldBack'
  BY <1>6, SameOrdered DEF EndPoll, wire, ledgerVars
<1> QED
  BY <1>3, <1>4, <1>5, <1>6 DEF Poll

LEMMA PlayerOrdered ==
    ASSUME IInv, InOrder, HeldBack, NEW p \in Clients, Player(p), UNCHANGED ledgerVars
    PROVE  InOrder' /\ HeldBack'
<1>1. UNCHANGED <<connected, toClient, known>>
  BY DEF Player, Break, Place, Predict, UseTool, Send
<1> QED
  BY <1>1, SameOrdered DEF ledgerVars

LEMMA InitOrdered ==
    ASSUME Init
    PROVE  InOrder /\ HeldBack
BY EmptySeq DEF Init, WireInit, LedgerInit, SessionInit, InOrder, HeldBack, Ordered

LEMMA NextOrdered ==
    ASSUME IInv, InOrder, HeldBack, [Next]_vars
    PROVE  InOrder' /\ HeldBack'
<1>1. CASE ServerStep
  <2>1. UNCHANGED sessionVars
    BY <1>1 DEF ServerStep
  <2>2. ASSUME NEW p \in Clients, Handler(p)
        PROVE  InOrder' /\ HeldBack'
    BY <2>1, <2>2, HandlerOrdered
  <2>3. ASSUME NEW p \in Clients, Depart(p)
        PROVE  InOrder' /\ HeldBack'
    BY <2>1, <2>3, SameOrdered DEF Depart, sessionVars, IInv, TypeOK, WireTypeOK
  <2>4. ASSUME NEW S \in Contacts, NEW new \in [S -> Blocks], ReactionTurn(new)
        PROVE  InOrder' /\ HeldBack'
    BY <2>1, <2>4, TurnOrdered DEF Contacts
  <2>5. ASSUME NEW c \in Cells, NEW full, SendMutation(c, full)
        PROVE  InOrder' /\ HeldBack'
    BY <2>1, <2>5, SendsOrdered
  <2> QED
    BY <1>1, <2>2, <2>3, <2>4, <2>5 DEF ServerStep, Reactions
<1>2. CASE ClientStep
  BY <1>2, PlayerOrdered, PollOrdered DEF ClientStep
<1>3. CASE UNCHANGED vars
  BY <1>3, SameOrdered DEF vars, wire, ledgerVars, sessionVars
<1> QED
  BY <1>1, <1>2, <1>3 DEF Next

(* A frame that tells is one that carries.                                 *)
LEMMA OrderIsOrder ==
    ASSUME IInv, InOrder
    PROVE  StreamInOrder
<1>1. SUFFICES ASSUME NEW p \in connected, NEW i \in DOMAIN toClient[p], Tells(p, toClient[p][i])
               PROVE  /\ known[p][toClient[p][i].cell] < toClient[p][i].rev
                      /\ toClient[p][i].rev <= Rev(toClient[p][i].cell)
                      /\ \A j \in 1 .. i - 1 :
                            Tells(p, toClient[p][j]) /\ toClient[p][j].cell = toClient[p][i].cell
                                => toClient[p][j].rev < toClient[p][i].rev
  BY DEF StreamInOrder
<1>2. toClient[p] \in Seq(Frame) /\ p \in Clients
  BY DEF IInv, TypeOK, WireTypeOK
<1>3. i \in 1 .. Len(toClient[p])
  BY <1>2
<1>4. \A m : Tells(p, m) => Carries(m)
  BY DEF Tells, Carries
<1>5. toClient[p][i].rev <= Rev(toClient[p][i].cell)
  BY <1>2, <1>3 DEF IInv, FramesBehind
<1> QED
  BY <1>1, <1>3, <1>4, <1>5 DEF InOrder, Ordered, Names

(* The revisions of one cell reach a client in commit order, each once:    *)
(* every frame is queued under the lock that committed it, and what the    *)
(* reaction tick has not sent yet nobody has heard of.                     *)
THEOREM StreamOrdered == Spec => []StreamInOrder
<1>1. Init => InOrder /\ HeldBack
  BY InitOrdered
<1>2. IInv /\ InOrder /\ HeldBack /\ [Next]_vars => InOrder' /\ HeldBack'
  BY NextOrdered
<1>3. IInv /\ InOrder => StreamInOrder
  BY OrderIsOrder
<1> QED
  BY <1>1, <1>2, <1>3, InvariantHolds, PTL DEF Spec

-----------------------------------------------------------------------------
(* Requests are numbered in the order they are sent, decided in that order *)
(* and answered in it.                                                     *)

(* Of a client that used n numbers and whose requests up to h are decided. *)
Waiting(s, h, n) ==
    \A i \in 1 .. Len(s) : s[i].req \in h + 1 .. n /\ \A j \in 1 .. i - 1 : s[j].req < s[i].req

Answered(t, h) ==
    \A i \in 1 .. Len(t) : Answers(t[i]) =>
        /\ t[i].req \in 1 .. h
        /\ \A j \in 1 .. i - 1 : Answers(t[j]) => t[j].req < t[i].req

Decided(p, L, h) ==
    \A c \in Cells : \A i \in 1 .. Len(L[c]) : L[c][i].by = p => L[c][i].req \in 1 .. h

Counted(p, h) ==
    /\ h <= nextReq[p]
    /\ Waiting(toServer[p], h, nextReq[p])
    /\ Answered(toClient[p], h)
    /\ Decided(p, log, h)
    /\ \A q \in pending[p] : q.req \in 1 .. nextReq[p]

InSequence == \A p \in Clients : \E h \in Nat : Counted(p, h)

(* What an answer says of the ledger L.                                    *)
Granted(m) == IF m.kind = "EditAck" THEN m.accepted ELSE m.reacted

Truthful(m, p, L) ==
    /\ \A c \in Cells : \A i \in 1 .. Len(L[c]) :
            L[c][i].by = p /\ L[c][i].req = m.req => Granted(m) /\ c = m.cell /\ i = m.rev
    /\ Granted(m) =>
            /\ m.rev \in 1 .. Len(L[m.cell])
            /\ L[m.cell][m.rev].by = p /\ L[m.cell][m.rev].req = m.req
            /\ m.kind = "ToolResult" => L[m.cell][m.rev].block = m.block

Truth(t, p, L) == \A i \in 1 .. Len(t) : Answers(t[i]) => Truthful(t[i], p, L)

AllTrue == \A p \in Clients : Truth(toClient[p], p, log)

-----------------------------------------------------------------------------
(* Streams: what taking from one and appending to it keep.                 *)

LEMMA WaitingTail ==
    ASSUME NEW s \in Seq(Request), s # <<>>, NEW h \in Nat, NEW n \in Nat, Waiting(s, h, n)
    PROVE  /\ Head(s).req \in h + 1 .. n
           /\ Waiting(Tail(s), Head(s).req, n)
<1> DEFINE t == Tail(s)
<1>1. Head(s) = s[1]
  OBVIOUS
<1>2. /\ Len(s) \in Nat /\ Len(s) >= 1 /\ Len(t) = Len(s) - 1
      /\ \A i \in 1 .. Len(t) : t[i] = s[i + 1]
  BY HeadTailProperties, EmptySeq
<1> HIDE DEF t
<1>3. Head(s).req \in h + 1 .. n
  BY <1>1, <1>2 DEF Waiting
<1>4. ASSUME NEW i \in 1 .. Len(t)
      PROVE  t[i].req \in Head(s).req + 1 .. n /\ \A j \in 1 .. i - 1 : t[j].req < t[i].req
  <2>1. /\ t[i] = s[i + 1] /\ i + 1 \in 1 .. Len(s) /\ 1 \in 1 .. (i + 1) - 1
        /\ \A j \in 1 .. i - 1 : t[j] = s[j + 1] /\ j + 1 \in 1 .. (i + 1) - 1
    BY <1>2
  <2>2. s[i + 1].req \in h + 1 .. n /\ \A j \in 1 .. (i + 1) - 1 : s[j].req < s[i + 1].req
    BY <2>1 DEF Waiting
  <2> QED
    BY <1>1, <1>3, <2>1, <2>2
<1> QED
  BY <1>3, <1>4 DEF Waiting, t

LEMMA WaitingMore ==
    ASSUME NEW s \in Seq(Request), NEW h \in Nat, NEW n \in Nat, h <= n, Waiting(s, h, n)
    PROVE  /\ Waiting(s, h, n + 1)
           /\ \A m \in Request : m.req = n + 1 => Waiting(Append(s, m), h, n + 1)
<1>1. Waiting(s, h, n + 1)
  BY DEF Waiting
<1>2. ASSUME NEW m \in Request, m.req = n + 1
      PROVE  Waiting(Append(s, m), h, n + 1)
  <2> DEFINE t == Append(s, m)
  <2>1. /\ Len(t) = Len(s) + 1 /\ Len(s) \in Nat /\ t[Len(s) + 1] = m
        /\ \A i \in 1 .. Len(s) : t[i] = s[i]
    OBVIOUS
  <2> HIDE DEF t
  <2>2. ASSUME NEW i \in 1 .. Len(t)
        PROVE  t[i].req \in h + 1 .. n + 1 /\ \A j \in 1 .. i - 1 : t[j].req < t[i].req
    <3>1. CASE i \in 1 .. Len(s)
      <4>1. t[i] = s[i] /\ \A j \in 1 .. i - 1 : t[j] = s[j]
        BY <2>1, <3>1
      <4>2. s[i].req \in h + 1 .. n /\ \A j \in 1 .. i - 1 : s[j].req < s[i].req
        BY <3>1 DEF Waiting
      <4>3. t[i].req \in h + 1 .. n /\ \A j \in 1 .. i - 1 : t[j].req < t[i].req
        BY <4>1, <4>2
      <4> QED
        BY <4>3
    <3>2. CASE i = Len(s) + 1
      <4>1. t[i] = m /\ \A j \in 1 .. i - 1 : j \in 1 .. Len(s) /\ t[j] = s[j]
        BY <2>1, <3>2
      <4>2. \A j \in 1 .. Len(s) : s[j].req \in h + 1 .. n
        BY DEF Waiting
      <4>3. \A j \in 1 .. i - 1 : t[j].req \in h + 1 .. n
        BY <4>1, <4>2
      <4>4. h + 1 <= n + 1 /\ t[i].req = n + 1
        BY <1>2, <4>1 DEF Waiting
      <4> QED
        BY <4>3, <4>4
    <3> QED
      BY <2>1, <3>1, <3>2
  <2> QED
    BY <2>2 DEF Waiting, t
<1> QED
  BY <1>1, <1>2

LEMMA AnsweredMore ==
    ASSUME NEW t \in Seq(Frame), NEW h \in Nat, NEW g \in Nat, h <= g, Answered(t, h)
    PROVE  /\ Answered(t, g)
           /\ \A m \in Frame : (Answers(m) => m.req = g /\ h < g) => Answered(Append(t, m), g)
<1>1. Answered(t, g)
  BY DEF Answered
<1>2. ASSUME NEW m \in Frame, Answers(m) => m.req = g /\ h < g
      PROVE  Answered(Append(t, m), g)
  <2> DEFINE u == Append(t, m)
  <2>1. /\ Len(u) = Len(t) + 1 /\ Len(t) \in Nat /\ u[Len(t) + 1] = m
        /\ \A i \in 1 .. Len(t) : u[i] = t[i]
    BY Appended
  <2> HIDE DEF u
  <2>2. ASSUME NEW i \in 1 .. Len(u), Answers(u[i])
        PROVE  /\ u[i].req \in 1 .. g
               /\ \A j \in 1 .. i - 1 : Answers(u[j]) => u[j].req < u[i].req
    <3>1. CASE i \in 1 .. Len(t)
      <4>1. u[i] = t[i] /\ \A j \in 1 .. i - 1 : u[j] = t[j]
        BY <2>1, <3>1
      <4> QED
        BY <2>2, <3>1, <4>1 DEF Answered
    <3>2. CASE i = Len(t) + 1
      <4>1. u[i] = m /\ \A j \in 1 .. i - 1 : j \in 1 .. Len(t) /\ u[j] = t[j]
        BY <2>1, <3>2
      <4> QED
        BY <1>2, <2>2, <4>1 DEF Answered
    <3> QED
      BY <2>1, <3>1, <3>2
  <2> QED
    BY <2>2 DEF Answered, u
<1> QED
  BY <1>1, <1>2

LEMMA AnsweredTail ==
    ASSUME NEW t \in Seq(Frame), t # <<>>, NEW h \in Nat, Answered(t, h)
    PROVE  /\ Answered(Tail(t), h)
           /\ Answers(Head(t)) =>
                /\ Head(t).req \in 1 .. h
                /\ \A i \in 1 .. Len(Tail(t)) : Answers(Tail(t)[i]) => Head(t).req < Tail(t)[i].req
<1> DEFINE u == Tail(t)
<1>1. /\ Len(t) \in Nat /\ Len(u) = Len(t) - 1 /\ Len(t) >= 1 /\ Head(t) = t[1]
      /\ \A i \in 1 .. Len(u) : u[i] = t[i + 1]
  BY TailIs
<1> HIDE DEF u
<1>2. \A i \in 1 .. Len(u) :
        /\ u[i] = t[i + 1] /\ i + 1 \in 1 .. Len(t) /\ 1 \in 1 .. (i + 1) - 1
        /\ \A j \in 1 .. i - 1 : u[j] = t[j + 1] /\ j + 1 \in 1 .. (i + 1) - 1
  BY <1>1
<1>3. Answered(u, h)
  BY <1>2 DEF Answered
<1>4. Answers(Head(t)) => Head(t).req \in 1 .. h
  BY <1>1 DEF Answered
<1>5. ASSUME Answers(Head(t)), NEW i \in 1 .. Len(u), Answers(u[i])
      PROVE  Head(t).req < u[i].req
  <2>1. u[i] = t[i + 1] /\ i + 1 \in 1 .. Len(t) /\ 1 \in 1 .. (i + 1) - 1
    BY <1>2
  <2> QED
    BY <1>1, <1>5, <2>1 DEF Answered
<1> QED
  BY <1>3, <1>4, <1>5 DEF u

LEMMA TruthMore ==
    ASSUME NEW t \in Seq(Frame), NEW p, NEW L, Truth(t, p, L)
    PROVE  /\ \A m \in Frame : (Answers(m) => Truthful(m, p, L)) => Truth(Append(t, m), p, L)
           /\ t # <<>> => Truth(Tail(t), p, L)
<1>1. ASSUME NEW m \in Frame, Answers(m) => Truthful(m, p, L)
      PROVE  Truth(Append(t, m), p, L)
  <2> DEFINE u == Append(t, m)
  <2>1. /\ Len(u) = Len(t) + 1 /\ Len(t) \in Nat /\ u[Len(t) + 1] = m
        /\ \A i \in 1 .. Len(t) : u[i] = t[i]
    BY Appended
  <2> HIDE DEF u
  <2>2. \A i \in 1 .. Len(u) : i \in 1 .. Len(t) \/ i = Len(t) + 1
    BY <2>1
  <2> QED
    BY <1>1, <2>1, <2>2 DEF Truth, u
<1>2. ASSUME t # <<>>
      PROVE  Truth(Tail(t), p, L)
  <2> DEFINE u == Tail(t)
  <2>1. /\ Len(t) \in Nat /\ Len(u) = Len(t) - 1
        /\ \A i \in 1 .. Len(u) : u[i] = t[i + 1]
    BY <1>2, TailIs
  <2> HIDE DEF u
  <2>2. \A i \in 1 .. Len(u) : i + 1 \in 1 .. Len(t)
    BY <2>1
  <2> QED
    BY <2>1, <2>2 DEF Truth, u
<1> QED
  BY <1>1, <1>2

-----------------------------------------------------------------------------
(* The ledger's past stays.                                                *)

(* What a step adds is by a, for its request r.                            *)
GrewBy(a, r) ==
    \A c \in Cells : \/ log'[c] = log[c]
                     \/ \E e \in Entry : log'[c] = Append(log[c], e) /\ e.by = a /\ e.req = r

LEMMA PastStays ==
    ASSUME LedgerTypeOK, NEW a, NEW r, GrewBy(a, r), NEW c \in Cells
    PROVE  /\ \A i \in 1 .. Len(log[c]) : i \in 1 .. Len(log'[c]) /\ log'[c][i] = log[c][i]
           /\ \A i \in 1 .. Len(log'[c]) : \/ i \in 1 .. Len(log[c])
                                           \/ log'[c][i].by = a /\ log'[c][i].req = r
<1>1. log[c] \in Seq(Entry)
  BY DEF LedgerTypeOK
<1>2. CASE log'[c] = log[c]
  BY <1>2
<1>3. CASE \E e \in Entry : log'[c] = Append(log[c], e) /\ e.by = a /\ e.req = r
  <2>1. PICK e \in Entry : log'[c] = Append(log[c], e) /\ e.by = a /\ e.req = r
    BY <1>3
  <2> DEFINE s == log[c]
             t == log'[c]
  <2>2. /\ Len(t) = Len(s) + 1 /\ Len(s) \in Nat /\ t[Len(s) + 1] = e
        /\ \A i \in 1 .. Len(s) : t[i] = s[i]
    BY <1>1, <2>1
  <2> HIDE DEF s, t
  <2>3. \A i \in 1 .. Len(s) : i \in 1 .. Len(t) /\ t[i] = s[i]
    BY <2>2
  <2>4. \A i \in 1 .. Len(t) : i \in 1 .. Len(s) \/ (t[i].by = a /\ t[i].req = r)
    BY <2>1, <2>2
  <2> QED
    BY <2>3, <2>4 DEF s, t
<1> QED
  BY <1>2, <1>3 DEF GrewBy

LEMMA TruthStays ==
    ASSUME LedgerTypeOK, NEW a, NEW r, GrewBy(a, r), NEW p, NEW t \in Seq(Frame), Truth(t, p, log),
           \A i \in 1 .. Len(t) : Answers(t[i]) => a # p \/ t[i].req # r
    PROVE  Truth(t, p, log')
<1>1. SUFFICES ASSUME NEW i \in 1 .. Len(t), Answers(t[i])
               PROVE  Truthful(t[i], p, log')
  BY DEF Truth
<1>2. Truthful(t[i], p, log) /\ (a # p \/ t[i].req # r) /\ t[i].cell \in Cells
  BY <1>1, ElementOfSeq, FrameFields DEF Truth
<1> DEFINE m == t[i]
<1> HIDE DEF m
<1>3. Truthful(m, p, log) /\ (a # p \/ m.req # r) /\ m.cell \in Cells
  BY <1>2 DEF m
<1>4. \A c \in Cells : \A j \in 1 .. Len(log'[c]) :
            log'[c][j].by = p /\ log'[c][j].req = m.req => Granted(m) /\ c = m.cell /\ j = m.rev
  BY <1>3, PastStays DEF Truthful
<1>5. Granted(m) =>
            /\ m.rev \in 1 .. Len(log'[m.cell])
            /\ log'[m.cell][m.rev].by = p /\ log'[m.cell][m.rev].req = m.req
            /\ m.kind = "ToolResult" => log'[m.cell][m.rev].block = m.block
  BY <1>3, PastStays DEF Truthful
<1> QED
  BY <1>4, <1>5 DEF Truthful, m

LEMMA DecidedStays ==
    ASSUME LedgerTypeOK, NEW a, NEW r \in Nat, GrewBy(a, r), NEW p, NEW h \in Nat, NEW g \in Nat, h <= g,
           Decided(p, log, h), a # p \/ (1 <= r /\ r <= g)
    PROVE  Decided(p, log', g)
<1>1. SUFFICES ASSUME NEW c \in Cells, NEW i \in 1 .. Len(log'[c]), log'[c][i].by = p
               PROVE  log'[c][i].req \in 1 .. g
  BY DEF Decided
<1>2. CASE i \in 1 .. Len(log[c])
  <2>1. log'[c][i] = log[c][i]
    BY <1>2, PastStays
  <2> QED
    BY <1>1, <1>2, <2>1 DEF Decided
<1>3. CASE log'[c][i].by = a /\ log'[c][i].req = r
  BY <1>1, <1>3
<1> QED
  BY <1>2, <1>3, PastStays

-----------------------------------------------------------------------------
(* The server's steps keep the sequence and the truth.                     *)

LEMMA WriteIs ==
    ASSUME LedgerTypeOK, NEW p \in Clients, NEW m \in Request, NEW b \in Blocks, Write(p, m, b)
    PROVE  \E e \in Entry :
            /\ e.by = p /\ e.req = m.req /\ e.block = b
            /\ log'[m.cell] = Append(log[m.cell], e)
            /\ \A c \in Cells \ {m.cell} : log'[c] = log[c]
<1> DEFINE e == [by |-> p, req |-> m.req, expect |-> m.expect, block |-> b]
<1>1. e \in Entry /\ e.by = p /\ e.req = m.req /\ e.block = b /\ m.cell \in Cells
  BY DEF Entry, Request
<1>2. log' = [log EXCEPT ![m.cell] = Append(@, e)]
  BY DEF Write
<1> HIDE DEF e
<1>3. log'[m.cell] = Append(log[m.cell], e) /\ \A c \in Cells \ {m.cell} : log'[c] = log[c]
  BY <1>1, <1>2 DEF LedgerTypeOK
<1> QED
  BY <1>1, <1>3

LEMMA RefusalTruthful ==
    ASSUME NEW p, NEW h \in Nat, Decided(p, log, h), NEW m, m.req \in Nat, h < m.req, ~Granted(m)
    PROVE  Truthful(m, p, log)
BY DEF Truthful, Decided

LEMMA GrantTruthful ==
    ASSUME LedgerTypeOK, NEW p, NEW h \in Nat, Decided(p, log, h), NEW m, m.req \in Nat, h < m.req, Granted(m),
           NEW c \in Cells, m.cell = c, m.rev = Rev(c) + 1, NEW e \in Entry, e.by = p, e.req = m.req,
           m.kind = "ToolResult" => m.block = e.block,
           log'[c] = Append(log[c], e), \A d \in Cells \ {c} : log'[d] = log[d]
    PROVE  Truthful(m, p, log')
<1> DEFINE s == log[c]
           t == log'[c]
<1>1. /\ Len(t) = Len(s) + 1 /\ Len(s) \in Nat /\ t[Len(s) + 1] = e
      /\ \A i \in 1 .. Len(s) : t[i] = s[i]
  BY DEF LedgerTypeOK
<1>2. m.rev = Len(s) + 1
  BY DEF Rev
<1>3. \A i \in 1 .. Len(s) : s[i].by = p => s[i].req \in 1 .. h
  BY DEF Decided
<1> HIDE DEF s, t
<1>4. \A i \in 1 .. Len(t) : t[i].by = p /\ t[i].req = m.req => i = m.rev
  <2> TAKE i \in 1 .. Len(t)
  <2>1. CASE i \in 1 .. Len(s)
    BY <1>1, <1>3, <2>1
  <2>2. CASE i = Len(s) + 1
    BY <1>2, <2>2
  <2> QED
    BY <1>1, <2>1, <2>2
<1>5. \A d \in Cells \ {c} : \A i \in 1 .. Len(log'[d]) : ~(log'[d][i].by = p /\ log'[d][i].req = m.req)
  BY DEF Decided
<1>6. \A d \in Cells : \A i \in 1 .. Len(log'[d]) :
        log'[d][i].by = p /\ log'[d][i].req = m.req => d = m.cell /\ i = m.rev
  BY <1>4, <1>5 DEF t
<1>7. m.rev \in 1 .. Len(t) /\ t[m.rev] = e
  BY <1>1, <1>2
<1> QED
  BY <1>6, <1>7 DEF Truthful, t

LEMMA OthersCounted ==
    ASSUME TypeOK, NEW q \in Clients, NEW h \in Nat, Counted(q, h), Truth(toClient[q], q, log),
           NEW a, a # q, NEW r \in Nat, GrewBy(a, r), toServer'[q] = toServer[q],
           toClient'[q] = toClient[q] \/ \E m \in Frame : Pushes(q, m) /\ ~Answers(m),
           nextReq' = nextReq, pending' = pending
    PROVE  Counted(q, h)' /\ Truth(toClient'[q], q, log')
<1>1. Decided(q, log', h)
  BY DecidedStays DEF Counted, TypeOK
<1>2. toClient[q] \in Seq(Frame)
  BY DEF TypeOK, WireTypeOK
<1>3. Truth(toClient[q], q, log')
  BY <1>2, TruthStays DEF TypeOK
<1>4. Answered(toClient[q], h)
  BY DEF Counted
<1>5. Answered(toClient'[q], h) /\ Truth(toClient'[q], q, log')
  <2>1. CASE toClient'[q] = toClient[q]
    BY <1>3, <1>4, <2>1
  <2>2. CASE \E m \in Frame : Pushes(q, m) /\ ~Answers(m)
    BY <1>2, <1>3, <1>4, <2>2, AnsweredMore, TruthMore DEF Pushes
  <2> QED
    BY <2>1, <2>2
<1> QED
  BY <1>1, <1>5 DEF Counted

LEMMA OwnCounted ==
    ASSUME TypeOK, NEW p \in Clients, NEW h \in Nat, Counted(p, h), Truth(toClient[p], p, log),
           Concludes(p), NEW g, g = Head(toServer[p]).req, GrewBy(p, g),
           \/ toClient'[p] = toClient[p]
           \/ \E m \in Frame : Pushes(p, m) /\ (Answers(m) => m.req = g /\ Truthful(m, p, log'))
           \/ \E m, n \in Frame :
                Pushes2(p, m, n) /\ ~Answers(m) /\ (Answers(n) => n.req = g /\ Truthful(n, p, log'))
    PROVE  g \in Nat /\ Counted(p, g)' /\ Truth(toClient'[p], p, log')
<1>1. /\ toServer[p] \in Seq(Request) /\ toServer[p] # <<>> /\ toServer'[p] = Tail(toServer[p])
      /\ nextReq[p] \in Nat /\ nextReq' = nextReq /\ pending' = pending
  BY DEF TypeOK, WireTypeOK, SessionTypeOK, Concludes, Done, sessionVars
<1>2. h < g /\ g \in Nat /\ g <= nextReq[p] /\ 1 <= g /\ Waiting(toServer'[p], g, nextReq[p])
  BY <1>1, WaitingTail DEF Counted
<1>3. Decided(p, log', g)
  BY <1>2, DecidedStays DEF Counted, TypeOK
<1> DEFINE t == toClient[p]
<1>4. t \in Seq(Frame) /\ Answered(t, h) /\ Truth(t, p, log)
  BY DEF TypeOK, WireTypeOK, Counted
<1>5. \A i \in 1 .. Len(t) : Answers(t[i]) => t[i].req # g
  BY <1>2, <1>4 DEF Answered
<1>6. Truth(t, p, log') /\ Answered(t, g)
  BY <1>2, <1>4, <1>5, TruthStays, AnsweredMore DEF TypeOK
<1> HIDE DEF t
<1>7. Answered(toClient'[p], g) /\ Truth(toClient'[p], p, log')
  <2>1. CASE toClient'[p] = t
    BY <1>6, <2>1
  <2>2. CASE \E m \in Frame : Pushes(p, m) /\ (Answers(m) => m.req = g /\ Truthful(m, p, log'))
    <3>1. PICK m \in Frame : toClient'[p] = Append(t, m) /\ (Answers(m) => m.req = g /\ Truthful(m, p, log'))
      BY <2>2 DEF Pushes, t
    <3>2. Answered(Append(t, m), g)
      BY <1>2, <1>4, <3>1, AnsweredMore
    <3>3. Truth(Append(t, m), p, log')
      BY <1>4, <1>6, <3>1, TruthMore
    <3> QED
      BY <3>1, <3>2, <3>3
  <2>3. CASE \E m, n \in Frame :
                Pushes2(p, m, n) /\ ~Answers(m) /\ (Answers(n) => n.req = g /\ Truthful(n, p, log'))
    <3>1. PICK m \in Frame, n \in Frame :
            /\ toClient'[p] = Append(Append(t, m), n) /\ ~Answers(m)
            /\ Answers(n) => n.req = g /\ Truthful(n, p, log')
      BY <2>3 DEF Pushes2, t
    <3> DEFINE u == Append(t, m)
    <3>2. u \in Seq(Frame) /\ Answered(u, h) /\ Truth(u, p, log')
      BY <1>4, <1>6, <3>1, Appended, AnsweredMore, TruthMore
    <3>3. toClient'[p] = Append(u, n) /\ (Answers(n) => n.req = g /\ h < g /\ Truthful(n, p, log'))
      BY <1>2, <3>1
    <3> HIDE DEF u
    <3>4. Answered(Append(u, n), g)
      BY <1>2, <3>2, <3>3, AnsweredMore
    <3>5. Truth(Append(u, n), p, log')
      BY <3>2, <3>3, TruthMore
    <3> QED
      BY <3>3, <3>4, <3>5
  <2> QED
    BY <2>1, <2>2, <2>3 DEF t
<1> QED
  BY <1>1, <1>2, <1>3, <1>7 DEF Counted

LEMMA ConcludeSent ==
    ASSUME TypeOK, InSequence, AllTrue, NEW p \in Clients, Concludes(p),
           NEW g, g = Head(toServer[p]).req, g \in Nat, GrewBy(p, g),
           \/ toClient'[p] = toClient[p]
           \/ \E m \in Frame : Pushes(p, m) /\ (Answers(m) => m.req = g /\ Truthful(m, p, log'))
           \/ \E m, n \in Frame :
                Pushes2(p, m, n) /\ ~Answers(m) /\ (Answers(n) => n.req = g /\ Truthful(n, p, log')),
           \A q \in Clients \ {p} :
                toClient'[q] = toClient[q] \/ \E m \in Frame : Pushes(q, m) /\ ~Answers(m)
    PROVE  InSequence' /\ AllTrue'
<1>1. \A q \in Clients \ {p} : toServer'[q] = toServer[q]
  BY DEF Concludes, Done, TypeOK, WireTypeOK
<1>2. nextReq' = nextReq /\ pending' = pending
  BY DEF Concludes, sessionVars
<1>3. ASSUME NEW q \in Clients
      PROVE  (\E h \in Nat : Counted(q, h)') /\ Truth(toClient'[q], q, log')
  <2>1. PICK h \in Nat : Counted(q, h)
    BY DEF InSequence
  <2>2. Truth(toClient[q], q, log)
    BY DEF AllTrue
  <2>3. CASE q = p
    BY <2>1, <2>2, <2>3, OwnCounted
  <2>4. CASE q # p
    <3>1. Counted(q, h)' /\ Truth(toClient'[q], q, log')
      BY <1>1, <1>2, <2>1, <2>2, <2>4, OthersCounted
    <3> QED
      BY <3>1
  <2> QED
    BY <2>3, <2>4
<1> QED
  BY <1>3 DEF InSequence, AllTrue

(* Steps of the server that take no request and answer none.               *)
LEMMA QuietSent ==
    ASSUME TypeOK, InSequence, AllTrue, GrewBy(World, 0), toServer' = toServer, UNCHANGED sessionVars,
           \A q \in Clients : toClient'[q] = toClient[q] \/ \E m \in Frame : Pushes(q, m) /\ ~Answers(m)
    PROVE  InSequence' /\ AllTrue'
<1>1. nextReq' = nextReq /\ pending' = pending
  BY DEF sessionVars
<1>2. ASSUME NEW q \in Clients
      PROVE  (\E h \in Nat : Counted(q, h)') /\ Truth(toClient'[q], q, log')
  <2>1. PICK h \in Nat : Counted(q, h)
    BY DEF InSequence
  <2>2. World # q
    BY WireConstants DEF WireConstants
  <2>3. Counted(q, h)' /\ Truth(toClient'[q], q, log')
    BY <1>1, <2>1, <2>2, OthersCounted DEF AllTrue
  <2> QED
    BY <2>3
<1> QED
  BY <1>2 DEF InSequence, AllTrue

(* What a refusal finds: the numbers decided before it.                    *)
LEMMA Undecided ==
    ASSUME TypeOK, InSequence, NEW p \in Clients, toServer[p] # <<>>
    PROVE  \E h \in Nat : Decided(p, log, h) /\ h < Head(toServer[p]).req
<1>1. PICK h \in Nat : Counted(p, h)
  BY DEF InSequence
<1>2. h < Head(toServer[p]).req
  BY <1>1, WaitingTail DEF Counted, TypeOK, WireTypeOK, SessionTypeOK
<1> QED
  BY <1>1, <1>2 DEF Counted

LEMMA RefusalSent ==
    ASSUME TypeOK, InSequence, AllTrue, NEW p \in Clients, Concludes(p), log' = log,
           NEW a \in Frame, Answers(a), a.req = Head(toServer[p]).req, ~Granted(a),
           \A q \in Clients \ {p} : toClient'[q] = toClient[q],
           toClient'[p] = toClient[p] \/ Pushes(p, a)
    PROVE  InSequence' /\ AllTrue'
<1> DEFINE g == Head(toServer[p]).req
<1>1. g \in Nat /\ toServer[p] # <<>>
  BY DEF Concludes, Request
<1>2. Truthful(a, p, log')
  BY <1>1, Undecided, RefusalTruthful
<1>3. GrewBy(p, g)
  BY DEF GrewBy
<1> QED
  BY <1>1, <1>2, <1>3, ConcludeSent

LEMMA CommitSent ==
    ASSUME TypeOK, InSequence, AllTrue, NEW p \in Clients, Concludes(p), NEW b \in Blocks,
           Write(p, Head(toServer[p]), b), NEW full, NEW mine \in Frame, NEW also \in Frame, NEW theirs \in Frame,
           Published(p, mine, also, theirs, full), also = mine \/ ~Answers(mine), ~Answers(theirs), Answers(also),
           Granted(also), also.req = Head(toServer[p]).req, also.cell = Head(toServer[p]).cell,
           also.rev = Rev(Head(toServer[p]).cell) + 1, also.kind = "ToolResult" => also.block = b
    PROVE  InSequence' /\ AllTrue'
<1> DEFINE m == Head(toServer[p])
           g == m.req
<1>1. g \in Nat /\ toServer[p] # <<>> /\ m \in Request /\ m.cell \in Cells /\ p \in connected
  BY DEF Concludes, Request
<1>2. PICK e \in Entry :
        /\ e.by = p /\ e.req = g /\ e.block = b
        /\ log'[m.cell] = Append(log[m.cell], e) /\ \A c \in Cells \ {m.cell} : log'[c] = log[c]
  BY ZenonT(60), <1>1, WriteIs DEF TypeOK
<1>3. Truthful(also, p, log')
  <2>1. PICK h \in Nat : Decided(p, log, h) /\ h < g
    BY <1>1, Undecided
  <2> QED
    BY <1>1, <1>2, <2>1, GrantTruthful DEF TypeOK
<1>4. GrewBy(p, g)
  BY <1>2 DEF GrewBy
<1>5. \A q \in Clients \ {p} : toClient'[q] = toClient[q] \/ \E n \in Frame : Pushes(q, n) /\ ~Answers(n)
  BY DEF Published
<1>6. toClient'[p] = toClient[p] \/ Pushes(p, mine) \/ (Pushes2(p, mine, also) /\ ~Answers(mine))
  BY DEF Published
<1>7. Answers(mine) => mine.req = g /\ Truthful(mine, p, log')
  BY <1>3
<1> HIDE DEF m
<1> QED
  BY <1>1, <1>3, <1>4, <1>5, <1>6, <1>7, ConcludeSent DEF m

LEMMA HandlerSent ==
    ASSUME TypeOK, InSequence, AllTrue, NEW p \in Clients, Handler(p), UNCHANGED sessionVars
    PROVE  InSequence' /\ AllTrue'
<1> DEFINE h == Head(toServer[p])
<1>1. ASSUME NEW where, Park(p, where)
      PROVE  InSequence' /\ AllTrue'
  <2>1. UNCHANGED <<toServer, toClient, log>>
    BY <1>1 DEF Park, wire
  <2> QED
    BY <2>1, QuietSent DEF GrewBy
<1>2. CASE EditRefused(p)
  <2> DEFINE a == EditAck(h, FALSE, Rev(h.cell))
  <2>1. /\ Concludes(p) /\ log' = log /\ a \in Frame
        /\ \A q \in Clients \ {p} : toClient'[q] = toClient[q]
        /\ toClient'[p] = toClient[p] \/ Pushes(p, a)
    BY <1>2, EditRefusedIs
  <2>2. Answers(a) /\ a.req = h.req /\ ~Granted(a)
    BY DEF EditAck, Answers, Granted
  <2> HIDE DEF a
  <2> QED
    BY <2>1, <2>2, RefusalSent
<1>3. ASSUME Handles(p, "ToolUse"), RefuseTool(p)
      PROVE  InSequence' /\ AllTrue'
  <2> DEFINE a == ToolResult(h, FALSE, Rev(h.cell), BlockAt(h.cell))
  <2>1. /\ Concludes(p) /\ log' = log /\ a \in Frame
        /\ \A q \in Clients \ {p} : toClient'[q] = toClient[q]
        /\ toClient'[p] = toClient[p] \/ Pushes(p, a)
    BY <1>3, RefuseToolIs
  <2>2. Answers(a) /\ a.req = h.req /\ ~Granted(a)
    BY DEF ToolResult, Answers, Granted
  <2> HIDE DEF a
  <2> QED
    BY <2>1, <2>2, RefusalSent
<1>4. ASSUME NEW full, EditCommit(p, full)
      PROVE  InSequence' /\ AllTrue'
  <2> DEFINE r      == Rev(h.cell) + 1
             mine   == Snapshot(h.cell, r, h.block)
             also   == EditAck(h, TRUE, r)
             theirs == EditMsg(h.cell, r, h.block)
  <2>1. /\ Concludes(p) /\ Write(p, h, h.block)
        /\ mine \in Frame /\ also \in Frame /\ theirs \in Frame
        /\ Published(p, mine, also, theirs, full)
    BY <1>4, EditCommitIs
  <2>2. h.block \in Blocks
    BY <2>1 DEF Concludes, Request
  <2>3. /\ ~Answers(mine) /\ ~Answers(theirs) /\ Answers(also) /\ Granted(also)
        /\ also.req = h.req /\ also.cell = h.cell /\ also.rev = r /\ also.kind # "ToolResult"
    BY DEF Snapshot, EditAck, EditMsg, Answers, Granted
  <2> HIDE DEF mine, also, theirs
  <2> QED
    BY <2>1, <2>2, <2>3, CommitSent
<1>5. ASSUME NEW full, NEW b \in Blocks, ToolCommit(p, b, full)
      PROVE  InSequence' /\ AllTrue'
  <2> DEFINE r      == Rev(h.cell) + 1
             mine   == ToolResult(h, TRUE, r, b)
             theirs == EditMsg(h.cell, r, b)
  <2>1. /\ Concludes(p) /\ Write(p, h, b) /\ mine \in Frame /\ theirs \in Frame
        /\ Published(p, mine, mine, theirs, full)
    BY <1>5, ToolCommitIs
  <2>2. /\ ~Answers(theirs) /\ Answers(mine) /\ Granted(mine) /\ mine.block = b
        /\ mine.req = h.req /\ mine.cell = h.cell /\ mine.rev = r
    BY DEF ToolResult, EditMsg, Answers, Granted
  <2> HIDE DEF mine, theirs
  <2> QED
    BY <2>1, <2>2, CommitSent
<1> QED
  BY <1>1, <1>2, <1>3, <1>4, <1>5 DEF Handler, ReadTerrain, CallHooks, ToolRefused, ToolAnswered

LEMMA TickSent ==
    ASSUME TypeOK, InSequence, AllTrue, Reactions, UNCHANGED sessionVars
    PROVE  InSequence' /\ AllTrue'
<1>1. ASSUME NEW S \in Contacts, NEW new \in [S -> Blocks], ReactionTurn(new)
      PROVE  InSequence' /\ AllTrue'
  <2>1. toServer' = toServer /\ toClient' = toClient /\ S \subseteq Cells
    BY <1>1 DEF ReactionTurn, wire, Contacts
  <2>2. GrewBy(World, 0)
    <3> SUFFICES ASSUME NEW c \in Cells
                 PROVE  \/ log'[c] = log[c]
                        \/ \E e \in Entry : log'[c] = Append(log[c], e) /\ e.by = World /\ e.req = 0
      BY DEF GrewBy
    <3>1. CASE c \in S
      <4> DEFINE e == [by |-> World, req |-> 0, expect |-> 0, block |-> new[c]]
      <4>1. e \in Entry /\ e.by = World /\ e.req = 0
        BY <3>1 DEF Entry
      <4>2. log'[c] = Append(log[c], e)
        BY <1>1, <3>1 DEF ReactionTurn
      <4> QED
        BY <4>1, <4>2
    <3>2. CASE c \notin S
      BY <1>1, <3>2 DEF ReactionTurn
    <3> QED
      BY <3>1, <3>2
  <2> QED
    BY <2>1, <2>2, QuietSent
<1>2. ASSUME NEW c \in Cells, NEW full, SendMutation(c, full)
      PROVE  InSequence' /\ AllTrue'
  <2>1. toServer' = toServer /\ log' = log
    BY <1>2 DEF SendMutation
  <2> DEFINE m == Snapshot(c, Rev(c), BlockAt(c))
  <2>2. m \in Frame /\ \A q \in Clients : toClient'[q] = toClient[q] \/ Pushes(q, m)
    BY <1>2, SendMutationIs
  <2>3. ~Answers(m)
    BY DEF Snapshot, Answers
  <2> HIDE DEF m
  <2> QED
    BY <2>1, <2>2, <2>3, QuietSent DEF GrewBy
<1> QED
  BY <1>1, <1>2 DEF Reactions

LEMMA DepartSent ==
    ASSUME TypeOK, InSequence, AllTrue, NEW p \in Clients, Depart(p), UNCHANGED sessionVars
    PROVE  InSequence' /\ AllTrue'
<1>1. /\ log' = log /\ nextReq' = nextReq /\ pending' = pending
      /\ \A q \in Clients : \/ toServer'[q] = toServer[q] /\ toClient'[q] = toClient[q]
                            \/ toServer'[q] = <<>> /\ toClient'[q] = <<>>
  BY DEF Depart, sessionVars, TypeOK, WireTypeOK
<1>2. \A n, h : Waiting(<<>>, h, n) /\ Answered(<<>>, h)
  BY EmptySeq DEF Waiting, Answered
<1>3. \A p_1 : Truth(<<>>, p_1, log)
  BY EmptySeq DEF Truth
<1>4. \A q \in Clients, h \in Nat : Counted(q, h) => Counted(q, h)'
  BY <1>1, <1>2 DEF Counted
<1> QED
  BY <1>1, <1>3, <1>4 DEF InSequence, AllTrue

-----------------------------------------------------------------------------
(* The clients' steps keep them too.                                       *)

LEMMA HeardSent ==
    ASSUME TypeOK, InSequence, AllTrue, NEW p \in Clients, NEW kinds, Hears(p, kinds), log' = log,
           \A q \in pending'[p] : \E o \in pending[p] : o.req = q.req,
           \A q \in Clients \ {p} : pending'[q] = pending[q]
    PROVE  InSequence' /\ AllTrue'
<1>1. /\ toServer' = toServer /\ nextReq' = nextReq /\ toClient[p] # <<>>
      /\ toClient'[p] = Tail(toClient[p]) /\ \A q \in Clients \ {p} : toClient'[q] = toClient[q]
      /\ toClient[p] \in Seq(Frame)
  BY DEF Hears, TypeOK, WireTypeOK
<1>2. ASSUME NEW q \in Clients
      PROVE  (\E h \in Nat : Counted(q, h)') /\ Truth(toClient'[q], q, log')
  <2>1. PICK h \in Nat : Counted(q, h)
    BY DEF InSequence
  <2>2. Truth(toClient[q], q, log)
    BY DEF AllTrue
  <2>3. Answered(toClient'[q], h) /\ Truth(toClient'[q], q, log)
    <3>1. CASE q = p
      BY <1>1, <2>1, <2>2, <3>1, AnsweredTail, TruthMore DEF Counted
    <3>2. CASE q # p
      BY <1>1, <2>1, <2>2, <3>2 DEF Counted
    <3> QED
      BY <3>1, <3>2
  <2>4. \A o \in pending'[q] : o.req \in 1 .. nextReq[q]
    BY <2>1 DEF Counted
  <2>5. Counted(q, h)'
    BY <1>1, <2>1, <2>3, <2>4 DEF Counted
  <2> QED
    BY <2>3, <2>5
<1> QED
  BY <1>2 DEF InSequence, AllTrue

LEMMA RejectedIs ==
    ASSUME NEW q \in PendingReq
    PROVE  LET r == [q EXCEPT !.kind = "Rejected"] IN r.req = q.req /\ r.cell = q.cell /\ r.kind = "Rejected"
BY DEF PendingReq

(* A flush only takes requests away.                                       *)
LEMMA FlushFrom ==
    ASSUME SessionTypeOK, NEW p \in Clients, NEW reqs, NEW revs, Flush(p, reqs, revs)
    PROVE  /\ pending'[p] = {q \in reqs : q.cell \notin Lost(reqs)}
           /\ \A q \in Clients \ {p} : pending'[q] = pending[q]
BY DEF Flush, SessionTypeOK

LEMMA PollSent ==
    ASSUME TypeOK, InSequence, AllTrue, NEW p \in Clients, Poll(p), UNCHANGED ledgerVars
    PROVE  InSequence' /\ AllTrue'
<1> DEFINE m == Head(toClient[p])
           mine == Matching(p, m)
<1>1. log' = log /\ pending[p] \subseteq PendingReq
  BY DEF ledgerVars, TypeOK, SessionTypeOK
<1>2. CASE HearContent(p)
  <2>1. Hears(p, {"Snapshot", "Edit"}) /\ pending' = pending
    BY <1>2 DEF HearContent
  <2> QED
    BY <1>1, <2>1, HeardSent
<1>3. CASE HearAck(p)
  <2>1. Hears(p, {"EditAck"})
    BY <1>3 DEF HearAck
  <2>2. \/ pending' = pending
        \/ Flush(p, pending[p] \ mine, known'[p])
        \/ Flush(p, (pending[p] \ mine) \cup {[q EXCEPT !.kind = "Rejected"] : q \in mine}, known[p])
    BY <1>3 DEF HearAck
  <2>3. mine \subseteq pending[p]
    BY DEF Matching
  <2>4. ASSUME NEW reqs, NEW revs, Flush(p, reqs, revs),
               reqs \subseteq pending[p] \cup {[q EXCEPT !.kind = "Rejected"] : q \in pending[p]}
        PROVE  /\ \A q \in pending'[p] : \E o \in pending[p] : o.req = q.req
               /\ \A q \in Clients \ {p} : pending'[q] = pending[q]
    <3>1. pending'[p] \subseteq reqs /\ \A q \in Clients \ {p} : pending'[q] = pending[q]
      BY <2>4, FlushFrom DEF TypeOK
    <3>2. ASSUME NEW q \in reqs
          PROVE  \E o \in pending[p] : o.req = q.req
      <4>1. CASE q \in pending[p]
        BY <4>1
      <4>2. CASE \E o \in pending[p] : q = [o EXCEPT !.kind = "Rejected"]
        <5>1. PICK o \in pending[p] : q = [o EXCEPT !.kind = "Rejected"]
          BY <4>2
        <5> QED
          BY <1>1, <5>1, RejectedIs
      <4> QED
        BY <2>4, <4>1, <4>2
    <3> QED
      BY <3>1, <3>2
  <2>5. CASE pending' = pending
    BY <1>1, <2>1, <2>5, HeardSent
  <2>6. CASE Flush(p, pending[p] \ mine, known'[p])
    BY <1>1, <2>1, <2>4, <2>6, HeardSent
  <2>7. CASE Flush(p, (pending[p] \ mine) \cup {[q EXCEPT !.kind = "Rejected"] : q \in mine}, known[p])
    <3> HIDE DEF mine
    <3> QED
      BY <1>1, <2>1, <2>3, <2>4, <2>7, HeardSent
  <2> QED
    BY <2>2, <2>5, <2>6, <2>7
<1>4. CASE HearTool(p)
  <2>1. Hears(p, {"ToolResult"}) /\ pending' = [pending EXCEPT ![p] = @ \ mine]
    BY <1>4 DEF HearTool
  <2>2. pending'[p] \subseteq pending[p] /\ \A q \in Clients \ {p} : pending'[q] = pending[q]
    BY <2>1 DEF TypeOK, SessionTypeOK
  <2> QED
    BY <1>1, <2>1, <2>2, HeardSent
<1>5. ASSUME NEW old, EndPoll(p, old)
      PROVE  InSequence' /\ AllTrue'
  <2> DEFINE gone   == {q \in Aged(p, old) : q.kind = "Tool"}
             failed == {q \in Aged(p, old) : q.kind = "Edit"}
             after  == (pending[p] \ (gone \cup failed)) \cup {[q EXCEPT !.kind = "Rejected"] : q \in failed}
  <2>1. Flush(p, after, known[p]) /\ toServer' = toServer /\ toClient' = toClient /\ nextReq' = nextReq
    BY <1>5 DEF EndPoll, wire
  <2>2. failed \subseteq pending[p]
    BY DEF Aged
  <2>3. \A q \in after : \E o \in pending[p] : o.req = q.req
    <3> HIDE DEF gone, failed
    <3> SUFFICES ASSUME NEW q \in after
                 PROVE  \E o \in pending[p] : o.req = q.req
      OBVIOUS
    <3>1. CASE q \in pending[p]
      BY <3>1
    <3>2. CASE \E o \in failed : q = [o EXCEPT !.kind = "Rejected"]
      <4>1. PICK o \in failed : q = [o EXCEPT !.kind = "Rejected"]
        BY <3>2
      <4> QED
        BY <1>1, <2>2, <4>1, RejectedIs
    <3> QED
      BY <3>1, <3>2
  <2> HIDE DEF after
  <2>4. /\ \A q \in pending'[p] : \E o \in pending[p] : o.req = q.req
        /\ \A q \in Clients \ {p} : pending'[q] = pending[q]
    BY <2>1, <2>3, FlushFrom DEF TypeOK
  <2>5. \A q \in Clients, h \in Nat : Counted(q, h) => Counted(q, h)'
    BY <1>1, <2>1, <2>4 DEF Counted
  <2> QED
    BY <1>1, <2>1, <2>5 DEF InSequence, AllTrue
<1> QED
  BY <1>2, <1>3, <1>4, <1>5 DEF Poll

LEMMA SendSent ==
    ASSUME TypeOK, InSequence, AllTrue, NEW p \in Clients, NEW c \in Cells, NEW b \in Blocks,
           NEW kind \in {"Edit", "Tool"}, NEW wireKind \in {"Edit", "ToolUse"}, Send(p, c, kind, wireKind, b),
           log' = log
    PROVE  InSequence' /\ AllTrue'
<1> DEFINE n == nextReq[p]
<1>1. /\ n \in Nat /\ nextReq'[p] = n + 1 /\ \A q \in Clients \ {p} : nextReq'[q] = nextReq[q]
      /\ toClient' = toClient
  BY DEF Send, TypeOK, SessionTypeOK
<1>2. PICK e \in ExpectCandidates(p, c) :
        /\ pending' = [pending EXCEPT ![p] = @ \cup
                {[kind |-> kind, req |-> n + 1, cell |-> c, expect |-> e,
                  base |-> known[p][c], prev |-> view[p][c]]}]
        /\ \/ toServer' = [toServer EXCEPT ![p] = Append(@,
                    [kind |-> wireKind, req |-> n + 1, cell |-> c, expect |-> e, block |-> b])]
           \/ UNCHANGED toServer
  BY DEF Send
<1>3. e \in Nat
  BY DEF ExpectCandidates, OnCell, PendingReq, TypeOK, SessionTypeOK
<1>4. /\ \A q \in pending'[p] : q \in pending[p] \/ q.req = n + 1
      /\ \A q \in Clients \ {p} : pending'[q] = pending[q]
  BY <1>2 DEF TypeOK, SessionTypeOK
<1> DEFINE m == [kind |-> wireKind, req |-> n + 1, cell |-> c, expect |-> e, block |-> b]
<1>5. m \in Request /\ m.req = n + 1
  BY <1>1, <1>3 DEF Request
<1>6. \/ toServer' = [toServer EXCEPT ![p] = Append(@, m)]
      \/ toServer' = toServer
  BY <1>2
<1> HIDE DEF m, n
<1>7. /\ toServer'[p] = toServer[p] \/ toServer'[p] = Append(toServer[p], m)
      /\ \A q \in Clients \ {p} : toServer'[q] = toServer[q]
      /\ toServer[p] \in Seq(Request)
  BY <1>6 DEF TypeOK, WireTypeOK
<1>8. ASSUME NEW h \in Nat, Counted(p, h)
      PROVE  Counted(p, h)'
  <2>1. h <= n /\ Waiting(toServer[p], h, n) /\ \A q \in pending[p] : q.req \in 1 .. n
    BY <1>8 DEF Counted, n
  <2>2. Waiting(toServer'[p], h, n + 1)
    BY <1>1, <1>5, <1>7, <2>1, WaitingMore
  <2>3. h <= n + 1 /\ \A q \in pending'[p] : q.req \in 1 .. n + 1
    BY <1>1, <1>4, <2>1
  <2> QED
    BY <1>1, <1>8, <2>2, <2>3 DEF Counted
<1>9. \A q \in Clients \ {p}, h \in Nat : Counted(q, h) => Counted(q, h)'
  BY <1>1, <1>4, <1>7 DEF Counted
<1> QED
  BY <1>1, <1>8, <1>9 DEF InSequence, AllTrue

LEMMA InitSent ==
    ASSUME Init
    PROVE  InSequence /\ AllTrue
<1>1. \A p \in Clients : Counted(p, 0) /\ Truth(toClient[p], p, log)
  BY EmptySeq DEF Init, WireInit, LedgerInit, SessionInit, Counted, Waiting, Answered, Decided, Truth
<1> QED
  BY <1>1 DEF InSequence, AllTrue

LEMMA NextSent ==
    ASSUME TypeOK, InSequence, AllTrue, [Next]_vars
    PROVE  InSequence' /\ AllTrue'
<1>1. CASE ServerStep
  BY <1>1, HandlerSent, TickSent, DepartSent DEF ServerStep
<1>2. CASE ClientStep
  <2>1. UNCHANGED ledgerVars /\ log' = log
    BY <1>2 DEF ClientStep, ledgerVars
  <2>2. ASSUME NEW p \in Clients, Player(p)
        PROVE  InSequence' /\ AllTrue'
    <3>1. Air \in Blocks
      BY SessionConstants DEF SessionConstants
    <3>2. ASSUME NEW c \in Cells, NEW b \in Blocks, Predict(p, c, b)
          PROVE  InSequence' /\ AllTrue'
      BY <2>1, <3>2, SendSent DEF Predict
    <3>3. ASSUME NEW c \in Cells, UseTool(p, c)
          PROVE  InSequence' /\ AllTrue'
      BY <2>1, <3>1, <3>3, SendSent DEF UseTool
    <3> QED
      BY <2>2, <3>1, <3>2, <3>3 DEF Player, Break, Place
  <2> QED
    BY <1>2, <2>1, <2>2, PollSent DEF ClientStep
<1>3. CASE UNCHANGED vars
  <2>1. UNCHANGED <<toServer, toClient, log, nextReq, pending>>
    BY <1>3 DEF vars, wire, ledgerVars, sessionVars
  <2>2. \A q \in Clients, h \in Nat : Counted(q, h) => Counted(q, h)'
    BY <2>1 DEF Counted
  <2> QED
    BY <2>1, <2>2 DEF InSequence, AllTrue
<1> QED
  BY <1>1, <1>2, <1>3 DEF Next

(* What an answer says is what the ledger holds.                           *)
LEMMA TruthIs ==
    ASSUME TypeOK, AllTrue
    PROVE  VerdictsTrue
<1>1. SUFFICES ASSUME NEW p \in connected, NEW i \in DOMAIN toClient[p]
               PROVE  LET m == toClient[p][i] IN
                      /\ m.kind = "EditAck" =>
                            Commits(p, m.req) = IF m.accepted THEN {<<m.cell, m.rev>>} ELSE {}
                      /\ m.kind = "ToolResult" =>
                            /\ Commits(p, m.req) = IF m.reacted THEN {<<m.cell, m.rev>>} ELSE {}
                            /\ m.reacted => log[m.cell][m.rev].block = m.block
  BY DEF VerdictsTrue
<1> DEFINE m == toClient[p][i]
<1>2. p \in Clients /\ toClient[p] \in Seq(Frame) /\ i \in 1 .. Len(toClient[p]) /\ m \in Frame
  BY ElementOfSeq DEF TypeOK, WireTypeOK
<1>3. Answers(m) => Truthful(m, p, log)
  BY <1>2 DEF AllTrue, Truth
<1>4. m.cell \in Cells /\ \A c \in Cells : DOMAIN log[c] = 1 .. Len(log[c])
  BY <1>2, FrameFields DEF TypeOK, LedgerTypeOK
<1> HIDE DEF m
<1>5. ASSUME Answers(m)
      PROVE  Commits(p, m.req) = IF Granted(m) THEN {<<m.cell, m.rev>>} ELSE {}
  <2>1. ASSUME NEW x \in Commits(p, m.req)
        PROVE  Granted(m) /\ x = <<m.cell, m.rev>>
    <3>1. PICK c \in Cells : \E j \in 1 .. Len(log[c]) :
                log[c][j].by = p /\ log[c][j].req = m.req /\ x = <<c, j>>
      BY <1>4, <2>1 DEF Commits
    <3> QED
      BY <1>3, <1>5, <3>1 DEF Truthful
  <2>2. ASSUME Granted(m)
        PROVE  <<m.cell, m.rev>> \in Commits(p, m.req)
    BY <1>3, <1>4, <1>5, <2>2 DEF Truthful, Commits
  <2> QED
    BY <2>1, <2>2
<1>6. /\ m.kind = "EditAck" => Answers(m) /\ Granted(m) = m.accepted
      /\ m.kind = "ToolResult" => Answers(m) /\ Granted(m) = m.reacted
  BY DEF Answers, Granted
<1>7. m.kind = "ToolResult" /\ m.reacted => log[m.cell][m.rev].block = m.block
  BY <1>3, <1>6 DEF Truthful
<1> QED
  BY <1>5, <1>6, <1>7 DEF m

(* A verdict on its way says what the ledger holds: an accepted request is *)
(* the commit it names and no other, a refused one committed nowhere.      *)
THEOREM VerdictsCorrect == Spec => []VerdictsTrue
<1>1. Init => InSequence /\ AllTrue
  BY InitSent
<1>2. TypeOK /\ InSequence /\ AllTrue /\ [Next]_vars => InSequence' /\ AllTrue'
  BY NextSent
<1>3. TypeOK /\ AllTrue => VerdictsTrue
  BY TruthIs
<1> QED
  BY <1>1, <1>2, <1>3, TypeCorrect, PTL DEF Spec

-----------------------------------------------------------------------------
(* A tool result tells its client nothing once the use is given up.        *)

(* The tool uses a stream is about, and those a client still waits for.    *)
UsesIn(s)    == {s[i].req : i \in {j \in 1 .. Len(s) : s[j].kind \in {"ToolUse", "ToolResult"}}}
AwaitedBy(p) == {q.req : q \in {o \in pending[p] : o.kind = "Tool"}}
Uses(p)      == UsesIn(toServer[p]) \cup UsesIn(toClient[p])

UsesAwaited ==
    /\ \A p \in connected : Uses(p) \subseteq AwaitedBy(p)
    /\ \A p \in Clients : AwaitedBy(p) # {} => ToolsOn

LEMMA UsesTail ==
    ASSUME NEW S, NEW s \in Seq(S), s # <<>>
    PROVE  /\ UsesIn(Tail(s)) \subseteq UsesIn(s)
           /\ Head(s).kind \in {"ToolUse", "ToolResult"} => Head(s).req \in UsesIn(s)
<1> DEFINE t == Tail(s)
<1>1. /\ Len(s) \in Nat /\ Len(s) >= 1 /\ Len(t) = Len(s) - 1
      /\ \A i \in 1 .. Len(t) : t[i] = s[i + 1]
  BY HeadTailProperties, EmptySeq
<1>2. Head(s) = s[1]
  OBVIOUS
<1> HIDE DEF t
<1>3. \A i \in 1 .. Len(t) : i + 1 \in 1 .. Len(s) /\ t[i] = s[i + 1]
  BY <1>1
<1>4. 1 \in 1 .. Len(s)
  BY <1>1
<1> QED
  BY <1>2, <1>3, <1>4 DEF UsesIn, t

LEMMA UsesAppend ==
    ASSUME NEW S, NEW s \in Seq(S), NEW m \in S
    PROVE  /\ UsesIn(Append(s, m)) \subseteq UsesIn(s) \cup {m.req}
           /\ m.kind \notin {"ToolUse", "ToolResult"} => UsesIn(Append(s, m)) = UsesIn(s)
<1> DEFINE t == Append(s, m)
<1>1. /\ Len(t) = Len(s) + 1 /\ Len(s) \in Nat /\ t[Len(s) + 1] = m
      /\ \A i \in 1 .. Len(s) : t[i] = s[i]
  OBVIOUS
<1> HIDE DEF t
<1>2. /\ \A i \in 1 .. Len(t) : i \in 1 .. Len(s) \/ i = Len(s) + 1
      /\ \A i \in 1 .. Len(s) : i \in 1 .. Len(t)
  BY <1>1
<1>3. UsesIn(t) \subseteq UsesIn(s) \cup {m.req}
  BY <1>1, <1>2 DEF UsesIn
<1>4. UsesIn(s) \subseteq UsesIn(t)
  BY <1>1, <1>2 DEF UsesIn
<1>5. m.kind \notin {"ToolUse", "ToolResult"} => UsesIn(t) \subseteq UsesIn(s)
  BY <1>1, <1>2 DEF UsesIn
<1> QED
  BY <1>3, <1>4, <1>5 DEF t

(* A server step is about no use that was not there.                       *)
LEMMA ServerUses ==
    ASSUME TypeOK, UsesAwaited, UNCHANGED sessionVars, connected' \subseteq connected,
           \A q \in connected' : Uses(q)' \subseteq Uses(q)
    PROVE  UsesAwaited'
<1>1. \A q \in Clients : AwaitedBy(q)' = AwaitedBy(q)
  BY DEF sessionVars, AwaitedBy
<1>2. connected \subseteq Clients
  BY DEF TypeOK, WireTypeOK
<1> QED
  BY <1>1, <1>2 DEF UsesAwaited

LEMMA PushedUses ==
    ASSUME WireTypeOK, NEW q \in Clients, NEW m \in Frame, Pushes(q, m)
    PROVE  /\ UsesIn(toClient'[q]) \subseteq UsesIn(toClient[q]) \cup {m.req}
           /\ m.kind \notin {"ToolUse", "ToolResult"} => UsesIn(toClient'[q]) = UsesIn(toClient[q])
<1>1. toClient[q] \in Seq(Frame)
  BY DEF WireTypeOK
<1>2. toClient'[q] = Append(toClient[q], m)
  BY DEF Pushes
<1> QED
  BY <1>1, <1>2, UsesAppend

LEMMA ConcludeUses ==
    ASSUME TypeOK, UsesAwaited, NEW p \in Clients, Concludes(p), UNCHANGED sessionVars,
           \A q \in Clients \ {p} : UsesIn(toClient'[q]) \subseteq UsesIn(toClient[q]),
           UsesIn(toClient'[p]) \subseteq UsesIn(toClient[p]) \cup UsesIn(toServer[p])
    PROVE  UsesAwaited'
<1>1. /\ toServer'[p] = Tail(toServer[p]) /\ toServer[p] # <<>> /\ connected' = connected
      /\ \A q \in Clients \ {p} : toServer'[q] = toServer[q]
      /\ toServer[p] \in Seq(Request) /\ connected \subseteq Clients
  BY DEF Concludes, Done, TypeOK, WireTypeOK
<1>2. UsesIn(toServer'[p]) \subseteq UsesIn(toServer[p])
  BY <1>1, UsesTail
<1>3. \A q \in Clients : Uses(q)' \subseteq Uses(q)
  BY <1>1, <1>2 DEF Uses
<1> QED
  BY <1>1, <1>3, ServerUses

LEMMA HandlerUses ==
    ASSUME TypeOK, UsesAwaited, NEW p \in Clients, Handler(p), UNCHANGED sessionVars
    PROVE  UsesAwaited'
<1> DEFINE h == Head(toServer[p])
<1>1. WireTypeOK /\ toServer[p] \in Seq(Request)
  BY DEF TypeOK, WireTypeOK
<1>2. ASSUME NEW where, Park(p, where)
      PROVE  UsesAwaited'
  <2>1. UNCHANGED <<connected, toServer, toClient>>
    BY <1>2 DEF Park, wire
  <2>2. \A q : Uses(q)' = Uses(q)
    BY <2>1 DEF Uses
  <2> QED
    BY <2>1, <2>2, ServerUses
<1>3. CASE EditRefused(p)
  <2> DEFINE a == EditAck(h, FALSE, Rev(h.cell))
  <2>1. /\ Concludes(p) /\ a \in Frame
        /\ \A q \in Clients \ {p} : toClient'[q] = toClient[q]
        /\ toClient'[p] = toClient[p] \/ Pushes(p, a)
    BY <1>3, EditRefusedIs
  <2>2. a.kind = "EditAck"
    BY DEF EditAck
  <2> HIDE DEF a
  <2> QED
    BY <1>1, <2>1, <2>2, PushedUses, ConcludeUses
(* The answer to a use is about the use. *)
<1>4. ASSUME Concludes(p), h.kind = "ToolUse", NEW m \in Frame, m.req = h.req, Pushes(p, m)
      PROVE  UsesIn(toClient'[p]) \subseteq UsesIn(toClient[p]) \cup UsesIn(toServer[p])
  <2>1. h.req \in UsesIn(toServer[p])
    BY <1>1, <1>4, UsesTail DEF Concludes
  <2> QED
    BY <1>1, <1>4, <2>1, PushedUses
<1>5. ASSUME Handles(p, "ToolUse"), RefuseTool(p)
      PROVE  UsesAwaited'
  <2> DEFINE a == ToolResult(h, FALSE, Rev(h.cell), BlockAt(h.cell))
  <2>1. /\ Concludes(p) /\ a \in Frame /\ h.kind = "ToolUse"
        /\ \A q \in Clients \ {p} : toClient'[q] = toClient[q]
        /\ toClient'[p] = toClient[p] \/ Pushes(p, a)
    BY <1>5, RefuseToolIs
  <2>2. a.req = h.req
    BY DEF ToolResult
  <2> HIDE DEF a
  <2> QED
    BY <1>4, <2>1, <2>2, ConcludeUses
<1>6. ASSUME NEW full, EditCommit(p, full)
      PROVE  UsesAwaited'
  <2> DEFINE r      == Rev(h.cell) + 1
             mine   == Snapshot(h.cell, r, h.block)
             also   == EditAck(h, TRUE, r)
             theirs == EditMsg(h.cell, r, h.block)
  <2>1. /\ Concludes(p) /\ mine \in Frame /\ also \in Frame /\ theirs \in Frame
        /\ Published(p, mine, also, theirs, full)
    BY <1>6, EditCommitIs
  <2>2. mine.kind = "Snapshot" /\ also.kind = "EditAck" /\ theirs.kind = "Edit"
    BY DEF Snapshot, EditAck, EditMsg
  <2> HIDE DEF mine, also, theirs
  <2>3. \A q \in Clients \ {p} : UsesIn(toClient'[q]) = UsesIn(toClient[q])
    BY <1>1, <2>1, <2>2, PushedUses DEF Published
  <2>4. toClient'[p] = toClient[p] \/ Pushes(p, mine) \/ Pushes2(p, mine, also)
    BY <2>1 DEF Published
  <2>5. ASSUME Pushes2(p, mine, also)
        PROVE  UsesIn(toClient'[p]) = UsesIn(toClient[p])
    <3> DEFINE t == Append(toClient[p], mine)
    <3>1. toClient[p] \in Seq(Frame) /\ toClient'[p] = Append(t, also)
      BY <1>1, <2>5 DEF WireTypeOK, Pushes2
    <3>2. t \in Seq(Frame) /\ UsesIn(t) = UsesIn(toClient[p])
      BY <2>1, <2>2, <3>1, UsesAppend
    <3> HIDE DEF t
    <3> QED
      BY <2>1, <2>2, <3>1, <3>2, UsesAppend
  <2>6. UsesIn(toClient'[p]) = UsesIn(toClient[p])
    BY <1>1, <2>1, <2>2, <2>4, <2>5, PushedUses
  <2> QED
    BY <2>1, <2>3, <2>6, ConcludeUses
<1>7. ASSUME NEW full, NEW b \in Blocks, ToolCommit(p, b, full)
      PROVE  UsesAwaited'
  <2> DEFINE r      == Rev(h.cell) + 1
             mine   == ToolResult(h, TRUE, r, b)
             theirs == EditMsg(h.cell, r, b)
  <2>1. /\ Concludes(p) /\ mine \in Frame /\ theirs \in Frame /\ h.kind = "ToolUse"
        /\ Published(p, mine, mine, theirs, full)
    BY <1>7, ToolCommitIs
  <2>2. mine.req = h.req /\ theirs.kind = "Edit"
    BY DEF ToolResult, EditMsg
  <2> HIDE DEF mine, theirs
  <2>3. \A q \in Clients \ {p} : UsesIn(toClient'[q]) = UsesIn(toClient[q])
    BY <1>1, <2>1, <2>2, PushedUses DEF Published
  <2>4. toClient'[p] = toClient[p] \/ Pushes(p, mine)
    BY <2>1 DEF Published
  <2> QED
    BY <1>4, <2>1, <2>2, <2>3, <2>4, ConcludeUses
<1> QED
  BY <1>2, <1>3, <1>5, <1>6, <1>7 DEF Handler, ReadTerrain, CallHooks, ToolRefused, ToolAnswered

LEMMA StepUses ==
    ASSUME TypeOK, UsesAwaited, ServerStep
    PROVE  UsesAwaited'
<1>1. UNCHANGED sessionVars
  BY DEF ServerStep
<1>2. ASSUME NEW S \in Contacts, NEW new \in [S -> Blocks], ReactionTurn(new)
      PROVE  UsesAwaited'
  <2>1. UNCHANGED <<connected, toServer, toClient>>
    BY <1>2 DEF ReactionTurn, wire
  <2>2. \A q : Uses(q)' = Uses(q)
    BY <2>1 DEF Uses
  <2> QED
    BY <1>1, <2>1, <2>2, ServerUses
<1>3. ASSUME NEW c \in Cells, NEW full, SendMutation(c, full)
      PROVE  UsesAwaited'
  <2> DEFINE m == Snapshot(c, Rev(c), BlockAt(c))
  <2>1. toServer' = toServer /\ connected' = connected /\ WireTypeOK /\ connected \subseteq Clients
    BY <1>3 DEF SendMutation, TypeOK, WireTypeOK
  <2>2. m \in Frame /\ \A q \in Clients : toClient'[q] = toClient[q] \/ Pushes(q, m)
    BY <1>3, SendMutationIs
  <2>3. m.kind = "Snapshot"
    BY DEF Snapshot
  <2> HIDE DEF m
  <2>4. \A q \in Clients : UsesIn(toClient'[q]) = UsesIn(toClient[q])
    BY <2>1, <2>2, <2>3, PushedUses
  <2>5. \A q \in Clients : Uses(q)' \subseteq Uses(q)
    BY <2>1, <2>4 DEF Uses
  <2> QED
    BY <1>1, <2>1, <2>5, ServerUses
<1>4. ASSUME NEW p \in Clients, Depart(p)
      PROVE  UsesAwaited'
  <2>1. /\ connected' \subseteq connected /\ connected' \subseteq Clients
        /\ \A q \in connected' : toServer'[q] = toServer[q] /\ toClient'[q] = toClient[q]
    BY <1>4 DEF Depart, TypeOK, WireTypeOK
  <2>2. \A q \in connected' : Uses(q)' \subseteq Uses(q)
    BY <2>1 DEF Uses
  <2> QED
    BY <1>1, <2>1, <2>2, ServerUses
<1> QED
  BY <1>1, <1>2, <1>3, <1>4, HandlerUses DEF ServerStep, Reactions

(* A flush gives up no tool use.                                           *)
LEMMA FlushKeepsUses ==
    ASSUME SessionTypeOK, NEW p \in Clients, NEW reqs \in SUBSET PendingReq, NEW revs, Flush(p, reqs, revs)
    PROVE  /\ \A q \in reqs : q.kind = "Tool" => q \in pending'[p]
           /\ pending'[p] \subseteq reqs
<1>1. ASSUME NEW q \in reqs, q.kind = "Tool"
      PROVE  q.cell \notin Lost(reqs)
  BY <1>1 DEF Lost, OnCell
<1> QED
  BY <1>1, FlushFrom

(* The head is heard; all uses but the one it answers are still awaited.   *)
LEMMA HeardUses ==
    ASSUME TypeOK, InSequence, UsesAwaited, NEW p \in Clients, NEW kinds, Hears(p, kinds),
           \A q \in pending[p] : q.kind = "Tool" =>
                q \in pending'[p] \/ (Answers(Head(toClient[p])) /\ q.req = Head(toClient[p]).req),
           \A q \in pending'[p] : q.kind = "Tool" => q \in pending[p],
           \A q \in Clients \ {p} : pending'[q] = pending[q]
    PROVE  UsesAwaited'
<1> DEFINE m == Head(toClient[p])
<1>1. /\ connected' = connected /\ toServer' = toServer /\ toClient[p] # <<>> /\ p \in connected
      /\ toClient'[p] = Tail(toClient[p]) /\ \A q \in Clients \ {p} : toClient'[q] = toClient[q]
      /\ toClient[p] \in Seq(Frame) /\ toServer[p] \in Seq(Request) /\ connected \subseteq Clients
  BY DEF Hears, TypeOK, WireTypeOK
<1>2. UsesIn(toClient'[p]) \subseteq UsesIn(toClient[p])
  BY <1>1, UsesTail
<1>3. ASSUME Answers(m)
      PROVE  m.req \notin UsesIn(toServer[p]) \cup UsesIn(toClient'[p])
  <2>1. PICK h \in Nat : Counted(p, h)
    BY DEF InSequence
  <2> DEFINE t == Tail(toClient[p])
  <2>2. /\ m.req \in 1 .. h /\ \A i \in 1 .. Len(t) : Answers(t[i]) => m.req < t[i].req
    BY <1>1, <1>3, <2>1, AnsweredTail DEF Counted
  <2>3. \A i \in 1 .. Len(toServer[p]) : toServer[p][i].req \in h + 1 .. nextReq[p]
    BY <2>1 DEF Counted, Waiting
  <2>4. nextReq[p] \in Nat
    BY DEF TypeOK, SessionTypeOK
  <2>5. ASSUME NEW i \in 1 .. Len(t), t[i].kind \in {"ToolUse", "ToolResult"}
        PROVE  Answers(t[i])
    <3>1. t \in Seq(Frame)
      BY <1>1, TailIs
    <3>2. t[i] \in Frame
      BY <3>1, ElementOfSeq
    <3> HIDE DEF t
    <3> QED
      BY <2>5, <3>2 DEF Answers, Frame, ContentFrame, AckFrame, ToolFrame
  <2> HIDE DEF m, t
  <2>6. m.req \notin UsesIn(toServer[p])
    <3>1. \A i \in 1 .. Len(toServer[p]) : m.req # toServer[p][i].req
      BY <2>2, <2>3, <2>4
    <3> QED
      BY <3>1 DEF UsesIn
  <2>7. m.req \notin UsesIn(t)
    <3>1. \A i \in 1 .. Len(t) : t[i].kind \in {"ToolUse", "ToolResult"} => t[i].req # m.req
      BY <2>2, <2>5
    <3> QED
      BY <3>1 DEF UsesIn
  <2> QED
    BY <1>1, <2>6, <2>7 DEF t
<1>4. AwaitedBy(p)' \subseteq AwaitedBy(p) /\ \A q \in Clients \ {p} : AwaitedBy(q)' = AwaitedBy(q)
  BY DEF AwaitedBy
<1> HIDE DEF m
<1>5. \A r \in AwaitedBy(p) : r \in AwaitedBy(p)' \/ (Answers(m) /\ r = m.req)
  BY DEF AwaitedBy, m
<1>6. Uses(p)' \subseteq Uses(p) /\ (Answers(m) => m.req \notin Uses(p)')
  BY <1>1, <1>2, <1>3 DEF Uses
<1>7. \A q \in Clients \ {p} : Uses(q)' = Uses(q)
  BY <1>1 DEF Uses
<1> QED
  BY <1>1, <1>4, <1>5, <1>6, <1>7 DEF UsesAwaited

LEMMA PollUses ==
    ASSUME ~ExpiryOn \/ ~ToolsOn, TypeOK, InSequence, UsesAwaited, NEW p \in Clients, Poll(p)
    PROVE  UsesAwaited'
<1> DEFINE m == Head(toClient[p])
           mine == Matching(p, m)
<1>1. SessionTypeOK /\ pending[p] \subseteq PendingReq
  BY DEF TypeOK, SessionTypeOK
<1>2. CASE HearContent(p)
  <2>1. Hears(p, {"Snapshot", "Edit"}) /\ pending' = pending
    BY <1>2 DEF HearContent
  <2> QED
    BY <2>1, HeardUses
<1>3. CASE HearAck(p)
  <2> DEFINE lost == {[q EXCEPT !.kind = "Rejected"] : q \in mine}
  <2>1. Hears(p, {"EditAck"}) /\ Answers(m)
    BY <1>3 DEF HearAck, Hears, Answers
  <2>2. \/ pending' = pending
        \/ Flush(p, pending[p] \ mine, known'[p])
        \/ Flush(p, (pending[p] \ mine) \cup lost, known[p])
    BY <1>3 DEF HearAck
  <2>3. mine \subseteq pending[p] /\ \A q \in mine : q.req = m.req
    BY DEF Matching
  <2>4. lost \subseteq PendingReq /\ \A q \in lost : q.kind = "Rejected"
    <3> HIDE DEF mine
    <3>1. \A q \in mine : q \in PendingReq
      BY <1>1, <2>3
    <3> QED
      BY <3>1, RejectedTyped, RejectedIs
  <2> HIDE DEF m, mine, lost
  <2>5. ASSUME NEW reqs, NEW revs, Flush(p, reqs, revs), pending[p] \ mine \subseteq reqs,
               reqs \subseteq (pending[p] \ mine) \cup lost
        PROVE  UsesAwaited'
    <3>1. reqs \in SUBSET PendingReq
      BY <1>1, <2>4, <2>5
    <3>2. /\ \A q \in reqs : q.kind = "Tool" => q \in pending'[p]
          /\ pending'[p] \subseteq reqs
          /\ \A q \in Clients \ {p} : pending'[q] = pending[q]
      BY <1>1, <2>5, <3>1, FlushKeepsUses, FlushFrom
    <3>3. \A q \in pending[p] : q.kind = "Tool" => q \in pending'[p] \/ q.req = m.req
      BY <2>3, <2>5, <3>2
    <3>4. \A q \in pending'[p] : q.kind = "Tool" => q \in pending[p]
      BY <2>4, <2>5, <3>2
    <3> QED
      BY <2>1, <3>2, <3>3, <3>4, HeardUses DEF m
  <2>6. CASE pending' = pending
    BY <2>1, <2>6, HeardUses
  <2> QED
    BY <2>2, <2>5, <2>6
<1>4. CASE HearTool(p)
  <2>1. Hears(p, {"ToolResult"}) /\ pending' = [pending EXCEPT ![p] = @ \ mine] /\ Answers(m)
    BY <1>4 DEF HearTool, Hears, Answers
  <2>2. pending'[p] = pending[p] \ mine /\ \A q \in Clients \ {p} : pending'[q] = pending[q]
    BY <2>1 DEF TypeOK, SessionTypeOK
  <2>3. \A q \in mine : q.req = m.req
    BY DEF Matching
  <2> HIDE DEF mine
  <2> QED
    BY <2>1, <2>2, <2>3, HeardUses
<1>5. ASSUME NEW old, EndPoll(p, old)
      PROVE  UsesAwaited'
  <2> DEFINE gone   == {q \in Aged(p, old) : q.kind = "Tool"}
             failed == {q \in Aged(p, old) : q.kind = "Edit"}
             lost   == {[q EXCEPT !.kind = "Rejected"] : q \in failed}
             after  == (pending[p] \ (gone \cup failed)) \cup lost
  <2>1. /\ Flush(p, after, known[p]) /\ connected' = connected /\ toServer' = toServer /\ toClient' = toClient
        /\ old = 0 \/ ExpiryOn
    BY <1>5 DEF EndPoll, wire
  <2>2. gone = {}
    <3>1. CASE ToolsOn
      <4>1. old = 0
        BY <2>1, <3>1
      <4>2. PICK h \in Nat : Counted(p, h)
        BY DEF InSequence
      <4>3. nextReq[p] \in Nat /\ \A q \in pending[p] : q.req \in 1 .. nextReq[p]
        BY <4>2 DEF Counted, TypeOK, SessionTypeOK
      <4> QED
        BY <4>1, <4>3 DEF Aged
    <3>2. CASE ~ToolsOn
      BY <3>2 DEF UsesAwaited, AwaitedBy, Aged
    <3> QED
      BY <3>1, <3>2
  <2>3. failed \subseteq pending[p] /\ \A q \in failed : q.kind = "Edit"
    BY DEF Aged
  <2>4. lost \subseteq PendingReq /\ \A q \in lost : q.kind = "Rejected"
    <3> HIDE DEF failed
    <3>1. \A q \in failed : q \in PendingReq
      BY <1>1, <2>3
    <3> QED
      BY <3>1, RejectedTyped, RejectedIs
  <2> HIDE DEF gone, failed, lost
  <2>5. /\ after \in SUBSET PendingReq
        /\ \A q \in pending[p] : q.kind = "Tool" => q \in after
        /\ \A q \in after : q.kind = "Tool" => q \in pending[p]
    BY <1>1, <2>2, <2>3, <2>4
  <2> HIDE DEF after
  <2>6. /\ \A q \in after : q.kind = "Tool" => q \in pending'[p]
        /\ pending'[p] \subseteq after
        /\ \A q \in Clients \ {p} : pending'[q] = pending[q]
    BY <1>1, <2>1, <2>5, FlushKeepsUses, FlushFrom
  <2>7. \A q \in Clients : AwaitedBy(q)' = AwaitedBy(q)
    BY <2>5, <2>6 DEF AwaitedBy
  <2>8. \A q \in Clients : Uses(q)' = Uses(q)
    BY <2>1 DEF Uses
  <2>9. connected \subseteq Clients
    BY DEF TypeOK, WireTypeOK
  <2> QED
    BY <2>1, <2>7, <2>8, <2>9 DEF UsesAwaited
<1> QED
  BY <1>2, <1>3, <1>4, <1>5 DEF Poll

LEMMA PlayerUses ==
    ASSUME TypeOK, UsesAwaited, NEW p \in Clients, Player(p)
    PROVE  UsesAwaited'
<1>1. ASSUME NEW c \in Cells, NEW kind, NEW wireKind, NEW b, Send(p, c, kind, wireKind, b),
             kind = "Tool" => ToolsOn, wireKind = "ToolUse" => kind = "Tool", wireKind # "ToolResult"
      PROVE  UsesAwaited'
  <2> DEFINE n == nextReq[p]
  <2>1. connected' = connected /\ toClient' = toClient /\ connected \subseteq Clients /\ n \in Nat
    BY <1>1 DEF Send, TypeOK, WireTypeOK, SessionTypeOK
  <2>2. PICK e \in ExpectCandidates(p, c) :
          /\ pending' = [pending EXCEPT ![p] = @ \cup
                  {[kind |-> kind, req |-> n + 1, cell |-> c, expect |-> e,
                    base |-> known[p][c], prev |-> view[p][c]]}]
          /\ \/ toServer' = [toServer EXCEPT ![p] = Append(@,
                      [kind |-> wireKind, req |-> n + 1, cell |-> c, expect |-> e, block |-> b])]
             \/ UNCHANGED toServer
    BY <1>1 DEF Send
  <2> DEFINE o == [kind |-> kind, req |-> n + 1, cell |-> c, expect |-> e,
                   base |-> known[p][c], prev |-> view[p][c]]
  <2>3. /\ pending'[p] = pending[p] \cup {o} /\ \A q \in Clients \ {p} : pending'[q] = pending[q]
        /\ o.kind = kind /\ o.req = n + 1
    BY <2>2 DEF TypeOK, SessionTypeOK
  <2> DEFINE m == [kind |-> wireKind, req |-> n + 1, cell |-> c, expect |-> e, block |-> b]
  <2>4. m.kind = wireKind /\ m.req = n + 1
    OBVIOUS
  <2>5. toServer' = [toServer EXCEPT ![p] = Append(@, m)] \/ toServer' = toServer
    BY <2>2
  <2> HIDE DEF m, n, o
  <2>6. /\ toServer'[p] = toServer[p] \/ toServer'[p] = Append(toServer[p], m)
        /\ \A q \in Clients \ {p} : toServer'[q] = toServer[q]
        /\ toServer[p] \in Seq(Request \cup {m})
    BY <2>5, SeqMonotonic DEF TypeOK, WireTypeOK
  <2>7. UsesIn(toServer'[p]) \subseteq UsesIn(toServer[p]) \cup (IF wireKind = "ToolUse" THEN {n + 1} ELSE {})
    <3>1. m \in Request \cup {m}
      OBVIOUS
    <3>2. /\ UsesIn(Append(toServer[p], m)) \subseteq UsesIn(toServer[p]) \cup {n + 1}
          /\ wireKind # "ToolUse" => UsesIn(Append(toServer[p], m)) = UsesIn(toServer[p])
      BY <1>1, <2>4, <2>6, <3>1, UsesAppend
    <3> QED
      BY <2>6, <3>2
  <2>8. /\ AwaitedBy(p) \subseteq AwaitedBy(p)' /\ (kind = "Tool" => n + 1 \in AwaitedBy(p)')
        /\ kind # "Tool" => AwaitedBy(p)' \subseteq AwaitedBy(p)
        /\ \A q \in Clients \ {p} : AwaitedBy(q)' = AwaitedBy(q)
    BY <2>3 DEF AwaitedBy
  <2>9. \A q \in Clients : Uses(q)' \subseteq Uses(q) \/ (q = p /\ wireKind = "ToolUse" /\ Uses(q)' \subseteq Uses(q) \cup {n + 1})
    BY <2>1, <2>6, <2>7 DEF Uses
  <2> QED
    BY <1>1, <2>1, <2>8, <2>9 DEF UsesAwaited
<1>2. ASSUME NEW c \in Cells, NEW b \in Blocks, Predict(p, c, b)
      PROVE  UsesAwaited'
  BY <1>1, <1>2 DEF Predict
<1>3. ASSUME NEW c \in Cells, UseTool(p, c)
      PROVE  UsesAwaited'
  BY <1>1, <1>3 DEF UseTool
<1>4. Air \in Blocks
  BY SessionConstants DEF SessionConstants
<1> QED
  BY <1>2, <1>3, <1>4 DEF Player, Break, Place

-----------------------------------------------------------------------------
(* Whoever does not know a cell's latest revision will be told.            *)

Informs(t, c, r) == \E i \in 1 .. Len(t) : Carries(t[i]) /\ t[i].cell = c /\ t[i].rev = r

Informed(p, c) == known[p][c] = Rev(c) \/ Informs(toClient[p], c, Rev(c)) \/ c \in touched

AllInformed == \A p \in connected \ kicked, c \in Cells : Informed(p, c)

LEMMA InformsAppend ==
    ASSUME NEW t \in Seq(Frame), NEW m \in Frame
    PROVE  /\ \A c, r : Informs(t, c, r) => Informs(Append(t, m), c, r)
           /\ Carries(m) => Informs(Append(t, m), m.cell, m.rev)
<1> DEFINE u == Append(t, m)
<1>1. /\ Len(u) = Len(t) + 1 /\ Len(t) \in Nat /\ u[Len(t) + 1] = m
      /\ \A i \in 1 .. Len(t) : u[i] = t[i]
  BY Appended
<1> HIDE DEF u
<1>2. Len(t) + 1 \in 1 .. Len(u) /\ \A i \in 1 .. Len(t) : i \in 1 .. Len(u)
  BY <1>1
<1> QED
  BY <1>1, <1>2 DEF Informs, u

LEMMA InformsTail ==
    ASSUME NEW t \in Seq(Frame), t # <<>>, NEW c, NEW r, Informs(t, c, r)
    PROVE  Informs(Tail(t), c, r) \/ (Carries(Head(t)) /\ Head(t).cell = c /\ Head(t).rev = r)
<1> DEFINE u == Tail(t)
<1>1. /\ Len(t) \in Nat /\ Len(u) = Len(t) - 1 /\ Head(t) = t[1]
      /\ \A i \in 1 .. Len(u) : u[i] = t[i + 1]
  BY TailIs
<1> HIDE DEF u
<1>2. PICK i \in 1 .. Len(t) : Carries(t[i]) /\ t[i].cell = c /\ t[i].rev = r
  BY DEF Informs
<1>3. CASE i = 1
  BY <1>1, <1>2, <1>3
<1>4. CASE i # 1
  <2>1. i - 1 \in 1 .. Len(u) /\ u[i - 1] = t[i]
    BY <1>1, <1>2, <1>4
  <2> QED
    BY <1>2, <2>1 DEF Informs, u
<1> QED
  BY <1>3, <1>4

(* A step that commits nothing and queues in order.                        *)
LEMMA SameInformed ==
    ASSUME AllInformed, log' = log, known' = known, touched' = touched,
           connected' \ kicked' \subseteq connected \ kicked,
           \A q \in connected' \ kicked' : \A c, r : Informs(toClient[q], c, r) => Informs(toClient'[q], c, r)
    PROVE  AllInformed'
BY DEF AllInformed, Informed, Rev

LEMMA CommitInformed ==
    ASSUME TypeOK, AllInformed, NEW p \in Clients, Concludes(p), NEW b \in Blocks,
           Write(p, Head(toServer[p]), b), NEW full, kicked' = kicked \cup full,
           NEW mine \in Frame, NEW also \in Frame, NEW theirs \in Frame,
           Published(p, mine, also, theirs, full), Carries(mine), Carries(theirs),
           mine.cell = Head(toServer[p]).cell, mine.rev = Rev(Head(toServer[p]).cell) + 1,
           theirs.cell = Head(toServer[p]).cell, theirs.rev = Rev(Head(toServer[p]).cell) + 1
    PROVE  AllInformed'
<1>1. PICK m \in Request, x \in Cells : m = Head(toServer[p]) /\ x = m.cell
  BY DEF Concludes, Request
<1>2. PICK e \in Entry : log'[x] = Append(log[x], e) /\ \A c \in Cells \ {x} : log'[c] = log[c]
  <2>1. Write(p, m, b) /\ LedgerTypeOK
    BY <1>1 DEF TypeOK
  <2>2. \E e \in Entry :
            /\ e.by = p /\ e.req = m.req /\ e.block = b
            /\ log'[m.cell] = Append(log[m.cell], e)
            /\ \A c \in Cells \ {m.cell} : log'[c] = log[c]
    BY <2>1, WriteIs
  <2> QED
    BY <1>1, <2>2
<1>3. log[x] \in Seq(Entry)
  BY DEF TypeOK, LedgerTypeOK
<1>4. Rev(x)' = Rev(x) + 1 /\ \A c \in Cells \ {x} : Rev(c)' = Rev(c)
  BY <1>2, <1>3 DEF Rev
<1>5. connected' = connected /\ known' = known /\ touched' = touched /\ connected \subseteq Clients
  BY DEF Concludes, Done, sessionVars, TypeOK, WireTypeOK
<1>6. ASSUME NEW q \in connected \ kicked, q \notin full
      PROVE  /\ Informs(toClient'[q], x, Rev(x) + 1)
             /\ \A c, r : Informs(toClient[q], c, r) => Informs(toClient'[q], c, r)
  <2>1. toClient[q] \in Seq(Frame) /\ q \in Clients
    BY <1>5 DEF TypeOK, WireTypeOK
  <2>2. Pushes(q, mine) \/ Pushes2(q, mine, also) \/ Pushes(q, theirs)
    BY <1>6, <2>1 DEF Published
  <2>3. \A n \in {mine, theirs} : Carries(n) /\ n.cell = x /\ n.rev = Rev(x) + 1 /\ n \in Frame
    BY <1>1
  <2> DEFINE t == toClient[q]
             u == Append(t, mine)
  <2>4. CASE toClient'[q] = Append(t, mine) \/ toClient'[q] = Append(t, theirs)
    <3> HIDE DEF t
    <3>1. PICK n \in {mine, theirs} : toClient'[q] = Append(t, n)
      BY <2>4
    <3>2. t \in Seq(Frame)
      BY <2>1 DEF t
    <3>3. \A c, r : Informs(t, c, r) => Informs(toClient'[q], c, r)
      BY <2>3, <3>1, <3>2, InformsAppend
    <3>4. Informs(toClient'[q], x, Rev(x) + 1)
      BY <2>3, <3>1, <3>2, InformsAppend
    <3> QED
      BY <3>3, <3>4 DEF t
  <2>5. CASE toClient'[q] = Append(u, also)
    <3>1. u \in Seq(Frame) /\ Informs(u, x, Rev(x) + 1) /\ \A c, r : Informs(t, c, r) => Informs(u, c, r)
      BY <2>1, <2>3, InformsAppend, Appended
    <3> HIDE DEF u
    <3>2. \A c, r : Informs(u, c, r) => Informs(Append(u, also), c, r)
      BY <3>1, InformsAppend
    <3> QED
      BY <2>5, <3>1, <3>2
  <2> QED
    BY <2>2, <2>4, <2>5 DEF Pushes, Pushes2
<1>7. ASSUME NEW q \in connected' \ kicked', NEW c \in Cells
      PROVE  Informed(q, c)'
  <2>1. q \in connected \ kicked /\ q \notin full
    BY <1>5
  <2>2. CASE c = x
    BY <1>4, <1>6, <2>1, <2>2 DEF Informed
  <2>3. CASE c # x
    <3>1. Informed(q, c)
      BY <2>1 DEF AllInformed
    <3> QED
      BY <1>4, <1>5, <1>6, <2>1, <2>3, <3>1 DEF Informed
  <2> QED
    BY <2>2, <2>3
<1> QED
  BY <1>7 DEF AllInformed

LEMMA HandlerInformed ==
    ASSUME TypeOK, AllInformed, NEW p \in Clients, Handler(p), UNCHANGED sessionVars
    PROVE  AllInformed'
<1> DEFINE h == Head(toServer[p])
<1>1. known' = known /\ connected \subseteq Clients
  BY DEF sessionVars, TypeOK, WireTypeOK
<1>2. ASSUME NEW where, Park(p, where)
      PROVE  AllInformed'
  <2>1. UNCHANGED <<connected, toClient, log, kicked, touched>>
    BY <1>2 DEF Park, wire
  <2> QED
    BY <1>1, <2>1, SameInformed
<1>3. ASSUME Concludes(p), log' = log, kicked' = kicked \/ kicked' = kicked \cup {p}, NEW a \in Frame,
             \A q \in Clients \ {p} : toClient'[q] = toClient[q],
             Pushes(p, a) \/ toClient'[p] = toClient[p]
      PROVE  AllInformed'
  <2>1. connected' = connected /\ touched' = touched /\ toClient[p] \in Seq(Frame)
    BY <1>3 DEF Concludes, Done, TypeOK, WireTypeOK
  <2>2. \A c, r : Informs(toClient[p], c, r) => Informs(toClient'[p], c, r)
    BY <1>3, <2>1, InformsAppend DEF Pushes
  <2> QED
    BY <1>1, <1>3, <2>1, <2>2, SameInformed
<1>4. CASE EditRefused(p)
  <2> DEFINE a == EditAck(h, FALSE, Rev(h.cell))
  <2>1. /\ Concludes(p) /\ log' = log /\ kicked' = kicked /\ a \in Frame
        /\ \A q \in Clients \ {p} : toClient'[q] = toClient[q]
        /\ toClient'[p] = toClient[p] \/ Pushes(p, a)
    BY <1>4, EditRefusedIs
  <2> HIDE DEF a
  <2> QED
    BY <1>3, <2>1
<1>5. ASSUME Handles(p, "ToolUse"), RefuseTool(p)
      PROVE  AllInformed'
  <2> DEFINE a == ToolResult(h, FALSE, Rev(h.cell), BlockAt(h.cell))
  <2>1. /\ Concludes(p) /\ log' = log /\ a \in Frame
        /\ \A q \in Clients \ {p} : toClient'[q] = toClient[q]
        /\ \/ toClient'[p] = toClient[p] /\ kicked' = kicked \cup {p}
           \/ Pushes(p, a) /\ kicked' = kicked
    BY <1>5, RefuseToolIs
  <2> HIDE DEF a
  <2> QED
    BY <1>3, <2>1
<1>6. ASSUME NEW full, EditCommit(p, full)
      PROVE  AllInformed'
  <2> DEFINE r      == Rev(h.cell) + 1
             mine   == Snapshot(h.cell, r, h.block)
             also   == EditAck(h, TRUE, r)
             theirs == EditMsg(h.cell, r, h.block)
  <2>1. /\ Concludes(p) /\ kicked' = kicked \cup full /\ Write(p, h, h.block)
        /\ mine \in Frame /\ also \in Frame /\ theirs \in Frame
        /\ Published(p, mine, also, theirs, full)
    BY <1>6, EditCommitIs
  <2>2. h.block \in Blocks
    BY <2>1 DEF Concludes, Request
  <2>3. /\ Carries(mine) /\ mine.cell = h.cell /\ mine.rev = r
        /\ Carries(theirs) /\ theirs.cell = h.cell /\ theirs.rev = r
    BY DEF Carries, Snapshot, EditMsg
  <2> HIDE DEF mine, also, theirs
  <2> QED
    BY <2>1, <2>2, <2>3, CommitInformed
<1>7. ASSUME NEW full, NEW b \in Blocks, ToolCommit(p, b, full)
      PROVE  AllInformed'
  <2> DEFINE r      == Rev(h.cell) + 1
             mine   == ToolResult(h, TRUE, r, b)
             theirs == EditMsg(h.cell, r, b)
  <2>1. /\ Concludes(p) /\ kicked' = kicked \cup full /\ Write(p, h, b) /\ mine \in Frame /\ theirs \in Frame
        /\ Published(p, mine, mine, theirs, full)
    BY <1>7, ToolCommitIs
  <2>2. /\ Carries(mine) /\ mine.cell = h.cell /\ mine.rev = r
        /\ Carries(theirs) /\ theirs.cell = h.cell /\ theirs.rev = r
    BY DEF Carries, ToolResult, EditMsg
  <2> HIDE DEF mine, theirs
  <2> QED
    BY <2>1, <2>2, CommitInformed
<1> QED
  BY <1>2, <1>4, <1>5, <1>6, <1>7 DEF Handler, ReadTerrain, CallHooks, ToolRefused, ToolAnswered

LEMMA StepInformed ==
    ASSUME TypeOK, AllInformed, ServerStep
    PROVE  AllInformed'
<1>1. known' = known /\ UNCHANGED sessionVars /\ connected \subseteq Clients
  BY DEF ServerStep, sessionVars, TypeOK, WireTypeOK
<1>2. ASSUME NEW S \in Contacts, NEW new \in [S -> Blocks], ReactionTurn(new)
      PROVE  AllInformed'
  <2>1. /\ UNCHANGED <<connected, toClient, kicked>> /\ touched' = touched \cup S
        /\ \A c \in Cells \ S : log'[c] = log[c]
    BY <1>2 DEF ReactionTurn, wire
  <2> QED
    BY <1>1, <2>1 DEF AllInformed, Informed, Rev
<1>3. ASSUME NEW c \in Cells, NEW full, SendMutation(c, full)
      PROVE  AllInformed'
  <2> DEFINE m == Snapshot(c, Rev(c), BlockAt(c))
  <2>1. /\ connected' = connected /\ log' = log /\ kicked' = kicked \cup full /\ touched' = touched \ {c}
    BY <1>3 DEF SendMutation
  <2>2. m \in Frame /\ \A q \in Clients : q \in connected \ full => Pushes(q, m)
    BY <1>3, SendMutationIs
  <2>3. Carries(m) /\ m.cell = c /\ m.rev = Rev(c)
    BY DEF Snapshot, Carries
  <2> HIDE DEF m
  <2>4. ASSUME NEW q \in connected \ kicked, q \notin full
        PROVE  /\ Informs(toClient'[q], c, Rev(c))
               /\ \A d, r : Informs(toClient[q], d, r) => Informs(toClient'[q], d, r)
    <3>1. toClient[q] \in Seq(Frame) /\ q \in Clients
      BY <1>1 DEF TypeOK, WireTypeOK
    <3>2. toClient'[q] = Append(toClient[q], m)
      BY <2>2, <2>4, <3>1 DEF Pushes
    <3> QED
      BY <2>2, <2>3, <3>1, <3>2, InformsAppend
  <2> QED
    BY <1>1, <2>1, <2>4 DEF AllInformed, Informed, Rev
<1>4. ASSUME NEW p \in Clients, Depart(p)
      PROVE  AllInformed'
  <2>1. /\ log' = log /\ touched' = touched /\ connected' \ kicked' \subseteq connected \ kicked
        /\ \A q \in connected' : toClient'[q] = toClient[q]
    BY <1>4 DEF Depart, TypeOK, WireTypeOK
  <2> QED
    BY <1>1, <2>1, SameInformed
<1> QED
  BY <1>1, <1>2, <1>3, <1>4, HandlerInformed DEF ServerStep, Reactions

LEMMA HeardInformed ==
    ASSUME TypeOK, AllInformed, NEW p \in Clients, NEW kinds, Hears(p, kinds), Learns, UNCHANGED ledgerVars,
           Carries(Head(toClient[p])) /\ Head(toClient[p]).rev = Rev(Head(toClient[p]).cell) =>
                known'[p][Head(toClient[p]).cell] = Head(toClient[p]).rev
    PROVE  AllInformed'
<1>1. /\ connected' = connected /\ toClient[p] # <<>> /\ toClient[p] \in Seq(Frame) /\ connected \subseteq Clients
      /\ toClient'[p] = Tail(toClient[p]) /\ \A q \in Clients \ {p} : toClient'[q] = toClient[q]
      /\ log' = log /\ kicked' = kicked /\ touched' = touched
  BY DEF Hears, TypeOK, WireTypeOK, ledgerVars
<1>2. \A q \in Clients, c \in Cells : known[q][c] = Rev(c) => known'[q][c] = Rev(c)
  <2>1. /\ known \in [Clients -> [Cells -> Nat]]
        /\ \A c \in Cells : Rev(c) \in Nat
    BY LedgerRead DEF TypeOK, SessionTypeOK
  <2> QED
    BY <2>1 DEF Learns
<1>3. ASSUME NEW q \in connected \ kicked, NEW c \in Cells
      PROVE  known'[q][c] = Rev(c) \/ Informs(toClient'[q], c, Rev(c)) \/ c \in touched
  <2>1. Informed(q, c) /\ q \in Clients
    BY <1>1 DEF AllInformed
  <2>2. CASE known[q][c] = Rev(c) \/ c \in touched \/ q # p
    BY <1>1, <1>2, <2>1, <2>2 DEF Informed
  <2>3. CASE q = p /\ Informs(toClient[q], c, Rev(c))
    <3>1. \/ Informs(Tail(toClient[p]), c, Rev(c))
          \/ Carries(Head(toClient[p])) /\ Head(toClient[p]).cell = c /\ Head(toClient[p]).rev = Rev(c)
      BY <1>1, <2>3, InformsTail
    <3> QED
      BY <1>1, <2>3, <3>1
  <2> QED
    BY <2>1, <2>2, <2>3 DEF Informed
<1> QED
  BY <1>1, <1>3 DEF AllInformed, Informed, Rev

LEMMA PollInformed ==
    ASSUME IInv, InOrder, UsesAwaited, AllInformed, NEW p \in Clients, Poll(p), UNCHANGED ledgerVars
    PROVE  AllInformed'
<1> DEFINE m == Head(toClient[p])
<1>1. TypeOK
  BY DEF IInv
<1>2. ASSUME NEW kinds, Hears(p, kinds)
      PROVE  /\ m \in Frame /\ m.cell \in Cells /\ m.rev \in Nat /\ m.kind \in kinds /\ p \in connected
             /\ toClient[p] # <<>> /\ toClient[p] \in Seq(Frame) /\ known[p][m.cell] \in Nat
             /\ Carries(m) => known[p][m.cell] < m.rev
  <2>1. toClient[p] # <<>> /\ p \in connected /\ m.kind \in kinds /\ toClient[p] \in Seq(Frame)
    BY <1>1, <1>2 DEF Hears, TypeOK, WireTypeOK
  <2>2. m = toClient[p][1] /\ m \in Frame /\ 1 \in 1 .. Len(toClient[p])
    BY <2>1, TailIs
  <2>3. m.cell \in Cells /\ m.rev \in Nat
    BY <2>2, FrameFields
  <2>4. known[p][m.cell] \in Nat
    BY <1>1, <2>3 DEF TypeOK, SessionTypeOK
  <2>5. Carries(m) => known[p][m.cell] < m.rev
    BY <2>1, <2>2 DEF InOrder, Ordered
  <2> QED
    BY <2>1, <2>2, <2>3, <2>4, <2>5
<1>3. CASE HearContent(p)
  <2>1. Hears(p, {"Snapshot", "Edit"}) /\ Learns
    BY <1>3, HearContentKeeps DEF HearContent
  <2>2. Carries(m) => known' = [known EXCEPT ![p][m.cell] = m.rev]
    BY <1>2, <1>3, <2>1 DEF HearContent
  <2>3. Carries(m) => known'[p][m.cell] = m.rev
    BY <1>1, <1>2, <2>1, <2>2 DEF TypeOK, SessionTypeOK
  <2> QED
    BY <1>1, <2>1, <2>3, HeardInformed
<1>4. CASE HearAck(p)
  <2>1. Hears(p, {"EditAck"}) /\ Learns
    BY <1>4, HearAckKeeps DEF HearAck
  <2>2. ~Carries(m)
    BY <1>2, <2>1 DEF Carries
  <2> QED
    BY <1>1, <2>1, <2>2, HeardInformed
<1>5. CASE HearTool(p)
  <2>1. Hears(p, {"ToolResult"}) /\ Learns
    BY <1>5, HearToolKeeps DEF HearTool
  <2>2. Matching(p, m) # {}
    <3>1. m.req \in UsesIn(toClient[p])
      BY <1>2, <2>1, UsesTail
    <3>2. m.req \in AwaitedBy(p)
      BY <1>2, <2>1, <3>1 DEF UsesAwaited, Uses
    <3> QED
      BY <3>2 DEF AwaitedBy, Matching
  <2>3. Carries(m) => known' = Confirm(p, m.cell, m.rev)
    BY <1>2, <1>5, <2>1, <2>2 DEF HearTool, Carries
  <2>4. Carries(m) => known'[p][m.cell] = m.rev
    BY <1>1, <1>2, <2>1, <2>3 DEF TypeOK, SessionTypeOK, Confirm
  <2> QED
    BY <1>1, <2>1, <2>4, HeardInformed
<1>6. ASSUME NEW old, EndPoll(p, old)
      PROVE  AllInformed'
  BY <1>6, SameInformed DEF EndPoll, wire, ledgerVars
<1> QED
  BY <1>3, <1>4, <1>5, <1>6 DEF Poll

LEMMA InitInformed ==
    ASSUME Init
    PROVE  UsesAwaited /\ AllInformed
<1>1. /\ \A p \in Clients : toServer[p] = <<>> /\ toClient[p] = <<>> /\ pending[p] = {}
      /\ \A p \in Clients, c \in Cells : known[p][c] = Rev(c)
      /\ connected = Clients
  BY EmptySeq DEF Init, WireInit, LedgerInit, SessionInit, Rev
<1>2. UsesIn(<<>>) = {}
  BY EmptySeq DEF UsesIn
<1> QED
  BY <1>1, <1>2 DEF UsesAwaited, Uses, AwaitedBy, AllInformed, Informed

LEMMA NextInformed ==
    ASSUME ~ExpiryOn \/ ~ToolsOn, IInv, InOrder, InSequence, UsesAwaited, AllInformed, [Next]_vars
    PROVE  UsesAwaited' /\ AllInformed'
<1>1. TypeOK
  BY DEF IInv
<1>2. CASE ServerStep
  BY <1>1, <1>2, StepUses, StepInformed
<1>3. CASE ClientStep
  <2>1. UNCHANGED ledgerVars
    BY <1>3 DEF ClientStep
  <2>2. ASSUME NEW p \in Clients, Player(p)
        PROVE  UsesAwaited' /\ AllInformed'
    <3>1. UNCHANGED <<connected, toClient, known>>
      BY <2>2 DEF Player, Break, Place, Predict, UseTool, Send
    <3> QED
      BY <1>1, <2>1, <2>2, <3>1, PlayerUses, SameInformed DEF ledgerVars
  <2> QED
    BY <1>1, <1>3, <2>1, <2>2, PollUses, PollInformed DEF ClientStep
<1>4. CASE UNCHANGED vars
  <2>1. UNCHANGED <<connected, toServer, toClient, pending>> /\ UNCHANGED <<log, known, kicked, touched>>
    BY <1>4 DEF vars, wire, ledgerVars, sessionVars
  <2>2. \A q : Uses(q)' = Uses(q) /\ AwaitedBy(q)' = AwaitedBy(q)
    BY <2>1 DEF Uses, AwaitedBy
  <2> QED
    BY <2>1, <2>2, SameInformed DEF UsesAwaited
<1> QED
  BY <1>2, <1>3, <1>4 DEF Next

LEMMA InformedIs ==
    ASSUME TypeOK, UsesAwaited, AllInformed
    PROVE  NothingMissed
<1>1. SUFFICES ASSUME NEW p \in connected \ kicked, NEW c \in Cells, known[p][c] # Rev(c), c \notin touched
               PROVE  \E i \in DOMAIN toClient[p] :
                        Tells(p, toClient[p][i]) /\ toClient[p][i].cell = c /\ toClient[p][i].rev = Rev(c)
  BY DEF NothingMissed
<1>2. PICK i \in 1 .. Len(toClient[p]) :
        Carries(toClient[p][i]) /\ toClient[p][i].cell = c /\ toClient[p][i].rev = Rev(c)
  BY <1>1 DEF AllInformed, Informed, Informs
<1>3. i \in DOMAIN toClient[p]
  BY DEF TypeOK, WireTypeOK
<1>4. Tells(p, toClient[p][i])
  <2>1. CASE toClient[p][i].kind = "ToolResult"
    <3>1. toClient[p][i].req \in AwaitedBy(p)
      BY <2>1 DEF UsesAwaited, Uses, UsesIn
    <3>2. \E q \in pending[p] : q.req = toClient[p][i].req
      BY <3>1 DEF AwaitedBy
    <3> QED
      BY <1>2, <2>1, <3>2 DEF Carries, Tells
  <2> QED
    BY <1>2, <2>1 DEF Carries, Tells
<1> QED
  BY <1>2, <1>3, <1>4

(* No client that stays misses a commit, as long as no tool use is given   *)
(* up: it knows the latest revision of a cell, or a frame that tells it is *)
(* queued, or the reaction tick still holds the lock.                      *)
THEOREM MissesNothing == (~ExpiryOn \/ ~ToolsOn) /\ Spec => []NothingMissed
<1>1. SUFFICES ASSUME ~ExpiryOn \/ ~ToolsOn
               PROVE  Spec => []NothingMissed
  OBVIOUS
<1>2. Init => UsesAwaited /\ AllInformed
  BY InitInformed
<1>3. IInv /\ InOrder /\ InSequence /\ UsesAwaited /\ AllInformed /\ [Next]_vars => UsesAwaited' /\ AllInformed'
  BY <1>1, NextInformed
<1>4. TypeOK /\ UsesAwaited /\ AllInformed => NothingMissed
  BY InformedIs
<1>5. Init => InOrder /\ HeldBack
  BY InitOrdered
<1>6. IInv /\ InOrder /\ HeldBack /\ [Next]_vars => InOrder' /\ HeldBack'
  BY NextOrdered
<1>7. Init => InSequence /\ AllTrue
  BY InitSent
<1>8. TypeOK /\ InSequence /\ AllTrue /\ [Next]_vars => InSequence' /\ AllTrue'
  BY NextSent
<1> QED
  BY <1>2, <1>3, <1>4, <1>5, <1>6, <1>7, <1>8, InvariantHolds, TypeCorrect, PTL DEF Spec

-----------------------------------------------------------------------------
(* Rollbacks. A chain that fails gives nothing back: by the time its last  *)
(* refusal is heard, newer content has covered what it showed.             *)

ReqsIn(s)    == {s[i].req : i \in 1 .. Len(s)}
AnswersIn(t) == {t[i].req : i \in {j \in 1 .. Len(t) : Answers(t[j])}}

(* A request that nobody will answer any more stays in flight for good.    *)
Hopeless(p, c) ==
    \E q \in pending[p] :
        /\ q.cell = c /\ q.kind # "Rejected"
        /\ q.req \notin ReqsIn(toServer[p]) \cup AnswersIn(toClient[p])

(* Who has heard the first i - 1 frames of t has confirmed r.              *)
Reached(t, k, i, c, r) ==
    \/ k[c] >= r
    \/ \E j \in 1 .. i - 1 : Carries(t[j]) /\ t[j].cell = c /\ t[j].rev >= r

(* What holds of the requests and frames of p, whatever their cell.        *)
Distinct(p) == \A q, o \in pending[p] : q.req = o.req => q = o

Based(p) == \A q \in pending[p] : q.base <= known[p][q.cell] /\ q.base <= q.expect

Asks(m, q) ==
    /\ q.req = m.req /\ q.cell = m.cell /\ q.expect = m.expect
    /\ q.kind = IF m.kind = "Edit" THEN "Edit" ELSE "Tool"

Awaits(p) == \A i \in 1 .. Len(toServer[p]) : \E q \in pending[p] : Asks(toServer[p][i], q)

Fits(m, q) == q.cell = m.cell /\ q.kind = IF m.kind = "EditAck" THEN "Edit" ELSE "Tool"

Fitting(p) ==
    \A i \in 1 .. Len(toClient[p]) : \A q \in pending[p] :
        Answers(toClient[p][i]) /\ q.req = toClient[p][i].req => Fits(toClient[p][i], q)

TrueContents(p) ==
    \A i \in 1 .. Len(toClient[p]) :
        Carries(toClient[p][i]) => toClient[p][i].block = ContentAt(toClient[p][i].cell, toClient[p][i].rev)

AcksReached(p) ==
    \A i \in 1 .. Len(toClient[p]) :
        toClient[p][i].kind = "EditAck" /\ toClient[p][i].accepted =>
            Reached(toClient[p], known[p], i, toClient[p][i].cell, toClient[p][i].rev)

Attends(p) == phase[p] # "idle" => toServer[p] # <<>>

Books(p) == Distinct(p) /\ Based(p) /\ Awaits(p) /\ Fitting(p) /\ TrueContents(p) /\ AcksReached(p) /\ Attends(p)

(* What holds of p's requests on c, unless one of them is hopeless.        *)
AnswersNewer(p, c) ==
    \A i \in 1 .. Len(toClient[p]) : \A q \in pending[p] :
        toClient[p][i].kind = "EditAck" /\ q.req = toClient[p][i].req /\ q.cell = c =>
            Reached(toClient[p], known[p], i, c, q.base + 1)

RejectedOlder(p, c) ==
    \A q \in pending[p] : q.kind = "Rejected" /\ q.cell = c => q.base < known[p][c]

Chained(p, c) ==
    \A i \in 1 .. Len(toServer[p]) : toServer[p][i].cell = c =>
        \/ toServer[p][i].expect <= Rev(c)
        \/ \E j \in 1 .. i - 1 : toServer[p][j].cell = c /\ toServer[p][j].expect + 1 = toServer[p][i].expect

DecidedAbove(p, c) ==
    \A q \in pending[p] : q.kind # "Rejected" /\ q.cell = c =>
        q.req \in ReqsIn(toServer[p]) \/ q.expect < Rev(c)

NotRefusing(p, c) == phase[p] = "refuse" => Head(toServer[p]).cell # c

ShowsOrPredicts(p, c) ==
    \/ view[p][c] = ContentAt(c, known[p][c])
    \/ \E q \in pending[p] : q.cell = c /\ q.kind = "Edit" /\ q.base = known[p][c]

Sane(p, c) ==
    /\ AnswersNewer(p, c) /\ RejectedOlder(p, c) /\ Chained(p, c)
    /\ DecidedAbove(p, c) /\ NotRefusing(p, c) /\ ShowsOrPredicts(p, c)

AllBooks == \A p \in Clients : Books(p)

AllTidy == \A p \in connected \ kicked, c \in Cells : Hopeless(p, c) \/ Sane(p, c)

LEMMA TidyIs ==
    ASSUME AllTidy
    PROVE  MirrorFaithful
BY DEF AllTidy, MirrorFaithful, OnCell, Hopeless, Sane, ShowsOrPredicts

-----------------------------------------------------------------------------
(* Streams that grow and streams that are heard.                           *)

Extends(t, u) == Len(t) <= Len(u) /\ \A i \in 1 .. Len(t) : u[i] = t[i]

LEMMA AppendExtends ==
    ASSUME NEW t \in Seq(Frame), NEW m \in Frame, NEW u, u = Append(t, m)
    PROVE  /\ u \in Seq(Frame) /\ Extends(t, u) /\ Len(u) = Len(t) + 1 /\ u[Len(t) + 1] = m /\ Len(t) \in Nat
BY Appended DEF Extends

LEMMA ReachedMore ==
    ASSUME NEW t \in Seq(Frame), NEW u \in Seq(Frame), Extends(t, u), NEW k, NEW i \in 1 .. Len(t), NEW c, NEW r,
           Reached(t, k, i, c, r)
    PROVE  Reached(u, k, i, c, r)
<1>1. \A j \in 1 .. i - 1 : j \in 1 .. Len(t) /\ u[j] = t[j]
  BY DEF Extends
<1> QED
  BY <1>1 DEF Reached

LEMMA ReachedTail ==
    ASSUME NEW s \in Seq(Frame), s # <<>>, NEW k, NEW l, NEW i \in 1 .. Len(Tail(s)), NEW c \in Cells, NEW r \in Nat,
           Reached(s, k, i + 1, c, r), k[c] \in Nat, l[c] \in Nat, k[c] <= l[c],
           Carries(Head(s)) /\ Head(s).cell = c => Head(s).rev <= l[c]
    PROVE  Reached(Tail(s), l, i, c, r)
<1>1. PICK t \in Seq(Frame) : t = Tail(s)
  BY TailIs
<1>2. /\ Len(s) \in Nat /\ Len(t) = Len(s) - 1 /\ Len(s) >= 1 /\ Head(s) = s[1] /\ Head(s) \in Frame
      /\ \A j \in 1 .. Len(t) : t[j] = s[j + 1]
  BY <1>1, TailIs
<1>3. CASE k[c] >= r
  BY <1>3 DEF Reached
<1>4. ASSUME NEW j \in 1 .. i, Carries(s[j]), s[j].cell = c, s[j].rev >= r
      PROVE  Reached(t, l, i, c, r)
  <2>1. CASE j = 1
    <3>1. Head(s).rev \in Nat
      BY <1>2, FrameFields
    <3> QED
      BY <1>2, <1>4, <2>1, <3>1 DEF Reached
  <2>2. CASE j # 1
    <3>1. j - 1 \in 1 .. i - 1 /\ j - 1 \in 1 .. Len(t) /\ (j - 1) + 1 = j
      BY <1>1, <1>2, <2>2
    <3>2. t[j - 1] = s[j]
      BY <1>2, <3>1
    <3> QED
      BY <1>4, <3>1, <3>2 DEF Reached
  <2> QED
    BY <2>1, <2>2
<1>5. (i + 1) - 1 = i
  OBVIOUS
<1> QED
  BY <1>1, <1>3, <1>4, <1>5 DEF Reached

LEMMA AnswersMore ==
    ASSUME NEW t \in Seq(Frame), NEW u \in Seq(Frame), Extends(t, u), NEW r,
           \A i \in Len(t) + 1 .. Len(u) : Answers(u[i]) => u[i].req = r
    PROVE  AnswersIn(u) \subseteq AnswersIn(t) \cup {r}
<1>1. Len(t) \in Nat /\ Len(u) \in Nat
  OBVIOUS
<1>2. \A i \in 1 .. Len(u) : (i \in 1 .. Len(t) /\ u[i] = t[i]) \/ i \in Len(t) + 1 .. Len(u)
  BY <1>1 DEF Extends
<1> QED
  BY <1>2 DEF AnswersIn

LEMMA AnswersTail ==
    ASSUME NEW s \in Seq(Frame), s # <<>>
    PROVE  /\ AnswersIn(Tail(s)) \subseteq AnswersIn(s)
           /\ Answers(Head(s)) => Head(s).req \in AnswersIn(s)
<1>1. PICK t : t = Tail(s)
  OBVIOUS
<1>2. /\ Len(s) \in Nat /\ Len(t) = Len(s) - 1 /\ Len(s) >= 1 /\ Head(s) = s[1]
      /\ \A j \in 1 .. Len(t) : t[j] = s[j + 1]
  BY <1>1, TailIs
<1>3. \A j \in 1 .. Len(t) : j + 1 \in 1 .. Len(s) /\ t[j] = s[j + 1]
  BY <1>2
<1>4. 1 \in 1 .. Len(s)
  BY <1>2
<1> QED
  BY <1>1, <1>2, <1>3, <1>4 DEF AnswersIn

LEMMA ReqsTail ==
    ASSUME NEW s \in Seq(Request), s # <<>>
    PROVE  /\ ReqsIn(s) = ReqsIn(Tail(s)) \cup {Head(s).req}
           /\ Head(s) = s[1] /\ 1 \in 1 .. Len(s) /\ Head(s) \in Request
           /\ Tail(s) \in Seq(Request) /\ Len(s) \in Nat /\ Len(Tail(s)) = Len(s) - 1
           /\ \A j \in 1 .. Len(Tail(s)) : j + 1 \in 1 .. Len(s) /\ Tail(s)[j] = s[j + 1]
<1>1. PICK t \in Seq(Request) : t = Tail(s)
  BY HeadTailProperties
<1>2. /\ Len(s) \in Nat /\ Len(t) = Len(s) - 1 /\ Len(s) >= 1
      /\ \A j \in 1 .. Len(t) : t[j] = s[j + 1]
  BY <1>1, HeadTailProperties, EmptySeq
<1>3. Head(s) = s[1]
  OBVIOUS
<1>4. \A j \in 1 .. Len(t) : j + 1 \in 1 .. Len(s) /\ t[j] = s[j + 1]
  BY <1>2
<1>5. \A j \in 1 .. Len(s) : j = 1 \/ (j - 1 \in 1 .. Len(t) /\ t[j - 1] = s[j])
  BY <1>2
<1>6. 1 \in 1 .. Len(s)
  BY <1>2
<1>7. Head(s) \in Request
  BY <1>3, <1>6, ElementOfSeq
<1>8. ReqsIn(s) \subseteq ReqsIn(t) \cup {Head(s).req}
  BY <1>3, <1>5 DEF ReqsIn
<1>9. ReqsIn(t) \cup {Head(s).req} \subseteq ReqsIn(s)
  BY <1>3, <1>4, <1>6 DEF ReqsIn
<1> QED
  BY <1>1, <1>2, <1>3, <1>4, <1>6, <1>7, <1>8, <1>9

-----------------------------------------------------------------------------
(* A server step and one client's requests.                                *)

LEMMA ContentStays ==
    ASSUME LedgerTypeOK, LogStep, NEW c \in Cells, NEW r \in Nat, r <= Rev(c)
    PROVE  ContentAt(c, r)' = ContentAt(c, r)
<1>1. log[c] \in Seq(Entry)
  BY DEF LedgerTypeOK
<1>2. CASE log'[c] = log[c]
  BY <1>2 DEF ContentAt
<1>3. CASE Extended(c) /\ r # 0
  <2>1. PICK e \in Entry : log'[c] = Append(log[c], e)
    BY <1>3 DEF Extended
  <2>2. r \in 1 .. Len(log[c])
    BY <1>1, <1>3 DEF Rev
  <2>3. log'[c][r] = log[c][r]
    BY <1>1, <2>1, <2>2
  <2> QED
    BY <1>3, <2>3 DEF ContentAt
<1>4. CASE r = 0
  BY <1>4 DEF ContentAt
<1> QED
  BY <1>2, <1>3, <1>4 DEF LogStep

LEMMA ServerBooks ==
    ASSUME IInv, NEW q \in Clients, Books(q), LogStep, UNCHANGED sessionVars,
           NEW t \in Seq(Frame), t = toClient[q], NEW u \in Seq(Frame), u = toClient'[q], Extends(t, u),
           \A i \in Len(t) + 1 .. Len(u) :
                /\ Carries(u[i]) => u[i].block = ContentAt(u[i].cell, u[i].rev)'
                /\ u[i].kind = "EditAck" /\ u[i].accepted => Reached(u, known[q], i, u[i].cell, u[i].rev)
                /\ Answers(u[i]) => \A o \in pending[q] : o.req = u[i].req => Fits(u[i], o),
           toServer'[q] = toServer[q] \/ (toServer[q] # <<>> /\ toServer'[q] = Tail(toServer[q])),
           phase'[q] # "idle" => toServer'[q] # <<>>
    PROVE  Books(q)'
<1>1. pending' = pending /\ known' = known
  BY DEF sessionVars
<1>2. \A i \in 1 .. Len(u) : (i \in 1 .. Len(t) /\ u[i] = t[i]) \/ i \in Len(t) + 1 .. Len(u)
  BY DEF Extends
<1>3. Distinct(q)' /\ Based(q)'
  BY <1>1 DEF Books, Distinct, Based
<1>4. Awaits(q)'
  <2>1. toServer[q] \in Seq(Request)
    BY DEF IInv, TypeOK, WireTypeOK
  <2>2. CASE toServer'[q] = toServer[q]
    BY <1>1, <2>2 DEF Books, Awaits
  <2>3. CASE toServer[q] # <<>> /\ toServer'[q] = Tail(toServer[q])
    <3>1. \A j \in 1 .. Len(toServer'[q]) : j + 1 \in 1 .. Len(toServer[q]) /\ toServer'[q][j] = toServer[q][j + 1]
      BY <2>1, <2>3, ReqsTail
    <3> QED
      BY <1>1, <3>1 DEF Books, Awaits
  <2> QED
    BY <2>2, <2>3
<1>5. Fitting(q)'
  BY <1>1, <1>2 DEF Books, Fitting
<1>6. TrueContents(q)'
  <2>1. ASSUME NEW i \in 1 .. Len(t), Carries(t[i])
        PROVE  t[i].block = ContentAt(t[i].cell, t[i].rev)'
    <3>1. t[i] \in Frame
      BY ElementOfSeq
    <3>2. t[i].cell \in Cells /\ t[i].rev \in Nat
      BY <3>1, FrameFields
    <3>3. t[i].rev <= Rev(t[i].cell)
      BY DEF IInv, FramesBehind
    <3>4. ContentAt(t[i].cell, t[i].rev)' = ContentAt(t[i].cell, t[i].rev)
      BY <3>2, <3>3, ContentStays DEF IInv, TypeOK
    <3> QED
      BY <2>1, <3>4 DEF Books, TrueContents
  <2> QED
    BY <1>2, <2>1 DEF TrueContents
<1>7. AcksReached(q)'
  <2>1. ASSUME NEW i \in 1 .. Len(t), t[i].kind = "EditAck", t[i].accepted
        PROVE  Reached(u, known[q], i, t[i].cell, t[i].rev)
    <3>1. Reached(t, known[q], i, t[i].cell, t[i].rev)
      BY <2>1 DEF Books, AcksReached
    <3> QED
      BY <3>1, ReachedMore
  <2> QED
    BY <1>1, <1>2, <2>1 DEF AcksReached
<1>8. Attends(q)'
  BY DEF Attends
<1> QED
  BY <1>3, <1>4, <1>5, <1>6, <1>7, <1>8 DEF Books

(* A server step that is not about q's requests. *)
LEMMA QuietTidy ==
    ASSUME IInv, NEW q \in Clients, LogStep, UNCHANGED sessionVars,
           NEW t \in Seq(Frame), t = toClient[q], NEW u \in Seq(Frame), u = toClient'[q], Extends(t, u),
           \A i \in Len(t) + 1 .. Len(u) : ~Answers(u[i]),
           toServer'[q] = toServer[q],
           NEW c \in Cells, Hopeless(q, c) \/ Sane(q, c), Sane(q, c) => NotRefusing(q, c)'
    PROVE  Hopeless(q, c)' \/ Sane(q, c)'
<1>1. pending' = pending /\ known' = known /\ view' = view
  BY DEF sessionVars
<1>2. \A i \in 1 .. Len(u) : (i \in 1 .. Len(t) /\ u[i] = t[i]) \/ i \in Len(t) + 1 .. Len(u)
  BY DEF Extends
<1>3. AnswersIn(u) \subseteq AnswersIn(t)
  BY <1>2 DEF AnswersIn
<1>4. Hopeless(q, c) => Hopeless(q, c)'
  BY <1>1, <1>3 DEF Hopeless
<1>5. Rev(c) \in Nat /\ Rev(c)' \in Nat /\ Rev(c) <= Rev(c)'
  BY LogStepGrows DEF IInv, TypeOK
<1>6. ASSUME Sane(q, c)
      PROVE  Sane(q, c)'
  <2>1. AnswersNewer(q, c)'
    <3>1. ASSUME NEW i \in 1 .. Len(t), NEW o \in pending[q], t[i].kind = "EditAck", o.req = t[i].req, o.cell = c
          PROVE  Reached(u, known[q], i, c, o.base + 1)
      <4>1. Reached(t, known[q], i, c, o.base + 1)
        BY <1>6, <3>1 DEF Sane, AnswersNewer
      <4> QED
        BY <4>1, ReachedMore
    <3> QED
      BY <1>1, <1>2, <3>1 DEF AnswersNewer, Answers
  <2>2. RejectedOlder(q, c)'
    BY <1>1, <1>6 DEF Sane, RejectedOlder
  <2>3. Chained(q, c)'
    <3> SUFFICES ASSUME NEW i \in 1 .. Len(toServer[q]), toServer[q][i].cell = c
                 PROVE  \/ toServer[q][i].expect <= Rev(c)'
                        \/ \E j \in 1 .. i - 1 :
                              toServer[q][j].cell = c /\ toServer[q][j].expect + 1 = toServer[q][i].expect
      BY DEF Chained
    <3>1. toServer[q][i] \in Request
      BY ElementOfSeq DEF IInv, TypeOK, WireTypeOK
    <3>2. toServer[q][i].expect \in Nat
      BY <3>1 DEF Request
    <3>3. \/ toServer[q][i].expect <= Rev(c)
          \/ \E j \in 1 .. i - 1 :
                toServer[q][j].cell = c /\ toServer[q][j].expect + 1 = toServer[q][i].expect
      BY <1>6 DEF Sane, Chained
    <3> QED
      BY <1>5, <3>2, <3>3
  <2>4. DecidedAbove(q, c)'
    <3>1. \A o \in pending[q] : o.expect \in Nat
      BY DEF IInv, TypeOK, SessionTypeOK, PendingReq
    <3>2. \A o \in pending[q] : o.expect < Rev(c) => o.expect < Rev(c)'
      BY <1>5, <3>1
    <3> QED
      BY <1>1, <1>6, <3>2 DEF Sane, DecidedAbove
  <2>5. ShowsOrPredicts(q, c)'
    <3>1. known[q][c] \in Nat /\ known[q][c] <= Rev(c)
      BY DEF IInv, TypeOK, SessionTypeOK, KnownBehind
    <3>3. \A r \in Nat : r <= Rev(c) => ContentAt(c, r)' = ContentAt(c, r)
      BY ContentStays DEF IInv, TypeOK
    <3>4. PICK r \in Nat : r = known[q][c]
      BY <3>1
    <3>5. ContentAt(c, r)' = ContentAt(c, r)
      BY <3>1, <3>3, <3>4
    <3>6. view[q][c] = ContentAt(c, r) \/ \E o \in pending[q] : o.cell = c /\ o.kind = "Edit" /\ o.base = r
      BY <1>6, <3>4 DEF Sane, ShowsOrPredicts
    <3>7. known'[q][c] = r
      BY <1>1, <3>4
    <3> QED
      BY <1>1, <3>5, <3>6, <3>7 DEF ShowsOrPredicts, ContentAt
  <2> QED
    BY <1>6, <2>1, <2>2, <2>3, <2>4, <2>5 DEF Sane
<1> QED
  BY <1>4, <1>6

(* What a handler appended to t answers h, and no verdict among it comes   *)
(* before newer content than h was asked on.                               *)
RepliesTo(t, u, h) == \A i \in Len(t) + 1 .. Len(u) : Answers(u[i]) => u[i].req = h.req

VerdictsOvertaken(t, u, h, k, c) ==
    \A i \in Len(t) + 1 .. Len(u) : \A r \in Nat :
        u[i].kind = "EditAck" /\ r <= h.expect => Reached(u, k, i, c, r + 1)

(* The end of p's request h: on its cell the ledger is above what h        *)
(* expected, or nobody answers it.                                         *)
LEMMA ConcludeTidy ==
    ASSUME IInv, NEW p \in Clients, Books(p), Concludes(p), LogStep,
           NEW h \in Request, h = Head(toServer[p]),
           NEW t \in Seq(Frame), t = toClient[p], NEW u \in Seq(Frame), u = toClient'[p], Extends(t, u),
           RepliesTo(t, u, h),
           h.req \notin AnswersIn(t) \cup ReqsIn(Tail(toServer[p])),
           NEW c \in Cells, Hopeless(p, c) \/ Sane(p, c),
           Sane(p, c) /\ h.cell = c /\ h.req \in AnswersIn(u) =>
                h.expect < Rev(c)' /\ VerdictsOvertaken(t, u, h, known[p], c)
    PROVE  Hopeless(p, c)' \/ Sane(p, c)'
<1> \A i \in Len(t) + 1 .. Len(u) : Answers(u[i]) => u[i].req = h.req
  BY DEF RepliesTo
<1> Sane(p, c) /\ h.cell = c /\ h.req \in AnswersIn(u) =>
        /\ h.expect < Rev(c)'
        /\ \A i \in Len(t) + 1 .. Len(u) : \A r \in Nat :
                u[i].kind = "EditAck" /\ r <= h.expect => Reached(u, known[p], i, c, r + 1)
  BY DEF VerdictsOvertaken
<1>1. /\ pending' = pending /\ known' = known /\ view' = view
      /\ toServer'[p] = Tail(toServer[p]) /\ toServer[p] # <<>> /\ phase'[p] = "idle"
      /\ toServer[p] \in Seq(Request) /\ pending[p] \subseteq PendingReq
  BY DEF Concludes, sessionVars, Done, IInv, TypeOK, WireTypeOK, LedgerTypeOK, SessionTypeOK
<1>2. \A i \in 1 .. Len(u) : (i \in 1 .. Len(t) /\ u[i] = t[i]) \/ i \in Len(t) + 1 .. Len(u)
  BY DEF Extends
<1>3. PICK s \in Seq(Request) : s = toServer[p]
  BY <1>1
<1>4. PICK v \in Seq(Request) : v = Tail(s)
  BY <1>1, <1>3, ReqsTail
<1>5. /\ ReqsIn(s) = ReqsIn(v) \cup {h.req} /\ h = s[1] /\ 1 \in 1 .. Len(s) /\ Len(s) \in Nat /\ Len(v) = Len(s) - 1
      /\ \A j \in 1 .. Len(v) : j + 1 \in 1 .. Len(s) /\ v[j] = s[j + 1]
  BY <1>1, <1>3, <1>4, ReqsTail
<1>6. PICK o \in pending[p] : Asks(h, o)
  BY <1>3, <1>5 DEF Books, Awaits
<1>7. \A q \in pending[p] : q.req = h.req => q = o
  BY <1>6 DEF Asks, Books, Distinct
<1>8. AnswersIn(u) \subseteq AnswersIn(t) \cup {h.req}
  BY AnswersMore
<1>9. h.cell \in Cells /\ h.expect \in Nat /\ o.cell = h.cell /\ o.expect = h.expect /\ o.req = h.req
      /\ o.kind # "Rejected" /\ o.base \in Nat /\ o.base <= o.expect
  BY <1>1, <1>6 DEF Request, PendingReq, Asks, Books, Based
<1>10. Hopeless(p, c) => Hopeless(p, c)'
  BY <1>1, <1>3, <1>4, <1>5, <1>8 DEF Hopeless
<1>11. Rev(c) \in Nat /\ Rev(c)' \in Nat /\ Rev(c) <= Rev(c)'
  BY LogStepGrows DEF IInv, TypeOK
<1>12. \A j \in 1 .. Len(s) : s[j].expect \in Nat
  <2>1. \A j \in 1 .. Len(s) : s[j] \in Request
    BY <1>3, ElementOfSeq
  <2> QED
    BY <2>1 DEF Request
<1>13. CASE Sane(p, c) /\ h.cell = c /\ h.req \notin ReqsIn(v) /\ h.req \notin AnswersIn(u)
  BY <1>1, <1>3, <1>4, <1>9, <1>13 DEF Hopeless
<1>14. h.req \notin ReqsIn(v)
  BY <1>3, <1>4
<1>15. ASSUME Sane(p, c), h.cell = c => h.req \in AnswersIn(u)
       PROVE  Sane(p, c)'
  <2>1. AnswersNewer(p, c)'
    <3> SUFFICES ASSUME NEW i \in 1 .. Len(u), NEW q \in pending[p],
                        u[i].kind = "EditAck", q.req = u[i].req, q.cell = c
                 PROVE  Reached(u, known[p], i, c, q.base + 1)
      BY <1>1 DEF AnswersNewer
    <3>1. CASE i \in 1 .. Len(t) /\ u[i] = t[i]
      <4>1. Reached(t, known[p], i, c, q.base + 1)
        BY <1>15, <3>1 DEF Sane, AnswersNewer
      <4> QED
        BY <3>1, <4>1, ReachedMore
    <3>2. CASE i \in Len(t) + 1 .. Len(u)
      <4>1. q = o
        BY <1>7, <3>2 DEF Answers
      <4> QED
        BY <1>9, <1>15, <3>2, <4>1
    <3> QED
      BY <1>2, <3>1, <3>2
  <2>2. RejectedOlder(p, c)'
    BY <1>1, <1>15 DEF Sane, RejectedOlder
  <2>0. toServer'[p] = v
    BY <1>1, <1>3, <1>4
  <2>3. Chained(p, c)'
    <3> SUFFICES ASSUME NEW i \in 1 .. Len(v), v[i].cell = c
                 PROVE  \/ v[i].expect <= Rev(c)'
                        \/ \E j \in 1 .. i - 1 : v[j].cell = c /\ v[j].expect + 1 = v[i].expect
      BY ZenonT(60), <2>0 DEF Chained
    <3>1. i + 1 \in 1 .. Len(s) /\ v[i] = s[i + 1] /\ (i + 1) - 1 = i
      BY <1>5
    <3>2. \/ s[i + 1].expect <= Rev(c)
          \/ \E j \in 1 .. (i + 1) - 1 : s[j].cell = c /\ s[j].expect + 1 = s[i + 1].expect
      BY <1>3, <1>15, <3>1 DEF Sane, Chained
    <3>3. ASSUME NEW j \in 1 .. i, s[j].cell = c, s[j].expect + 1 = s[i + 1].expect
          PROVE  \/ v[i].expect <= Rev(c)'
                 \/ \E k \in 1 .. i - 1 : v[k].cell = c /\ v[k].expect + 1 = v[i].expect
      <4>1. CASE j = 1
        BY <1>5, <1>9, <1>11, <1>15, <3>1, <3>3, <4>1
      <4>2. CASE j # 1
        <5>1. j - 1 \in 1 .. i - 1 /\ j - 1 \in 1 .. Len(v) /\ (j - 1) + 1 = j
          BY <1>5, <4>2
        <5>2. v[j - 1] = s[j]
          BY <1>5, <5>1
        <5> QED
          BY <3>1, <3>3, <5>1, <5>2
      <4> QED
        BY <4>1, <4>2
    <3>4. CASE s[i + 1].expect <= Rev(c)
      BY <1>11, <1>12, <3>1, <3>4
    <3> QED
      BY <3>1, <3>2, <3>3, <3>4
  <2>4. DecidedAbove(p, c)'
    <3> SUFFICES ASSUME NEW q \in pending[p], q.kind # "Rejected", q.cell = c
                 PROVE  q.req \in ReqsIn(v) \/ q.expect < Rev(c)'
      BY <1>1, <1>3, <1>4 DEF DecidedAbove
    <3>1. q.req \in ReqsIn(s) \/ q.expect < Rev(c)
      BY <1>3, <1>15 DEF Sane, DecidedAbove
    <3>2. q.expect \in Nat
      BY <1>1 DEF PendingReq
    <3>3. CASE q.req = h.req
      BY <1>7, <1>9, <1>15, <3>3
    <3> QED
      BY <1>5, <1>11, <3>1, <3>2, <3>3
  <2>5. NotRefusing(p, c)'
    BY <1>1 DEF NotRefusing
  <2>6. ShowsOrPredicts(p, c)'
    <3>1. PICK r \in Nat : r = known[p][c] /\ r <= Rev(c)
      BY DEF IInv, TypeOK, SessionTypeOK, KnownBehind
    <3>2. ContentAt(c, r)' = ContentAt(c, r)
      BY <3>1, ContentStays DEF IInv, TypeOK
    <3>3. view[p][c] = ContentAt(c, r) \/ \E q \in pending[p] : q.cell = c /\ q.kind = "Edit" /\ q.base = r
      BY <1>15, <3>1 DEF Sane, ShowsOrPredicts
    <3>4. known'[p][c] = r
      BY <1>1, <3>1
    <3> QED
      BY <1>1, <3>2, <3>3, <3>4 DEF ShowsOrPredicts, ContentAt
  <2> QED
    BY <1>15, <2>1, <2>2, <2>3, <2>4, <2>5, <2>6 DEF Sane
<1> QED
  BY <1>10, <1>13, <1>14, <1>15

(* Numbers are used once.                                                  *)
LEMMA HeadIsFresh ==
    ASSUME TypeOK, InSequence, NEW p \in Clients, toServer[p] # <<>>
    PROVE  Head(toServer[p]).req \notin AnswersIn(toClient[p]) \cup ReqsIn(Tail(toServer[p]))
<1>1. PICK g \in Nat : Counted(p, g)
  BY DEF InSequence
<1>2. PICK s \in Seq(Request) : s = toServer[p]
  BY DEF TypeOK, WireTypeOK
<1>3. PICK v \in Seq(Request) : v = Tail(s)
  BY <1>2, ReqsTail
<1>4. PICK n \in Nat : n = nextReq[p]
  BY DEF TypeOK, SessionTypeOK
<1>5. Head(s).req \in g + 1 .. n /\ Waiting(v, Head(s).req, n)
  BY <1>1, <1>2, <1>3, <1>4, WaitingTail DEF Counted
<1>6. \A i \in 1 .. Len(v) : v[i].req # Head(s).req
  BY <1>5 DEF Waiting
<1>7. \A i \in 1 .. Len(toClient[p]) : Answers(toClient[p][i]) => toClient[p][i].req # Head(s).req
  BY <1>1, <1>5 DEF Counted, Answered
<1> QED
  BY <1>2, <1>3, <1>6, <1>7 DEF AnswersIn, ReqsIn

LEMMA AnswerIsFresh ==
    ASSUME TypeOK, InSequence, NEW p \in Clients, toClient[p] # <<>>, Answers(Head(toClient[p]))
    PROVE  Head(toClient[p]).req \notin AnswersIn(Tail(toClient[p])) \cup ReqsIn(toServer[p])
<1>1. PICK g \in Nat : Counted(p, g)
  BY DEF InSequence
<1>2. PICK s \in Seq(Frame) : s = toClient[p]
  BY DEF TypeOK, WireTypeOK
<1>3. PICK v \in Seq(Frame) : v = Tail(s)
  BY <1>2, TailIs
<1>4. Head(s).req \in 1 .. g /\ \A i \in 1 .. Len(v) : Answers(v[i]) => Head(s).req < v[i].req
  BY <1>1, <1>2, <1>3, AnsweredTail DEF Counted
<1>5. nextReq[p] \in Nat
  BY DEF TypeOK, SessionTypeOK
<1>6. \A i \in 1 .. Len(toServer[p]) : toServer[p][i].req # Head(s).req
  BY <1>1, <1>4, <1>5 DEF Counted, Waiting
<1>7. \A i \in 1 .. Len(v) : Answers(v[i]) => v[i].req # Head(s).req
  BY <1>4
<1> QED
  BY <1>2, <1>3, <1>6, <1>7 DEF AnswersIn, ReqsIn

LEMMA NextIsFresh ==
    ASSUME TypeOK, InSequence, NEW p \in Clients
    PROVE  /\ nextReq[p] + 1 \notin AnswersIn(toClient[p]) \cup ReqsIn(toServer[p])
           /\ \A q \in pending[p] : q.req # nextReq[p] + 1
<1>1. PICK g \in Nat : Counted(p, g)
  BY DEF InSequence
<1>2. PICK n \in Nat : n = nextReq[p]
  BY DEF TypeOK, SessionTypeOK
<1>3. \A i \in 1 .. Len(toServer[p]) : toServer[p][i].req # n + 1
  BY <1>1, <1>2 DEF Counted, Waiting
<1>4. \A i \in 1 .. Len(toClient[p]) : Answers(toClient[p][i]) => toClient[p][i].req # n + 1
  BY <1>1, <1>2 DEF Counted, Answered
<1>5. \A q \in pending[p] : q.req # n + 1
  BY <1>1, <1>2 DEF Counted
<1> QED
  BY <1>2, <1>3, <1>4, <1>5 DEF AnswersIn, ReqsIn

(* A stale request at the head expected less than there is.                *)
LEMMA StaleIsBelow ==
    ASSUME TypeOK, NEW p \in Clients, toServer[p] # <<>>, ~Current(p), Sane(p, Head(toServer[p]).cell)
    PROVE  Head(toServer[p]).expect < Rev(Head(toServer[p]).cell)
<1>1. PICK h \in Request : h = Head(toServer[p]) /\ h = toServer[p][1] /\ 1 \in 1 .. Len(toServer[p])
  BY ReqsTail DEF TypeOK, WireTypeOK
<1>2. h.cell \in Cells /\ h.expect \in Nat
  BY DEF Request
<1>3. Rev(h.cell) \in Nat
  BY <1>2, LedgerRead DEF TypeOK
<1>4. h.expect # Rev(h.cell)
  BY <1>1 DEF Current
<1>5. \/ h.expect <= Rev(h.cell)
      \/ \E j \in 1 .. 1 - 1 : toServer[p][j].cell = h.cell /\ toServer[p][j].expect + 1 = h.expect
  BY <1>1 DEF Sane, Chained
<1>6. 1 .. 1 - 1 = {}
  OBVIOUS
<1>7. h.expect < Rev(h.cell)
  BY <1>2, <1>3, <1>4, <1>5, <1>6
<1> QED
  BY <1>1, <1>7

(* A step about which q's requests say nothing.                            *)
LEMMA OtherMirror ==
    ASSUME IInv, NEW q \in Clients, Books(q), LogStep, UNCHANGED sessionVars,
           toServer'[q] = toServer[q], phase'[q] = phase[q],
           \/ toClient'[q] = toClient[q]
           \/ \E m \in Frame :
                /\ Pushes(q, m) /\ ~Answers(m)
                /\ Carries(m) => m.block = ContentAt(m.cell, m.rev)'
    PROVE  Books(q)' /\ \A c \in Cells : Hopeless(q, c) \/ Sane(q, c) => Hopeless(q, c)' \/ Sane(q, c)'
<1>1. PICK t \in Seq(Frame), u \in Seq(Frame) :
        /\ t = toClient[q] /\ u = toClient'[q] /\ Extends(t, u)
        /\ \A i \in Len(t) + 1 .. Len(u) :
                ~Answers(u[i]) /\ (Carries(u[i]) => u[i].block = ContentAt(u[i].cell, u[i].rev)')
  <2>1. PICK t \in Seq(Frame) : t = toClient[q]
    BY DEF IInv, TypeOK, WireTypeOK
  <2>2. CASE toClient'[q] = t
    <3>1. Extends(t, t) /\ \A i : i \notin Len(t) + 1 .. Len(t)
      BY DEF Extends
    <3> QED
      BY <2>1, <2>2, <3>1
  <2>3. CASE toClient'[q] # t
    <3>1. PICK m \in Frame : Pushes(q, m) /\ ~Answers(m) /\ (Carries(m) => m.block = ContentAt(m.cell, m.rev)')
      BY <2>1, <2>3
    <3>2. PICK u \in Seq(Frame) : u = Append(t, m)
      BY Appended
    <3>3. Extends(t, u) /\ Len(u) = Len(t) + 1 /\ u[Len(t) + 1] = m /\ Len(t) \in Nat
      BY <3>2, AppendExtends
    <3>4. \A i \in Len(t) + 1 .. Len(u) : u[i] = m
      BY <3>3
    <3>5. t = toClient[q] /\ u = toClient'[q]
      BY <2>1, <3>1, <3>2 DEF Pushes
    <3> QED
      BY <3>1, <3>3, <3>4, <3>5
  <2> QED
    BY <2>2, <2>3
<1>2. \A i \in Len(t) + 1 .. Len(u) :
        /\ Carries(u[i]) => u[i].block = ContentAt(u[i].cell, u[i].rev)'
        /\ u[i].kind = "EditAck" /\ u[i].accepted => Reached(u, known[q], i, u[i].cell, u[i].rev)
        /\ Answers(u[i]) => \A o \in pending[q] : o.req = u[i].req => Fits(u[i], o)
  BY <1>1 DEF Answers
<1>3. phase'[q] # "idle" => toServer'[q] # <<>>
  BY DEF Books, Attends
<1>4. Books(q)'
  BY <1>1, <1>2, <1>3, ServerBooks
<1>5. ASSUME NEW c \in Cells, Hopeless(q, c) \/ Sane(q, c)
      PROVE  Hopeless(q, c)' \/ Sane(q, c)'
  <2>1. Sane(q, c) => NotRefusing(q, c)'
    BY DEF Sane, NotRefusing
  <2> QED
    BY <1>1, <1>5, <2>1, QuietTidy
<1> QED
  BY <1>4, <1>5

LEMMA RefusalMirror ==
    ASSUME IInv, HeldBack, InSequence, AllInformed, AllBooks, AllTidy,
           NEW p \in Clients, Concludes(p), log' = log, kicked \subseteq kicked',
           NEW h \in Request, h = Head(toServer[p]), NEW a \in Frame, Answers(a), ~Granted(a),
           a.req = h.req, a.cell = h.cell, a.kind = IF h.kind = "Edit" THEN "EditAck" ELSE "ToolResult",
           \A q \in Clients \ {p} : toClient'[q] = toClient[q],
           toClient'[p] = toClient[p] \/ Pushes(p, a),
           p \in connected \ kicked /\ Sane(p, h.cell) => h.expect < Rev(h.cell)
    PROVE  AllBooks' /\ AllTidy'
<1>1. /\ UNCHANGED sessionVars /\ connected' = connected /\ connected \subseteq Clients /\ touched = {}
      /\ toServer[p] # <<>> /\ toServer'[p] = Tail(toServer[p]) /\ phase'[p] = "idle"
      /\ \A q \in Clients \ {p} : toServer'[q] = toServer[q] /\ phase'[q] = phase[q]
  BY DEF Concludes, Done, HeldBack, IInv, TypeOK, WireTypeOK, LedgerTypeOK
<1>2. LogStep
  BY NoCommit DEF IInv, TypeOK
<1>3. ~Carries(a) /\ (a.kind = "EditAck" => ~a.accepted)
  BY DEF Carries, Granted, Answers
<1>4. ASSUME NEW q \in Clients \ {p}
      PROVE  Books(q)' /\ \A c \in Cells : Hopeless(q, c) \/ Sane(q, c) => Hopeless(q, c)' \/ Sane(q, c)'
  BY <1>1, <1>2, <1>4, OtherMirror DEF AllBooks
<1>5. PICK t \in Seq(Frame), u \in Seq(Frame) :
        /\ t = toClient[p] /\ u = toClient'[p] /\ Extends(t, u)
        /\ \A i \in Len(t) + 1 .. Len(u) : i = Len(t) + 1 /\ u[i] = a
  <2>1. PICK t \in Seq(Frame) : t = toClient[p]
    BY DEF IInv, TypeOK, WireTypeOK
  <2>2. CASE toClient'[p] = t
    <3>1. Extends(t, t) /\ \A i : i \notin Len(t) + 1 .. Len(t)
      BY DEF Extends
    <3> QED
      BY <2>1, <2>2, <3>1
  <2>3. CASE toClient'[p] = Append(t, a)
    <3>1. PICK u \in Seq(Frame) : u = Append(t, a)
      BY Appended
    <3>2. Extends(t, u) /\ Len(u) = Len(t) + 1 /\ u[Len(t) + 1] = a /\ Len(t) \in Nat
      BY ZenonT(60), <3>1, AppendExtends
    <3>3. \A i \in Len(t) + 1 .. Len(u) : i = Len(t) + 1 /\ u[i] = a
      BY <3>2
    <3>4. t = toClient[p] /\ u = toClient'[p]
      BY <2>1, <2>3, <3>1
    <3> QED
      BY <3>2, <3>3, <3>4
  <2> QED
    BY <2>1, <2>2, <2>3 DEF Pushes
<1>6. PICK o \in pending[p] : Asks(h, o)
  <2>1. h = toServer[p][1] /\ 1 \in 1 .. Len(toServer[p])
    BY <1>1, ReqsTail DEF IInv, TypeOK, WireTypeOK
  <2> QED
    BY <2>1 DEF AllBooks, Books, Awaits
<1>7. \A q \in pending[p] : q.req = a.req => Fits(a, q)
  <2>1. \A q \in pending[p] : q.req = a.req => q = o
    BY <1>6 DEF Asks, AllBooks, Books, Distinct
  <2>2. Fits(a, o)
    BY <1>6 DEF Asks, Fits
  <2> QED
    BY <2>1, <2>2
<1>8. Books(p)'
  BY <1>1, <1>2, <1>3, <1>5, <1>7, ServerBooks DEF AllBooks
<1>9. ASSUME NEW c \in Cells, p \in connected \ kicked
      PROVE  Hopeless(p, c)' \/ Sane(p, c)'
  <2>1. Hopeless(p, c) \/ Sane(p, c)
    BY <1>9 DEF AllTidy
  <2>2. h.req \notin AnswersIn(t) \cup ReqsIn(Tail(toServer[p]))
    BY <1>1, <1>5, HeadIsFresh DEF IInv
  <2>3. Rev(c)' = Rev(c) /\ Rev(c) \in Nat /\ h.expect \in Nat
    BY LedgerRead DEF Rev, IInv, TypeOK, Request
  <2>4. ASSUME Sane(p, c), h.cell = c, NEW r \in Nat, r <= h.expect
        PROVE  Reached(u, known[p], Len(t) + 1, c, r + 1)
    <3>1. h.expect < Rev(c)
      BY <1>9, <2>4
    <3>2. known[p][c] = Rev(c) \/ Informs(t, c, Rev(c))
      BY <1>1, <1>5, <1>9 DEF AllInformed, Informed
    <3>3. CASE known[p][c] = Rev(c)
      BY <2>3, <2>4, <3>1, <3>3 DEF Reached
    <3>4. CASE Informs(t, c, Rev(c))
      <4>1. PICK j \in 1 .. Len(t) : Carries(t[j]) /\ t[j].cell = c /\ t[j].rev = Rev(c)
        BY <3>4 DEF Informs
      <4>2. u[j] = t[j] /\ j \in 1 .. (Len(t) + 1) - 1
        BY <1>5, <4>1 DEF Extends
      <4> QED
        BY <2>3, <2>4, <3>1, <4>1, <4>2 DEF Reached
    <3> QED
      BY <3>2, <3>3, <3>4
  <2>5. Sane(p, c) /\ h.cell = c => h.expect < Rev(c)'
    BY <1>9, <2>3
  <2>6. Sane(p, c) /\ h.cell = c => VerdictsOvertaken(t, u, h, known[p], c)
    <3> SUFFICES ASSUME Sane(p, c), h.cell = c,
                        NEW i \in Len(t) + 1 .. Len(u), NEW r \in Nat, r <= h.expect
                 PROVE  Reached(u, known[p], i, c, r + 1)
      BY DEF VerdictsOvertaken
    <3>1. i = Len(t) + 1
      BY <1>5
    <3> QED
      BY <2>4, <3>1
  <2>7. RepliesTo(t, u, h)
    BY <1>5 DEF RepliesTo
  <2>8. t = toClient[p] /\ u = toClient'[p] /\ Extends(t, u)
    BY <1>5
  <2>9. Books(p)
    BY DEF AllBooks
  <2> QED
    BY SMTT(60), <1>2, <2>1, <2>2, <2>5, <2>6, <2>7, <2>8, <2>9, ConcludeTidy
<1> QED
  BY <1>1, <1>4, <1>8, <1>9 DEF AllBooks, AllTidy

LEMMA ContentIs ==
    ASSUME LedgerTypeOK, NEW p \in Clients, NEW h \in Request, NEW b \in Blocks, Write(p, h, b),
           NEW x \in Cells, x = h.cell, NEW n \in Nat, n = Rev(x)
    PROVE  Rev(x)' = n + 1 /\ ContentAt(x, n + 1)' = b
<1>1. PICK e \in Entry : e.block = b /\ log'[x] = Append(log[x], e)
  BY WriteIs
<1>2. PICK s \in Seq(Entry) : s = log[x]
  BY DEF LedgerTypeOK
<1>3. Len(Append(s, e)) = Len(s) + 1 /\ Append(s, e)[Len(s) + 1] = e /\ Len(s) \in Nat
  OBVIOUS
<1> QED
  BY <1>1, <1>2, <1>3 DEF Rev, ContentAt

LEMMA CommitMirror ==
    ASSUME IInv, InSequence, AllBooks, AllTidy,
           NEW p \in Clients, Concludes(p), Current(p), NEW h \in Request, h = Head(toServer[p]),
           NEW b \in Blocks, Write(p, h, b), NEW full, kicked' = kicked \cup full,
           NEW mine \in Frame, NEW also \in Frame, NEW theirs \in Frame,
           Published(p, mine, also, theirs, full),
           Carries(mine), mine.cell = h.cell, mine.rev = Rev(h.cell) + 1, mine.block = b,
           Answers(mine) => mine.kind = "ToolResult" /\ h.kind = "ToolUse" /\ mine.req = h.req,
           also # mine =>
                /\ also.kind = "EditAck" /\ h.kind = "Edit" /\ also.req = h.req
                /\ also.cell = h.cell /\ also.rev = Rev(h.cell) + 1,
           ~Answers(theirs), theirs.cell = h.cell, theirs.rev = Rev(h.cell) + 1, theirs.block = b
    PROVE  AllBooks' /\ AllTidy'
<1>1. /\ UNCHANGED sessionVars /\ connected' = connected /\ connected \subseteq Clients
      /\ toServer[p] # <<>> /\ toServer'[p] = Tail(toServer[p]) /\ phase'[p] = "idle"
      /\ \A q \in Clients \ {p} : toServer'[q] = toServer[q] /\ phase'[q] = phase[q]
  BY DEF Concludes, Done, IInv, TypeOK, WireTypeOK, LedgerTypeOK
<1>2. LogStep
  <2>1. Write(p, Head(toServer[p]), b)
    BY DEF Write
  <2> QED
    BY <1>1, <2>1, WriteStep DEF IInv
<1>3. PICK x \in Cells, n \in Nat : x = h.cell /\ n = Rev(x)
  BY LedgerRead DEF Request, IInv, TypeOK
<1>4. Rev(x)' = n + 1 /\ ContentAt(x, n + 1)' = b /\ h.expect = n
  <2>1. Rev(x)' = n + 1 /\ ContentAt(x, n + 1)' = b
    BY <1>3, ContentIs DEF IInv, TypeOK
  <2> QED
    BY <1>3, <2>1 DEF Current
<1>5. ASSUME NEW q \in Clients \ {p}
      PROVE  Books(q)' /\ \A c \in Cells : Hopeless(q, c) \/ Sane(q, c) => Hopeless(q, c)' \/ Sane(q, c)'
  <2>1. toClient'[q] = toClient[q] \/ Pushes(q, theirs)
    BY DEF Published
  <2>2. theirs.block = ContentAt(theirs.cell, theirs.rev)'
    BY <1>3, <1>4
  <2> QED
    BY <1>1, <1>2, <2>1, <2>2, OtherMirror DEF AllBooks
<1>6. PICK o \in pending[p] : Asks(h, o)
  <2>1. h = toServer[p][1] /\ 1 \in 1 .. Len(toServer[p])
    BY <1>1, ReqsTail DEF IInv, TypeOK, WireTypeOK
  <2> QED
    BY <2>1 DEF AllBooks, Books, Awaits
<1>7. \A q \in pending[p] : q.req = h.req => q = o
  BY <1>6 DEF Asks, AllBooks, Books, Distinct
<1>8. Answers(mine) => mine.kind # "EditAck" /\ Fits(mine, o)
  BY <1>6 DEF Asks, Fits
<1>9. also # mine => ~Carries(also) /\ Fits(also, o)
  BY <1>6 DEF Asks, Fits, Carries
<1>10. PICK t \in Seq(Frame), u \in Seq(Frame) :
        /\ t = toClient[p] /\ u = toClient'[p] /\ Extends(t, u)
        /\ \A i \in Len(t) + 1 .. Len(u) :
                \/ u[i] = mine
                \/ u[i] = also /\ also # mine /\ i = Len(t) + 2 /\ u[Len(t) + 1] = mine
  <2>1. PICK t \in Seq(Frame) : t = toClient[p]
    BY DEF IInv, TypeOK, WireTypeOK
  <2>2. CASE toClient'[p] = t
    <3>1. Extends(t, t) /\ \A i : i \notin Len(t) + 1 .. Len(t)
      BY DEF Extends
    <3> QED
      BY <2>1, <2>2, <3>1
  <2>3. PICK v \in Seq(Frame) : v = Append(t, mine)
    BY Appended
  <2>4. Extends(t, v) /\ Len(v) = Len(t) + 1 /\ v[Len(t) + 1] = mine /\ Len(t) \in Nat
    BY <2>3, AppendExtends
  <2>5. CASE toClient'[p] = v
    <3>1. \A i \in Len(t) + 1 .. Len(v) : v[i] = mine
      BY <2>4
    <3>2. v = toClient'[p]
      BY <2>5
    <3> QED
      BY <2>1, <2>4, <3>1, <3>2
  <2>6. CASE also # mine /\ toClient'[p] = Append(v, also)
    <3>1. PICK u \in Seq(Frame) : u = Append(v, also)
      BY Appended
    <3>2. Extends(v, u) /\ Len(u) = Len(v) + 1 /\ u[Len(v) + 1] = also
      BY ZenonT(60), <3>1, AppendExtends
    <3>3. Extends(t, u)
      BY <2>4, <3>2 DEF Extends
    <3>4. u[Len(t) + 1] = mine /\ u[Len(t) + 2] = also /\ Len(u) = Len(t) + 2
      BY <2>4, <3>2 DEF Extends
    <3>5. \A i \in Len(t) + 1 .. Len(u) : i = Len(t) + 1 \/ i = Len(t) + 2
      BY <2>4, <3>4
    <3>6. \A i \in Len(t) + 1 .. Len(u) :
                \/ u[i] = mine
                \/ u[i] = also /\ also # mine /\ i = Len(t) + 2 /\ u[Len(t) + 1] = mine
      BY <2>6, <3>4, <3>5
    <3>7. u = toClient'[p]
      BY <2>6, <3>1
    <3> QED
      BY <2>1, <3>3, <3>6, <3>7
  <2> QED
    BY <2>1, <2>2, <2>3, <2>5, <2>6 DEF Published, Pushes, Pushes2
<1>11. ASSUME NEW i \in Len(t) + 1 .. Len(u), u[i].kind = "EditAck", NEW r \in Nat, r <= n + 1
       PROVE  Reached(u, known[p], i, x, r)
  <2>1. u[i] # mine
    BY <1>8, <1>11 DEF Answers
  <2>2. i = Len(t) + 2 /\ u[Len(t) + 1] = mine
    BY <1>10, <2>1
  <2>3. Len(t) \in Nat /\ Len(t) + 1 \in 1 .. i - 1
    BY <2>2
  <2> QED
    BY <1>3, <1>11, <2>2, <2>3 DEF Reached
<1>12. \A i \in Len(t) + 1 .. Len(u) :
        /\ Carries(u[i]) => u[i].block = ContentAt(u[i].cell, u[i].rev)'
        /\ u[i].kind = "EditAck" /\ u[i].accepted => Reached(u, known[p], i, u[i].cell, u[i].rev)
        /\ Answers(u[i]) => \A q \in pending[p] : q.req = u[i].req => Fits(u[i], q)
  <2> TAKE i \in Len(t) + 1 .. Len(u)
  <2>1. u[i] = mine \/ (u[i] = also /\ also # mine)
    BY <1>10
  <2>2. Carries(u[i]) => u[i].block = ContentAt(u[i].cell, u[i].rev)'
    BY <1>3, <1>4, <1>9, <2>1
  <2>3. u[i].cell = x /\ u[i].rev = n + 1
    BY <1>3, <2>1
  <2>4. u[i].kind = "EditAck" => Reached(u, known[p], i, u[i].cell, u[i].rev)
    BY <1>11, <2>3
  <2>5. Answers(u[i]) => \A q \in pending[p] : q.req = u[i].req => Fits(u[i], q)
    BY <1>7, <1>8, <1>9, <2>1
  <2> QED
    BY <2>2, <2>4, <2>5
<1>13. Books(p)'
  BY <1>1, <1>2, <1>10, <1>12, ServerBooks DEF AllBooks
<1>14. ASSUME NEW c \in Cells, p \in connected \ kicked
       PROVE  Hopeless(p, c)' \/ Sane(p, c)'
  <2>1. Hopeless(p, c) \/ Sane(p, c)
    BY <1>14 DEF AllTidy
  <2>2. h.req \notin AnswersIn(t) \cup ReqsIn(Tail(toServer[p]))
    BY <1>1, <1>10, HeadIsFresh DEF IInv
  <2>3. RepliesTo(t, u, h)
    BY <1>10 DEF RepliesTo
  <2>4. h.cell = c => h.expect < Rev(c)'
    BY <1>3, <1>4
  <2>5. ASSUME h.cell = c, NEW i \in Len(t) + 1 .. Len(u), NEW r \in Nat, u[i].kind = "EditAck", r <= h.expect
        PROVE  Reached(u, known[p], i, c, r + 1)
    <3>1. r + 1 \in Nat /\ r + 1 <= n + 1
      BY <1>4, <2>5
    <3> QED
      BY <1>3, <1>11, <2>5, <3>1
  <2>6. h.cell = c => VerdictsOvertaken(t, u, h, known[p], c)
    BY <2>5 DEF VerdictsOvertaken
  <2>7. Books(p)
    BY DEF AllBooks
  <2>8. t = toClient[p] /\ u = toClient'[p] /\ Extends(t, u)
    BY <1>10
  <2> QED
    BY SMTT(60), <1>2, <2>1, <2>2, <2>3, <2>4, <2>6, <2>7, <2>8, ConcludeTidy
<1> QED
  BY <1>1, <1>5, <1>13, <1>14 DEF AllBooks, AllTidy

LEMMA ParkMirror ==
    ASSUME IInv, AllBooks, AllTidy, NEW p \in Clients, NEW where, Park(p, where), UNCHANGED sessionVars,
           toServer[p] # <<>>, where = "refuse" => p \in kicked \/ ~Sane(p, Head(toServer[p]).cell)
    PROVE  AllBooks' /\ AllTidy'
<1>1. /\ connected' = connected /\ toServer' = toServer /\ toClient' = toClient /\ log' = log /\ kicked' = kicked
      /\ phase'[p] = where /\ \A q \in Clients \ {p} : phase'[q] = phase[q]
      /\ connected \subseteq Clients
  BY DEF Park, wire, IInv, TypeOK, WireTypeOK, LedgerTypeOK
<1>2. LogStep
  BY <1>1, NoCommit DEF IInv, TypeOK
<1>3. \A q \in Clients \ {p} :
        Books(q)' /\ \A c \in Cells : Hopeless(q, c) \/ Sane(q, c) => Hopeless(q, c)' \/ Sane(q, c)'
  BY <1>1, <1>2, OtherMirror DEF AllBooks
<1>4. PICK t \in Seq(Frame) : t = toClient[p] /\ t = toClient'[p]
  BY <1>1 DEF IInv, TypeOK, WireTypeOK
<1>5. Extends(t, t) /\ \A i : i \notin Len(t) + 1 .. Len(t)
  BY DEF Extends
<1>6. Books(p)'
  BY <1>1, <1>2, <1>4, <1>5, ServerBooks DEF AllBooks
<1>7. ASSUME NEW c \in Cells, p \in connected \ kicked
      PROVE  Hopeless(p, c)' \/ Sane(p, c)'
  <2>1. Hopeless(p, c) \/ Sane(p, c)
    BY <1>7 DEF AllTidy
  <2>2. Sane(p, c) => NotRefusing(p, c)'
    BY <1>1, <1>7 DEF NotRefusing
  <2> QED
    BY <1>1, <1>2, <1>4, <1>5, <2>1, <2>2, QuietTidy
<1> QED
  BY <1>1, <1>3, <1>6, <1>7 DEF AllBooks, AllTidy

(* Nothing is refused but what is stale.                                   *)
OnlyStale == ~MayRefuse /\ \A b \in Blocks : PoolAdmits(b)

LEMMA RoomForAll ==
    ASSUME TypeOK, ~MayRefuse, IsFiniteSet(Blocks), Cardinality(Blocks) <= MaxSpecPool
    PROVE  OnlyStale
<1> SUFFICES ASSUME NEW b \in Blocks
             PROVE  PoolAdmits(b)
  BY DEF OnlyStale
<1> DEFINE named == {BlockAt(c) : c \in Edited}
<1>1. named \subseteq Blocks
  BY LedgerRead DEF Edited, TypeOK
<1> HIDE DEF named
<1>2. CASE b \in named
  BY <1>2 DEF PoolAdmits, named
<1>3. CASE b \notin named
  <2>1. IsFiniteSet(named) /\ Cardinality(named) \in Nat /\ Cardinality(Blocks) \in Nat
    BY <1>1, FS_Subset, FS_CardinalityType
  <2>2. Cardinality(named \cup {b}) = Cardinality(named) + 1
    BY <1>3, <2>1, FS_AddElement
  <2>3. named \cup {b} \subseteq Blocks
    BY <1>1
  <2>4. Cardinality(named \cup {b}) <= Cardinality(Blocks)
    BY <2>3, FS_Subset
  <2>5. MaxSpecPool \in Nat
    BY LedgerConstants DEF LedgerConstants
  <2>6. Cardinality(named) < MaxSpecPool
    BY <2>1, <2>2, <2>4, <2>5
  <2> QED
    BY <2>6 DEF PoolAdmits, named
<1> QED
  BY <1>2, <1>3

LEMMA HandlerMirror ==
    ASSUME OnlyStale, IInv, HeldBack, InSequence, AllInformed, AllBooks, AllTidy,
           NEW p \in Clients, Handler(p), UNCHANGED sessionVars
    PROVE  AllBooks' /\ AllTidy'
<1> DEFINE h == Head(toServer[p])
<1>1. TypeOK
  BY DEF IInv
<1>2. ASSUME NEW kind, Handles(p, kind)
      PROVE  toServer[p] # <<>> /\ h \in Request
  BY <1>1, <1>2, RequestRead DEF Handles, TypeOK
<1>3. CASE ReadTerrain(p)
  <2>1. Handles(p, "Edit") /\ Park(p, "terrain")
    BY <1>3 DEF ReadTerrain
  <2> QED
    BY <1>2, <2>1, ParkMirror
<1>4. CASE CallHooks(p)
  <2>1. (Handles(p, "Edit") \/ Handles(p, "ToolUse")) /\ Park(p, "hook")
    BY <1>4 DEF CallHooks
  <2> QED
    BY <1>2, <2>1, ParkMirror
<1>5. CASE EditRefused(p)
  <2> DEFINE a == EditAck(h, FALSE, Rev(h.cell))
  <2>1. /\ Concludes(p) /\ log' = log /\ kicked' = kicked /\ a \in Frame /\ h.kind = "Edit"
        /\ \A q \in Clients \ {p} : toClient'[q] = toClient[q]
        /\ toClient'[p] = toClient[p] \/ Pushes(p, a)
    BY <1>1, <1>5, EditRefusedIs
  <2>2. Answers(a) /\ ~Granted(a) /\ a.req = h.req /\ a.cell = h.cell /\ a.kind = "EditAck"
    BY DEF EditAck, Answers, Granted
  <2>3. h \in Request /\ toServer[p] # <<>>
    BY <2>1 DEF Concludes
  <2>4. ~Current(p)
    BY <1>5, <2>3 DEF EditRefused, OnlyStale, Request
  <2>5. Sane(p, h.cell) => h.expect < Rev(h.cell)
    BY <1>1, <2>3, <2>4, StaleIsBelow
  <2>6. kicked \subseteq kicked'
    BY <2>1
  <2> HIDE DEF a
  <2>7. PICK g \in Request : g = h
    BY <2>3
  <2> QED
    BY <2>1, <2>2, <2>5, <2>6, <2>7, RefusalMirror
<1>6. ASSUME Handles(p, "ToolUse"), RefuseTool(p), Sane(p, h.cell) => h.expect < Rev(h.cell)
      PROVE  AllBooks' /\ AllTidy'
  <2> DEFINE a == ToolResult(h, FALSE, Rev(h.cell), BlockAt(h.cell))
  <2>1. /\ Concludes(p) /\ log' = log /\ a \in Frame /\ h.kind = "ToolUse"
        /\ \A q \in Clients \ {p} : toClient'[q] = toClient[q]
        /\ \/ toClient'[p] = toClient[p] /\ kicked' = kicked \cup {p}
           \/ Pushes(p, a) /\ kicked' = kicked
    BY <1>1, <1>6, RefuseToolIs
  <2>2. Answers(a) /\ ~Granted(a) /\ a.req = h.req /\ a.cell = h.cell /\ a.kind = "ToolResult"
    BY DEF ToolResult, Answers, Granted
  <2>3. PICK g \in Request : g = h
    BY <1>2, <1>6
  <2>4. kicked \subseteq kicked'
    BY <2>1
  <2> HIDE DEF a
  <2> QED
    BY <1>6, <2>1, <2>2, <2>3, <2>4, RefusalMirror
<1>7. CASE ToolRefused(p)
  <2>1. ~Current(p) /\ Handles(p, "ToolUse")
    BY <1>7 DEF ToolRefused, OnlyStale
  <2>2. Sane(p, h.cell) => h.expect < Rev(h.cell)
    BY <1>1, <1>2, <2>1, StaleIsBelow
  <2>3. CASE RefuseTool(p)
    BY <1>6, <2>1, <2>2, <2>3
  <2>4. CASE Rev(h.cell) = 0 /\ Park(p, "refuse")
    <3>1. h.expect \in Nat /\ toServer[p] # <<>>
      BY <1>2, <2>1 DEF Request
    <3>2. ~Sane(p, h.cell)
      BY <2>2, <2>4, <3>1
    <3> QED
      BY <2>4, <3>1, <3>2, ParkMirror
  <2> QED
    BY <1>7, <2>3, <2>4 DEF ToolRefused
<1>8. CASE ToolAnswered(p)
  <2>1. Handles(p, "ToolUse") /\ phase[p] = "refuse" /\ RefuseTool(p)
    BY <1>8 DEF ToolAnswered
  <2>2. ~Sane(p, h.cell)
    BY <2>1 DEF Sane, NotRefusing
  <2> QED
    BY <1>6, <2>1, <2>2
<1>9. ASSUME NEW full, EditCommit(p, full)
      PROVE  AllBooks' /\ AllTidy'
  <2> DEFINE r      == Rev(h.cell) + 1
             mine   == Snapshot(h.cell, r, h.block)
             also   == EditAck(h, TRUE, r)
             theirs == EditMsg(h.cell, r, h.block)
  <2>1. /\ Concludes(p) /\ kicked' = kicked \cup full /\ Write(p, h, h.block) /\ Current(p) /\ h.kind = "Edit"
        /\ mine \in Frame /\ also \in Frame /\ theirs \in Frame
        /\ Published(p, mine, also, theirs, full)
    BY <1>1, <1>9, EditCommitIs
  <2>2. h \in Request
    BY <2>1 DEF Concludes
  <2>3. h.block \in Blocks
    BY <2>2 DEF Request
  <2>4. /\ Carries(mine) /\ mine.cell = h.cell /\ mine.rev = r /\ mine.block = h.block /\ ~Answers(mine)
        /\ also.kind = "EditAck" /\ also.req = h.req /\ also.cell = h.cell /\ also.rev = r
        /\ ~Answers(theirs) /\ theirs.cell = h.cell /\ theirs.rev = r /\ theirs.block = h.block
    BY DEF Carries, Answers, Snapshot, EditMsg, EditAck
  <2>5. PICK g \in Request, b \in Blocks : g = h /\ b = h.block
    BY <2>2, <2>3
  <2>6. Write(p, g, b)
    BY <2>1, <2>5 DEF Write
  <2> HIDE DEF mine, also, theirs
  <2> QED
    BY <2>1, <2>4, <2>5, <2>6, CommitMirror
<1>10. ASSUME NEW full, NEW b \in Blocks, ToolCommit(p, b, full)
       PROVE  AllBooks' /\ AllTidy'
  <2> DEFINE r      == Rev(h.cell) + 1
             mine   == ToolResult(h, TRUE, r, b)
             theirs == EditMsg(h.cell, r, b)
  <2>1. /\ Concludes(p) /\ kicked' = kicked \cup full /\ Write(p, h, b) /\ Current(p) /\ h.kind = "ToolUse"
        /\ mine \in Frame /\ theirs \in Frame
        /\ Published(p, mine, mine, theirs, full)
    BY <1>1, <1>10, ToolCommitIs
  <2>2. h \in Request
    BY <2>1 DEF Concludes
  <2>3. /\ Carries(mine) /\ mine.cell = h.cell /\ mine.rev = r /\ mine.block = b
        /\ mine.kind = "ToolResult" /\ mine.req = h.req
        /\ ~Answers(theirs) /\ theirs.cell = h.cell /\ theirs.rev = r /\ theirs.block = b
    BY DEF Carries, Answers, ToolResult, EditMsg
  <2>4. PICK g \in Request : g = h
    BY <2>2
  <2>5. Write(p, g, b)
    BY <2>1, <2>4 DEF Write
  <2> HIDE DEF mine, theirs
  <2> QED
    BY <2>1, <2>3, <2>4, <2>5, CommitMirror
<1> QED
  BY <1>3, <1>4, <1>5, <1>7, <1>8, <1>9, <1>10 DEF Handler

LEMMA TickMirror ==
    ASSUME IInv, AllBooks, AllTidy, Reactions, UNCHANGED sessionVars
    PROVE  AllBooks' /\ AllTidy'
<1>1. connected \subseteq Clients
  BY DEF IInv, TypeOK, WireTypeOK
<1>2. ASSUME NEW S \in Contacts, NEW new \in [S -> Blocks], ReactionTurn(new)
      PROVE  AllBooks' /\ AllTidy'
  <2>1. S \in SUBSET Cells
    BY DEF Contacts
  <2>2. LogStep
    BY <1>2, <2>1, ReactionTurnKeeps
  <2>3. UNCHANGED <<connected, toServer, toClient, kicked, phase>>
    BY <1>2 DEF ReactionTurn, wire
  <2> QED
    BY <1>1, <2>2, <2>3, OtherMirror DEF AllBooks, AllTidy
<1>3. ASSUME NEW c \in Cells, NEW full, SendMutation(c, full)
      PROVE  AllBooks' /\ AllTidy'
  <2>1. PICK m \in Frame : m = Snapshot(c, Rev(c), BlockAt(c))
    BY <1>3, SendMutationIs DEF IInv
  <2>2. UNCHANGED <<connected, toServer, log, phase>> /\ kicked' = kicked \cup full
    BY <1>3 DEF SendMutation
  <2>3. ~Answers(m) /\ m.cell = c /\ m.rev = Rev(c) /\ m.block = BlockAt(c)
    BY <2>1 DEF Snapshot, Answers
  <2>4. BlockAt(c) = ContentAt(c, Rev(c))
    <3>1. PICK s \in Seq(Entry) : s = log[c]
      BY DEF IInv, TypeOK, LedgerTypeOK
    <3>2. s = <<>> <=> Len(s) = 0
      BY EmptySeq
    <3> QED
      BY <3>1, <3>2 DEF BlockAt, ContentAt, Rev
  <2>5. m.block = ContentAt(m.cell, m.rev)'
    <3>1. PICK r : r = Rev(c)
      OBVIOUS
    <3>2. m.block = ContentAt(c, r)
      BY <2>3, <2>4, <3>1
    <3>3. ContentAt(c, r)' = ContentAt(c, r)
      BY <2>2 DEF ContentAt
    <3> QED
      BY <2>3, <3>1, <3>2, <3>3
  <2>6. LogStep
    BY <2>2, NoCommit DEF IInv, TypeOK
  <2>7. \A q \in Clients : toClient'[q] = toClient[q] \/ Pushes(q, m)
    BY <1>3, <2>1, SendMutationIs DEF IInv
  <2>8. \A q \in Clients :
            Books(q)' /\ \A d \in Cells : Hopeless(q, d) \/ Sane(q, d) => Hopeless(q, d)' \/ Sane(q, d)'
    BY <2>2, <2>3, <2>5, <2>6, <2>7, OtherMirror DEF AllBooks
  <2> QED
    BY <1>1, <2>2, <2>8 DEF AllBooks, AllTidy
<1> QED
  BY <1>2, <1>3 DEF Reactions

LEMMA DepartMirror ==
    ASSUME IInv, AllBooks, AllTidy, NEW p \in Clients, Depart(p), UNCHANGED sessionVars
    PROVE  AllBooks' /\ AllTidy'
<1>1. /\ UNCHANGED <<log, phase>> /\ phase[p] = "idle" /\ connected' = connected \ {p} /\ kicked' = kicked \ {p}
      /\ toServer'[p] = <<>> /\ toClient'[p] = <<>> /\ connected \subseteq Clients
      /\ \A q \in Clients \ {p} : toServer'[q] = toServer[q] /\ toClient'[q] = toClient[q]
  BY DEF Depart, IInv, TypeOK, WireTypeOK
<1>2. LogStep
  BY <1>1, NoCommit DEF IInv, TypeOK
<1>3. \A q \in Clients \ {p} :
        Books(q)' /\ \A c \in Cells : Hopeless(q, c) \/ Sane(q, c) => Hopeless(q, c)' \/ Sane(q, c)'
  BY <1>1, <1>2, OtherMirror DEF AllBooks
<1>4. Books(p)'
  <2>1. 1 .. Len(toServer'[p]) = {} /\ 1 .. Len(toClient'[p]) = {}
    BY <1>1, EmptySeq
  <2>2. Distinct(p) /\ Based(p) /\ pending' = pending /\ known' = known
    BY DEF AllBooks, Books, sessionVars
  <2>3. Distinct(p)' /\ Based(p)'
    BY <2>2 DEF Distinct, Based
  <2>4. Awaits(p)' /\ Fitting(p)' /\ TrueContents(p)' /\ AcksReached(p)'
    BY <2>1 DEF Awaits, Fitting, TrueContents, AcksReached
  <2>5. Attends(p)'
    BY <1>1 DEF Attends
  <2> QED
    BY <2>3, <2>4, <2>5 DEF Books
<1> QED
  BY <1>1, <1>3, <1>4 DEF AllBooks, AllTidy

-----------------------------------------------------------------------------
(* A client's own steps.                                                   *)

(* The others take no part in them.                                        *)
LEMMA AloneMirror ==
    ASSUME UNCHANGED ledgerVars, NEW q,
           toServer'[q] = toServer[q], toClient'[q] = toClient[q],
           pending'[q] = pending[q], known'[q] = known[q], view'[q] = view[q]
    PROVE  /\ Books(q) => Books(q)'
           /\ \A c \in Cells : Hopeless(q, c) \/ Sane(q, c) => Hopeless(q, c)' \/ Sane(q, c)'
<1>1. log' = log /\ phase' = phase
  BY DEF ledgerVars
<1>2. \A c, r : ContentAt(c, r)' = ContentAt(c, r)
  BY <1>1 DEF ContentAt
<1>3. Distinct(q)' = Distinct(q) /\ Based(q)' = Based(q)
  BY DEF Distinct, Based
<1>4. Awaits(q) => Awaits(q)'
  BY DEF Awaits
<1>5. Fitting(q) => Fitting(q)'
  BY DEF Fitting
<1>6. TrueContents(q) => TrueContents(q)'
  BY <1>2 DEF TrueContents
<1>7. AcksReached(q) => AcksReached(q)'
  BY DEF AcksReached
<1>8. Attends(q) => Attends(q)'
  BY <1>1 DEF Attends
<1>9. ASSUME NEW c \in Cells
      PROVE  /\ Hopeless(q, c) => Hopeless(q, c)'
             /\ Sane(q, c) => Sane(q, c)'
  <2>1. Rev(c)' = Rev(c)
    BY <1>1 DEF Rev
  <2>2. Hopeless(q, c) => Hopeless(q, c)'
    BY DEF Hopeless
  <2>3. AnswersNewer(q, c) => AnswersNewer(q, c)'
    BY DEF AnswersNewer
  <2>4. RejectedOlder(q, c) => RejectedOlder(q, c)'
    BY DEF RejectedOlder
  <2>5. Chained(q, c) => Chained(q, c)'
    BY <2>1 DEF Chained
  <2>6. DecidedAbove(q, c) => DecidedAbove(q, c)'
    BY <2>1 DEF DecidedAbove
  <2>7. NotRefusing(q, c) => NotRefusing(q, c)'
    BY <1>1 DEF NotRefusing
  <2>8. ShowsOrPredicts(q, c) => ShowsOrPredicts(q, c)'
    BY <1>2 DEF ShowsOrPredicts
  <2> QED
    BY <2>2, <2>3, <2>4, <2>5, <2>6, <2>7, <2>8 DEF Sane
<1> QED
  BY <1>3, <1>4, <1>5, <1>6, <1>7, <1>8, <1>9 DEF Books

(* A new request: what it expects is the ledger's, or the next after a     *)
(* request that is still to be decided.                                    *)
LEMMA SendMirror ==
    ASSUME IInv, InSequence, AllBooks, AllTidy, UNCHANGED ledgerVars,
           NEW p \in Clients, NEW c \in Cells, NEW kind \in {"Edit", "Tool"}, NEW b \in Blocks,
           NEW wireKind, wireKind = IF kind = "Edit" THEN "Edit" ELSE "ToolUse",
           Send(p, c, kind, wireKind, b),
           \A q \in Clients \ {p} : view'[q] = view[q],
           \A d \in Cells \ {c} : view'[p][d] = view[p][d],
           kind = "Tool" => view'[p][c] = view[p][c]
    PROVE  AllBooks' /\ AllTidy'
<1>1. /\ UNCHANGED <<connected, toClient, known, log, kicked, phase>> /\ connected \subseteq Clients
  BY DEF Send, ledgerVars, IInv, TypeOK, WireTypeOK
<1>2. PICK n : n = nextReq[p] + 1
  OBVIOUS
<1>3. PICK e \in ExpectCandidates(p, c) :
        /\ \A other \in ExpectCandidates(p, c) : other <= e
        /\ pending' = [pending EXCEPT ![p] = @ \cup
                {[kind |-> kind, req |-> n, cell |-> c, expect |-> e, base |-> known[p][c], prev |-> view[p][c]]}]
        /\ \/ toServer' = [toServer EXCEPT ![p] = Append(@,
                    [kind |-> wireKind, req |-> n, cell |-> c, expect |-> e, block |-> b])]
           \/ UNCHANGED toServer
  BY <1>2 DEF Send
<1>4. PICK o : o = [kind |-> kind, req |-> n, cell |-> c, expect |-> e, base |-> known[p][c], prev |-> view[p][c]]
  OBVIOUS
<1>5. PICK m : m = [kind |-> wireKind, req |-> n, cell |-> c, expect |-> e, block |-> b]
  OBVIOUS
<1>6. /\ known[p][c] \in Nat /\ e \in Nat /\ known[p][c] <= e /\ n \in Nat
      /\ \/ e = known[p][c]
         \/ \E q \in pending[p] : q.cell = c /\ q.kind # "Rejected" /\ q.expect + 1 = e
  BY <1>2, <1>3 DEF ExpectCandidates, OnCell, PendingReq, IInv, TypeOK, SessionTypeOK
<1>7. /\ o.kind = kind /\ o.req = n /\ o.cell = c /\ o.expect = e /\ o.base = known[p][c]
      /\ m.kind = wireKind /\ m.req = n /\ m.cell = c /\ m.expect = e
  BY <1>4, <1>5
<1>8. m \in Request
  BY <1>5, <1>6 DEF Request
<1>9. /\ pending'[p] = pending[p] \cup {o} /\ \A q \in Clients \ {p} : pending'[q] = pending[q]
      /\ pending[p] \subseteq PendingReq
  BY <1>3, <1>4 DEF IInv, TypeOK, SessionTypeOK
<1>10. PICK s \in Seq(Request) : s = toServer[p]
  BY DEF IInv, TypeOK, WireTypeOK
<1>11. /\ toServer'[p] = s \/ toServer'[p] = Append(s, m)
       /\ \A q \in Clients \ {p} : toServer'[q] = toServer[q]
  BY <1>3, <1>5, <1>10 DEF IInv, TypeOK, WireTypeOK
<1>12. /\ n \notin AnswersIn(toClient[p]) \cup ReqsIn(s)
       /\ \A q \in pending[p] : q.req # n
  BY <1>2, <1>10, NextIsFresh DEF IInv
<1>13. \A q \in Clients \ {p} :
        Books(q)' /\ \A d \in Cells : Hopeless(q, d) \/ Sane(q, d) => Hopeless(q, d)' \/ Sane(q, d)'
  BY <1>1, <1>9, <1>11, AloneMirror DEF AllBooks
<1>14. Books(p)
  BY DEF AllBooks
<1>15. PICK u \in Seq(Request) : u = toServer'[p]
  <2>1. Append(s, m) \in Seq(Request)
    BY <1>8
  <2> QED
    BY <1>11, <2>1
<1>16. /\ Len(s) \in Nat /\ Len(u) \in Nat /\ Len(s) <= Len(u) /\ Len(u) <= Len(s) + 1
       /\ \A i \in 1 .. Len(s) : u[i] = s[i]
       /\ \A i \in 1 .. Len(u) : i \in 1 .. Len(s) \/ (i = Len(s) + 1 /\ u[i] = m)
       /\ u = s \/ (Len(u) = Len(s) + 1 /\ u[Len(s) + 1] = m)
  <2>1. CASE u = s
    BY <1>10, <2>1
  <2>2. CASE u = Append(s, m)
    <3>1. Len(Append(s, m)) = Len(s) + 1 /\ Append(s, m)[Len(s) + 1] = m /\ Len(s) \in Nat
      BY <1>8
    <3>2. \A i \in 1 .. Len(s) : Append(s, m)[i] = s[i]
      BY <1>8
    <3> QED
      BY <2>2, <3>1, <3>2
  <2> QED
    BY <1>11, <1>15, <2>1, <2>2
<1>17. \A i \in 1 .. Len(s) : \E q \in pending[p] : Asks(s[i], q)
  BY <1>10, <1>14 DEF Books, Awaits
<1>18. \A i \in 1 .. Len(toClient[p]) : Answers(toClient[p][i]) => toClient[p][i].req # n
  BY <1>12 DEF AnswersIn
<1>19. Books(p)'
  <2>1. Distinct(p)'
    BY <1>7, <1>9, <1>12, <1>14 DEF Books, Distinct
  <2>2. Based(p)'
    BY <1>1, <1>6, <1>7, <1>9, <1>14 DEF Books, Based
  <2>3. Awaits(p)'
    <3>1. Asks(m, o)
      BY <1>7 DEF Asks
    <3> QED
      BY <1>9, <1>15, <1>16, <1>17, <3>1 DEF Awaits
  <2>4. Fitting(p)'
    BY <1>1, <1>7, <1>9, <1>14, <1>18 DEF Books, Fitting
  <2>5. TrueContents(p)'
    BY <1>1, <1>14 DEF Books, TrueContents, ContentAt
  <2>6. AcksReached(p)'
    BY <1>1, <1>14 DEF Books, AcksReached
  <2>7. Attends(p)'
    <3>1. phase[p] # "idle" => s # <<>>
      BY <1>10, <1>14 DEF Books, Attends
    <3>2. s # <<>> => u # <<>>
      BY <1>16, EmptySeq
    <3> QED
      BY <1>1, <1>15, <3>1, <3>2 DEF Attends
  <2> QED
    BY <2>1, <2>2, <2>3, <2>4, <2>5, <2>6, <2>7 DEF Books
<1>20. ASSUME NEW d \in Cells, Hopeless(p, d)
       PROVE  Hopeless(p, d)'
  <2>1. PICK q \in pending[p] :
            q.cell = d /\ q.kind # "Rejected" /\ q.req \notin ReqsIn(s) \cup AnswersIn(toClient[p])
    BY <1>10, <1>20 DEF Hopeless
  <2>2. q.req \notin ReqsIn(u)
    BY <1>7, <1>12, <1>16, <2>1 DEF ReqsIn
  <2> QED
    BY <1>1, <1>9, <1>15, <2>1, <2>2 DEF Hopeless
<1>21. ASSUME NEW d \in Cells, Sane(p, d)
       PROVE  Hopeless(p, d)' \/ Sane(p, d)'
  <2>1. CASE d = c /\ u = s
    BY <1>1, <1>7, <1>9, <1>12, <1>15, <2>1 DEF Hopeless
  <2>2. CASE d # c \/ u # s
    <3>1. AnswersNewer(p, d)'
      BY <1>1, <1>7, <1>9, <1>18, <1>21 DEF Sane, AnswersNewer, Answers
    <3>2. RejectedOlder(p, d)'
      BY <1>1, <1>7, <1>9, <1>21 DEF Sane, RejectedOlder
    <3>3. Chained(p, d)'
      <4> SUFFICES ASSUME NEW i \in 1 .. Len(u), u[i].cell = d
                   PROVE  \/ u[i].expect <= Rev(d)
                          \/ \E j \in 1 .. i - 1 : u[j].cell = d /\ u[j].expect + 1 = u[i].expect
        BY <1>1, <1>15 DEF Chained, Rev
      <4>1. CASE i \in 1 .. Len(s)
        <5>1. \/ s[i].expect <= Rev(d)
              \/ \E j \in 1 .. i - 1 : s[j].cell = d /\ s[j].expect + 1 = s[i].expect
          BY <1>10, <1>16, <1>21, <4>1 DEF Sane, Chained
        <5>2. \A j \in 1 .. i - 1 : j \in 1 .. Len(s) /\ u[j] = s[j]
          BY <1>16, <4>1
        <5> QED
          BY <1>16, <4>1, <5>1, <5>2
      <4>2. CASE i = Len(s) + 1 /\ u[i] = m
        <5>1. Rev(d) \in Nat /\ known[p][d] <= Rev(d) /\ d = c
          BY <1>7, <4>2, LedgerRead DEF IInv, TypeOK, KnownBehind
        <5>2. CASE e = known[p][c]
          BY <1>7, <4>2, <5>1, <5>2
        <5>3. ASSUME NEW q \in pending[p], q.cell = c, q.kind # "Rejected", q.expect + 1 = e
              PROVE  \/ u[i].expect <= Rev(d)
                     \/ \E j \in 1 .. i - 1 : u[j].cell = d /\ u[j].expect + 1 = u[i].expect
          <6>1. q.expect \in Nat
            BY <1>9 DEF PendingReq
          <6>2. q.req \in ReqsIn(s) \/ q.expect < Rev(d)
            BY <1>10, <1>21, <5>1, <5>3 DEF Sane, DecidedAbove
          <6>3. CASE q.expect < Rev(d)
            BY <1>7, <4>2, <5>1, <5>3, <6>1, <6>3
          <6>4. CASE q.req \in ReqsIn(s)
            <7>1. PICK j \in 1 .. Len(s) : s[j].req = q.req
              BY <6>4 DEF ReqsIn
            <7>2. PICK a \in pending[p] : Asks(s[j], a)
              BY <1>17
            <7>3. a = q
              BY <1>14, <7>1, <7>2 DEF Asks, Books, Distinct
            <7>4. s[j].cell = c /\ s[j].expect = q.expect
              BY <5>3, <7>2, <7>3 DEF Asks
            <7>5. j \in 1 .. i - 1 /\ u[j] = s[j]
              BY <1>16, <4>2
            <7> QED
              BY <1>7, <4>2, <5>1, <5>3, <7>4, <7>5
          <6> QED
            BY <6>2, <6>3, <6>4
        <5> QED
          BY <1>6, <5>2, <5>3
      <4> QED
        BY <1>16, <4>1, <4>2
    <3>4. DecidedAbove(p, d)'
      <4> SUFFICES ASSUME NEW q \in pending[p] \cup {o}, q.kind # "Rejected", q.cell = d
                   PROVE  q.req \in ReqsIn(u) \/ q.expect < Rev(d)
        BY <1>1, <1>9, <1>15 DEF DecidedAbove, Rev
      <4>1. ReqsIn(s) \subseteq ReqsIn(u)
        BY <1>16 DEF ReqsIn
      <4>2. CASE q \in pending[p]
        BY <1>10, <1>21, <4>1, <4>2 DEF Sane, DecidedAbove
      <4>3. CASE q = o
        <5>1. Len(u) = Len(s) + 1 /\ u[Len(s) + 1] = m
          BY <1>7, <1>16, <2>2, <4>3
        <5>2. n \in ReqsIn(u)
          BY <1>7, <1>16, <5>1 DEF ReqsIn
        <5> QED
          BY <1>7, <4>3, <5>2
      <4> QED
        BY <4>2, <4>3
    <3>5. NotRefusing(p, d)'
      <4>1. phase[p] = "refuse" => s # <<>> /\ Head(s).cell # d
        BY <1>10, <1>14, <1>21 DEF Sane, NotRefusing, Books, Attends
      <4>2. s # <<>> => Head(u) = Head(s)
        <5>1. s # <<>> => Len(s) >= 1
          BY EmptySeq
        <5>2. s # <<>> => 1 \in 1 .. Len(s) /\ u # <<>>
          BY <1>16, <5>1, EmptySeq
        <5>3. s # <<>> => Head(s) = s[1] /\ Head(u) = u[1]
          BY <5>2
        <5> QED
          BY <1>16, <5>2, <5>3
      <4> QED
        BY <1>1, <1>15, <4>1, <4>2 DEF NotRefusing
    <3>6. ShowsOrPredicts(p, d)'
      <4>1. ContentAt(d, known[p][d])' = ContentAt(d, known[p][d])
        BY <1>1 DEF ContentAt
      <4>2. CASE d = c /\ kind = "Edit"
        BY <1>1, <1>7, <1>9, <4>2 DEF ShowsOrPredicts
      <4>3. CASE d # c \/ kind = "Tool"
        BY <1>1, <1>9, <1>21, <4>1, <4>3 DEF Sane, ShowsOrPredicts
      <4> QED
        BY <4>2, <4>3
    <3> QED
      BY <3>1, <3>2, <3>3, <3>4, <3>5, <3>6 DEF Sane
  <2> QED
    BY <2>1, <2>2
<1> QED
  BY <1>1, <1>13, <1>19, <1>20, <1>21 DEF AllBooks, AllTidy

LEMMA PlayerMirror ==
    ASSUME IInv, InSequence, AllBooks, AllTidy, UNCHANGED ledgerVars, NEW p \in Clients, Player(p)
    PROVE  AllBooks' /\ AllTidy'
<1>1. ASSUME NEW c \in Cells, NEW b \in Blocks, Predict(p, c, b)
      PROVE  AllBooks' /\ AllTidy'
  <2>1. Send(p, c, "Edit", "Edit", b) /\ view' = [view EXCEPT ![p][c] = b]
    BY <1>1 DEF Predict
  <2>2. /\ \A q \in Clients \ {p} : view'[q] = view[q]
        /\ \A d \in Cells \ {c} : view'[p][d] = view[p][d]
    BY <2>1 DEF IInv, TypeOK, SessionTypeOK
  <2> QED
    BY <2>1, <2>2, SendMirror
<1>2. ASSUME NEW c \in Cells, UseTool(p, c)
      PROVE  AllBooks' /\ AllTidy'
  <2>1. Send(p, c, "Tool", "ToolUse", Air) /\ view' = view
    BY <1>2 DEF UseTool
  <2>2. Air \in Blocks
    BY SessionConstants DEF SessionConstants
  <2> QED
    BY <2>1, <2>2, SendMirror
<1> QED
  BY <1>1, <1>2, SessionConstants DEF Player, Break, Place, SessionConstants

(* The request o, once it is rejected. *)
Rejects(o, q) == q = [o EXCEPT !.kind = "Rejected"]

LEMMA RejectsIs ==
    ASSUME NEW o \in PendingReq, NEW q, Rejects(o, q)
    PROVE  /\ q.kind = "Rejected" /\ q.req = o.req /\ q.cell = o.cell /\ q.base = o.base /\ q.expect = o.expect
           /\ \A r : Rejects(o, r) => r = q
BY DEF PendingReq, Rejects

(* A frame is heard: the request it answers leaves, or waits as a          *)
(* rejected one, and nothing else that could still be answered goes.       *)
LEMMA HeardMirror ==
    ASSUME IInv, InSequence, AllBooks, AllTidy, UNCHANGED ledgerVars, NEW p \in Clients, NEW kinds, Hears(p, kinds),
           NEW m \in Frame, m = Head(toClient[p]),
           \A q \in Clients \ {p} : pending'[q] = pending[q] /\ known'[q] = known[q] /\ view'[q] = view[q],
           \A c \in Cells : known'[p][c] \in Nat /\ known[p][c] <= known'[p][c],
           Carries(m) => m.rev <= known'[p][m.cell],
           \A q \in pending'[p] :
                \/ q \in pending[p] /\ (Answers(m) => q.req # m.req)
                \/ m.kind = "EditAck" /\ q.req = m.req /\ \E o \in pending[p] : Rejects(o, q),
           \A q \in pending[p] : q.kind # "Rejected" /\ (Answers(m) => q.req # m.req) => q \in pending'[p],
           \A c \in Cells : Sane(p, c) => ShowsOrPredicts(p, c)'
    PROVE  AllBooks' /\ AllTidy'
<1>1. /\ UNCHANGED <<connected, toServer, log, kicked, phase>> /\ connected \subseteq Clients
      /\ \A q \in Clients \ {p} : toClient'[q] = toClient[q]
      /\ pending[p] \subseteq PendingReq
  BY DEF Hears, ledgerVars, IInv, TypeOK, WireTypeOK, SessionTypeOK
<1>2. PICK s \in Seq(Frame) : s = toClient[p] /\ s # <<>>
  BY DEF Hears, IInv, TypeOK, WireTypeOK
<1>3. PICK t \in Seq(Frame) : t = Tail(s) /\ t = toClient'[p]
  BY <1>2, TailIs DEF Hears, IInv, TypeOK, WireTypeOK
<1>4. /\ Len(s) \in Nat /\ Len(t) = Len(s) - 1 /\ Len(s) >= 1 /\ m = s[1] /\ m = Head(s)
      /\ \A i \in 1 .. Len(t) : i + 1 \in 1 .. Len(s) /\ t[i] = s[i + 1]
  BY <1>2, <1>3, TailIs
<1>5. Answers(m) => m.req \notin AnswersIn(t) \cup ReqsIn(toServer[p])
  BY <1>2, <1>3, <1>4, AnswerIsFresh DEF IInv
<1>6. \A i \in 1 .. Len(t) : Answers(m) /\ Answers(t[i]) => t[i].req # m.req
  BY <1>5 DEF AnswersIn
<1>7. \A q \in pending'[p] :
        \/ q \in pending[p] /\ (Answers(m) => q.req # m.req)
        \/ /\ m.kind = "EditAck" /\ Answers(m) /\ q.req = m.req /\ q.kind = "Rejected"
           /\ \E o \in pending[p] :
                /\ o.req = m.req /\ o.cell = q.cell /\ o.base = q.base /\ o.expect = q.expect
                /\ \A r : Rejects(o, r) => r = q
  BY <1>1, RejectsIs DEF Answers
<1>8. Books(p)
  BY DEF AllBooks
<1>9. \A c \in Cells : known[p][c] \in Nat /\ known'[p][c] \in Nat /\ known[p][c] <= known'[p][c]
  BY DEF IInv, TypeOK, SessionTypeOK
<1>10. \A q \in pending[p] : q.cell \in Cells /\ q.base \in Nat /\ q.expect \in Nat
  BY <1>1 DEF PendingReq
<1>11. ASSUME NEW i \in 1 .. Len(t), NEW c \in Cells, NEW r \in Nat, Reached(s, known[p], i + 1, c, r)
       PROVE  Reached(t, known'[p], i, c, r)
  <2>1. PICK k, l : k = known[p] /\ l = known'[p]
    OBVIOUS
  <2>2. Reached(s, k, i + 1, c, r) /\ i \in 1 .. Len(Tail(s)) /\ k[c] \in Nat /\ l[c] \in Nat /\ k[c] <= l[c]
    BY <1>3, <1>9, <1>11, <2>1
  <2>3. Carries(Head(s)) /\ Head(s).cell = c => Head(s).rev <= l[c]
    BY <1>4, <2>1
  <2>4. Reached(Tail(s), l, i, c, r)
    BY <1>2, <2>2, <2>3, ReachedTail
  <2> QED
    BY <1>3, <2>1, <2>4
<1>12. Books(p)'
  <2>1. Distinct(p)'
    <3> SUFFICES ASSUME NEW q \in pending'[p], NEW r \in pending'[p], q.req = r.req
                 PROVE  q = r
      BY DEF Distinct
    <3>1. \A a, o \in pending[p] : a.req = o.req => a = o
      BY <1>8 DEF Books, Distinct
    <3>2. CASE ~Answers(m) \/ q.req # m.req
      BY <1>7, <3>1, <3>2
    <3>3. CASE Answers(m) /\ q.req = m.req
      <4>1. PICK o \in pending[p] : o.req = m.req /\ Rejects(o, q)
        BY <1>1, <3>3, RejectsIs
      <4>2. PICK a \in pending[p] : a.req = m.req /\ Rejects(a, r)
        BY <1>1, <3>3, RejectsIs
      <4> QED
        BY <3>1, <4>1, <4>2 DEF Rejects
    <3> QED
      BY <3>2, <3>3
  <2>2. Based(p)'
    <3> SUFFICES ASSUME NEW q \in pending'[p]
                 PROVE  q.base <= known'[p][q.cell] /\ q.base <= q.expect
      BY DEF Based
    <3>1. PICK o \in pending[p] : o.cell = q.cell /\ o.base = q.base /\ o.expect = q.expect
      BY <1>7
    <3>2. o.base <= known[p][o.cell] /\ o.base <= o.expect
      BY <1>8 DEF Books, Based
    <3> QED
      BY <1>9, <1>10, <3>1, <3>2
  <2>3. Awaits(p)'
    <3> SUFFICES ASSUME NEW i \in 1 .. Len(toServer[p])
                 PROVE  \E q \in pending'[p] : Asks(toServer[p][i], q)
      BY <1>1 DEF Awaits
    <3>1. PICK q \in pending[p] : Asks(toServer[p][i], q)
      BY <1>8 DEF Books, Awaits
    <3>2. q.kind # "Rejected" /\ q.req \in ReqsIn(toServer[p])
      BY <3>1 DEF Asks, ReqsIn
    <3> QED
      BY <1>5, <3>1, <3>2
  <2>4. Fitting(p)'
    <3> SUFFICES ASSUME NEW i \in 1 .. Len(t), NEW q \in pending'[p], Answers(t[i]), q.req = t[i].req
                 PROVE  Fits(t[i], q)
      BY <1>3 DEF Fitting
    <3>1. q \in pending[p]
      BY <1>6, <1>7
    <3> QED
      BY <1>2, <1>4, <1>8, <3>1 DEF Books, Fitting
  <2>5. TrueContents(p)'
    <3>1. \A i \in 1 .. Len(t) : Carries(t[i]) => t[i].block = ContentAt(t[i].cell, t[i].rev)
      BY <1>2, <1>4, <1>8 DEF Books, TrueContents
    <3>2. \A c, r : ContentAt(c, r)' = ContentAt(c, r)
      BY <1>1 DEF ContentAt
    <3> QED
      BY <1>3, <3>1, <3>2 DEF TrueContents
  <2>6. AcksReached(p)'
    <3> SUFFICES ASSUME NEW i \in 1 .. Len(t), t[i].kind = "EditAck", t[i].accepted
                 PROVE  Reached(t, known'[p], i, t[i].cell, t[i].rev)
      BY <1>3 DEF AcksReached
    <3>1. Reached(s, known[p], i + 1, t[i].cell, t[i].rev)
      BY <1>2, <1>4, <1>8 DEF Books, AcksReached
    <3>2. t[i] \in Frame
      BY ElementOfSeq
    <3>3. t[i].cell \in Cells /\ t[i].rev \in Nat
      BY <3>2, FrameFields
    <3> QED
      BY <1>11, <3>1, <3>3
  <2>7. Attends(p)'
    BY <1>1, <1>8 DEF Books, Attends
  <2> QED
    BY <2>1, <2>2, <2>3, <2>4, <2>5, <2>6, <2>7 DEF Books
<1>13. ASSUME NEW c \in Cells, Hopeless(p, c)
       PROVE  Hopeless(p, c)'
  <2>1. PICK q \in pending[p] :
            q.cell = c /\ q.kind # "Rejected" /\ q.req \notin ReqsIn(toServer[p]) \cup AnswersIn(s)
    BY <1>2, <1>13 DEF Hopeless
  <2>2. AnswersIn(t) \subseteq AnswersIn(s) /\ (Answers(m) => m.req \in AnswersIn(s))
    BY <1>2, <1>3, <1>4, AnswersTail
  <2>3. q \in pending'[p]
    BY <2>1, <2>2
  <2> QED
    BY <1>1, <1>3, <2>1, <2>2, <2>3 DEF Hopeless
<1>14. ASSUME NEW c \in Cells, Sane(p, c)
       PROVE  Sane(p, c)'
  <2>1. AnswersNewer(p, c)'
    <3> SUFFICES ASSUME NEW i \in 1 .. Len(t), NEW q \in pending'[p],
                        t[i].kind = "EditAck", q.req = t[i].req, q.cell = c
                 PROVE  Reached(t, known'[p], i, c, q.base + 1)
      BY <1>3 DEF AnswersNewer
    <3>1. q \in pending[p]
      BY <1>6, <1>7 DEF Answers
    <3>2. Reached(s, known[p], i + 1, c, q.base + 1)
      BY <1>2, <1>4, <1>14, <3>1 DEF Sane, AnswersNewer
    <3>3. q.base + 1 \in Nat
      BY <1>10, <3>1
    <3> QED
      BY <1>11, <3>2, <3>3
  <2>2. RejectedOlder(p, c)'
    <3> SUFFICES ASSUME NEW q \in pending'[p], q.kind = "Rejected", q.cell = c
                 PROVE  q.base < known'[p][c]
      BY DEF RejectedOlder
    <3>1. CASE q \in pending[p]
      <4>1. q.base < known[p][c]
        BY <1>14, <3>1 DEF Sane, RejectedOlder
      <4> QED
        BY <1>9, <1>10, <3>1, <4>1
    <3>2. ASSUME m.kind = "EditAck", NEW o \in pending[p], o.req = m.req, o.cell = q.cell, o.base = q.base
          PROVE  q.base < known'[p][c]
      <4>1. 1 \in 1 .. Len(toClient[p]) /\ m = toClient[p][1]
        BY <1>2, <1>4
      <4>2. Reached(toClient[p], known[p], 1, c, o.base + 1)
        BY <1>14, <3>2, <4>1 DEF Sane, AnswersNewer
      <4>3. 1 .. 1 - 1 = {}
        OBVIOUS
      <4>4. known[p][c] >= o.base + 1
        BY <4>2, <4>3 DEF Reached
      <4> QED
        BY <1>9, <1>10, <3>2, <4>4
    <3> QED
      BY <1>7, <3>1, <3>2
  <2>3. Chained(p, c)'
    BY <1>1, <1>14 DEF Sane, Chained, Rev
  <2>4. DecidedAbove(p, c)'
    BY <1>1, <1>7, <1>14 DEF Sane, DecidedAbove, Rev
  <2>5. NotRefusing(p, c)'
    BY <1>1, <1>14 DEF Sane, NotRefusing
  <2> QED
    BY <1>14, <2>1, <2>2, <2>3, <2>4, <2>5 DEF Sane
<1>15. \A q \in Clients \ {p} :
        Books(q)' /\ \A c \in Cells : Hopeless(q, c) \/ Sane(q, c) => Hopeless(q, c)' \/ Sane(q, c)'
  BY <1>1, AloneMirror DEF AllBooks
<1> QED
  BY <1>1, <1>12, <1>13, <1>14, <1>15 DEF AllBooks, AllTidy

(* What leaves no more than the newer content standing does not show.      *)
LEMMA NothingRestored ==
    ASSUME TypeOK, NEW p \in Clients, NEW reqs, NEW revs, Flush(p, reqs, revs), NEW c \in Cells,
           revs[c] \in Nat,
           \A q \in reqs : q.kind = "Rejected" /\ q.cell = c => q.base \in Nat /\ q.base < revs[c]
    PROVE  view'[p][c] = view[p][c]
<1>1. view'[p] = Restored(p, reqs, revs)
  BY DEF Flush, TypeOK, SessionTypeOK
<1>2. ~(c \in Lost(reqs) /\ \A q \in OnCell(reqs, c) : revs[c] <= q.base)
  <2> SUFFICES ASSUME c \in Lost(reqs), \A q \in OnCell(reqs, c) : revs[c] <= q.base
               PROVE  FALSE
    OBVIOUS
  <2>1. PICK q \in OnCell(reqs, c) : q.kind = "Rejected"
    BY DEF Lost
  <2> QED
    BY <2>1 DEF OnCell
<1> QED
  BY <1>1, <1>2 DEF Restored

(* Nothing older replaces what is confirmed.                               *)
LEMMA ConfirmIdle ==
    ASSUME SessionTypeOK, NEW p \in Clients, NEW c \in Cells, NEW r, ~(r > known[p][c])
    PROVE  Confirm(p, c, r) = known
BY DEF Confirm, SessionTypeOK

LEMMA PollMirror ==
    ASSUME ~ExpiryOn, IInv, InOrder, InSequence, UsesAwaited, AllBooks, AllTidy,
           UNCHANGED ledgerVars, NEW p \in Clients, Poll(p)
    PROVE  AllBooks' /\ AllTidy'
<1>1. TypeOK /\ SessionTypeOK /\ pending[p] \subseteq PendingReq /\ Books(p) /\ log' = log
  BY DEF IInv, TypeOK, SessionTypeOK, AllBooks, ledgerVars
<1>2. \A c, r : ContentAt(c, r)' = ContentAt(c, r)
  BY <1>1 DEF ContentAt
<1>3. \A c \in Cells : known[p][c] \in Nat
  BY <1>1 DEF SessionTypeOK
<1>4. ASSUME NEW kinds, Hears(p, kinds)
      PROVE  \E m \in Frame :
                /\ m = Head(toClient[p]) /\ m = toClient[p][1] /\ 1 \in 1 .. Len(toClient[p])
                /\ m.cell \in Cells /\ m.rev \in Nat /\ m.kind \in kinds
                /\ Carries(m) => known[p][m.cell] < m.rev /\ m.block = ContentAt(m.cell, m.rev)
  <2>1. toClient[p] # <<>> /\ p \in connected /\ toClient[p] \in Seq(Frame) /\ Head(toClient[p]).kind \in kinds
    BY <1>1, <1>4 DEF Hears, TypeOK, WireTypeOK
  <2>2. PICK m \in Frame : m = Head(toClient[p]) /\ m = toClient[p][1] /\ 1 \in 1 .. Len(toClient[p])
    BY <2>1, TailIs
  <2>3. m.cell \in Cells /\ m.rev \in Nat
    BY FrameFields
  <2>4. Carries(m) => known[p][m.cell] < m.rev
    BY <2>1, <2>2 DEF InOrder, Ordered
  <2>5. Carries(m) => m.block = ContentAt(m.cell, m.rev)
    BY <1>1, <2>2 DEF Books, TrueContents
  <2> QED
    BY <2>1, <2>2, <2>3, <2>4, <2>5
<1>5. CASE HearContent(p)
  <2>1. Hears(p, {"Snapshot", "Edit"}) /\ pending' = pending
    BY <1>5 DEF HearContent
  <2>2. PICK m \in Frame :
            /\ m = Head(toClient[p]) /\ m.cell \in Cells /\ m.rev \in Nat /\ m.kind \in {"Snapshot", "Edit"}
            /\ Carries(m) => known[p][m.cell] < m.rev /\ m.block = ContentAt(m.cell, m.rev)
    BY <1>4, <2>1
  <2>3. Carries(m) /\ ~Answers(m) /\ m.kind # "EditAck"
    BY <2>2 DEF Carries, Answers
  <2>4. known' = [known EXCEPT ![p][m.cell] = m.rev] /\ view' = [view EXCEPT ![p][m.cell] = m.block]
    BY <1>5, <2>2, <2>3 DEF HearContent
  <2>5. /\ \A q \in Clients \ {p} : known'[q] = known[q] /\ view'[q] = view[q]
        /\ known'[p][m.cell] = m.rev /\ view'[p][m.cell] = m.block
        /\ \A c \in Cells \ {m.cell} : known'[p][c] = known[p][c] /\ view'[p][c] = view[p][c]
    BY <1>1, <2>2, <2>4 DEF SessionTypeOK
  <2>6. \A c \in Cells : Sane(p, c) => ShowsOrPredicts(p, c)'
    BY <1>2, <2>1, <2>2, <2>3, <2>5 DEF Sane, ShowsOrPredicts
  <2>7. \A c \in Cells : known'[p][c] \in Nat /\ known[p][c] <= known'[p][c]
    BY <1>3, <2>2, <2>3, <2>5
  <2>8. Carries(m) => m.rev <= known'[p][m.cell]
    BY <2>2, <2>5
  <2> QED
    BY <2>1, <2>2, <2>3, <2>5, <2>6, <2>7, <2>8, HeardMirror
<1>6. CASE HearTool(p)
  <2>1. Hears(p, {"ToolResult"})
    BY <1>6 DEF HearTool
  <2>2. PICK m \in Frame :
            /\ m = Head(toClient[p]) /\ m = toClient[p][1] /\ 1 \in 1 .. Len(toClient[p])
            /\ m.cell \in Cells /\ m.rev \in Nat /\ m.kind = "ToolResult"
            /\ Carries(m) => known[p][m.cell] < m.rev /\ m.block = ContentAt(m.cell, m.rev)
    BY <1>4, <2>1
  <2>3. Matching(p, m) # {}
    <3>1. m.req \in UsesIn(toClient[p]) /\ p \in connected
      BY <1>1, <2>1, <2>2, UsesTail DEF Hears, TypeOK, WireTypeOK
    <3>2. m.req \in AwaitedBy(p)
      BY <3>1 DEF UsesAwaited, Uses
    <3> QED
      BY <3>2 DEF AwaitedBy, Matching
  <2>4. pending' = [pending EXCEPT ![p] = @ \ Matching(p, m)]
    BY <1>6, <2>2 DEF HearTool
  <2>5. /\ \A q \in Clients \ {p} : pending'[q] = pending[q]
        /\ pending'[p] = pending[p] \ Matching(p, m)
    BY <1>1, <2>4 DEF SessionTypeOK
  <2>6. Carries(m) <=> m.reacted
    BY <2>2 DEF Carries
  <2>7. Answers(m) /\ \A q \in pending[p] : q.req = m.req => q.kind = "Tool"
    BY <1>1, <2>2 DEF Answers, Books, Fitting, Fits
  <2>8. \A q \in pending[p] : q \in pending'[p] <=> q.req # m.req
    BY <2>5 DEF Matching
  <2>9. /\ \A q \in Clients \ {p} : known'[q] = known[q] /\ view'[q] = view[q]
        /\ \A c \in Cells : IF m.reacted /\ c = m.cell THEN known'[p][c] = m.rev /\ view'[p][c] = m.block
                            ELSE known'[p][c] = known[p][c] /\ view'[p][c] = view[p][c]
    <3>1. CASE ~m.reacted
      <4>1. UNCHANGED <<known, view>>
        BY <1>6, <2>2, <3>1 DEF HearTool
      <4> QED
        BY <3>1, <4>1
    <3>2. CASE m.reacted
      <4>1. known' = Confirm(p, m.cell, m.rev) /\ view' = [view EXCEPT ![p][m.cell] = m.block]
        BY <1>6, <2>2, <2>3, <3>2 DEF HearTool
      <4>2. m.rev > known[p][m.cell]
        BY <1>3, <2>2, <2>6, <3>2
      <4> QED
        BY <1>1, <2>2, <3>2, <4>1, <4>2 DEF Confirm, SessionTypeOK
    <3> QED
      BY <3>1, <3>2
  <2>10. ASSUME NEW c \in Cells, Sane(p, c)
         PROVE  ShowsOrPredicts(p, c)'
    <3>1. CASE m.reacted /\ c = m.cell
      BY <1>2, <2>2, <2>6, <2>9, <3>1 DEF ShowsOrPredicts
    <3>2. CASE ~(m.reacted /\ c = m.cell)
      BY <1>2, <2>7, <2>8, <2>9, <2>10, <3>2 DEF Sane, ShowsOrPredicts
    <3> QED
      BY <3>1, <3>2
  <2>11. \A c \in Cells : known'[p][c] \in Nat /\ known[p][c] <= known'[p][c]
    BY <1>3, <2>2, <2>6, <2>9
  <2>12. Carries(m) => m.rev <= known'[p][m.cell]
    BY <2>2, <2>6, <2>9
  <2>13. \A q \in pending'[p] :
            \/ q \in pending[p] /\ (Answers(m) => q.req # m.req)
            \/ m.kind = "EditAck" /\ q.req = m.req /\ \E o \in pending[p] : Rejects(o, q)
    BY <2>5, <2>8
  <2>14. \A q \in pending[p] : q.kind # "Rejected" /\ (Answers(m) => q.req # m.req) => q \in pending'[p]
    BY <2>7, <2>8
  <2>15. \A q \in Clients \ {p} : pending'[q] = pending[q] /\ known'[q] = known[q] /\ view'[q] = view[q]
    BY <2>5, <2>9
  <2>16. \A c \in Cells : Sane(p, c) => ShowsOrPredicts(p, c)'
    BY <2>10
  <2> QED
    BY <2>1, <2>2, <2>11, <2>12, <2>13, <2>14, <2>15, <2>16, HeardMirror
<1>7. CASE HearAck(p)
  <2>1. Hears(p, {"EditAck"})
    BY <1>7 DEF HearAck
  <2>2. PICK m \in Frame :
            /\ m = Head(toClient[p]) /\ m = toClient[p][1] /\ 1 \in 1 .. Len(toClient[p])
            /\ m.cell \in Cells /\ m.rev \in Nat /\ m.kind = "EditAck"
    BY <1>4, <2>1
  <2>3. ~Carries(m) /\ Answers(m)
    BY <2>2 DEF Carries, Answers
  <2>4. 1 .. 1 - 1 = {}
    OBVIOUS
  <2>5. m.accepted => m.rev <= known[p][m.cell]
    BY <1>1, <1>3, <2>2, <2>4 DEF Books, AcksReached, Reached
  <2>6. \A q \in pending[p], c \in Cells : Sane(p, c) /\ q.req = m.req /\ q.cell = c => q.base < known[p][c]
    <3> SUFFICES ASSUME NEW q \in pending[p], NEW c \in Cells, Sane(p, c), q.req = m.req, q.cell = c
                 PROVE  q.base < known[p][c]
      OBVIOUS
    <3>1. Reached(toClient[p], known[p], 1, c, q.base + 1)
      BY <2>2 DEF Sane, AnswersNewer
    <3>2. q.base \in Nat
      BY <1>1 DEF PendingReq
    <3> QED
      BY <1>3, <2>4, <3>1, <3>2 DEF Reached
  <2>0. PICK mine : mine = Matching(p, m)
    OBVIOUS
  <2>7. mine = Matching(p, m) /\ mine \subseteq pending[p] /\ \A q \in pending[p] : q \in mine <=> q.req = m.req
    BY <2>0 DEF Matching
  <2>8. \/ mine = {} /\ UNCHANGED <<known, view, pending>>
        \/ \E reqs :
            /\ Flush(p, reqs, known[p]) /\ known' = known
            /\ \A q \in reqs : (q \in pending[p] /\ q \notin mine) \/ \E o \in mine : Rejects(o, q)
            /\ pending[p] \ mine \subseteq reqs
    <3>1. CASE mine # {} /\ m.accepted
      <4>1. known' = Confirm(p, m.cell, m.rev) /\ Flush(p, pending[p] \ mine, known'[p])
        BY <1>7, <2>2, <2>7, <3>1 DEF HearAck
      <4>2. known' = known
        <5>1. ~(m.rev > known[p][m.cell])
          BY <1>3, <2>2, <2>5, <3>1
        <5>2. Confirm(p, m.cell, m.rev) = known
          BY <1>1, <2>2, <5>1, ConfirmIdle
        <5> QED
          BY <4>1, <5>2
      <4>3. Flush(p, pending[p] \ mine, known[p])
        BY <4>1, <4>2
      <4> QED
        BY <4>2, <4>3
    <3>2. CASE mine # {} /\ ~m.accepted
      <4>1. PICK reqs : reqs = (pending[p] \ mine) \cup {[q EXCEPT !.kind = "Rejected"] : q \in mine}
        OBVIOUS
      <4>2. known' = known /\ Flush(p, reqs, known[p])
        BY <1>7, <2>2, <2>7, <3>2, <4>1 DEF HearAck
      <4>3. \A q \in reqs : (q \in pending[p] /\ q \notin mine) \/ \E o \in mine : Rejects(o, q)
        BY <4>1 DEF Rejects
      <4> QED
        BY <4>1, <4>2, <4>3
    <3>3. CASE mine = {}
      BY <1>7, <2>2, <2>7, <3>3 DEF HearAck
    <3> QED
      BY <3>1, <3>2, <3>3
  <2>9. CASE mine = {} /\ UNCHANGED <<known, view, pending>>
    <3>1. \A c \in Cells : Sane(p, c) => ShowsOrPredicts(p, c)'
      BY <1>2, <2>9 DEF Sane, ShowsOrPredicts
    <3>2. \A c \in Cells : known'[p][c] \in Nat /\ known[p][c] <= known'[p][c]
      BY <1>3, <2>9
    <3> QED
      BY <2>1, <2>2, <2>3, <2>7, <2>9, <3>1, <3>2, HeardMirror
  <2>10. ASSUME NEW reqs, Flush(p, reqs, known[p]), known' = known,
                \A q \in reqs : (q \in pending[p] /\ q \notin mine) \/ \E o \in mine : Rejects(o, q),
                pending[p] \ mine \subseteq reqs
         PROVE  AllBooks' /\ AllTidy'
    <3>1. /\ pending'[p] = {q \in reqs : q.cell \notin Lost(reqs)}
          /\ \A q \in Clients \ {p} : pending'[q] = pending[q] /\ view'[q] = view[q] /\ known'[q] = known[q]
      BY <1>1, <2>10, FlushFrom DEF Flush, SessionTypeOK
    <3>2. \A q \in reqs :
            \/ q \in pending[p] /\ q.req # m.req
            \/ /\ q.req = m.req /\ q.kind = "Rejected"
               /\ \E o \in pending[p] : Rejects(o, q) /\ o.req = m.req /\ o.cell = q.cell /\ o.base = q.base
      <4> SUFFICES ASSUME NEW q \in reqs, NEW o \in mine, Rejects(o, q)
                   PROVE  /\ q.req = m.req /\ q.kind = "Rejected"
                          /\ o \in pending[p] /\ o.req = m.req /\ o.cell = q.cell /\ o.base = q.base
        BY <2>7, <2>10
      <4>1. o \in PendingReq /\ o \in pending[p] /\ o.req = m.req
        BY <1>1, <2>7
      <4> QED
        BY <4>1, RejectsIs
    <3>3. \A q \in pending[p] : q.kind # "Rejected" /\ q.req # m.req => q \in pending'[p]
      BY <2>7, <2>10, <3>1 DEF Lost, OnCell
    <3>4. ASSUME NEW c \in Cells, Sane(p, c)
          PROVE  ShowsOrPredicts(p, c)'
      <4>1. \A q \in reqs : q.kind = "Rejected" /\ q.cell = c => q.base \in Nat /\ q.base < known[p][c]
        <5> SUFFICES ASSUME NEW q \in reqs, q.kind = "Rejected", q.cell = c
                     PROVE  q.base \in Nat /\ q.base < known[p][c]
          OBVIOUS
        <5>1. CASE q \in pending[p]
          BY <1>1, <3>4, <5>1 DEF Sane, RejectedOlder, PendingReq
        <5>2. ASSUME NEW o \in pending[p], o.req = m.req, o.cell = q.cell, o.base = q.base
              PROVE  q.base \in Nat /\ q.base < known[p][c]
          BY <1>1, <2>6, <3>4, <5>2 DEF PendingReq
        <5> QED
          BY <3>2, <5>1, <5>2
      <4>2. view'[p][c] = view[p][c]
        <5>1. PICK revs : revs = known[p]
          OBVIOUS
        <5> QED
          BY <1>1, <1>3, <2>10, <4>1, <5>1, NothingRestored
      <4>3. CASE view[p][c] = ContentAt(c, known[p][c])
        BY <1>2, <2>10, <4>2, <4>3 DEF ShowsOrPredicts
      <4>4. ASSUME NEW q \in pending[p], q.cell = c, q.kind = "Edit", q.base = known[p][c]
            PROVE  ShowsOrPredicts(p, c)'
        <5>1. q.req # m.req
          BY <1>3, <2>6, <3>4, <4>4
        <5> QED
          BY <2>10, <3>3, <4>4, <5>1 DEF ShowsOrPredicts
      <4> QED
        BY <3>4, <4>3, <4>4 DEF Sane, ShowsOrPredicts
    <3>5. \A c \in Cells : known'[p][c] \in Nat /\ known[p][c] <= known'[p][c]
      BY <1>3, <2>10
    <3>6. \A q \in pending'[p] :
            \/ q \in pending[p] /\ (Answers(m) => q.req # m.req)
            \/ m.kind = "EditAck" /\ q.req = m.req /\ \E o \in pending[p] : Rejects(o, q)
      BY <2>2, <3>1, <3>2
    <3> QED
      BY <2>1, <2>2, <2>3, <3>1, <3>3, <3>4, <3>5, <3>6, HeardMirror
  <2> QED
    BY <2>8, <2>9, <2>10
<1>8. ASSUME NEW old \in Nat, EndPoll(p, old)
      PROVE  AllBooks' /\ AllTidy'
  <2>1. /\ old = 0 /\ UNCHANGED <<connected, toServer, toClient, known>>
        /\ kicked' = kicked /\ connected \subseteq Clients
    BY <1>1, <1>8 DEF EndPoll, wire, ledgerVars, TypeOK, WireTypeOK
  <2>2. \A q \in pending[p] : q.req # 0
    <3>1. PICK g \in Nat : Counted(p, g)
      BY DEF InSequence
    <3>2. nextReq[p] \in Nat
      BY <1>1 DEF SessionTypeOK
    <3> QED
      BY <3>1, <3>2 DEF Counted
  <2>3. Aged(p, old) = {}
    BY <1>1, <2>1, <2>2 DEF Aged, PendingReq
  <2>4. Flush(p, pending[p], known[p])
    <3>1. PICK none : none = {} /\ none = {q \in Aged(p, old) : q.kind = "Tool"} /\ none = {q \in Aged(p, old) : q.kind = "Edit"}
      BY <2>3
    <3>2. Flush(p, (pending[p] \ (none \cup none)) \cup {[q EXCEPT !.kind = "Rejected"] : q \in none}, known[p])
      BY <1>8, <3>1 DEF EndPoll
    <3>3. (pending[p] \ (none \cup none)) \cup {[q EXCEPT !.kind = "Rejected"] : q \in none} = pending[p]
      BY <3>1
    <3> QED
      BY <3>2, <3>3
  <2>5. /\ pending'[p] = {q \in pending[p] : q.cell \notin Lost(pending[p])}
        /\ \A q \in Clients \ {p} : pending'[q] = pending[q] /\ view'[q] = view[q]
    BY <1>1, <2>4, FlushFrom DEF Flush, SessionTypeOK
  <2>6. \A q \in pending[p] : q.kind # "Rejected" => q \in pending'[p]
    BY <2>5 DEF Lost, OnCell
  <2>7. pending'[p] \subseteq pending[p]
    BY <2>5
  <2>8. /\ \A c : Rev(c)' = Rev(c)
        /\ phase' = phase
    BY <1>1 DEF Rev, ledgerVars
  <2>9. Books(p)'
    <3>1. Distinct(p)' /\ Based(p)'
      BY <1>1, <2>1, <2>7 DEF Books, Distinct, Based
    <3>2. Awaits(p)'
      BY <1>1, <2>1, <2>6 DEF Books, Awaits, Asks
    <3>3. Fitting(p)'
      BY <1>1, <2>1, <2>7 DEF Books, Fitting
    <3>4. TrueContents(p)' /\ AcksReached(p)' /\ Attends(p)'
      BY <1>1, <1>2, <2>1, <2>8 DEF Books, TrueContents, AcksReached, Attends
    <3> QED
      BY <3>1, <3>2, <3>3, <3>4 DEF Books
  <2>10. ASSUME NEW c \in Cells, Hopeless(p, c)
         PROVE  Hopeless(p, c)'
    BY <2>1, <2>6, <2>10 DEF Hopeless
  <2>11. ASSUME NEW c \in Cells, Sane(p, c)
         PROVE  Sane(p, c)'
    <3>1. AnswersNewer(p, c)'
      BY <2>1, <2>7, <2>11 DEF Sane, AnswersNewer
    <3>2. RejectedOlder(p, c)'
      BY <2>1, <2>7, <2>11 DEF Sane, RejectedOlder
    <3>3. Chained(p, c)' /\ NotRefusing(p, c)'
      BY <2>1, <2>8, <2>11 DEF Sane, Chained, NotRefusing
    <3>4. DecidedAbove(p, c)'
      BY <2>1, <2>7, <2>8, <2>11 DEF Sane, DecidedAbove
    <3>5. ShowsOrPredicts(p, c)'
      <4>1. \A q \in pending[p] : q.kind = "Rejected" /\ q.cell = c => q.base \in Nat /\ q.base < known[p][c]
        BY <1>1, <2>11 DEF Sane, RejectedOlder, PendingReq
      <4>2. PICK reqs, revs : reqs = pending[p] /\ revs = known[p]
        OBVIOUS
      <4>3. view'[p][c] = view[p][c]
        BY <1>1, <1>3, <2>4, <4>1, <4>2, NothingRestored
      <4> QED
        BY <1>2, <2>1, <2>6, <2>11, <4>3 DEF Sane, ShowsOrPredicts
    <3> QED
      BY <3>1, <3>2, <3>3, <3>4, <3>5 DEF Sane
  <2>12. \A q \in Clients \ {p} :
            Books(q)' /\ \A c \in Cells : Hopeless(q, c) \/ Sane(q, c) => Hopeless(q, c)' \/ Sane(q, c)'
    BY <2>1, <2>5, AloneMirror DEF AllBooks
  <2> QED
    BY <2>1, <2>9, <2>10, <2>11, <2>12 DEF AllBooks, AllTidy
<1>9. nextReq[p] \in Nat
  BY <1>1 DEF SessionTypeOK
<1>10. \A old \in 0 .. nextReq[p] : old \in Nat
  BY <1>9
<1> QED
  BY <1>5, <1>6, <1>7, <1>8, <1>10 DEF Poll

LEMMA InitMirror ==
    ASSUME Init
    PROVE  AllBooks /\ AllTidy
<1>1. /\ \A p \in Clients : toServer[p] = <<>> /\ toClient[p] = <<>> /\ pending[p] = {} /\ phase[p] = "idle"
      /\ \A p \in Clients, c \in Cells : known[p][c] = 0 /\ view[p][c] = Generated[c]
      /\ connected = Clients
  BY DEF Init, WireInit, LedgerInit, SessionInit
<1>2. 1 .. Len(<<>>) = {}
  BY EmptySeq
<1>3. ASSUME NEW p \in Clients
      PROVE  Books(p)
  BY <1>1, <1>2, <1>3 DEF Books, Distinct, Based, Awaits, Fitting, TrueContents, AcksReached, Attends
<1>4. ASSUME NEW p \in Clients, NEW c \in Cells
      PROVE  Sane(p, c)
  <2>1. AnswersNewer(p, c) /\ RejectedOlder(p, c) /\ Chained(p, c) /\ DecidedAbove(p, c)
    BY <1>1, <1>2, <1>4 DEF AnswersNewer, RejectedOlder, Chained, DecidedAbove
  <2>2. NotRefusing(p, c) /\ ShowsOrPredicts(p, c)
    BY <1>1, <1>4 DEF NotRefusing, ShowsOrPredicts, ContentAt
  <2> QED
    BY <2>1, <2>2 DEF Sane
<1> QED
  BY <1>1, <1>3, <1>4 DEF AllBooks, AllTidy

LEMMA NextMirror ==
    ASSUME ~ExpiryOn, ~MayRefuse, IsFiniteSet(Blocks), Cardinality(Blocks) <= MaxSpecPool,
           IInv, InOrder, HeldBack, InSequence, UsesAwaited, AllInformed, AllBooks, AllTidy, [Next]_vars
    PROVE  AllBooks' /\ AllTidy'
<1>1. OnlyStale
  BY RoomForAll DEF IInv
<1>2. CASE ServerStep
  <2>1. UNCHANGED sessionVars
    BY <1>2 DEF ServerStep
  <2> QED
    BY <1>1, <1>2, <2>1, HandlerMirror, DepartMirror, TickMirror DEF ServerStep
<1>3. CASE ClientStep
  BY <1>3, PlayerMirror, PollMirror DEF ClientStep
<1>4. CASE UNCHANGED vars
  <2>1. UNCHANGED ledgerVars /\ UNCHANGED <<connected, toServer, toClient, kicked, known, view, pending>>
    BY <1>4 DEF vars, wire, ledgerVars, sessionVars
  <2> QED
    BY <2>1, AloneMirror DEF AllBooks, AllTidy, IInv, TypeOK, WireTypeOK
<1> QED
  BY <1>2, <1>3, <1>4 DEF Next

(* Where the server refuses nothing but requests that come too late, and   *)
(* no request expires, a client with nothing in flight on a cell shows     *)
(* what the ledger held at the revision it confirmed: a chain of           *)
(* predictions that fails leaves nothing behind (flush_rejections).        *)
THEOREM RollbacksClean ==
    ASSUME ~ExpiryOn, ~MayRefuse, IsFiniteSet(Blocks), Cardinality(Blocks) <= MaxSpecPool
    PROVE  Spec => []MirrorFaithful
<1>1. Init => AllBooks /\ AllTidy
  BY InitMirror
<1>2. /\ IInv /\ InOrder /\ HeldBack /\ InSequence /\ UsesAwaited /\ AllInformed /\ AllBooks /\ AllTidy
      /\ [Next]_vars
      => AllBooks' /\ AllTidy'
  BY NextMirror
<1>3. AllTidy => MirrorFaithful
  BY TidyIs
<1>4. Init => UsesAwaited /\ AllInformed
  BY InitInformed
<1>5. IInv /\ InOrder /\ InSequence /\ UsesAwaited /\ AllInformed /\ [Next]_vars => UsesAwaited' /\ AllInformed'
  BY NextInformed
<1>6. Init => InOrder /\ HeldBack
  BY InitOrdered
<1>7. IInv /\ InOrder /\ HeldBack /\ [Next]_vars => InOrder' /\ HeldBack'
  BY NextOrdered
<1>8. Init => InSequence /\ AllTrue
  BY InitSent
<1>9. TypeOK /\ InSequence /\ AllTrue /\ [Next]_vars => InSequence' /\ AllTrue'
  BY NextSent
<1> QED
  BY <1>1, <1>2, <1>3, <1>4, <1>5, <1>6, <1>7, <1>8, <1>9, InvariantHolds, TypeCorrect, PTL DEF Spec
=============================================================================
