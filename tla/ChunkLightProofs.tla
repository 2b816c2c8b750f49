-------------------------- MODULE ChunkLightProofs --------------------------
(***************************************************************************)
(* Theorems of ChunkLight, for any row of chunks, landscapes, edits and    *)
(* bounds: the types, that a claim of the light lane has one owner, that a *)
(* quiet lane is a settled field, and that a settled field is the true one.*)
(***************************************************************************)
EXTENDS ChunkLight, FiniteSetTheorems, SequenceTheorems, WellFoundedInduction, TLAPS

-----------------------------------------------------------------------------
(* The operators of the model keep their types. *)

LEMMA FloodTyped ==
  ASSUME NEW row, NEW shell
  PROVE  Flood(row, shell) \in Grids
<1>1. MaxLight \in Nat /\ MaxLight > 0
  BY LightAssumption
<1>2. ASSUME NEW S \in SUBSET (1..MaxLight) PROVE Cardinality(S) \in Levels
  <2>1. IsFiniteSet(1..MaxLight) /\ Cardinality(1..MaxLight) = MaxLight
    BY <1>1, FS_Interval
  <2>2. IsFiniteSet(S) /\ Cardinality(S) <= MaxLight
    BY <2>1, FS_Subset
  <2>3. Cardinality(S) \in Nat
    BY <2>2, FS_CardinalityType
  <2> QED BY <1>1, <2>2, <2>3 DEF Levels
<1>3. MaxLight \in Levels
  BY <1>1 DEF Levels
<1>4. ASSUME NEW x PROVE BlockLight(row, shell, x) \in Levels
  BY <1>2 DEF BlockLight
<1>5. ASSUME NEW x PROVE SkyLight(row, shell, x) \in Levels
  BY <1>2, <1>3 DEF SkyLight
<1> QED BY <1>4, <1>5 DEF Flood, Grids, Lumels

LEMMA LightsTyped == Dark \in Grids /\ OpenSky \in Grids
<1>1. 0 \in Levels /\ MaxLight \in Levels
  BY LightAssumption DEF Levels
<1> QED BY <1>1 DEF Dark, OpenSky, DarkLumel, Grids, Lumels

LEMMA TrivialTyped ==
  ASSUME NEW c
  PROVE  TrivialLight(c) \subseteq Grids
BY LightsTyped DEF TrivialLight

LEMMA NeighboursTyped ==
  ASSUME NEW c
  PROVE  Neighbours(c) \subseteq Chunks /\ (c \in Chunks => c \notin Neighbours(c))
BY LightAssumption DEF Neighbours, Chunks

\* A sequence without its i-th element.
LEMMA RemovedAt ==
  ASSUME NEW S, NEW s \in Seq(S), NEW i \in 1..Len(s)
  PROVE  /\ RemoveAt(s, i) \in Seq(S)
         /\ Len(RemoveAt(s, i)) = Len(s) - 1
         /\ \A k \in 1..Len(s) - 1 :
              RemoveAt(s, i)[k] = IF k < i THEN s[k] ELSE s[k + 1]
<1>1. Len(s) \in Nat /\ \A k \in 1..Len(s) : s[k] \in S
  BY LenProperties, ElementOfSeq
<1> DEFINE front == SubSeq(s, 1, i - 1)
           back == SubSeq(s, i + 1, Len(s))
<1>2. front \in Seq(S) /\ Len(front) = i - 1 /\ \A k \in 1..i - 1 : front[k] = s[k]
  <2>1. 1 \in Int /\ i - 1 \in Int /\ \A k \in 1..i - 1 : s[k] \in S
    BY <1>1
  <2>2. /\ front \in Seq(S)
        /\ Len(front) = IF 1 <= i - 1 THEN (i - 1) - 1 + 1 ELSE 0
        /\ \A k \in 1..(i - 1) - 1 + 1 : front[k] = s[1 + k - 1]
    BY <2>1, SubSeqProperties
  <2> QED BY <1>1, <2>2
<1>3. /\ back \in Seq(S) /\ Len(back) = Len(s) - i
      /\ \A k \in 1..Len(s) - i : back[k] = s[i + k]
  <2>1. i + 1 \in Int /\ Len(s) \in Int /\ \A k \in i + 1..Len(s) : s[k] \in S
    BY <1>1
  <2>2. /\ back \in Seq(S)
        /\ Len(back) = IF i + 1 <= Len(s) THEN Len(s) - (i + 1) + 1 ELSE 0
        /\ \A k \in 1..Len(s) - (i + 1) + 1 : back[k] = s[(i + 1) + k - 1]
    BY <2>1, SubSeqProperties
  <2> QED BY <1>1, <2>2
<1>4. RemoveAt(s, i) = front \o back
  BY DEF RemoveAt
<1> HIDE DEF front, back
<1>5. /\ front \o back \in Seq(S)
      /\ Len(front \o back) = Len(front) + Len(back)
      /\ \A k \in 1..Len(front) + Len(back) :
           (front \o back)[k] = IF k <= Len(front) THEN front[k] ELSE back[k - Len(front)]
  BY <1>2, <1>3, ConcatProperties
<1>6. ASSUME NEW k \in 1..Len(s) - 1
      PROVE  (front \o back)[k] = IF k < i THEN s[k] ELSE s[k + 1]
  <2>1. CASE k < i
    BY <1>1, <1>2, <1>3, <1>5, <2>1
  <2>2. CASE ~(k < i)
    <3>1. (front \o back)[k] = back[k - (i - 1)]
      BY <1>1, <1>2, <1>3, <1>5, <2>2
    <3>2. k - (i - 1) \in 1..Len(s) - i
      BY <1>1, <2>2
    <3>3. back[k - (i - 1)] = s[i + (k - (i - 1))] /\ i + (k - (i - 1)) = k + 1
      BY <1>1, <1>3, <3>2
    <3> QED BY <2>2, <3>1, <3>3
  <2> QED BY <2>1, <2>2
<1> QED BY <1>1, <1>2, <1>3, <1>4, <1>5, <1>6

-----------------------------------------------------------------------------
(* Types. *)

\* What publishing a grid leaves well typed.
LEMMA SettleTyped ==
  ASSUME TypeOK, NEW c \in Chunks, NEW g \in Grids, Settle(c, g, reseed)
  PROVE  /\ inflight' = inflight \ {c}
         /\ grid' = [grid EXCEPT ![c] = g]
         /\ bright' \subseteq bright \cup {c}
         /\ worklist' \subseteq Chunks
         /\ reseed' \subseteq reseed \cup loaded
         /\ lightPending' \in BOOLEAN
         /\ untold' \subseteq untold \cup loaded
<1>1. /\ inflight' = inflight \ {c} /\ grid' = [grid EXCEPT ![c] = g]
      /\ bright' \subseteq bright \cup {c}
  BY DEF Settle
<1>2. Woken(c, g) \subseteq Chunks \cap loaded
  BY NeighboursTyped DEF Woken
<1>3. PassedOver(c, g) \subseteq loaded
  BY DEF PassedOver
<1>4. worklist' \subseteq Chunks
  BY <1>2 DEF Settle, TypeOK
<1>5. reseed' \subseteq reseed \cup loaded
  BY <1>2 DEF Settle
<1>6. lightPending' \in BOOLEAN
  BY DEF Settle, TypeOK
<1>7. untold' \subseteq untold \cup loaded
  BY <1>3 DEF Settle
<1> QED BY <1>1, <1>4, <1>5, <1>6, <1>7

LEMMA SeedTyped ==
  ASSUME TypeOK, NEW cs \in SUBSET Chunks, SeedLight(cs)
  PROVE  /\ worklist' \in SUBSET Chunks
         /\ reseed' \subseteq reseed
         /\ lightPending' \in BOOLEAN
BY DEF SeedLight, TypeOK

LEMMA InitTyped == Init => TypeOK
<1> SUFFICES ASSUME Init PROVE TypeOK
  OBVIOUS
<1>1. voxels \in [Chunks -> [Cells -> Blocks]]
  BY LightAssumption DEF Init
<1>2. <<>> \in Seq([at : Chunks, light : Grids])
  BY EmptySeq
<1>3. /\ strikes \in [Chunks -> 0..MaxStrikes] /\ epoch \in 0..upsets
      /\ edits \in 0..MaxEdits /\ upsets \in 0..MaxUpsets
      /\ residency \in [Chunks -> Nat]
  BY LightAssumption DEF Init
<1>4. grid \in [Chunks -> Grids \cup {NoGrid}] /\ \A c \in Chunks : grid[c] = NoGrid
  BY DEF Init
<1>5. /\ loaded = {} /\ bright = {} /\ worklist = {} /\ inflight = {} /\ reseed = {}
      /\ jobs = {} /\ untold = {} /\ queue = <<>>
      /\ lightPending \in BOOLEAN /\ lighting \in BOOLEAN
  BY DEF Init
<1> QED BY <1>1, <1>2, <1>3, <1>4, <1>5 DEF TypeOK

LEMMA StoreTyped ==
  ASSUME TypeOK, NEW c \in Chunks, Store(c)
  PROVE  TypeOK'
<1>1. /\ loaded' = loaded \cup {c} /\ residency' \in [Chunks -> Nat]
      /\ UNCHANGED <<voxels, jobs, switchVars, strikes, boundVars>>
      /\ c \notin loaded
  BY DEF Store, TypeOK
<1>2. grid[c] = NoGrid
  BY <1>1 DEF TypeOK
<1>3. /\ grid' \in [Chunks -> Grids \cup {NoGrid}] /\ bright' \subseteq bright \cup {c}
      /\ \A d \in Chunks : d # c => grid'[d] = grid[d]
      /\ worklist' \subseteq Chunks /\ inflight' \subseteq inflight
      /\ reseed' \subseteq reseed \cup loaded /\ lightPending' \in BOOLEAN
      /\ untold' \subseteq untold \cup loaded /\ queue' = queue
  <2>1. CASE ~lighting
    BY <2>1 DEF Store, TypeOK, fieldVars, laneVars
  <2>2. CASE lighting /\ (c \in inflight \/ TrivialLight(c) = {})
    <3>1. SeedLight({c}) /\ UNCHANGED <<fieldVars, inflight, queue, untold>>
      BY <2>2 DEF Store
    <3>2. /\ worklist' \in SUBSET Chunks /\ reseed' \subseteq reseed
          /\ lightPending' \in BOOLEAN
      BY <3>1, SeedTyped
    <3> QED BY <3>1, <3>2 DEF TypeOK, fieldVars
  <2>3. CASE lighting /\ ~(c \in inflight \/ TrivialLight(c) = {})
    <3>1. PICK g \in TrivialLight(c) : Settle(c, g, reseed) /\ UNCHANGED queue
      BY <2>3 DEF Store
    <3>2. g \in Grids
      BY TrivialTyped
    <3>3. /\ inflight' = inflight \ {c} /\ grid' = [grid EXCEPT ![c] = g]
          /\ bright' \subseteq bright \cup {c} /\ worklist' \subseteq Chunks
          /\ reseed' \subseteq reseed \cup loaded /\ lightPending' \in BOOLEAN
          /\ untold' \subseteq untold \cup loaded
      BY <3>1, <3>2, SettleTyped
    <3> QED BY <3>1, <3>2, <3>3 DEF TypeOK
  <2> QED BY <2>1, <2>2, <2>3
<1>4. \A d \in Chunks \ loaded' : grid'[d] = NoGrid /\ d \notin bright' \cup reseed' \cup untold'
  BY <1>1, <1>3 DEF TypeOK
<1>5. /\ loaded' \subseteq Chunks /\ bright' \subseteq Chunks /\ inflight' \subseteq Chunks
      /\ reseed' \subseteq Chunks /\ untold' \subseteq Chunks
  BY <1>1, <1>3 DEF TypeOK
<1> QED BY <1>1, <1>3, <1>4, <1>5 DEF TypeOK, switchVars, boundVars

LEMMA QueuedIs ==
  ASSUME TypeOK, NEW c, NEW i \in QueuedAt(c)
  PROVE  i \in 1..Len(queue) /\ queue[i].at = c
<1>1. DOMAIN queue = 1..Len(queue)
  BY LenProperties DEF TypeOK
<1> QED BY <1>1 DEF QueuedAt

LEMMA UnloadTyped ==
  ASSUME TypeOK, NEW c \in Chunks, Unload(c)
  PROVE  TypeOK'
<1>1. /\ queue' \in Seq([at : Chunks, light : Grids]) /\ inflight' \subseteq inflight
  <2>1. CASE QueuedAt(c) = {}
    BY <2>1 DEF Unload, TypeOK
  <2>2. CASE QueuedAt(c) # {}
    <3>1. PICK i \in QueuedAt(c) : queue' = RemoveAt(queue, i) /\ inflight' = inflight \ {c}
      BY <2>2 DEF Unload
    <3>2. i \in 1..Len(queue)
      BY <3>1, QueuedIs
    <3> QED BY <3>1, <3>2, RemovedAt DEF TypeOK
  <2> QED BY <2>1, <2>2
<1>2. /\ loaded' = loaded \ {c} /\ grid' = [grid EXCEPT ![c] = NoGrid]
      /\ bright' = bright \ {c} /\ worklist' = worklist \ {c} /\ reseed' = reseed \ {c}
      /\ untold' = (untold \cup (Neighbours(c) \cap loaded)) \ {c}
      /\ upsets < MaxUpsets /\ upsets' = upsets + 1
      /\ UNCHANGED <<voxels, residency, lightPending, jobs, switchVars, strikes, edits>>
  BY DEF Unload
<1>3. grid' \in [Chunks -> Grids \cup {NoGrid}] /\ grid'[c] = NoGrid
      /\ \A d \in Chunks : d # c => grid'[d] = grid[d]
  BY <1>2 DEF TypeOK
<1>4. \A d \in Chunks \ loaded' : grid'[d] = NoGrid /\ d \notin bright' \cup reseed' \cup untold'
  BY <1>2, <1>3 DEF TypeOK
<1>5. /\ loaded' \subseteq Chunks /\ bright' \subseteq Chunks /\ inflight' \subseteq Chunks
      /\ worklist' \subseteq Chunks /\ reseed' \subseteq Chunks /\ untold' \subseteq Chunks
  BY <1>1, <1>2 DEF TypeOK
<1>6. upsets' \in 0..MaxUpsets /\ epoch' \in 0..upsets'
  BY <1>2, LightAssumption DEF TypeOK, switchVars
<1> QED BY <1>1, <1>2, <1>3, <1>4, <1>5, <1>6 DEF TypeOK, switchVars

LEMMA EditTyped ==
  ASSUME TypeOK, NEW e \in Edits, Edit(e[1], e[2], e[3])
  PROVE  TypeOK'
<1>1. e[1] \in Chunks /\ e[2] \in Cells /\ e[3] \in Blocks
  BY LightAssumption
<1>2. /\ voxels' = [voxels EXCEPT ![e[1]][e[2]] = e[3]] /\ edits < MaxEdits /\ edits' = edits + 1
      /\ UNCHANGED <<loaded, residency, fieldVars, inflight, queue, jobs, switchVars, strikes,
                     upsets, untold>>
  BY DEF Edit
<1>3. worklist' \in SUBSET Chunks /\ reseed' \subseteq reseed /\ lightPending' \in BOOLEAN
  <2>1. PICK cs \in SUBSET Chunks : SeedLight(cs)
    BY DEF Edit, TypeOK
  <2> QED BY <2>1, SeedTyped
<1>4. voxels' \in [Chunks -> [Cells -> Blocks]]
  BY <1>1, <1>2 DEF TypeOK
<1>5. edits' \in 0..MaxEdits
  BY <1>2, LightAssumption DEF TypeOK
<1> QED BY <1>2, <1>3, <1>4, <1>5 DEF TypeOK, fieldVars, switchVars

LEMMA LaneTyped ==
  ASSUME TypeOK, NEW c \in Chunks, Submit(c) \/ DropSeed(c) \/ LaneIdle
  PROVE  TypeOK'
<1>1. CASE Submit(c)
  <2>1. /\ worklist' = worklist \ {c} /\ lightPending' \in BOOLEAN
        /\ inflight' = inflight \cup {c} /\ jobs' = jobs \cup {Flight(c)}
        /\ untold' = untold \ {c}
        /\ UNCHANGED <<voxels, loaded, residency, fieldVars, reseed, queue, switchVars, strikes,
                       boundVars>>
    BY <1>1 DEF Submit, Taken
  <2>2. epoch \in 0..MaxUpsets /\ residency[c] \in Nat
    BY LightAssumption DEF TypeOK
  <2>3. Flight(c) \in Flights
    BY <2>2, FloodTyped DEF Flight, Flights
  <2> QED BY <2>1, <2>3 DEF TypeOK, fieldVars, switchVars, boundVars
<1>2. CASE DropSeed(c)
  BY <1>2 DEF DropSeed, Taken, TypeOK, fieldVars, switchVars, boundVars
<1>3. CASE LaneIdle
  BY <1>3 DEF LaneIdle, TypeOK, fieldVars, switchVars, boundVars
<1> QED BY <1>1, <1>2, <1>3

\* What the main thread does with a finished flood, claims apart.
LEMMA AcceptTyped ==
  ASSUME TypeOK, NEW j \in jobs, Accept(j)
  PROVE  /\ worklist' \subseteq Chunks /\ inflight' \subseteq inflight
         /\ reseed' \subseteq reseed /\ lightPending' \in BOOLEAN
         /\ queue' \in Seq([at : Chunks, light : Grids])
<1>1. j.at \in Chunks /\ j.light \in Grids
  BY DEF TypeOK, Flights
<1>2. CASE j.epoch # epoch
  BY <1>2 DEF Accept, laneVars, TypeOK
<1>3. CASE j.epoch = epoch /\ (j.at \notin loaded \/ j.of # residency[j.at])
  <2>1. inflight' = inflight \ {j.at} /\ queue' = queue /\ SeedLight({j.at} \cap loaded)
    BY <1>3 DEF Accept
  <2>2. {j.at} \cap loaded \in SUBSET Chunks
    BY <1>1
  <2>3. worklist' \in SUBSET Chunks /\ reseed' \subseteq reseed /\ lightPending' \in BOOLEAN
    BY <2>1, <2>2, SeedTyped
  <2> QED BY <2>1, <2>3 DEF TypeOK
<1>4. CASE j.epoch = epoch /\ ~(j.at \notin loaded \/ j.of # residency[j.at])
  <2>1. /\ queue' = Append(queue, [at |-> j.at, light |-> j.light])
        /\ UNCHANGED <<worklist, lightPending, reseed, inflight>>
    BY <1>4 DEF Accept
  <2>2. [at |-> j.at, light |-> j.light] \in [at : Chunks, light : Grids]
    BY <1>1
  <2>3. queue' \in Seq([at : Chunks, light : Grids])
    BY <2>1, <2>2 DEF TypeOK
  <2> QED BY <2>1, <2>3 DEF TypeOK
<1> QED BY <1>2, <1>3, <1>4

LEMMA IntegrateTyped ==
  ASSUME TypeOK, NEW c \in Chunks, Integrate(c)
  PROVE  TypeOK'
<1>1. PICK j \in jobs :
        /\ jobs' = jobs \ {j} /\ Accept(j)
        /\ UNCHANGED <<voxels, loaded, residency, fieldVars, switchVars, strikes, boundVars,
                       untold>>
  BY DEF Integrate
<1>2. /\ worklist' \subseteq Chunks /\ inflight' \subseteq inflight
      /\ reseed' \subseteq reseed /\ lightPending' \in BOOLEAN
      /\ queue' \in Seq([at : Chunks, light : Grids])
  BY <1>1, AcceptTyped
<1> QED BY <1>1, <1>2 DEF TypeOK, fieldVars, switchVars, boundVars

LEMMA ApplyTyped ==
  ASSUME TypeOK, Apply
  PROVE  TypeOK'
<1> DEFINE entry == Head(queue)
<1>1. /\ entry.at \in Chunks /\ entry.light \in Grids
      /\ queue' \in Seq([at : Chunks, light : Grids])
  <2>1. /\ entry \in [at : Chunks, light : Grids]
        /\ Tail(queue) \in Seq([at : Chunks, light : Grids])
    BY HeadTailProperties DEF Apply, TypeOK
  <2> QED BY <2>1 DEF Apply
<1>2. UNCHANGED <<voxels, loaded, residency, jobs, switchVars, strikes, boundVars>>
  BY DEF Apply
<1>3. CASE entry.at \in loaded
  <2>1. Settle(entry.at, entry.light, reseed)
    BY <1>3 DEF Apply
  <2> HIDE DEF entry
  <2>2. /\ inflight' = inflight \ {entry.at}
        /\ grid' = [grid EXCEPT ![entry.at] = entry.light]
        /\ bright' \subseteq bright \cup {entry.at}
        /\ worklist' \subseteq Chunks
        /\ reseed' \subseteq reseed \cup loaded
        /\ lightPending' \in BOOLEAN
        /\ untold' \subseteq untold \cup loaded
    BY <1>1, <2>1, SettleTyped
  <2>3. grid' \in [Chunks -> Grids \cup {NoGrid}]
        /\ \A d \in Chunks \ loaded : grid'[d] = NoGrid /\ d \notin bright' \cup reseed' \cup untold'
    BY <1>1, <1>3, <2>2 DEF TypeOK
  <2>4. /\ inflight' \subseteq Chunks /\ bright' \subseteq Chunks /\ reseed' \subseteq Chunks
        /\ untold' \subseteq Chunks
    BY <1>1, <2>2 DEF TypeOK
  <2> QED BY <1>1, <1>2, <2>2, <2>3, <2>4 DEF TypeOK, switchVars, boundVars
<1>4. CASE entry.at \notin loaded
  <2>1. /\ inflight' = inflight \ {entry.at}
        /\ UNCHANGED <<fieldVars, worklist, lightPending, reseed, untold>>
    BY <1>4 DEF Apply
  <2> QED BY <1>1, <1>2, <2>1 DEF TypeOK, fieldVars, switchVars, boundVars
<1> QED BY <1>3, <1>4

LEMMA LoseTyped ==
  ASSUME TypeOK, NEW j \in jobs, Lose(j)
  PROVE  TypeOK'
<1>1. /\ upsets < MaxUpsets /\ upsets' = upsets + 1
      /\ jobs' = jobs \ {j} /\ inflight' = inflight \ {j.at}
      /\ UNCHANGED <<voxels, loaded, residency, fieldVars, queue, switchVars, edits, untold>>
  BY DEF Lose
<1>2. j.at \in Chunks
  BY DEF TypeOK, Flights
<1>3. /\ worklist' \in SUBSET Chunks /\ reseed' \subseteq reseed /\ lightPending' \in BOOLEAN
      /\ strikes' \in [Chunks -> 0..MaxStrikes]
  <2>1. CASE Cancelled(j.at) /\ UNCHANGED strikes
    BY <1>2, <2>1, SeedTyped DEF Cancelled, TypeOK
  <2>2. CASE Failed(j.at)
    <3>1. PICK cs \in SUBSET Chunks : SeedLight(cs)
      BY <1>2, <2>2 DEF Failed
    <3>2. strikes' \in [Chunks -> 0..MaxStrikes]
      BY <1>2, <2>2, LightAssumption DEF Failed, TypeOK
    <3> QED BY <3>1, <3>2, SeedTyped
  <2> QED BY <2>1, <2>2 DEF Lose
<1>4. upsets' \in 0..MaxUpsets /\ epoch' \in 0..upsets'
  BY <1>1, LightAssumption DEF TypeOK, switchVars
<1> QED BY <1>1, <1>3, <1>4 DEF TypeOK, fieldVars, switchVars

LEMMA SwitchTyped ==
  ASSUME TypeOK, SwitchLighting
  PROVE  TypeOK'
<1>1. /\ upsets < MaxUpsets /\ upsets' = upsets + 1 /\ epoch' = epoch + 1
      /\ lighting' = ~lighting /\ inflight' = {} /\ queue' = <<>>
      /\ UNCHANGED <<voxels, loaded, residency, bright, reseed, jobs, strikes, edits>>
  BY DEF SwitchLighting
<1>2. /\ worklist' \subseteq Chunks /\ untold' \subseteq untold \cup loaded
      /\ grid' \in [Chunks -> Grids \cup {NoGrid}]
      /\ \A d \in Chunks : grid[d] = NoGrid => grid'[d] = NoGrid
  <2>1. CASE lighting
    BY <2>1 DEF SwitchLighting, TypeOK
  <2>2. CASE ~lighting
    BY <2>2 DEF SwitchLighting, TypeOK
  <2> QED BY <2>1, <2>2
<1>3. lightPending' \in BOOLEAN /\ lighting' \in BOOLEAN
  BY DEF SwitchLighting, TypeOK
<1>4. <<>> \in Seq([at : Chunks, light : Grids])
  BY EmptySeq
<1>5. upsets' \in 0..MaxUpsets /\ epoch' \in 0..upsets'
  BY <1>1, LightAssumption DEF TypeOK
<1>6. \A d \in Chunks \ loaded' : grid'[d] = NoGrid /\ d \notin bright' \cup reseed' \cup untold'
  BY <1>1, <1>2 DEF TypeOK
<1>7. untold' \subseteq Chunks
  BY <1>2 DEF TypeOK
<1> QED BY <1>1, <1>2, <1>3, <1>4, <1>5, <1>6, <1>7 DEF TypeOK

\* One step per action.
LEMMA StepTyped == TypeOK /\ [Next]_vars => TypeOK'
<1> SUFFICES ASSUME TypeOK, [Next]_vars PROVE TypeOK'
  OBVIOUS
<1>1. CASE UNCHANGED vars
  BY <1>1 DEF vars, fieldVars, laneVars, switchVars, boundVars, TypeOK
<1>2. ASSUME NEW c \in Chunks, Store(c) PROVE TypeOK'
  BY <1>2, StoreTyped
<1>3. ASSUME NEW c \in Chunks, Unload(c) PROVE TypeOK'
  BY <1>3, UnloadTyped
<1>4. ASSUME NEW c \in Chunks, Submit(c) \/ DropSeed(c) PROVE TypeOK'
  BY <1>4, LaneTyped
<1>5. ASSUME NEW c \in Chunks, Integrate(c) PROVE TypeOK'
  BY <1>5, IntegrateTyped
<1>6. ASSUME NEW e \in Edits, Edit(e[1], e[2], e[3]) PROVE TypeOK'
  BY <1>6, EditTyped
<1>7. CASE LaneIdle
  <2>1. 1 \in Chunks
    BY LightAssumption DEF Chunks
  <2> QED BY <1>7, <2>1, LaneTyped
<1>8. CASE Apply
  BY <1>8, ApplyTyped
<1>9. CASE SwitchLighting
  BY <1>9, SwitchTyped
<1>10. ASSUME NEW j \in jobs, Lose(j) PROVE TypeOK'
  BY <1>10, LoseTyped
<1> QED BY <1>1, <1>2, <1>3, <1>4, <1>5, <1>6, <1>7, <1>8, <1>9, <1>10 DEF Next

\* Every variable keeps its type, and a chunk that is not loaded has neither a
\* grid nor any mark: whatever is loaded, edited, switched, lost, in any order.
THEOREM TypeCorrect == Spec => []TypeOK
<1>1. Init => TypeOK
  BY InitTyped
<1>2. TypeOK /\ [Next]_vars => TypeOK'
  BY StepTyped
<1> QED BY <1>1, <1>2, PTL DEF Spec

-----------------------------------------------------------------------------
(* A claim has one owner. *)

Grid == [at : Chunks, light : Grids]
At(q, c) == {i \in DOMAIN q : q[i].at = c}
Once(q) == \A c \in Chunks : \A i, k \in At(q, c) : i = k

\* No flood is of an epoch to come: what makes those of before a switch stale.
JobsBehind == \A j \in jobs : j.epoch <= epoch

OwnedOnce(c) ==
  /\ c \in inflight <=> Current(c) # {} \/ QueuedAt(c) # {}
  /\ Current(c) = {} \/ QueuedAt(c) = {}
  /\ \A j, k \in Current(c) : j = k
  /\ \A i, k \in QueuedAt(c) : i = k

OwnerInv == TypeOK /\ JobsBehind /\ \A c \in Chunks : OwnedOnce(c)

LEMMA OwnerInvIs == OwnerInv => UniqueOwner
BY DEF OwnerInv, OwnedOnce, UniqueOwner

\* What an entry leaves behind when it is taken out of a queue that holds each
\* chunk once.
LEMMA AtRemoved ==
  ASSUME NEW q \in Seq(Grid), NEW i \in 1..Len(q), Once(q)
  PROVE  /\ At(RemoveAt(q, i), q[i].at) = {}
         /\ \A d \in Chunks : d # q[i].at =>
              /\ At(RemoveAt(q, i), d) = {} <=> At(q, d) = {}
              /\ \A m, n \in At(RemoveAt(q, i), d) : m = n
<1> DEFINE r == RemoveAt(q, i)
<1>1. Len(q) \in Nat /\ DOMAIN q = 1..Len(q)
  BY LenProperties
<1>2. /\ r \in Seq(Grid) /\ Len(r) = Len(q) - 1
      /\ \A k \in 1..Len(q) - 1 : r[k] = IF k < i THEN q[k] ELSE q[k + 1]
  BY RemovedAt
<1>3. DOMAIN r = 1..Len(q) - 1
  BY <1>2, LenProperties
<1> HIDE DEF r
<1> DEFINE from(k) == IF k < i THEN k ELSE k + 1
<1>4. \A k \in DOMAIN r : from(k) \in DOMAIN q /\ from(k) # i /\ r[k] = q[from(k)]
  BY <1>1, <1>2, <1>3
<1>5. \A m, n \in DOMAIN r : from(m) = from(n) => m = n
  BY <1>1, <1>3
<1>6. \A k \in DOMAIN q : k # i => \E n \in DOMAIN r : from(n) = k
  <2> SUFFICES ASSUME NEW k \in DOMAIN q, k # i PROVE \E n \in DOMAIN r : from(n) = k
    OBVIOUS
  <2>1. CASE k < i
    BY <1>1, <1>3, <2>1
  <2>2. CASE k > i
    <3>1. k - 1 \in DOMAIN r /\ from(k - 1) = k
      BY <1>1, <1>3, <2>2
    <3> QED BY <3>1
  <2> QED BY <1>1, <2>1, <2>2
<1> HIDE DEF from
<1>7. q[i].at \in Chunks /\ i \in At(q, q[i].at)
  <2>1. q[i] \in Grid
    BY ElementOfSeq
  <2> QED BY <1>1, <2>1 DEF At, Grid
<1>8. \A d \in Chunks : \A k \in At(r, d) : from(k) \in At(q, d) /\ from(k) # i
  BY <1>4 DEF At
<1>9. At(r, q[i].at) = {}
  BY <1>7, <1>8 DEF Once
<1>10. ASSUME NEW d \in Chunks, d # q[i].at
       PROVE  /\ At(r, d) = {} <=> At(q, d) = {}
              /\ \A m, n \in At(r, d) : m = n
  <2>1. ASSUME NEW k \in At(q, d) PROVE At(r, d) # {}
    <3>1. k \in DOMAIN q /\ k # i /\ q[k].at = d
      BY <1>10, <2>1 DEF At
    <3>2. PICK n \in DOMAIN r : from(n) = k
      BY <1>6, <3>1
    <3> QED BY <1>4, <3>1, <3>2 DEF At
  <2>2. \A m, n \in At(r, d) : m = n
    <3> SUFFICES ASSUME NEW m \in At(r, d), NEW n \in At(r, d) PROVE m = n
      OBVIOUS
    <3>1. from(m) \in At(q, d) /\ from(n) \in At(q, d)
      BY <1>8
    <3>2. from(m) = from(n)
      BY <3>1 DEF Once
    <3>3. m \in DOMAIN r /\ n \in DOMAIN r
      BY DEF At
    <3> QED BY <1>5, <3>2, <3>3
  <2> QED BY <1>8, <2>1, <2>2
<1> QED BY <1>9, <1>10 DEF r

LEMMA AtAppended ==
  ASSUME NEW q \in Seq(Grid), NEW e \in Grid
  PROVE  \A d : At(Append(q, e), d) = At(q, d) \cup (IF e.at = d THEN {Len(q) + 1} ELSE {})
<1>1. Len(q) \in Nat /\ DOMAIN q = 1..Len(q)
  BY LenProperties
<1>2. /\ Append(q, e) \in Seq(Grid) /\ Len(Append(q, e)) = Len(q) + 1
      /\ \A k \in 1..Len(q) : Append(q, e)[k] = q[k]
      /\ Append(q, e)[Len(q) + 1] = e
  BY <1>1
<1>3. DOMAIN Append(q, e) = 1..Len(q) + 1
  BY <1>2, LenProperties
<1>4. ASSUME NEW d, NEW k
      PROVE  k \in At(Append(q, e), d)
               <=> k \in At(q, d) \cup (IF e.at = d THEN {Len(q) + 1} ELSE {})
  <2>1. CASE k \in 1..Len(q)
    BY <1>1, <1>2, <1>3, <2>1 DEF At
  <2>2. CASE k = Len(q) + 1
    BY <1>1, <1>2, <1>3, <2>2 DEF At
  <2>3. CASE k \notin 1..Len(q) + 1
    BY <1>1, <1>3, <2>3 DEF At
  <2> QED BY <1>1, <2>1, <2>2, <2>3
<1> QED BY <1>4

LEMMA TailRemoves ==
  ASSUME NEW q \in Seq(Grid), q # <<>>
  PROVE  Tail(q) = RemoveAt(q, 1) /\ Head(q) = q[1] /\ 1 \in 1..Len(q)
<1>1. Len(q) \in Nat /\ Len(q) # 0
  BY EmptySeq
<1>2. Tail(q) = SubSeq(q, 2, Len(q)) /\ Tail(q) \in Seq(Grid)
  BY TailIsSubSeq, HeadTailProperties
<1>3. SubSeq(q, 1, 0) = <<>>
  BY SubSeqEmpty
<1>4. <<>> \o Tail(q) = Tail(q)
  BY <1>2, ConcatEmptySeq
<1>5. RemoveAt(q, 1) = SubSeq(q, 1, 0) \o SubSeq(q, 2, Len(q))
  BY DEF RemoveAt
<1> QED BY <1>1, <1>2, <1>3, <1>4, <1>5

\* An action that leaves claims, floods and queue alone.
LEMMA OwnerFrame ==
  ASSUME OwnerInv, UNCHANGED <<inflight, queue, jobs, epoch>>
  PROVE  JobsBehind' /\ \A c \in Chunks : OwnedOnce(c)'
BY DEF OwnerInv, JobsBehind, OwnedOnce, Current, QueuedAt

LEMMA QueueOnce == OwnerInv => Once(queue) /\ queue \in Seq(Grid)
BY DEF OwnerInv, OwnedOnce, QueuedAt, Once, At, TypeOK, Grid

\* A queued grid leaves the queue with its claim.
LEMMA GridLeaves ==
  ASSUME OwnerInv, NEW i \in 1..Len(queue),
         queue' = RemoveAt(queue, i), inflight' = inflight \ {queue[i].at},
         UNCHANGED <<jobs, epoch>>
  PROVE  JobsBehind' /\ \A c \in Chunks : OwnedOnce(c)'
<1>0. PICK c : c = queue[i].at
  OBVIOUS
<1>1. Once(queue) /\ queue \in Seq(Grid)
  BY QueueOnce
<1>2. /\ At(queue', c) = {}
      /\ \A d \in Chunks : d # c => /\ At(queue', d) = {} <=> At(queue, d) = {}
                                    /\ \A m, n \in At(queue', d) : m = n
  BY <1>0, <1>1, AtRemoved
<1>3. c \in Chunks /\ i \in QueuedAt(c)
  <2>1. queue[i] \in Grid /\ DOMAIN queue = 1..Len(queue)
    BY <1>1, ElementOfSeq, LenProperties
  <2> QED BY <1>0, <2>1 DEF QueuedAt, Grid
<1>4. Current(c) = {}
  BY <1>3 DEF OwnerInv, OwnedOnce
<1>5. \A d : Current(d)' = Current(d) /\ QueuedAt(d) = At(queue, d) /\ QueuedAt(d)' = At(queue', d)
  BY DEF Current, QueuedAt, At
<1>6. OwnedOnce(c)'
  BY <1>0, <1>2, <1>4, <1>5 DEF OwnedOnce
<1>7. ASSUME NEW d \in Chunks, d # c PROVE OwnedOnce(d)'
  <2>1. OwnedOnce(d)
    BY DEF OwnerInv
  <2>2. d \in inflight' <=> d \in inflight
    BY <1>0, <1>7
  <2> QED BY <1>2, <1>5, <1>7, <2>1, <2>2 DEF OwnedOnce
<1>8. JobsBehind'
  BY DEF OwnerInv, JobsBehind
<1> QED BY <1>6, <1>7, <1>8

\* The one flood of its chunk is lost or finishes for nothing, and its claim goes.
LEMMA FloodLeaves ==
  ASSUME OwnerInv, NEW j \in jobs, j.epoch = epoch,
         jobs' = jobs \ {j}, inflight' = inflight \ {j.at},
         UNCHANGED <<queue, epoch>>
  PROVE  JobsBehind' /\ \A c \in Chunks : OwnedOnce(c)'
<1>1. j.at \in Chunks
  BY DEF OwnerInv, TypeOK, Flights
<1>2. j \in Current(j.at)
  BY DEF Current
<1>3. \A d : QueuedAt(d)' = QueuedAt(d) /\ Current(d)' = Current(d) \ {j}
  BY DEF QueuedAt, Current
<1>4. Current(j.at)' = {} /\ QueuedAt(j.at) = {}
  BY <1>1, <1>2, <1>3 DEF OwnerInv, OwnedOnce
<1>5. OwnedOnce(j.at)'
  BY <1>3, <1>4 DEF OwnedOnce
<1>6. ASSUME NEW d \in Chunks, d # j.at PROVE OwnedOnce(d)'
  <2>1. Current(d)' = Current(d)
    BY <1>6, <1>3 DEF Current
  <2>2. OwnedOnce(d)
    BY DEF OwnerInv
  <2> QED BY <1>3, <1>6, <2>1, <2>2 DEF OwnedOnce
<1>7. JobsBehind'
  BY DEF OwnerInv, JobsBehind
<1> QED BY <1>5, <1>6, <1>7

LEMMA StoreOwns ==
  ASSUME OwnerInv, NEW c \in Chunks, Store(c)
  PROVE  JobsBehind' /\ \A d \in Chunks : OwnedOnce(d)'
<1>1. UNCHANGED <<queue, jobs, epoch>>
  BY DEF Store, laneVars, switchVars, SeedLight
<1>2. inflight' = inflight
  <2>1. CASE ~lighting \/ c \in inflight \/ TrivialLight(c) = {}
    BY <2>1 DEF Store, laneVars
  <2>2. CASE ~(~lighting \/ c \in inflight \/ TrivialLight(c) = {})
    <3>1. PICK g \in TrivialLight(c) : Settle(c, g, reseed)
      BY <2>2 DEF Store
    <3>2. inflight' = inflight \ {c}
      BY <3>1 DEF Settle
    <3> QED BY <2>2, <3>2
  <2> QED BY <2>1, <2>2
<1> QED BY <1>1, <1>2, OwnerFrame

LEMMA UnloadOwns ==
  ASSUME OwnerInv, NEW c \in Chunks, Unload(c)
  PROVE  JobsBehind' /\ \A d \in Chunks : OwnedOnce(d)'
<1>1. UNCHANGED <<jobs, epoch>>
  BY DEF Unload, switchVars
<1>2. CASE QueuedAt(c) = {}
  <2>1. UNCHANGED <<queue, inflight>>
    BY <1>2 DEF Unload
  <2> QED BY <1>1, <2>1, OwnerFrame
<1>3. CASE QueuedAt(c) # {}
  <2>1. PICK i \in QueuedAt(c) : queue' = RemoveAt(queue, i) /\ inflight' = inflight \ {c}
    BY <1>3 DEF Unload
  <2>2. i \in 1..Len(queue) /\ queue[i].at = c
    BY QueuedIs DEF OwnerInv
  <2> QED BY <1>1, <2>1, <2>2, GridLeaves
<1> QED BY <1>2, <1>3

LEMMA SubmitOwns ==
  ASSUME OwnerInv, NEW c \in Chunks, Submit(c)
  PROVE  JobsBehind' /\ \A d \in Chunks : OwnedOnce(d)'
<1>1. /\ c \notin inflight /\ inflight' = inflight \cup {c}
      /\ jobs' = jobs \cup {Flight(c)} /\ UNCHANGED <<queue, epoch>>
  BY DEF Submit, switchVars
<1>2. Flight(c).at = c /\ Flight(c).epoch = epoch
  BY DEF Flight
<1>3. \A d : QueuedAt(d)' = QueuedAt(d)
             /\ Current(d)' = Current(d) \cup (IF d = c THEN {Flight(c)} ELSE {})
  BY <1>1, <1>2 DEF QueuedAt, Current
<1>4. Current(c) = {} /\ QueuedAt(c) = {}
  BY <1>1 DEF OwnerInv, OwnedOnce
<1>5. OwnedOnce(c)'
  BY <1>1, <1>3, <1>4 DEF OwnedOnce
<1>6. ASSUME NEW d \in Chunks, d # c PROVE OwnedOnce(d)'
  <2>1. OwnedOnce(d)
    BY DEF OwnerInv
  <2> QED BY <1>1, <1>3, <1>6, <2>1 DEF OwnedOnce
<1>7. epoch <= epoch
  BY DEF OwnerInv, TypeOK
<1>8. JobsBehind'
  BY <1>1, <1>2, <1>7 DEF OwnerInv, JobsBehind
<1> QED BY <1>5, <1>6, <1>8

LEMMA IntegrateOwns ==
  ASSUME OwnerInv, NEW c \in Chunks, Integrate(c)
  PROVE  JobsBehind' /\ \A d \in Chunks : OwnedOnce(d)'
<1>1. PICK j \in jobs : jobs' = jobs \ {j} /\ Accept(j) /\ UNCHANGED epoch
  BY DEF Integrate, switchVars
<1>2. CASE j.epoch # epoch
  <2>1. UNCHANGED <<inflight, queue>>
    BY <1>1, <1>2 DEF Accept, laneVars
  <2>2. \A d : Current(d)' = Current(d) /\ QueuedAt(d)' = QueuedAt(d)
    BY <1>1, <1>2, <2>1 DEF Current, QueuedAt
  <2>3. \A d \in Chunks : OwnedOnce(d)'
    BY <2>1, <2>2 DEF OwnerInv, OwnedOnce
  <2>4. JobsBehind'
    BY <1>1 DEF OwnerInv, JobsBehind
  <2> QED BY <2>3, <2>4
<1>3. CASE j.epoch = epoch /\ (j.at \notin loaded \/ j.of # residency[j.at])
  <2>1. inflight' = inflight \ {j.at} /\ queue' = queue
    BY <1>1, <1>3 DEF Accept
  <2> QED BY <1>1, <1>3, <2>1, FloodLeaves
<1>4. CASE j.epoch = epoch /\ ~(j.at \notin loaded \/ j.of # residency[j.at])
  <2> DEFINE entry == [at |-> j.at, light |-> j.light]
  <2>1. queue' = Append(queue, entry) /\ inflight' = inflight
    BY <1>1, <1>4 DEF Accept
  <2>2. j.at \in Chunks /\ entry \in Grid /\ entry.at = j.at
    BY <1>1 DEF OwnerInv, TypeOK, Flights, Grid
  <2>3. queue \in Seq(Grid) /\ Len(queue) + 1 \in Nat
    BY QueueOnce, LenProperties
  <2> HIDE DEF entry
  <2>4. \A d : At(queue', d) = At(queue, d) \cup (IF entry.at = d THEN {Len(queue) + 1} ELSE {})
    BY <2>1, <2>2, <2>3, AtAppended
  <2>5. \A d : /\ QueuedAt(d) = At(queue, d) /\ QueuedAt(d)' = At(queue', d)
               /\ Current(d)' = Current(d) \ {j}
    BY <1>1 DEF QueuedAt, At, Current
  <2>6. j \in Current(j.at)
    BY <1>1, <1>4 DEF Current
  <2>7. Current(j.at)' = {} /\ QueuedAt(j.at) = {} /\ j.at \in inflight
    BY <2>2, <2>5, <2>6 DEF OwnerInv, OwnedOnce
  <2>8. OwnedOnce(j.at)'
    <3>1. QueuedAt(j.at)' = {Len(queue) + 1}
      BY <2>2, <2>4, <2>5, <2>7
    <3> QED BY <2>1, <2>7, <3>1 DEF OwnedOnce
  <2>9. ASSUME NEW d \in Chunks, d # j.at PROVE OwnedOnce(d)'
    <3>1. Current(d)' = Current(d)
      BY <1>1, <2>9 DEF Current
    <3>2. QueuedAt(d)' = QueuedAt(d)
      BY <2>2, <2>4, <2>5, <2>9
    <3>3. OwnedOnce(d)
      BY DEF OwnerInv
    <3> QED BY <2>1, <3>1, <3>2, <3>3 DEF OwnedOnce
  <2>10. JobsBehind'
    BY <1>1 DEF OwnerInv, JobsBehind
  <2> QED BY <2>8, <2>9, <2>10
<1> QED BY <1>2, <1>3, <1>4

LEMMA ApplyOwns ==
  ASSUME OwnerInv, Apply
  PROVE  JobsBehind' /\ \A d \in Chunks : OwnedOnce(d)'
<1>1. /\ queue # <<>> /\ queue' = Tail(queue) /\ inflight' = inflight \ {Head(queue).at}
      /\ UNCHANGED <<jobs, epoch>>
  BY DEF Apply, Settle, switchVars
<1>2. queue \in Seq(Grid)
  BY QueueOnce
<1>3. queue' = RemoveAt(queue, 1) /\ Head(queue) = queue[1] /\ 1 \in 1..Len(queue)
  BY <1>1, <1>2, TailRemoves
<1> QED BY <1>1, <1>3, GridLeaves

LEMMA SwitchOwns ==
  ASSUME OwnerInv, SwitchLighting
  PROVE  JobsBehind' /\ \A d \in Chunks : OwnedOnce(d)'
<1>1. inflight' = {} /\ queue' = <<>> /\ epoch' = epoch + 1 /\ jobs' = jobs
  BY DEF SwitchLighting
<1>2. epoch \in Nat /\ \A j \in jobs : j.epoch \in Nat /\ j.epoch <= epoch
  BY LightAssumption DEF OwnerInv, JobsBehind, TypeOK, Flights
<1>3. JobsBehind' /\ \A j \in jobs : j.epoch # epoch'
  BY <1>1, <1>2 DEF JobsBehind
<1>4. \A d : Current(d)' = {} /\ QueuedAt(d)' = {}
  <2>1. DOMAIN (<<>>) = {}
    OBVIOUS
  <2> QED BY <1>1, <1>3, <2>1 DEF Current, QueuedAt
<1>5. \A d \in Chunks : OwnedOnce(d)'
  BY <1>1, <1>4 DEF OwnedOnce
<1> QED BY <1>3, <1>5

LEMMA StepOwns ==
  ASSUME ~LateLosses, OwnerInv, [Next]_vars
  PROVE  JobsBehind' /\ \A d \in Chunks : OwnedOnce(d)'
<1>1. CASE UNCHANGED vars
  BY <1>1, OwnerFrame DEF vars, laneVars, switchVars
<1>2. ASSUME NEW c \in Chunks, Store(c)
      PROVE  JobsBehind' /\ \A d \in Chunks : OwnedOnce(d)'
  BY <1>2, StoreOwns
<1>3. ASSUME NEW c \in Chunks, Unload(c)
      PROVE  JobsBehind' /\ \A d \in Chunks : OwnedOnce(d)'
  BY <1>3, UnloadOwns
<1>4. ASSUME NEW c \in Chunks, Submit(c)
      PROVE  JobsBehind' /\ \A d \in Chunks : OwnedOnce(d)'
  BY <1>4, SubmitOwns
<1>5. ASSUME NEW c \in Chunks, DropSeed(c)
      PROVE  JobsBehind' /\ \A d \in Chunks : OwnedOnce(d)'
  BY <1>5, OwnerFrame DEF DropSeed, switchVars
<1>6. ASSUME NEW c \in Chunks, Integrate(c)
      PROVE  JobsBehind' /\ \A d \in Chunks : OwnedOnce(d)'
  BY <1>6, IntegrateOwns
<1>7. ASSUME NEW e \in Edits, Edit(e[1], e[2], e[3])
      PROVE  JobsBehind' /\ \A d \in Chunks : OwnedOnce(d)'
  BY <1>7, OwnerFrame DEF Edit, switchVars
<1>8. CASE LaneIdle
  BY <1>8, OwnerFrame DEF LaneIdle, switchVars
<1>9. CASE Apply
  BY <1>9, ApplyOwns
<1>10. CASE SwitchLighting
  BY <1>10, SwitchOwns
<1>11. ASSUME NEW j \in jobs, Lose(j)
       PROVE  JobsBehind' /\ \A d \in Chunks : OwnedOnce(d)'
  <2>1. /\ j.epoch = epoch /\ jobs' = jobs \ {j} /\ inflight' = inflight \ {j.at}
        /\ UNCHANGED <<queue, epoch>>
    BY <1>11 DEF Lose, switchVars
  <2> QED BY <2>1, FloodLeaves
<1> QED BY <1>1, <1>2, <1>3, <1>4, <1>5, <1>6, <1>7, <1>8, <1>9, <1>10, <1>11 DEF Next

LEMMA InitOwned == Init => OwnerInv
<1> SUFFICES ASSUME Init PROVE OwnerInv
  OBVIOUS
<1>1. TypeOK
  BY InitTyped
<1>2. jobs = {} /\ queue = <<>> /\ inflight = {}
  BY DEF Init
<1>3. DOMAIN (<<>>) = {}
  OBVIOUS
<1>4. JobsBehind /\ \A c \in Chunks : OwnedOnce(c)
  BY <1>2, <1>3 DEF JobsBehind, OwnedOnce, Current, QueuedAt
<1> QED BY <1>1, <1>4 DEF OwnerInv

\* While no flood of before a switch is lost after it, a claim has one owner: no
\* chunk is flooded twice at once, nor left claimed by nobody, in whatever order
\* chunks come and go, floods finish, are lost or published, and lighting is
\* switched.
THEOREM OneOwner ==
  ASSUME ~LateLosses
  PROVE  Spec => []UniqueOwner
<1>1. Init => OwnerInv
  BY InitOwned
<1>2. OwnerInv /\ [Next]_vars => OwnerInv'
  <2> SUFFICES ASSUME OwnerInv, [Next]_vars PROVE OwnerInv'
    OBVIOUS
  <2>1. TypeOK'
    BY StepTyped DEF OwnerInv
  <2>2. JobsBehind' /\ \A d \in Chunks : OwnedOnce(d)'
    BY StepOwns
  <2> QED BY <2>1, <2>2 DEF OwnerInv
<1>3. OwnerInv => UniqueOwner
  BY OwnerInvIs
<1> QED BY <1>1, <1>2, <1>3, PTL DEF Spec

-----------------------------------------------------------------------------
(* A quiet lane is a settled field. *)

\* g is the light of a flood, or the dark of solid rock.
Right(row, shell, g) ==
  \/ g = Flood(row, shell)
  \/ g = Dark /\ \A x \in Cells : row[x] = "rock"

Matches(c, g) == Right(voxels[c], Shell(c), g)

\* Nothing is claimed while lighting is off.
DarkIdle == ~lighting => inflight = {} /\ queue = <<>>

\* Who shines over a border is flagged.
FlagsLit == \A c \in Chunks : (grid[c] # NoGrid /\ HasBorderBlockLight(grid[c])) => c \in bright

\* The flood or grid that holds a claim is of this residency and right.
Answered(c) ==
  /\ \A j \in Current(c) : j.of = residency[c] /\ Matches(c, j.light)
  /\ \A i \in DOMAIN queue : queue[i].at = c => Matches(c, queue[i].light)

Rests(c) == IF grid[c] = NoGrid THEN ~lighting ELSE Matches(c, grid[c])

\* A chunk is seeded, or claimed by what is right or with the mark for one more
\* flood, or at rest with light that is right.
Cared(c) ==
  \/ c \in worklist
  \/ c \in inflight /\ (c \in reseed \/ Answered(c))
  \/ c \notin inflight /\ Rests(c)

Beside(c) == ({c} \cup Neighbours(c)) \cap Quarantined # {}
Exempt(c) == c \in untold \/ Beside(c)

AllCared == \A c \in loaded : Exempt(c) \/ Cared(c)

LightInv == OwnerInv /\ DarkIdle /\ FlagsLit /\ AllCared

LEMMA GridIsNone == \A g \in Grids : g # NoGrid
<1>1. 1 \in Cells
  BY LightAssumption DEF Cells
<1>2. \A g \in Grids : DOMAIN g = Cells
  BY DEF Grids
<1>3. DOMAIN NoGrid = {}
  BY DEF NoGrid
<1> QED BY <1>1, <1>2, <1>3

LEMMA BorderIsCell == \A s \in Sides : BorderCell(s) \in Cells
BY LightAssumption DEF BorderCell, Cells, Sides

\* What is not lit by any source has no block light.
LEMMA Unlit ==
  ASSUME NEW row, NEW shell, NEW x,
         \A level \in 1..MaxLight : \A source \in Sources(row, shell) :
           ~(Runs(row, source[1], x) /\ source[2] - Distance(source[1], x) >= level)
  PROVE  BlockLight(row, shell, x) = 0
<1>1. {level \in 1..MaxLight :
         \E source \in Sources(row, shell) :
           Runs(row, source[1], x) /\ source[2] - Distance(source[1], x) >= level} = {}
  OBVIOUS
<1> QED BY <1>1, FS_EmptySet DEF BlockLight

LEMMA Lit ==
  ASSUME NEW row, NEW shell, NEW x, BlockLight(row, shell, x) = 0
  PROVE  \A level \in 1..MaxLight : \A source \in Sources(row, shell) :
           ~(Runs(row, source[1], x) /\ source[2] - Distance(source[1], x) >= level)
<1> DEFINE lit == {level \in 1..MaxLight :
                     \E source \in Sources(row, shell) :
                       Runs(row, source[1], x) /\ source[2] - Distance(source[1], x) >= level}
<1>1. IsFiniteSet(lit)
  <2>1. IsFiniteSet(1..MaxLight)
    BY LightAssumption, FS_Interval
  <2> QED BY <2>1, FS_Subset
<1>2. Cardinality(lit) = 0
  BY DEF BlockLight
<1>3. lit = {}
  <2> HIDE DEF lit
  <2> QED BY <1>1, <1>2, FS_EmptySet
<1> QED BY <1>3

\* A source that gives nothing lights nothing.
LEMMA DarkSource ==
  ASSUME NEW x \in Cells, NEW y \in Cells, NEW level \in 1..MaxLight
  PROVE  ~(0 - Distance(y, x) >= level)
BY LightAssumption DEF Distance, Cells

\* What comes in sideways is dimmed.
LEMMA RockyDim ==
  ASSUME NEW row, NEW shell \in Shells, NEW x, Opaque(row[x])
  PROVE  SkyLight(row, shell, x) # MaxLight
<1> DEFINE seen == {level \in 1..MaxLight :
                      \E s \in Sides : BorderCell(s) = x /\ Dimmer(shell[s].sky) >= level}
<1>1. MaxLight \in Nat /\ MaxLight > 0
  BY LightAssumption
<1>2. \A s \in Sides : ~(Dimmer(shell[s].sky) >= MaxLight)
  <2> SUFFICES ASSUME NEW s \in Sides PROVE ~(Dimmer(shell[s].sky) >= MaxLight)
    OBVIOUS
  <2>1. shell[s].sky \in Levels
    BY DEF Shells, Lumels
  <2> QED BY <1>1, <2>1 DEF Levels, Dimmer
<1>3. seen \subseteq 1..MaxLight - 1
  BY <1>1, <1>2
<1>4. IsFiniteSet(1..MaxLight - 1) /\ Cardinality(1..MaxLight - 1) = MaxLight - 1
  BY <1>1, FS_Interval
<1> HIDE DEF seen
<1>5. IsFiniteSet(seen) /\ Cardinality(seen) <= MaxLight - 1
  BY ZenonT(60), <1>3, <1>4, FS_Subset
<1>6. Cardinality(seen) \in Nat
  BY <1>5, FS_CardinalityType
<1> QED BY <1>1, <1>5, <1>6 DEF SkyLight, seen

\* Open ground stays open when a neighbour beside it comes to be open too.
LEMMA OpenStays ==
  ASSUME NEW row, NEW shell \in Shells, NEW next, NEW s \in Sides,
         \A t \in Sides : t # s => next[t] = shell[t],
         next[s].block = 0,
         Right(row, shell, OpenSky)
  PROVE  Right(row, next, OpenSky)
<1>1. \A x \in Cells : OpenSky[x] = [sky |-> MaxLight, block |-> 0]
  BY DEF OpenSky
<1>2. OpenSky = Flood(row, shell)
  <2>1. 1 \in Cells /\ MaxLight # 0
    BY LightAssumption DEF Cells
  <2>2. OpenSky[1].sky = MaxLight /\ Dark[1].sky = 0
    BY <2>1 DEF OpenSky, Dark, DarkLumel
  <2> QED BY <2>1, <2>2 DEF Right
<1>3. \A x \in Cells : /\ SkyLight(row, shell, x) = MaxLight
                       /\ BlockLight(row, shell, x) = 0
  <2> SUFFICES ASSUME NEW x \in Cells
               PROVE  SkyLight(row, shell, x) = MaxLight /\ BlockLight(row, shell, x) = 0
    OBVIOUS
  <2>1. Flood(row, shell)[x] = [sky |-> SkyLight(row, shell, x), block |-> BlockLight(row, shell, x)]
    BY DEF Flood
  <2> QED BY <1>1, <1>2, <2>1
<1>4. \A x \in Cells : SkyLight(row, next, x) = MaxLight /\ BlockLight(row, next, x) = 0
  <2> SUFFICES ASSUME NEW x \in Cells
               PROVE  SkyLight(row, next, x) = MaxLight /\ BlockLight(row, next, x) = 0
    OBVIOUS
  <2>1. BlockLight(row, shell, x) = 0 /\ ~Opaque(row[x])
    BY <1>3, RockyDim
  <2>2. ASSUME NEW level \in 1..MaxLight, NEW source \in Sources(row, next),
               Runs(row, source[1], x), source[2] - Distance(source[1], x) >= level
        PROVE  FALSE
    <3>1. CASE source = <<BorderCell(s), Dimmer(next[s].block)>>
      <4>1. source[1] = BorderCell(s) /\ source[2] = 0
        BY <3>1 DEF Dimmer
      <4> QED BY <2>2, <4>1, BorderIsCell, DarkSource
    <3>2. CASE source # <<BorderCell(s), Dimmer(next[s].block)>>
      <4>1. source \in Sources(row, shell)
        BY <2>2, <3>2 DEF Sources
      <4> QED BY <2>1, <2>2, <4>1, Lit
    <3> QED BY <3>1, <3>2
  <2>3. BlockLight(row, next, x) = 0
    BY <2>2, Unlit
  <2>4. SkyLight(row, next, x) = MaxLight
    BY <2>1 DEF SkyLight
  <2> QED BY <2>3, <2>4
<1>5. OpenSky = Flood(row, next)
  BY <1>4 DEF OpenSky, Flood
<1> QED BY <1>5 DEF Right

\* What a chunk shows at a border.
Shown(d, s) == IF d \in loaded /\ grid[d] # NoGrid THEN grid[d][BorderCell(s)] ELSE DarkLumel

LEMMA ShellIs ==
  ASSUME NEW c
  PROVE  Shell(c) = [s \in Sides |-> Shown(c + s, -s)]
BY DEF Shell, Shown

LEMMA ShellTyped ==
  ASSUME TypeOK, NEW c \in Chunks
  PROVE  Shell(c) \in Shells
<1>1. DarkLumel \in Lumels
  BY LightAssumption DEF DarkLumel, Lumels, Levels
<1>2. ASSUME NEW s \in Sides, c + s \in loaded, grid[c + s] # NoGrid
      PROVE  grid[c + s][BorderCell(-s)] \in Lumels
  <2>1. c + s \in Chunks /\ -s \in Sides
    BY <1>2 DEF TypeOK, Sides
  <2>2. grid[c + s] \in Grids
    BY <1>2, <2>1 DEF TypeOK
  <2> QED BY <2>1, <2>2, BorderIsCell DEF Grids
<1> QED BY <1>1, <1>2 DEF Shell, Shells

\* A chunk that is published without a flood is published right.
LEMMA TrivialRight ==
  ASSUME TypeOK, FlagsLit, NEW c \in Chunks, NEW g \in TrivialLight(c)
  PROVE  Matches(c, g)
<1>1. CASE (\A x \in Cells : voxels[c][x] = "rock") /\ g = Dark
  BY <1>1 DEF Matches, Right
<1>2. CASE /\ \A x \in Cells : voxels[c][x] = "air"
           /\ Neighbours(c) \cap loaded \cap bright = {} /\ g = OpenSky
  <2>1. ASSUME NEW s \in Sides PROVE Dimmer(Shell(c)[s].block) = 0
    <3>1. Shell(c)[s] = Shown(c + s, -s)
      BY ShellIs
    <3>2. CASE c + s \in loaded /\ grid[c + s] # NoGrid
      <4>1. c + s \in Neighbours(c) /\ c + s \in Chunks
        BY <3>2, LightAssumption DEF TypeOK, Neighbours, Sides, Chunks
      <4>2. ~HasBorderBlockLight(grid[c + s])
        BY <1>2, <3>2, <4>1 DEF FlagsLit
      <4>3. -s \in Sides /\ grid[c + s] \in Grids
        BY <3>2, <4>1 DEF Sides, TypeOK
      <4>4. ~(grid[c + s][BorderCell(-s)].block > 1)
        BY <4>2, <4>3 DEF HasBorderBlockLight
      <4>5. grid[c + s][BorderCell(-s)].block \in Nat
        BY <4>3, BorderIsCell, LightAssumption DEF Grids, Lumels, Levels
      <4> QED BY <3>1, <3>2, <4>4, <4>5 DEF Shown, Dimmer
    <3>3. CASE ~(c + s \in loaded /\ grid[c + s] # NoGrid)
      BY <3>1, <3>3 DEF Shown, Dimmer, DarkLumel
    <3> QED BY <3>2, <3>3
  <2> SUFFICES ASSUME NEW x \in Cells PROVE OpenSky[x] = Flood(voxels[c], Shell(c))[x]
    BY <1>2 DEF Matches, Right, OpenSky, Flood
  <2>2. \A source \in Sources(voxels[c], Shell(c)) : source[1] \in Cells /\ source[2] = 0
    <3>1. \A y \in Cells : Emission(voxels[c][y]) = 0
      BY <1>2 DEF Emission
    <3> QED BY <2>1, <3>1, BorderIsCell DEF Sources
  <2>3. BlockLight(voxels[c], Shell(c), x) = 0
    BY <2>2, DarkSource, Unlit
  <2>4. SkyLight(voxels[c], Shell(c), x) = MaxLight
    BY <1>2 DEF SkyLight, Opaque
  <2> QED BY <2>3, <2>4 DEF OpenSky, Flood
<1> QED BY <1>1, <1>2 DEF TrivialLight

\* What becomes of a chunk that a step does not touch.
LEMMA ShellKept ==
  ASSUME NEW c \in Chunks,
         \A d \in Neighbours(c) : /\ d \in loaded' /\ grid'[d] # NoGrid <=> d \in loaded /\ grid[d] # NoGrid
                                  /\ d \in loaded => grid'[d] = grid[d],
         loaded \subseteq Chunks, loaded' \subseteq Chunks
  PROVE  Shell(c)' = Shell(c)
<1>1. ASSUME NEW s \in Sides PROVE Shown(c + s, -s)' = Shown(c + s, -s)
  <2>1. c + s \in Chunks => c + s \in Neighbours(c)
    BY DEF Neighbours, Sides
  <2>2. c + s \notin Chunks => c + s \notin loaded /\ c + s \notin loaded'
    OBVIOUS
  <2> QED BY <2>1, <2>2 DEF Shown
<1> QED BY <1>1 DEF Shell, Shown

LEMMA CareKept ==
  ASSUME NEW c \in Chunks, Cared(c),
         voxels'[c] = voxels[c], Shell(c)' = Shell(c), grid'[c] = grid[c],
         residency'[c] = residency[c], lighting' = lighting,
         c \in worklist => c \in worklist',
         c \in inflight' <=> c \in inflight,
         c \in reseed => c \in reseed' \cup worklist',
         Current(c)' \subseteq Current(c),
         \A i \in DOMAIN queue' : queue'[i].at = c => \E k \in DOMAIN queue : queue[k] = queue'[i]
  PROVE  Cared(c)'
<1>1. \A g : Matches(c, g) => Right(voxels'[c], Shell(c)', g)
  BY DEF Matches
<1>2. Answered(c) => Answered(c)'
  <2> SUFFICES ASSUME Answered(c) PROVE Answered(c)'
    OBVIOUS
  <2>1. ASSUME NEW j \in Current(c)' PROVE j.of = residency'[c] /\ Right(voxels'[c], Shell(c)', j.light)
    BY <1>1, <2>1 DEF Answered
  <2>2. ASSUME NEW i \in DOMAIN queue', queue'[i].at = c
        PROVE  Right(voxels'[c], Shell(c)', queue'[i].light)
    <3>1. PICK k \in DOMAIN queue : queue[k] = queue'[i]
      BY <2>2
    <3> QED BY <1>1, <2>2, <3>1 DEF Answered
  <2> QED BY <2>1, <2>2 DEF Answered, Matches
<1>3. Rests(c) => Rests(c)'
  BY <1>1 DEF Rests, Matches
<1> QED BY <1>2, <1>3 DEF Cared

\* Publishing a grid: the chunk beside it sees no other border, or is told.
LEMMA SettleCares ==
  ASSUME OwnerInv, NEW c \in Chunks, NEW g \in Grids, Settle(c, g, reseed),
         loaded' = loaded \cup {c}, UNCHANGED <<voxels, jobs, lighting, epoch>>,
         NEW n \in loaded, n # c, Cared(n), residency'[n] = residency[n],
         \A i \in DOMAIN queue' : queue'[i].at = n => \E k \in DOMAIN queue : queue[k] = queue'[i]
  PROVE  n \in untold' \/ Cared(n)'
<1> DEFINE flying == inflight \ {c}
           woken == IF grid[c] = g THEN {} ELSE Woken(c, g)
           seeds == (woken \ (flying \cup worklist)) \cup ({c} \cap reseed)
<1>1. /\ inflight' = flying /\ grid' = [grid EXCEPT ![c] = g]
      /\ worklist' = worklist \cup seeds
      /\ reseed' = ((reseed \ {c}) \cup (woken \cap flying)) \ seeds
      /\ untold' = untold \cup PassedOver(c, g)
  BY DEF Settle
<1>2. n \in Chunks /\ loaded \subseteq Chunks /\ loaded' \subseteq Chunks
  BY DEF OwnerInv, TypeOK
<1>3. grid'[c] = g /\ \A d \in Chunks : d # c => grid'[d] = grid[d]
  BY <1>1 DEF OwnerInv, TypeOK
<1>4. /\ n \in worklist => n \in worklist'
      /\ n \in inflight' <=> n \in inflight
      /\ n \in reseed => n \in reseed' \cup worklist'
  BY <1>1
<1>5. n \in woken => Cared(n)'
  <2> SUFFICES ASSUME n \in woken PROVE Cared(n)'
    OBVIOUS
  <2>1. CASE n \in flying
    BY <1>1, <2>1 DEF Cared
  <2>2. CASE n \notin flying
    BY <1>1, <2>2 DEF Cared
  <2> QED BY <2>1, <2>2
<1> HIDE DEF flying, seeds
<1>6. Current(n)' = Current(n)
  BY DEF Current
<1>7. CASE Shell(n)' = Shell(n)
  <2>1. voxels'[n] = voxels[n] /\ grid'[n] = grid[n] /\ lighting' = lighting
    BY <1>2, <1>3
  <2> QED BY <1>2, <1>4, <1>6, <1>7, <2>1, CareKept
<1>8. CASE Shell(n)' # Shell(n)
  <2>1. ASSUME NEW s \in Sides, n + s # c PROVE Shown(n + s, -s)' = Shown(n + s, -s)
    <3>1. n + s \in loaded' <=> n + s \in loaded
      BY <2>1
    <3>2. n + s \in loaded => grid'[n + s] = grid[n + s]
      BY <1>2, <1>3, <2>1
    <3> QED BY <3>1, <3>2 DEF Shown
  <2>2. PICK s \in Sides : Shown(n + s, -s)' # Shown(n + s, -s)
    BY <1>8 DEF Shell, Shown
  <2>3. n + s = c
    BY <2>1, <2>2
  <2>4. n \in Int /\ c \in Int /\ s \in Int
    BY <1>2, LightAssumption DEF Chunks, Sides
  <2>5. n - c = -s /\ -s \in Sides /\ n \in Neighbours(c) \cap loaded
    <3>1. -s \in Sides
      BY DEF Sides
    <3>2. n - c = -s
      BY <2>3, <2>4
    <3>3. n \in {c - 1, c + 1}
      BY <2>3, <2>4 DEF Sides
    <3> QED BY <1>2, <3>1, <3>2, <3>3 DEF Neighbours
  <2>6. Shown(c, -s)' = g[BorderCell(-s)]
    BY <1>3, GridIsNone DEF Shown
  <2>7. Shown(c, -s) = (IF grid[c] = NoGrid THEN Dark ELSE grid[c])[BorderCell(-s)]
    <3>1. c \notin loaded => grid[c] = NoGrid
      BY DEF OwnerInv, TypeOK
    <3>2. Dark[BorderCell(-s)] = DarkLumel
      BY <2>5, BorderIsCell DEF Dark
    <3> QED BY <3>1, <3>2 DEF Shown
  <2>8. n - c \in FaceMoves(c, g) /\ grid[c] # g
    <3>1. (IF grid[c] = NoGrid THEN Dark ELSE grid[c])[BorderCell(-s)] # g[BorderCell(-s)]
      BY <2>2, <2>3, <2>6, <2>7
    <3>2. -s \in FaceMoves(c, g)
      BY <2>5, <3>1 DEF FaceMoves
    <3>3. grid[c] # g
      BY <3>1, GridIsNone
    <3> QED BY <2>5, <3>2, <3>3
  <2>9. CASE ~BothOpen(n, g)
    BY <1>5, <2>5, <2>8, <2>9 DEF Woken
  <2>10. CASE BothOpen(n, g) /\ n \in inflight
    BY <1>1, <2>5, <2>8, <2>10 DEF PassedOver
  <2>11. CASE BothOpen(n, g) /\ n \notin inflight
    <3>1. CASE n \in worklist
      BY <1>4, <3>1 DEF Cared
    <3>2. CASE n \notin worklist
      <4>1. grid[n] = OpenSky /\ g = OpenSky /\ OpenSky # NoGrid
        BY <2>11, GridIsNone, LightsTyped DEF BothOpen
      <4>2. Right(voxels[n], Shell(n), OpenSky)
        BY <2>11, <3>2, <4>1 DEF Cared, Rests, Matches
      <4>3. \A t \in Sides : t # s => (Shell(n)')[t] = Shell(n)[t]
        <5>1. \A t \in Sides : t # s => Shown(n + t, -t)' = Shown(n + t, -t)
          BY <2>1, <2>3, <2>4 DEF Sides
        <5> QED BY <5>1 DEF Shell, Shown
      <4>4. (Shell(n)')[s].block = 0
        <5>1. (Shell(n)')[s] = Shown(n + s, -s)'
          BY DEF Shell, Shown
        <5>2. g[BorderCell(-s)] = [sky |-> MaxLight, block |-> 0]
          BY <2>5, <4>1, BorderIsCell DEF OpenSky
        <5> QED BY <2>3, <2>6, <5>1, <5>2
      <4>5. Right(voxels[n], Shell(n)', OpenSky)
        <5>1. Shell(n) \in Shells
          BY <1>2, ShellTyped DEF OwnerInv
        <5> QED BY <4>2, <4>3, <4>4, <5>1, OpenStays
      <4>6. grid'[n] = OpenSky /\ n \notin inflight'
        BY <1>2, <1>3, <1>4, <2>11, <4>1
      <4>7. Rests(n)'
        BY <4>1, <4>5, <4>6 DEF Rests, Matches
      <4> QED BY <4>6, <4>7 DEF Cared
    <3> QED BY <3>1, <3>2
  <2> QED BY <2>9, <2>10, <2>11
<1> QED BY <1>7, <1>8

LEMMA RemovedFrom ==
  ASSUME NEW q \in Seq(Grid), NEW i \in 1..Len(q), NEW k \in DOMAIN RemoveAt(q, i)
  PROVE  \E n \in DOMAIN q : q[n] = RemoveAt(q, i)[k]
<1>1. Len(q) \in Nat /\ DOMAIN q = 1..Len(q)
  BY LenProperties
<1> DEFINE r == RemoveAt(q, i)
<1>2. /\ r \in Seq(Grid) /\ Len(r) = Len(q) - 1
      /\ \A m \in 1..Len(q) - 1 : r[m] = IF m < i THEN q[m] ELSE q[m + 1]
  BY RemovedAt
<1>3. DOMAIN r = 1..Len(q) - 1
  BY <1>2, LenProperties
<1> HIDE DEF r
<1>4. k \in 1..Len(q) - 1
  BY <1>3 DEF r
<1>5. /\ k \in 1..Len(q) /\ k + 1 \in 1..Len(q)
      /\ r[k] = q[k] \/ r[k] = q[k + 1]
  BY <1>1, <1>2, <1>4
<1> QED BY <1>1, <1>5 DEF r

\* Marks that seeding takes away are seeds.
LEMMA SeedKeeps ==
  ASSUME NEW cs, SeedLight(cs), NEW c
  PROVE  /\ c \in worklist => c \in worklist'
         /\ c \in reseed => c \in reseed' \cup worklist'
         /\ c \in cs => c \in worklist'
BY DEF SeedLight

LEMMA EditCares ==
  ASSUME LightInv, NEW e \in Edits, Edit(e[1], e[2], e[3]), NEW c \in loaded, Cared(c)
  PROVE  Cared(c)'
<1>1. e[1] \in Chunks /\ e[2] \in Cells /\ c \in Chunks
  BY LightAssumption DEF LightInv, OwnerInv, TypeOK
<1> DEFINE d == e[1]
           cs == ({d} \cup {n \in Neighbours(d) : e[2] = BorderCell(n - d)}) \cap loaded
<1>2. /\ voxels' = [voxels EXCEPT ![d][e[2]] = e[3]] /\ SeedLight(cs)
      /\ UNCHANGED <<loaded, residency, grid, inflight, queue, jobs, lighting, epoch, strikes, untold>>
  BY DEF Edit, fieldVars, switchVars
<1>3. CASE c = d
  <2>1. c \in worklist'
    BY <1>2, <1>3, SeedKeeps
  <2> QED BY <2>1 DEF Cared
<1>4. CASE c # d
  <2>1. voxels'[c] = voxels[c]
    BY <1>1, <1>2, <1>4 DEF LightInv, OwnerInv, TypeOK
  <2>2. Shell(c)' = Shell(c) /\ Current(c)' = Current(c)
    BY <1>2 DEF Shell, Current
  <2>3. c \in worklist => c \in worklist'
    BY <1>2, SeedKeeps
  <2>4. c \in reseed => c \in reseed' \cup worklist'
    BY <1>2, SeedKeeps
  <2> HIDE DEF d, cs
  <2> QED BY <1>1, <1>2, <2>1, <2>2, <2>3, <2>4, CareKept
<1> QED BY <1>3, <1>4

LEMMA StoreCares ==
  ASSUME LightInv, NEW d \in Chunks, Store(d), NEW c \in loaded', c \in loaded => Exempt(c) \/ Cared(c)
  PROVE  Exempt(c)' \/ Cared(c)'
<1>1. /\ d \notin loaded /\ loaded' = loaded \cup {d}
      /\ residency' = [residency EXCEPT ![d] = @ + 1]
      /\ UNCHANGED <<voxels, jobs, lighting, epoch, strikes, queue>>
  BY DEF Store, switchVars, laneVars
<1>2. /\ c \in Chunks /\ loaded \subseteq Chunks /\ loaded' \subseteq Chunks
      /\ grid[d] = NoGrid /\ d \notin reseed
  BY <1>1 DEF LightInv, OwnerInv, TypeOK
<1>3. untold \subseteq untold'
  BY DEF Store, Settle
<1>4. Exempt(c) => Exempt(c)'
  BY <1>1, <1>3 DEF Exempt, Beside, Quarantined
<1>5. ASSUME c # d, grid' = grid, inflight' = inflight, Cared(c),
             c \in worklist => c \in worklist',
             c \in reseed => c \in reseed' \cup worklist'
      PROVE  Cared(c)'
  <2>1. Shell(c)' = Shell(c)
    <3>1. \A n \in Neighbours(c) :
            /\ n \in loaded' /\ grid'[n] # NoGrid <=> n \in loaded /\ grid[n] # NoGrid
            /\ n \in loaded => grid'[n] = grid[n]
      BY <1>1, <1>2, <1>5
    <3> QED BY <1>2, <3>1, ShellKept
  <2>2. Current(c)' = Current(c) /\ residency'[c] = residency[c]
    BY <1>1, <1>2, <1>5 DEF Current, LightInv, OwnerInv, TypeOK
  <2> QED BY <1>1, <1>2, <1>5, <2>1, <2>2, CareKept
<1>6. CASE ~lighting
  <2>1. UNCHANGED <<grid, inflight, worklist, reseed>>
    BY <1>6 DEF Store, fieldVars, laneVars
  <2>2. CASE c = d
    <3>1. inflight = {}
      BY <1>6 DEF LightInv, DarkIdle
    <3> QED BY <1>1, <1>2, <1>6, <2>1, <2>2, <3>1 DEF Cared, Rests
  <2>3. CASE c # d
    BY <1>1, <1>4, <1>5, <2>1, <2>3
  <2> QED BY <2>2, <2>3
<1>7. CASE lighting /\ (d \in inflight \/ TrivialLight(d) = {})
  <2>1. SeedLight({d}) /\ UNCHANGED <<grid, inflight>>
    BY <1>7 DEF Store, fieldVars
  <2>2. /\ c \in worklist => c \in worklist'
        /\ c \in reseed => c \in reseed' \cup worklist'
        /\ c = d => c \in worklist'
    BY <2>1, SeedKeeps
  <2>3. CASE c = d
    BY <2>2, <2>3 DEF Cared
  <2>4. CASE c # d
    BY <1>1, <1>4, <1>5, <2>1, <2>2, <2>4
  <2> QED BY <2>3, <2>4
<1>8. CASE lighting /\ d \notin inflight /\ TrivialLight(d) # {}
  <2>1. PICK g \in TrivialLight(d) : Settle(d, g, reseed)
    BY <1>8 DEF Store
  <2>2. g \in Grids
    BY TrivialTyped
  <2>3. CASE c = d
    <3>1. Matches(d, g)
      BY TrivialRight DEF LightInv, OwnerInv
    <3>2. grid' = [grid EXCEPT ![d] = g] /\ inflight' = inflight \ {d}
      BY <2>1 DEF Settle
    <3>3. grid'[d] = g /\ \A n \in Chunks : n # d => grid'[n] = grid[n]
      BY <3>2 DEF LightInv, OwnerInv, TypeOK
    <3>4. Shell(d)' = Shell(d)
      <4>1. \A n \in Neighbours(d) :
              /\ n \in loaded' /\ grid'[n] # NoGrid <=> n \in loaded /\ grid[n] # NoGrid
              /\ n \in loaded => grid'[n] = grid[n]
        BY <1>1, <3>3, NeighboursTyped
      <4> QED BY <1>2, <4>1, ShellKept
    <3>5. Matches(d, g)'
      BY <1>1, <3>1, <3>4 DEF Matches
    <3>6. Right(voxels'[d], Shell(d)', grid'[d])
      BY <3>3, <3>5 DEF Matches
    <3> QED BY <2>2, <2>3, <3>2, <3>3, <3>6, GridIsNone DEF Cared, Rests, Matches
  <2>4. CASE c # d
    <3>1. c \in loaded /\ residency'[c] = residency[c]
      BY <1>1, <2>4 DEF LightInv, OwnerInv, TypeOK
    <3>2. Cared(c) => c \in untold' \/ Cared(c)'
      BY <1>1, <2>1, <2>2, <2>4, <3>1, SettleCares DEF LightInv
    <3> QED BY <1>4, <3>1, <3>2 DEF Exempt
  <2> QED BY <2>3, <2>4
<1> QED BY <1>6, <1>7, <1>8

LEMMA UnloadCares ==
  ASSUME LightInv, NEW d \in Chunks, Unload(d), NEW c \in loaded', Exempt(c) \/ Cared(c)
  PROVE  Exempt(c)' \/ Cared(c)'
<1>1. /\ loaded' = loaded \ {d} /\ grid' = [grid EXCEPT ![d] = NoGrid]
      /\ worklist' = worklist \ {d} /\ reseed' = reseed \ {d}
      /\ untold' = (untold \cup (Neighbours(d) \cap loaded)) \ {d}
      /\ UNCHANGED <<voxels, residency, jobs, lighting, epoch, strikes>>
  BY DEF Unload, switchVars
<1>2. c \in Chunks /\ c \in loaded /\ c # d
  BY <1>1 DEF LightInv, OwnerInv, TypeOK
<1>3. loaded \subseteq Chunks /\ \A n \in Chunks : n # d => grid'[n] = grid[n]
  BY <1>1 DEF LightInv, OwnerInv, TypeOK
<1>4. CASE c \in Neighbours(d) \/ Exempt(c)
  BY <1>1, <1>2, <1>4 DEF Exempt, Beside, Quarantined
<1>5. CASE c \notin Neighbours(d) /\ Cared(c)
  <2>1. d \notin Neighbours(c)
    BY <1>2, <1>5, LightAssumption DEF Neighbours, Chunks
  <2>2. Shell(c)' = Shell(c)
    <3>1. \A n \in Neighbours(c) :
            /\ n \in loaded' /\ grid'[n] # NoGrid <=> n \in loaded /\ grid[n] # NoGrid
            /\ n \in loaded => grid'[n] = grid[n]
      BY <1>1, <1>3, <2>1, NeighboursTyped
    <3> QED BY <1>1, <1>2, <1>3, <3>1, ShellKept
  <2>3. /\ c \in inflight' <=> c \in inflight
        /\ \A i \in DOMAIN queue' : \E k \in DOMAIN queue : queue[k] = queue'[i]
    <3>1. CASE QueuedAt(d) = {}
      BY <3>1 DEF Unload
    <3>2. CASE QueuedAt(d) # {}
      <4>1. PICK i \in QueuedAt(d) : queue' = RemoveAt(queue, i) /\ inflight' = inflight \ {d}
        BY <3>2 DEF Unload
      <4>2. i \in 1..Len(queue)
        BY QueuedIs DEF LightInv, OwnerInv
      <4>3. queue \in Seq(Grid)
        BY QueueOnce DEF LightInv
      <4> QED BY <1>2, <4>1, <4>2, <4>3, RemovedFrom
    <3> QED BY <3>1, <3>2
  <2>4. Current(c)' = Current(c)
    BY <1>1 DEF Current
  <2> QED BY <1>1, <1>2, <1>3, <1>5, <2>2, <2>3, <2>4, CareKept
<1> QED BY <1>4, <1>5

LEMMA SubmitCares ==
  ASSUME LightInv, NEW d \in Chunks, Submit(d), NEW c \in loaded', Exempt(c) \/ Cared(c)
  PROVE  Exempt(c)' \/ Cared(c)'
<1>1. /\ d \notin inflight /\ worklist' = worklist \ {d} /\ inflight' = inflight \cup {d}
      /\ jobs' = jobs \cup {Flight(d)} /\ untold' = untold \ {d}
      /\ UNCHANGED <<voxels, loaded, residency, grid, reseed, queue, lighting, epoch, strikes>>
  BY DEF Submit, Taken, fieldVars, switchVars
<1>2. c \in Chunks
  BY <1>1 DEF LightInv, OwnerInv, TypeOK
<1>3. Shell(c)' = Shell(c) /\ (Beside(c) => Beside(c)')
  BY <1>1 DEF Shell, Beside, Quarantined
<1>4. /\ Flight(d).at = d /\ Flight(d).epoch = epoch /\ Flight(d).of = residency[d]
      /\ Flight(d).light = Flood(voxels[d], Shell(d))
  BY DEF Flight
<1>5. CASE c = d
  <2>1. Current(d) = {} /\ QueuedAt(d) = {}
    BY <1>1 DEF LightInv, OwnerInv, OwnedOnce
  <2>2. \A j \in Current(d)' : j = Flight(d)
    <3>1. Current(d)' \subseteq Current(d) \cup {Flight(d)}
      BY <1>1 DEF Current
    <3> QED BY <2>1, <3>1
  <2>3. Right(voxels[d], Shell(d), Flight(d).light)
    BY <1>4 DEF Right
  <2>4. \A i \in DOMAIN queue' : queue'[i].at # d
    BY <1>1, <2>1 DEF QueuedAt
  <2>5. \A j \in Current(d)' : j.of = residency'[d] /\ Right(voxels'[d], Shell(d)', j.light)
    BY <1>1, <1>3, <1>4, <1>5, <2>2, <2>3
  <2>6. Answered(d)'
    BY <2>4, <2>5 DEF Answered, Matches
  <2> QED BY <1>1, <1>5, <2>6 DEF Cared
<1>6. CASE c # d
  <2>1. Exempt(c) => Exempt(c)'
    BY <1>1, <1>3, <1>6 DEF Exempt
  <2>2. Current(c)' = Current(c)
    BY <1>1, <1>4, <1>6 DEF Current
  <2>3. Cared(c) => Cared(c)'
    BY <1>1, <1>2, <1>3, <1>6, <2>2, CareKept
  <2> QED BY <2>1, <2>3
<1> QED BY <1>5, <1>6

LEMMA IntegrateCares ==
  ASSUME LightInv, NEW d \in Chunks, Integrate(d), NEW c \in loaded', Exempt(c) \/ Cared(c)
  PROVE  Exempt(c)' \/ Cared(c)'
<1>1. PICK j \in jobs :
        /\ jobs' = jobs \ {j} /\ Accept(j)
        /\ UNCHANGED <<voxels, loaded, residency, grid, lighting, epoch, strikes, untold>>
  BY DEF Integrate, fieldVars, switchVars
<1>2. c \in Chunks /\ j.at \in Chunks
  BY <1>1 DEF LightInv, OwnerInv, TypeOK, Flights
<1>3. Shell(c)' = Shell(c) /\ Current(c)' = Current(c) \ {j} /\ (Exempt(c) => Exempt(c)')
  BY <1>1 DEF Shell, Current, Exempt, Beside, Quarantined
<1>4. CASE j.epoch # epoch
  <2>1. UNCHANGED <<worklist, reseed, inflight, queue>>
    BY <1>1, <1>4 DEF Accept, laneVars
  <2>2. Cared(c) => Cared(c)'
    BY <1>1, <1>2, <1>3, <2>1, CareKept
  <2> QED BY <1>3, <2>2
<1>5. CASE j.epoch = epoch /\ (j.at \notin loaded \/ j.of # residency[j.at])
  <2>1. inflight' = inflight \ {j.at} /\ SeedLight({j.at} \cap loaded) /\ queue' = queue
    BY <1>1, <1>5 DEF Accept
  <2>2. /\ c \in worklist => c \in worklist'
        /\ c \in reseed => c \in reseed' \cup worklist'
        /\ c = j.at => c \in worklist'
    BY <1>1, <2>1, SeedKeeps
  <2>3. CASE c = j.at
    BY <2>2, <2>3 DEF Cared
  <2>4. CASE c # j.at
    <3>1. c \in inflight' <=> c \in inflight
      BY <2>1, <2>4
    <3>2. Cared(c) => Cared(c)'
      BY <1>1, <1>2, <1>3, <2>1, <2>2, <3>1, CareKept
    <3> QED BY <1>3, <3>2
  <2> QED BY <2>3, <2>4
<1>6. CASE j.epoch = epoch /\ ~(j.at \notin loaded \/ j.of # residency[j.at])
  <2> DEFINE entry == [at |-> j.at, light |-> j.light]
  <2>1. queue' = Append(queue, entry) /\ UNCHANGED <<worklist, reseed, inflight>>
    BY <1>1, <1>6 DEF Accept
  <2>2. entry \in Grid /\ entry.at = j.at /\ entry.light = j.light
    BY <1>1 DEF LightInv, OwnerInv, TypeOK, Flights, Grid
  <2> HIDE DEF entry
  <2>3. \A i \in DOMAIN queue' : (i \in DOMAIN queue /\ queue'[i] = queue[i]) \/ queue'[i] = entry
    <3>1. queue \in Seq(Grid)
      BY QueueOnce DEF LightInv
    <3>2. Len(queue) \in Nat /\ DOMAIN queue = 1..Len(queue)
      BY <3>1, LenProperties
    <3>3. /\ Append(queue, entry) \in Seq(Grid) /\ Len(Append(queue, entry)) = Len(queue) + 1
          /\ \A k \in 1..Len(queue) : Append(queue, entry)[k] = queue[k]
          /\ Append(queue, entry)[Len(queue) + 1] = entry
      BY <2>2, <3>1, <3>2
    <3>4. DOMAIN queue' = 1..Len(queue) + 1
      BY <2>1, <3>3, LenProperties
    <3> QED BY <2>1, <3>2, <3>3, <3>4
  <2>4. CASE c = j.at
    <3>1. j \in Current(c)
      BY <1>1, <1>6, <2>4 DEF Current
    <3>2. c \in inflight /\ QueuedAt(c) = {}
      BY <1>2, <3>1 DEF LightInv, OwnerInv, OwnedOnce
    <3>3. Answered(c) => Answered(c)'
      <4> SUFFICES ASSUME Answered(c) PROVE Answered(c)'
        OBVIOUS
      <4>1. \A g : Matches(c, g) => Right(voxels'[c], Shell(c)', g)
        BY <1>1, <1>3 DEF Matches
      <4>2. \A i \in DOMAIN queue : queue[i].at # c
        BY <3>2 DEF QueuedAt
      <4>3. Right(voxels'[c], Shell(c)', j.light)
        BY <3>1, <4>1 DEF Answered
      <4>4. \A k \in Current(c)' : k.of = residency'[c] /\ Right(voxels'[c], Shell(c)', k.light)
        BY <1>1, <1>3, <4>1 DEF Answered
      <4>5. \A i \in DOMAIN queue' : queue'[i].at = c => Right(voxels'[c], Shell(c)', queue'[i].light)
        BY <2>2, <2>3, <4>2, <4>3
      <4> QED BY <4>4, <4>5 DEF Answered, Matches
    <3> QED BY <1>3, <2>1, <3>2, <3>3 DEF Cared
  <2>5. CASE c # j.at
    <3>1. \A i \in DOMAIN queue' : queue'[i].at = c => \E k \in DOMAIN queue : queue[k] = queue'[i]
      BY <2>2, <2>3, <2>5
    <3>2. Cared(c) => Cared(c)'
      BY <1>1, <1>2, <1>3, <2>1, <3>1, CareKept
    <3> QED BY <1>3, <3>2
  <2> QED BY <2>4, <2>5
<1> QED BY <1>4, <1>5, <1>6

LEMMA ApplyCares ==
  ASSUME LightInv, Apply, NEW c \in loaded', Exempt(c) \/ Cared(c)
  PROVE  Exempt(c)' \/ Cared(c)'
<1>1. /\ queue # <<>> /\ queue' = Tail(queue)
      /\ UNCHANGED <<voxels, loaded, residency, jobs, lighting, epoch, strikes>>
  BY DEF Apply, switchVars
<1>2. queue \in Seq(Grid)
  BY QueueOnce DEF LightInv
<1>3. queue' = RemoveAt(queue, 1) /\ Head(queue) = queue[1] /\ 1 \in 1..Len(queue)
  BY <1>1, <1>2, TailRemoves
<1>4. \A i \in DOMAIN queue' : \E k \in DOMAIN queue : queue[k] = queue'[i]
  BY <1>2, <1>3, RemovedFrom
<1>5. PICK d, g : d = Head(queue).at /\ g = Head(queue).light
  OBVIOUS
<1>6. d \in Chunks /\ g \in Grids /\ 1 \in DOMAIN queue
  <2>1. queue[1] \in Grid
    BY <1>2, <1>3, ElementOfSeq
  <2> QED BY <1>2, <1>3, <1>5, <2>1, LenProperties DEF Grid
<1>7. /\ c \in Chunks /\ c \in loaded /\ loaded \subseteq Chunks /\ loaded' \subseteq Chunks
      /\ (Beside(c) => Beside(c)')
  BY <1>1 DEF LightInv, OwnerInv, TypeOK, Beside, Quarantined
<1>8. CASE d \in loaded
  <2>1. Settle(d, g, reseed)
    BY <1>5, <1>8 DEF Apply
  <2>2. Exempt(c) => Exempt(c)'
    BY <1>7, <2>1 DEF Exempt, Settle
  <2>3. CASE c = d
    <3>1. grid' = [grid EXCEPT ![d] = g] /\ inflight' = inflight \ {d}
          /\ worklist \subseteq worklist' /\ ({d} \cap reseed) \subseteq worklist'
      BY <2>1 DEF Settle
    <3>2. grid'[d] = g /\ \A n \in Chunks : n # d => grid'[n] = grid[n]
      BY <1>6, <3>1 DEF LightInv, OwnerInv, TypeOK
    <3>3. Shell(d)' = Shell(d)
      <4>1. \A n \in Neighbours(d) :
              /\ n \in loaded' /\ grid'[n] # NoGrid <=> n \in loaded /\ grid[n] # NoGrid
              /\ n \in loaded => grid'[n] = grid[n]
        BY <1>1, <1>6, <3>2, NeighboursTyped
      <4> QED BY <1>6, <1>7, <4>1, ShellKept
    <3>4. d \in inflight
      <4>1. 1 \in QueuedAt(d)
        BY <1>3, <1>5, <1>6 DEF QueuedAt
      <4> QED BY <1>6, <4>1 DEF LightInv, OwnerInv, OwnedOnce
    <3>5. Answered(d) => Right(voxels'[d], Shell(d)', grid'[d])
      BY <1>1, <1>3, <1>5, <1>6, <3>2, <3>3 DEF Answered, Matches
    <3>6. Right(voxels'[d], Shell(d)', grid'[d]) => Rests(d)'
      BY <1>6, <3>2, GridIsNone DEF Rests, Matches
    <3> QED BY <2>2, <2>3, <3>1, <3>4, <3>5, <3>6 DEF Cared
  <2>4. CASE c # d
    <3>1. loaded' = loaded \cup {d} /\ residency'[c] = residency[c]
      BY <1>1, <1>8
    <3>2. Cared(c) => c \in untold' \/ Cared(c)'
      BY <1>1, <1>4, <1>6, <1>7, <2>1, <2>4, <3>1, SettleCares DEF LightInv
    <3> QED BY <2>2, <3>2 DEF Exempt
  <2> QED BY <2>3, <2>4
<1>9. CASE d \notin loaded
  <2>1. inflight' = inflight \ {d} /\ UNCHANGED <<grid, worklist, reseed, untold>>
    BY <1>5, <1>9 DEF Apply, fieldVars
  <2>2. Shell(c)' = Shell(c) /\ Current(c)' = Current(c) /\ (Exempt(c) => Exempt(c)')
    BY <1>1, <1>7, <2>1 DEF Shell, Current, Exempt
  <2>3. c \in inflight' <=> c \in inflight
    BY <1>7, <1>9, <2>1
  <2>4. Cared(c) => Cared(c)'
    BY <1>1, <1>4, <1>7, <2>1, <2>2, <2>3, CareKept
  <2> QED BY <2>2, <2>4
<1> QED BY <1>8, <1>9

LEMMA LoseCares ==
  ASSUME ~LateLosses, LightInv, NEW j \in jobs, Lose(j), NEW c \in loaded', Exempt(c) \/ Cared(c)
  PROVE  Exempt(c)' \/ Cared(c)'
<1>1. /\ jobs' = jobs \ {j} /\ inflight' = inflight \ {j.at}
      /\ (Cancelled(j.at) /\ UNCHANGED strikes) \/ Failed(j.at)
      /\ UNCHANGED <<voxels, loaded, residency, grid, queue, lighting, epoch, untold>>
  BY DEF Lose, fieldVars, switchVars
<1>2. c \in Chunks /\ j.at \in Chunks
  BY <1>1 DEF LightInv, OwnerInv, TypeOK, Flights
<1>3. Quarantined \subseteq Quarantined'
  <2>1. CASE UNCHANGED strikes
    BY <2>1 DEF Quarantined
  <2>2. CASE Failed(j.at)
    <3>1. strikes' = [strikes EXCEPT ![j.at] = IF @ = MaxStrikes THEN @ ELSE @ + 1]
      BY <2>2 DEF Failed
    <3>2. strikes \in [Chunks -> 0..MaxStrikes] /\ MaxStrikes \in Nat
      BY LightAssumption DEF LightInv, OwnerInv, TypeOK
    <3>3. \A n \in Chunks : strikes[n] \in Nat /\ strikes'[n] >= strikes[n] /\ strikes'[n] \in Nat
      BY <3>1, <3>2
    <3>4. \A n \in Chunks : strikes[n] >= MaxStrikes => strikes'[n] >= MaxStrikes
      BY <3>2, <3>3
    <3> QED BY <3>4 DEF Quarantined
  <2> QED BY <1>1, <2>1, <2>2
<1>4. Exempt(c) => Exempt(c)'
  BY <1>1, <1>3 DEF Exempt, Beside
<1>5. PICK cs : SeedLight(cs) /\ (j.at \in cs \/ j.at \in Quarantined')
  <2>1. CASE Cancelled(j.at)
    BY <2>1 DEF Cancelled
  <2>2. CASE Failed(j.at)
    <3>1. SeedLight(IF strikes'[j.at] >= MaxStrikes THEN {} ELSE {j.at})
      BY <2>2 DEF Failed
    <3>2. strikes'[j.at] >= MaxStrikes => j.at \in Quarantined'
      BY <1>2 DEF Quarantined
    <3> QED BY <3>1, <3>2
  <2> QED BY <1>1, <2>1, <2>2
<1>6. /\ c \in worklist => c \in worklist'
      /\ c \in reseed => c \in reseed' \cup worklist'
      /\ c \in cs => c \in worklist'
  BY <1>5, SeedKeeps
<1>7. CASE c = j.at
  BY <1>5, <1>6, <1>7 DEF Cared, Exempt, Beside
<1>8. CASE c # j.at
  <2>1. c \in inflight' <=> c \in inflight
    BY <1>1, <1>8
  <2>2. Shell(c)' = Shell(c) /\ Current(c)' \subseteq Current(c)
    BY <1>1 DEF Shell, Current
  <2>3. Cared(c) => Cared(c)'
    BY <1>1, <1>2, <1>6, <2>1, <2>2, CareKept
  <2> QED BY <1>4, <2>3
<1> QED BY <1>7, <1>8

LEMMA SwitchCares ==
  ASSUME LightInv, SwitchLighting, NEW c \in loaded', Exempt(c) \/ Cared(c)
  PROVE  Exempt(c)' \/ Cared(c)'
<1>1. /\ lighting' = ~lighting /\ inflight' = {}
      /\ UNCHANGED <<voxels, loaded, residency, jobs, strikes>>
  BY DEF SwitchLighting
<1>2. /\ c \in Chunks /\ c \in loaded /\ loaded \subseteq Chunks /\ loaded' \subseteq Chunks
      /\ (Beside(c) => Beside(c)') /\ lighting \in BOOLEAN
  BY <1>1 DEF LightInv, OwnerInv, TypeOK, Beside, Quarantined
<1>3. CASE ~lighting
  <2>1. worklist' = worklist \cup {d \in loaded : grid[d] = NoGrid} /\ UNCHANGED <<grid, untold>>
    BY <1>3 DEF SwitchLighting
  <2>2. Shell(c)' = Shell(c) /\ c \notin inflight
    BY <1>1, <1>3, <2>1 DEF Shell, LightInv, DarkIdle
  <2>3. Matches(c, grid[c]) => Right(voxels'[c], Shell(c)', grid'[c])
    BY <1>1, <2>1, <2>2 DEF Matches
  <2>4. Cared(c) => Cared(c)'
    BY <1>1, <1>2, <2>1, <2>2, <2>3 DEF Cared, Rests, Matches
  <2> QED BY <1>2, <2>1, <2>4 DEF Exempt
<1>4. CASE lighting
  <2>1. /\ grid' = [d \in Chunks |-> IF d \in Unsettled THEN NoGrid ELSE grid[d]]
        /\ untold' = untold \cup {d \in loaded : Neighbours(d) \cap Unsettled \cap loaded # {}}
    BY <1>4 DEF SwitchLighting
  <2>2. CASE Exempt(c) \/ Neighbours(c) \cap Unsettled \cap loaded # {}
    BY <1>2, <2>1, <2>2 DEF Exempt
  <2>3. CASE c \in Unsettled
    <3>1. grid'[c] = NoGrid /\ ~lighting' /\ c \notin inflight'
      BY <1>1, <1>2, <1>4, <2>1, <2>3
    <3> QED BY <3>1 DEF Cared, Rests
  <2>4. CASE Cared(c) /\ Neighbours(c) \cap Unsettled \cap loaded = {} /\ c \notin Unsettled
    <3>1. c \notin worklist /\ c \notin inflight
      BY <2>4 DEF Unsettled
    <3>2. grid'[c] = grid[c]
      BY <1>2, <2>1, <2>4
    <3>3. Shell(c)' = Shell(c)
      <4>1. \A n \in Neighbours(c) :
              /\ n \in loaded' /\ grid'[n] # NoGrid <=> n \in loaded /\ grid[n] # NoGrid
              /\ n \in loaded => grid'[n] = grid[n]
        BY <1>1, <2>1, <2>4, NeighboursTyped
      <4> QED BY <1>2, <4>1, ShellKept
    <3>4. Rests(c) /\ grid[c] # NoGrid
      BY <1>4, <2>4, <3>1 DEF Cared, Rests
    <3>5. Right(voxels'[c], Shell(c)', grid'[c])
      BY <1>1, <3>2, <3>3, <3>4 DEF Rests, Matches
    <3> QED BY <1>1, <3>2, <3>4, <3>5 DEF Cared, Rests, Matches
  <2> QED BY <2>2, <2>3, <2>4
<1> QED BY <1>2, <1>3, <1>4

LEMMA CareStep ==
  ASSUME ~LateLosses, LightInv, [Next]_vars
  PROVE  AllCared'
<1> SUFFICES ASSUME NEW c \in loaded' PROVE Exempt(c)' \/ Cared(c)'
  BY DEF AllCared
<1>1. c \in loaded => Exempt(c) \/ Cared(c)
  BY DEF LightInv, AllCared
<1>2. ASSUME NEW d \in Chunks, Store(d) PROVE Exempt(c)' \/ Cared(c)'
  BY <1>1, <1>2, StoreCares
<1>3. CASE loaded' \subseteq loaded
  <2>1. c \in loaded /\ (Exempt(c) \/ Cared(c))
    BY <1>1, <1>3
  <2>2. ASSUME NEW d \in Chunks, Unload(d) \/ Submit(d) \/ Integrate(d) PROVE Exempt(c)' \/ Cared(c)'
    BY <2>1, <2>2, UnloadCares, SubmitCares, IntegrateCares
  <2>3. ASSUME NEW e \in Edits, Edit(e[1], e[2], e[3]) PROVE Exempt(c)' \/ Cared(c)'
    <3>1. UNCHANGED <<strikes, untold>>
      BY <2>3 DEF Edit
    <3>2. Exempt(c) => Exempt(c)'
      BY <3>1 DEF Exempt, Beside, Quarantined
    <3> QED BY <2>1, <2>3, <3>2, EditCares
  <2>4. CASE Apply \/ SwitchLighting \/ \E j \in jobs : Lose(j)
    BY <2>1, <2>4, ApplyCares, SwitchCares, LoseCares
  <2>5. ASSUME UNCHANGED <<voxels, loaded, residency, grid, inflight, reseed, queue, jobs, lighting,
                           epoch, strikes, untold>>,
               c \in worklist => c \in worklist' \/ c \in Quarantined
        PROVE  Exempt(c)' \/ Cared(c)'
    <3>1. (Exempt(c) => Exempt(c)') /\ (c \in Quarantined => Exempt(c)')
      BY <2>5 DEF Exempt, Beside, Quarantined
    <3>2. Shell(c)' = Shell(c) /\ Current(c)' = Current(c) /\ c \in Chunks
      BY <2>1, <2>5 DEF Shell, Current, LightInv, OwnerInv, TypeOK
    <3>3. c \in worklist \/ c \in worklist' \/ c \notin worklist
      OBVIOUS
    <3>4. (c \in worklist => c \in worklist') /\ Cared(c) => Cared(c)'
      BY <2>5, <3>2, CareKept
    <3> QED BY <2>1, <2>5, <3>1, <3>4
  <2>6. ASSUME NEW d \in Chunks, DropSeed(d) PROVE Exempt(c)' \/ Cared(c)'
    <3>1. worklist' = worklist \ {d} /\ d \notin loaded \ Quarantined
      BY <2>6 DEF DropSeed, Taken
    <3> QED BY <2>1, <2>5, <2>6, <3>1 DEF DropSeed, fieldVars, switchVars
  <2>7. CASE LaneIdle \/ UNCHANGED vars
    BY <2>5, <2>7 DEF LaneIdle, vars, fieldVars, laneVars, switchVars
  <2> QED BY <1>2, <2>2, <2>3, <2>4, <2>6, <2>7 DEF Next
<1>4. CASE ~(\E d \in Chunks : Store(d))
  <2>1. loaded' \subseteq loaded
    BY <1>4 DEF Next, Unload, Submit, DropSeed, Integrate, Edit, LaneIdle, Apply, SwitchLighting, Lose, vars
  <2> QED BY <1>3, <2>1
<1> QED BY <1>2, <1>4

LEMMA DarkStep ==
  ASSUME LightInv, [Next]_vars
  PROVE  DarkIdle'
<1> SUFFICES ASSUME ~lighting' PROVE inflight' = {} /\ queue' = <<>>
  BY DEF DarkIdle
<1>1. CASE SwitchLighting
  BY <1>1 DEF SwitchLighting
<1>2. CASE ~SwitchLighting
  <2>1. lighting' = lighting
    BY <1>2 DEF Next, Store, Unload, Submit, DropSeed, Integrate, Edit, LaneIdle, Apply, Lose, vars, switchVars
  <2>2. inflight = {} /\ queue = <<>> /\ ~lighting
    BY <2>1 DEF LightInv, DarkIdle
  <2>3. \A d : QueuedAt(d) = {}
    BY <2>2 DEF QueuedAt
  <2>4. ~Apply /\ \A d \in Chunks : ~Submit(d)
    BY <2>2 DEF Apply, Submit
  <2>5. \A d \in Chunks : Current(d) = {}
    BY <2>2 DEF LightInv, OwnerInv, OwnedOnce
  <2>6. ASSUME NEW d \in Chunks, Integrate(d) PROVE inflight' = {} /\ queue' = <<>>
    <3>1. PICK j \in jobs : j.at = d /\ Accept(j)
      BY <2>6 DEF Integrate
    <3>2. j.epoch # epoch
      BY <2>5, <3>1 DEF Current
    <3> QED BY <2>2, <3>1, <3>2 DEF Accept, laneVars
  <2>7. ASSUME NEW j \in jobs, Lose(j) PROVE inflight' = {} /\ queue' = <<>>
    BY <2>2, <2>7 DEF Lose
  <2>8. ASSUME NEW d \in Chunks, Store(d) \/ Unload(d) \/ DropSeed(d) PROVE inflight' = {} /\ queue' = <<>>
    BY <2>2, <2>3, <2>8 DEF Store, Unload, DropSeed, laneVars
  <2>9. ASSUME NEW e \in Edits, Edit(e[1], e[2], e[3]) PROVE inflight' = {} /\ queue' = <<>>
    BY <2>2, <2>9 DEF Edit
  <2>10. CASE LaneIdle \/ UNCHANGED vars
    BY <2>2, <2>10 DEF LaneIdle, vars, laneVars
  <2> QED BY <1>2, <2>4, <2>6, <2>7, <2>8, <2>9, <2>10 DEF Next
<1> QED BY <1>1, <1>2

LEMMA FlagsStep ==
  ASSUME LightInv, [Next]_vars
  PROVE  FlagsLit'
<1>1. ASSUME NEW d \in Chunks, NEW g \in Grids, Settle(d, g, reseed) PROVE FlagsLit'
  <2>1. /\ grid' = [grid EXCEPT ![d] = g]
        /\ bright' = IF grid[d] = g THEN bright
                     ELSE IF HasBorderBlockLight(g) THEN bright \cup {d} ELSE bright \ {d}
    BY <1>1 DEF Settle
  <2>2. grid'[d] = g /\ \A n \in Chunks : n # d => grid'[n] = grid[n]
    BY <2>1 DEF LightInv, OwnerInv, TypeOK
  <2> SUFFICES ASSUME NEW c \in Chunks, grid'[c] # NoGrid, HasBorderBlockLight(grid'[c])
               PROVE  c \in bright'
    BY DEF FlagsLit, HasBorderBlockLight
  <2>3. CASE c = d /\ grid[d] # g
    BY <2>1, <2>2, <2>3
  <2>4. CASE c # d \/ grid[d] = g
    <3>1. grid'[c] = grid[c]
      BY <2>2, <2>4
    <3>2. c \in bright
      BY <3>1 DEF LightInv, FlagsLit
    <3> QED BY <2>1, <2>4, <3>2
  <2> QED BY <2>3, <2>4
<1>2. ASSUME UNCHANGED <<grid, bright>> PROVE FlagsLit'
  BY <1>2 DEF LightInv, FlagsLit, HasBorderBlockLight
<1>3. ASSUME NEW S, \A c \in Chunks : grid'[c] = IF c \in S THEN NoGrid ELSE grid[c], bright \ S \subseteq bright'
      PROVE  FlagsLit'
  <2> SUFFICES ASSUME NEW c \in Chunks, grid'[c] # NoGrid, HasBorderBlockLight(grid'[c])
               PROVE  c \in bright'
    BY DEF FlagsLit, HasBorderBlockLight
  <2>1. c \notin S /\ grid'[c] = grid[c]
    BY <1>3
  <2> QED BY <1>3, <2>1 DEF LightInv, FlagsLit
<1>4. ASSUME NEW d \in Chunks, Store(d) PROVE FlagsLit'
  <2>1. CASE UNCHANGED fieldVars
    BY <1>2, <2>1 DEF fieldVars
  <2>2. CASE ~UNCHANGED fieldVars
    BY <1>1, <1>4, <2>2, TrivialTyped DEF Store
  <2> QED BY <2>1, <2>2
<1>5. CASE Apply
  <2>1. CASE UNCHANGED fieldVars
    BY <1>2, <2>1 DEF fieldVars
  <2>2. CASE ~UNCHANGED fieldVars
    <3>1. Settle(Head(queue).at, Head(queue).light, reseed) /\ queue # <<>>
      BY <1>5, <2>2 DEF Apply
    <3>2. queue \in Seq(Grid)
      BY QueueOnce DEF LightInv
    <3>3. Head(queue) \in Grid
      BY <3>1, <3>2, HeadTailProperties
    <3> QED BY <1>1, <3>1, <3>3 DEF Grid
  <2> QED BY <2>1, <2>2
<1>6. ASSUME NEW d \in Chunks, Unload(d) PROVE FlagsLit'
  <2>1. grid' = [grid EXCEPT ![d] = NoGrid] /\ bright' = bright \ {d}
    BY <1>6 DEF Unload
  <2>2. \A c \in Chunks : grid'[c] = IF c \in {d} THEN NoGrid ELSE grid[c]
    BY <2>1 DEF LightInv, OwnerInv, TypeOK
  <2> QED BY <1>3, <2>1, <2>2
<1>7. CASE SwitchLighting
  <2>1. CASE lighting
    BY <1>3, <1>7, <2>1 DEF SwitchLighting
  <2>2. CASE ~lighting
    BY <1>2, <1>7, <2>2 DEF SwitchLighting
  <2> QED BY <2>1, <2>2
<1>8. ASSUME NEW d \in Chunks, Submit(d) \/ DropSeed(d) \/ Integrate(d) PROVE FlagsLit'
  BY <1>2, <1>8 DEF Submit, DropSeed, Integrate, fieldVars
<1>9. ASSUME NEW e \in Edits, Edit(e[1], e[2], e[3]) PROVE FlagsLit'
  BY <1>2, <1>9 DEF Edit, fieldVars
<1>10. ASSUME NEW j \in jobs, Lose(j) PROVE FlagsLit'
  BY <1>2, <1>10 DEF Lose, fieldVars
<1>11. CASE LaneIdle \/ UNCHANGED vars
  BY <1>2, <1>11 DEF LaneIdle, vars, fieldVars
<1> QED BY <1>4, <1>5, <1>6, <1>7, <1>8, <1>9, <1>10, <1>11 DEF Next

LEMMA LightInvHolds ==
  ASSUME ~LateLosses
  PROVE  Spec => []LightInv
<1>1. Init => LightInv
  <2> SUFFICES ASSUME Init PROVE LightInv
    OBVIOUS
  <2>1. OwnerInv
    BY InitOwned
  <2>2. inflight = {} /\ queue = <<>> /\ loaded = {} /\ grid = [c \in Chunks |-> NoGrid]
    BY DEF Init
  <2> QED BY <2>1, <2>2 DEF LightInv, DarkIdle, FlagsLit, AllCared
<1>2. LightInv /\ [Next]_vars => LightInv'
  <2> SUFFICES ASSUME LightInv, [Next]_vars PROVE LightInv'
    OBVIOUS
  <2>1. OwnerInv'
    <3>1. TypeOK'
      BY StepTyped DEF LightInv, OwnerInv
    <3>2. JobsBehind' /\ \A d \in Chunks : OwnedOnce(d)'
      BY StepOwns DEF LightInv
    <3> QED BY <3>1, <3>2 DEF OwnerInv
  <2> QED BY <2>1, CareStep, DarkStep, FlagsStep DEF LightInv
<1> QED BY <1>1, <1>2, PTL DEF Spec

\* When no flood is owed any more, each loaded chunk has the light that its own
\* voxels and its neighbours' borders give, in whatever order chunks came, went
\* and were edited, floods finished or were lost, and lighting was switched: but
\* for chunks nobody told that a neighbour's light went, and those in quarantine
\* or beside one.
THEOREM QuietSettled ==
  ASSUME ~LateLosses
  PROVE  Spec => []QuietIsSettled
<1>1. LightInv => QuietIsSettled
  <2> SUFFICES ASSUME LightInv, Quiet, NEW c \in loaded \ untold,
                      ({c} \cup Neighbours(c)) \cap Quarantined = {}
               PROVE  /\ grid[c] # NoGrid
                      /\ \A x \in Cells :
                           Opaque(voxels[c][x]) \/ grid[c][x] = Flood(voxels[c], Shell(c))[x]
    BY DEF QuietIsSettled
  <2>1. lighting /\ c \notin worklist /\ c \notin inflight
    BY DEF Quiet
  <2>2. Cared(c)
    BY DEF LightInv, AllCared, Exempt, Beside
  <2>3. Rests(c)
    BY <2>1, <2>2 DEF Cared
  <2>4. grid[c] # NoGrid /\ Right(voxels[c], Shell(c), grid[c])
    BY <2>1, <2>3 DEF Rests, Matches
  <2> QED BY <2>4 DEF Right, Opaque
<1> QED BY <1>1, LightInvHolds, PTL
-----------------------------------------------------------------------------
(* A settled field is the true one.  Chunk by chunk, light is what the flood *)
(* makes of the borders beside; along the whole row that has one solution.   *)

Spots == Chunks \X Cells
Ember(p) == voxels[p[1]][p[2]] = "ember"
Open(p) == ~Opaque(voxels[p[1]][p[2]])
Shine(p) == grid[p[1]][p[2]].block
Apart(p, q) == Gap(p[1], p[2], q[1], q[2])
Lights(p, q) == Clear(p[1], p[2], q[1], q[2], LetsOpenOrBorder)

\* Seen from side s of the row, what lies further on has the larger position.
Pos(s, p) == IF s = -1 THEN Place(p[1], p[2]) ELSE -Place(p[1], p[2])
Admits(s, p) == Open(p) \/ p[2] = BorderCell(s)
Edge(d, s) == <<d, BorderCell(s)>>
Beyond(d, s) == <<d + s, BorderCell(-s)>>

SettledRow ==
  /\ TypeOK /\ loaded = Chunks
  /\ \A c \in Chunks : grid[c] # NoGrid /\ Right(voxels[c], Shell(c), grid[c])

LEMMA MaxIs ==
  ASSUME NEW S \in SUBSET Int, NEW m \in S, \A z \in S : m >= z
  PROVE  Max(S) = m
<1>1. \A n \in S : (\A z \in S : n >= z) => n = m
  <2> SUFFICES ASSUME NEW n \in S, \A z \in S : n >= z PROVE n = m
    OBVIOUS
  <2>1. n >= m /\ m >= n /\ n \in Int /\ m \in Int
    OBVIOUS
  <2> QED BY <2>1
<1> QED BY <1>1 DEF Max

LEMMA LeastNumber ==
  ASSUME NEW S \in SUBSET Nat, S # {}
  PROVE  \E n \in S : \A m \in S : n <= m
<1>1. PICK n \in S : \A m \in S : <<m, n>> \notin OpToRel(<, Nat)
  BY NatLessThanWellFounded, WFMin
<1>2. \A m \in S : ~(m < n)
  BY <1>1 DEF OpToRel
<1> QED BY <1>2

\* A set of levels that holds all below each of its own is known by its size.
LEMMA CountDown ==
  ASSUME NEW N \in Nat, NEW S \in SUBSET (1..N), \A i \in S : 1..i \subseteq S
  PROVE  Cardinality(S) \in Nat /\ S = 1..Cardinality(S)
<1> DEFINE T == {n \in Nat : n + 1 \notin S}
<1>1. N \in T
  OBVIOUS
<1>2. PICK n \in T : \A m \in T : n <= m
  BY <1>1, LeastNumber
<1>3. ASSUME NEW k \in 1..n PROVE k \in S
  <2>1. k - 1 \in Nat /\ k - 1 < n /\ (k - 1) + 1 = k
    BY <1>2
  <2>2. k - 1 \notin T
    BY <1>2, <2>1
  <2> QED BY <2>1, <2>2
<1>4. ASSUME NEW i \in S PROVE i \in 1..n
  <2>1. i \in Nat /\ i >= 1 /\ n \in Nat /\ n + 1 \notin S
    BY <1>2
  <2>2. n + 1 \notin 1..i
    BY <2>1, <1>4
  <2> QED BY <2>1, <2>2
<1>5. S = 1..n
  BY <1>3, <1>4
<1>6. Cardinality(1..n) = n
  BY <1>2, FS_Interval
<1> QED BY <1>2, <1>5, <1>6

LEMMA SourcesTyped ==
  ASSUME NEW row \in [Cells -> Blocks], NEW shell \in Shells, NEW source \in Sources(row, shell)
  PROVE  source[1] \in Cells /\ source[2] \in Levels
<1>1. MaxLight \in Nat
  BY LightAssumption
<1>2. ASSUME NEW x \in Cells PROVE Emission(row[x]) \in Levels
  BY <1>1 DEF Emission, Levels
<1>3. ASSUME NEW s \in Sides PROVE Dimmer(shell[s].block) \in Levels
  <2>1. shell[s].block \in Levels
    BY DEF Shells, Lumels
  <2> QED BY <1>1, <2>1 DEF Dimmer, Levels
<1> QED BY <1>2, <1>3, BorderIsCell DEF Sources

LEMMA DistanceTyped ==
  ASSUME NEW x \in Cells, NEW y \in Cells
  PROVE  Distance(x, y) \in Nat
BY LightAssumption DEF Distance, Cells

\* The block light of a cell is at least m if a source there leaves m of.
LEMMA BlockLevels ==
  ASSUME NEW row \in [Cells -> Blocks], NEW shell \in Shells, NEW x \in Cells, NEW m \in Nat \ {0}
  PROVE  BlockLight(row, shell, x) >= m <=>
           \E source \in Sources(row, shell) :
             Runs(row, source[1], x) /\ source[2] - Distance(source[1], x) >= m
<1> DEFINE Leaves(n) == \E source \in Sources(row, shell) :
                          Runs(row, source[1], x) /\ source[2] - Distance(source[1], x) >= n
           levels == {n \in 1..MaxLight : Leaves(n)}
<1>1. MaxLight \in Nat
  BY LightAssumption
<1>2. ASSUME NEW source \in Sources(row, shell)
      PROVE  source[2] - Distance(source[1], x) \in Int /\ source[2] - Distance(source[1], x) <= MaxLight
  <2>1. source[1] \in Cells /\ source[2] \in 0..MaxLight
    BY SourcesTyped DEF Levels
  <2>2. Distance(source[1], x) \in Nat
    BY <2>1, DistanceTyped
  <2> QED BY <1>1, <2>1, <2>2
<1>3. ASSUME NEW i \in Nat, NEW k \in Nat, k <= i, Leaves(i) PROVE Leaves(k)
  <2>1. PICK source \in Sources(row, shell) :
          Runs(row, source[1], x) /\ source[2] - Distance(source[1], x) >= i
    BY <1>3
  <2>2. source[2] - Distance(source[1], x) >= k
    BY <1>2, <1>3, <2>1
  <2> QED BY <2>1, <2>2
<1>4. Leaves(m) => m <= MaxLight
  <2> SUFFICES ASSUME Leaves(m) PROVE m <= MaxLight
    OBVIOUS
  <2>1. PICK source \in Sources(row, shell) : source[2] - Distance(source[1], x) >= m
    OBVIOUS
  <2> QED BY <1>1, <1>2, <2>1
<1>5. BlockLight(row, shell, x) = Cardinality(levels)
  BY DEF BlockLight
<1> HIDE DEF Leaves
<1>6. \A i \in levels : 1..i \subseteq levels
  BY <1>1, <1>3
<1>7. Cardinality(levels) \in Nat /\ levels = 1..Cardinality(levels)
  BY <1>1, <1>6, CountDown
<1>8. m \in levels <=> Leaves(m)
  BY <1>1, <1>4
<1> HIDE DEF levels
<1>9. Cardinality(levels) >= m <=> m \in levels
  BY <1>7
<1> QED BY <1>5, <1>8, <1>9 DEF Leaves

-----------------------------------------------------------------------------
(* Places along the row. *)

LEMMA PlaceFacts ==
  ASSUME NEW c \in Chunks, NEW x \in Cells, NEW d \in Chunks, NEW y \in Cells
  PROVE  /\ Place(c, x) \in Int
         /\ c < d => Place(c, x) < Place(d, y)
         /\ c = d => Place(d, y) - Place(c, x) = y - x
         /\ d = c + 1 => Place(d, 1) = Place(c, Width) + 1
<1>1. /\ Width \in Nat /\ c \in Int /\ d \in Int /\ x \in Int /\ y \in Int
      /\ 1 <= x /\ x <= Width /\ 1 <= y /\ y <= Width
  BY LightAssumption DEF Chunks, Cells
<1>2. \A k \in Int : (k - 1) * Width \in Int /\ k * Width = (k - 1) * Width + Width
  BY <1>1
<1>3. Place(c, x) \in Int /\ Place(d, y) \in Int
  BY <1>1, <1>2 DEF Place
<1>4. ASSUME c < d PROVE Place(c, x) < Place(d, y)
  <2>1. PICK k \in Nat : d - 1 = c + k
    BY <1>1, <1>4
  <2>2. (d - 1) * Width = c * Width + k * Width
    BY <1>1, <2>1
  <2>3. k * Width \in Nat
    BY <1>1
  <2>4. c * Width = (c - 1) * Width + Width
    BY <1>1, <1>2
  <2>5. c * Width \in Int /\ (c - 1) * Width \in Int
    BY <1>1
  <2> QED BY <1>1, <2>2, <2>3, <2>4, <2>5 DEF Place
<1>5. c = d => Place(d, y) - Place(c, x) = y - x
  BY <1>1, <1>2 DEF Place
<1>6. d = c + 1 => Place(d, 1) = Place(c, Width) + 1
  <2> SUFFICES ASSUME d = c + 1 PROVE Place(d, 1) = Place(c, Width) + 1
    OBVIOUS
  <2>1. d - 1 = c /\ c * Width = (c - 1) * Width + Width /\ (c - 1) * Width \in Int
    BY <1>1, <1>2
  <2> QED BY <1>1, <2>1 DEF Place
<1> QED BY <1>3, <1>4, <1>5, <1>6

LEMMA SpotIs ==
  ASSUME NEW p \in Spots
  PROVE  p[1] \in Chunks /\ p[2] \in Cells /\ p = <<p[1], p[2]>>
BY DEF Spots

LEMMA PosTyped ==
  ASSUME NEW s \in Sides, NEW p \in Spots
  PROVE  Pos(s, p) \in Int
BY SpotIs, PlaceFacts DEF Pos

LEMMA OnePlace ==
  ASSUME NEW p \in Spots, NEW q \in Spots, Place(p[1], p[2]) = Place(q[1], q[2])
  PROVE  p = q
<1>1. /\ p[1] \in Chunks /\ p[2] \in Cells /\ p = <<p[1], p[2]>>
      /\ q[1] \in Chunks /\ q[2] \in Cells /\ q = <<q[1], q[2]>>
  BY SpotIs
<1>2. /\ p[1] \in Int /\ q[1] \in Int /\ p[2] \in Int /\ q[2] \in Int
      /\ Place(p[1], p[2]) \in Int /\ Place(q[1], q[2]) \in Int
  BY <1>1, PlaceFacts DEF Chunks, Cells
<1>3. ~(p[1] < q[1]) /\ ~(q[1] < p[1])
  <2>1. p[1] < q[1] => Place(p[1], p[2]) < Place(q[1], q[2])
    BY <1>1, PlaceFacts
  <2>2. q[1] < p[1] => Place(q[1], q[2]) < Place(p[1], p[2])
    BY <1>1, PlaceFacts
  <2> QED BY <1>2, <2>1, <2>2
<1>4. p[1] = q[1]
  BY <1>2, <1>3
<1>5. Place(q[1], q[2]) - Place(p[1], p[2]) = q[2] - p[2]
  BY <1>1, <1>4, PlaceFacts
<1> QED BY <1>1, <1>2, <1>4, <1>5

LEMMA PosFacts ==
  ASSUME NEW s \in Sides, NEW p \in Spots, NEW q \in Spots
  PROVE  /\ Pos(s, p) = Pos(s, q) => p = q
         /\ Apart(p, q) = IF Pos(s, p) < Pos(s, q) THEN Pos(s, q) - Pos(s, p) ELSE Pos(s, p) - Pos(s, q)
         /\ p[1] = q[1] => Apart(p, q) = Distance(p[2], q[2])
<1> DEFINE a == Place(p[1], p[2])
           b == Place(q[1], q[2])
<1>1. /\ a \in Int /\ b \in Int /\ p[2] \in Int /\ q[2] \in Int
      /\ p[1] = q[1] => b - a = q[2] - p[2]
  BY SpotIs, PlaceFacts DEF Cells
<1>2. a = b => p = q
  BY OnePlace
<1>3. Apart(p, q) = IF a < b THEN b - a ELSE a - b
  BY DEF Apart, Gap
<1>4. Pos(s, p) = (IF s = -1 THEN a ELSE -a) /\ Pos(s, q) = (IF s = -1 THEN b ELSE -b)
  BY DEF Pos
<1> HIDE DEF a, b
<1>5. Pos(s, p) = Pos(s, q) => p = q
  BY <1>1, <1>2, <1>4
<1>6. Apart(p, q) = IF Pos(s, p) < Pos(s, q) THEN Pos(s, q) - Pos(s, p) ELSE Pos(s, p) - Pos(s, q)
  BY <1>1, <1>3, <1>4
<1>7. p[1] = q[1] => Apart(p, q) = Distance(p[2], q[2])
  BY <1>1, <1>3 DEF Distance
<1> QED BY <1>5, <1>6, <1>7

LEMMA OtherSide ==
  ASSUME NEW s \in Sides
  PROVE  -s \in Sides /\ (s # 1 => -s = 1)
BY DEF Sides

\* The cells of a chunk come after its edge, and nothing else between.
LEMMA ChunkSpan ==
  ASSUME NEW d \in Chunks, NEW s \in Sides
  PROVE  /\ Edge(d, s) \in Spots
         /\ \A q \in Spots : q[1] = d => Pos(s, Edge(d, s)) <= Pos(s, q)
         /\ \A q, t \in Spots :
              t[1] = d /\ Pos(s, Edge(d, s)) <= Pos(s, q) /\ Pos(s, q) <= Pos(s, t) => q[1] = d
         /\ d + s \in Chunks => Beyond(d, s) \in Spots /\ Pos(s, Beyond(d, s)) + 1 = Pos(s, Edge(d, s))
         /\ \A q \in Spots : q[1] # d /\ Pos(s, q) < Pos(s, Edge(d, s)) => d + s \in Chunks
<1>1. s \in {-1, 1} /\ -s \in Sides
  BY DEF Sides
<1>2. Edge(d, s) \in Spots /\ Edge(d, s)[1] = d /\ Edge(d, s)[2] = BorderCell(s)
  BY BorderIsCell DEF Edge, Spots
<1>3. Width \in Nat /\ Width >= 1 /\ Size \in Nat /\ d \in 1..Size
  BY LightAssumption DEF Chunks
<1>4. \A q \in Spots : q[1] = d => Pos(s, Edge(d, s)) <= Pos(s, q)
  <2> SUFFICES ASSUME NEW q \in Spots, q[1] = d PROVE Pos(s, Edge(d, s)) <= Pos(s, q)
    OBVIOUS
  <2>1. /\ Place(d, BorderCell(s)) \in Int /\ Place(d, q[2]) \in Int
        /\ Place(d, q[2]) - Place(d, BorderCell(s)) = q[2] - BorderCell(s)
    BY SpotIs, BorderIsCell, PlaceFacts
  <2>2. q[2] \in 1..Width
    BY SpotIs DEF Cells
  <2> QED BY <1>1, <1>2, <1>3, <2>1, <2>2 DEF Pos, BorderCell
<1>5. ASSUME NEW q \in Spots, q[1] # d
      PROVE  \A t \in Spots : t[1] = d => /\ s = -1 => (q[1] < d <=> Pos(s, q) < Pos(s, t))
                                          /\ s = 1 => (q[1] > d <=> Pos(s, q) < Pos(s, t))
  <2> SUFFICES ASSUME NEW t \in Spots, t[1] = d
               PROVE  /\ s = -1 => (q[1] < d <=> Pos(s, q) < Pos(s, t))
                      /\ s = 1 => (q[1] > d <=> Pos(s, q) < Pos(s, t))
    OBVIOUS
  <2>1. q[1] \in Chunks /\ q[2] \in Cells /\ t[2] \in Cells /\ q[1] \in Int /\ d \in Int
    BY SpotIs DEF Chunks
  <2>2. Place(q[1], q[2]) \in Int /\ Place(d, t[2]) \in Int
    BY <2>1, PlaceFacts
  <2>3. q[1] < d => Place(q[1], q[2]) < Place(d, t[2])
    BY <2>1, PlaceFacts
  <2>4. d < q[1] => Place(d, t[2]) < Place(q[1], q[2])
    BY <2>1, PlaceFacts
  <2>5. q[1] < d \/ d < q[1]
    BY <1>5, <2>1
  <2> QED BY <2>1, <2>2, <2>3, <2>4, <2>5 DEF Pos
<1>6. ASSUME NEW q \in Spots, NEW t \in Spots, t[1] = d,
             Pos(s, Edge(d, s)) <= Pos(s, q), Pos(s, q) <= Pos(s, t)
      PROVE  q[1] = d
  <2>1. Pos(s, q) \in Int /\ Pos(s, t) \in Int /\ Pos(s, Edge(d, s)) \in Int
    BY <1>2, PosTyped
  <2> SUFFICES ASSUME q[1] # d PROVE FALSE
    OBVIOUS
  <2>2. Pos(s, q) < Pos(s, t) => Pos(s, q) < Pos(s, Edge(d, s))
    BY <1>1, <1>2, <1>5, <1>6
  <2>3. Pos(s, q) # Pos(s, t)
    BY <1>6, PosFacts
  <2> QED BY <1>6, <2>1, <2>2, <2>3
<1>7. ASSUME d + s \in Chunks
      PROVE  Beyond(d, s) \in Spots /\ Pos(s, Beyond(d, s)) + 1 = Pos(s, Edge(d, s))
  <2>1. Beyond(d, s) \in Spots
    BY <1>1, <1>7, BorderIsCell DEF Beyond, Spots
  <2>2. CASE s = -1
    <3>1. d - 1 \in Chunks /\ d = (d - 1) + 1
      BY <1>3, <1>7, <2>2
    <3>2. Place(d, 1) = Place(d - 1, Width) + 1 /\ Place(d - 1, Width) \in Int
      BY <1>3, <3>1, PlaceFacts DEF Cells
    <3>0. -s = 1 /\ d + s = d - 1
      <4>1. d + s = d - 1
        BY <1>3, <2>2
      <4>2. s # 1
        BY <2>2
      <4> QED BY <4>1, <4>2, OtherSide
    <3>3. BorderCell(-s) = Width /\ BorderCell(s) = 1
      BY <2>2, <3>0 DEF BorderCell
    <3>4. Pos(s, Beyond(d, s)) = Place(d - 1, Width) /\ Pos(s, Edge(d, s)) = Place(d, 1)
      BY <2>2, <3>0, <3>3 DEF Pos, Beyond, Edge
    <3> QED BY <2>1, <3>2, <3>4
  <2>3. CASE s = 1
    <3>1. Place(d + 1, 1) = Place(d, Width) + 1 /\ Place(d, Width) \in Int
      BY <1>3, <1>7, <2>3, PlaceFacts DEF Cells
    <3> QED BY <2>1, <2>3, <3>1 DEF Pos, Beyond, Edge, BorderCell
  <2> QED BY <1>1, <2>2, <2>3 DEF Sides
<1>8. ASSUME NEW q \in Spots, q[1] # d, Pos(s, q) < Pos(s, Edge(d, s))
      PROVE  d + s \in Chunks
  <2>1. q[1] \in 1..Size
    BY SpotIs DEF Chunks
  <2>2. (s = -1 => q[1] < d) /\ (s = 1 => q[1] > d)
    BY <1>1, <1>2, <1>5, <1>8
  <2> QED BY <1>1, <1>3, <2>1, <2>2 DEF Chunks
<1> QED BY <1>2, <1>4, <1>6, <1>7, <1>8

LEMMA Mirrored ==
  ASSUME NEW s \in Sides
  PROVE  -s \in Sides /\ \A r \in Spots : Pos(-s, r) = -Pos(s, r)
<1>1. s # -1 => s = 1 /\ -s = -1
  BY DEF Sides
<1>2. s # 1 => s = -1 /\ -s # -1
  BY OtherSide DEF Sides
<1>3. \A r \in Spots : Place(r[1], r[2]) \in Int
  BY SpotIs, PlaceFacts
<1> QED BY <1>1, <1>2, <1>3, OtherSide DEF Pos

LEMMA FromASide ==
  ASSUME NEW p \in Spots, NEW q \in Spots, p # q
  PROVE  \E s \in Sides : Pos(s, p) < Pos(s, q)
<1>1. Place(p[1], p[2]) \in Int /\ Place(q[1], q[2]) \in Int /\ Place(p[1], p[2]) # Place(q[1], q[2])
  BY SpotIs, PlaceFacts, OnePlace
<1>2. 1 \in Sides /\ -1 \in Sides
  BY DEF Sides
<1>3. /\ Pos(-1, p) = Place(p[1], p[2]) /\ Pos(-1, q) = Place(q[1], q[2])
      /\ Pos(1, p) = -Place(p[1], p[2]) /\ Pos(1, q) = -Place(q[1], q[2])
  BY DEF Pos
<1> QED BY <1>1, <1>2, <1>3

\* Light reaches q from p, where p lies on side s, if each spot on the way and q
\* admit light from there.
LEMMA LightsIs ==
  ASSUME NEW s \in Sides, NEW p \in Spots, NEW q \in Spots, Pos(s, p) < Pos(s, q)
  PROVE  Lights(p, q) <=> \A r \in Spots : Pos(s, p) < Pos(s, r) /\ Pos(s, r) <= Pos(s, q) => Admits(s, r)
<1> DEFINE way == (Strictly(p[1], p[2], q[1], q[2]) \cup {<<q[1], q[2]>>}) \ {<<p[1], p[2]>>}
           side(r) == IF Place(p[1], p[2]) < Place(r[1], r[2]) THEN -1 ELSE 1
<1>1. Lights(p, q) <=> \A r \in way : LetsOpenOrBorder(r[1], r[2], side(r))
  BY DEF Lights, Clear
<1>2. q = <<q[1], q[2]>> /\ p = <<p[1], p[2]>> /\ s \in {-1, 1}
  BY SpotIs DEF Sides
<1>3. ASSUME NEW r \in Spots
      PROVE  r \in way <=> Pos(s, p) < Pos(s, r) /\ Pos(s, r) <= Pos(s, q)
  <2>1. /\ Place(p[1], p[2]) \in Int /\ Place(q[1], q[2]) \in Int /\ Place(r[1], r[2]) \in Int
    BY SpotIs, PlaceFacts
  <2>2. r \in Strictly(p[1], p[2], q[1], q[2]) <=> Pos(s, p) < Pos(s, r) /\ Pos(s, r) < Pos(s, q)
    BY <1>2, <2>1 DEF Strictly, Pos, Spots
  <2>3. Pos(s, p) \in Int /\ Pos(s, q) \in Int /\ Pos(s, r) \in Int
    BY PosTyped
  <2>4. Pos(s, r) = Pos(s, q) => r = q
    BY PosFacts
  <2>5. r = p => ~(Pos(s, p) < Pos(s, r))
    BY <2>3
  <2> QED BY <1>2, <2>2, <2>3, <2>4, <2>5
<1>4. way \subseteq Spots
  BY <1>2 DEF Strictly, Spots
<1>5. ASSUME NEW r \in Spots, Pos(s, p) < Pos(s, r)
      PROVE  LetsOpenOrBorder(r[1], r[2], side(r)) <=> Admits(s, r)
  <2>1. Place(p[1], p[2]) \in Int /\ Place(r[1], r[2]) \in Int
    BY SpotIs, PlaceFacts
  <2>2. side(r) = s
    BY <1>2, <1>5, <2>1 DEF Pos
  <2> HIDE DEF side
  <2> QED BY <2>2 DEF LetsOpenOrBorder, LetsOpen, Admits, Open
<1> HIDE DEF way, side
<1> QED BY <1>1, <1>3, <1>4, <1>5

LEMMA LightsItself ==
  ASSUME NEW p \in Spots
  PROVE  Lights(p, p) /\ Apart(p, p) = 0
<1>1. Place(p[1], p[2]) \in Int
  BY SpotIs, PlaceFacts
<1>2. Strictly(p[1], p[2], p[1], p[2]) = {}
  BY <1>1, SpotIs, PlaceFacts DEF Strictly
<1> QED BY <1>1, <1>2 DEF Lights, Clear, Apart, Gap

\* The same within a chunk.
LEMMA RunsIs ==
  ASSUME NEW d \in Chunks, NEW x \in Cells, NEW y \in Cells, NEW s \in Sides,
         Pos(s, <<d, x>>) <= Pos(s, <<d, y>>)
  PROVE  Runs(voxels[d], x, y) <=>
           \A r \in Spots : Pos(s, <<d, x>>) < Pos(s, r) /\ Pos(s, r) <= Pos(s, <<d, y>>) => Open(r)
<1> DEFINE p == <<d, x>>
           q == <<d, y>>
<1>1. p \in Spots /\ q \in Spots /\ p[1] = d /\ q[1] = d /\ p[2] = x /\ q[2] = y
  BY DEF Spots
<1>2. s \in {-1, 1} /\ x \in Int /\ y \in Int
  BY DEF Sides, Cells
<1>3. ASSUME NEW r \in Spots, Pos(s, p) < Pos(s, r), Pos(s, r) <= Pos(s, q)
      PROVE  r[1] = d
  <2>1. Pos(s, Edge(d, s)) <= Pos(s, p)
    BY <1>1, ChunkSpan
  <2>2. Pos(s, Edge(d, s)) \in Int /\ Pos(s, p) \in Int /\ Pos(s, r) \in Int
    BY <1>1, PosTyped, ChunkSpan
  <2>3. Pos(s, Edge(d, s)) <= Pos(s, r)
    BY <1>3, <2>1, <2>2
  <2> QED BY <1>1, <1>3, <2>3, ChunkSpan
<1>4. ASSUME NEW z \in Cells
      PROVE  /\ <<d, z>> \in Spots
             /\ x # y => (z \in Between(x, y) \cup {y}
                            <=> Pos(s, p) < Pos(s, <<d, z>>) /\ Pos(s, <<d, z>>) <= Pos(s, q))
  <2>1. /\ Place(d, z) \in Int /\ Place(d, x) \in Int /\ Place(d, y) \in Int /\ z \in Int
        /\ Place(d, z) - Place(d, x) = z - x /\ Place(d, z) - Place(d, y) = z - y
    BY PlaceFacts DEF Cells
  <2>2. z \in Between(x, y) <=> (x < z /\ z < y) \/ (y < z /\ z < x)
    BY DEF Between
  <2>3. Pos(s, <<d, z>>) = (IF s = -1 THEN Place(d, z) ELSE -Place(d, z))
    BY DEF Pos
  <2>4. /\ Pos(s, p) = (IF s = -1 THEN Place(d, x) ELSE -Place(d, x))
        /\ Pos(s, q) = (IF s = -1 THEN Place(d, y) ELSE -Place(d, y))
    BY DEF Pos
  <2>5. <<d, z>> \in Spots
    BY DEF Spots
  <2> QED BY <1>2, <2>1, <2>2, <2>3, <2>4, <2>5
<1>5. x = y => ~ \E r \in Spots : Pos(s, p) < Pos(s, r) /\ Pos(s, r) <= Pos(s, q)
  BY <1>1, PosTyped
<1>6. Between(x, y) \cup {y} \subseteq Cells
  BY DEF Between
<1>7. CASE x = y
  BY <1>5, <1>7 DEF Runs
<1>8. CASE x # y
  <2>1. ASSUME Runs(voxels[d], x, y),
               NEW r \in Spots, Pos(s, p) < Pos(s, r), Pos(s, r) <= Pos(s, q)
        PROVE  Open(r)
    <3>1. r[1] = d /\ r[2] \in Cells /\ r = <<d, r[2]>>
      BY <1>3, <2>1, SpotIs
    <3>2. r[2] \in Between(x, y) \cup {y}
      BY <1>4, <1>8, <2>1, <3>1
    <3> QED BY <1>8, <2>1, <3>1, <3>2 DEF Runs, Open
  <2>2. ASSUME \A r \in Spots : Pos(s, p) < Pos(s, r) /\ Pos(s, r) <= Pos(s, q) => Open(r)
        PROVE  Runs(voxels[d], x, y)
    <3> SUFFICES ASSUME NEW z \in Between(x, y) \cup {y} PROVE ~Opaque(voxels[d][z])
      BY DEF Runs
    <3>1. <<d, z>> \in Spots /\ Pos(s, p) < Pos(s, <<d, z>>) /\ Pos(s, <<d, z>>) <= Pos(s, q)
      BY <1>4, <1>6, <1>8
    <3>2. Open(<<d, z>>)
      BY <2>2, <3>1
    <3> QED BY <3>2 DEF Open
  <2> QED BY <2>1, <2>2
<1> QED BY <1>7, <1>8

-----------------------------------------------------------------------------
(* Light of a settled row. *)

LEMMA RowTyped ==
  ASSUME SettledRow, NEW p \in Spots
  PROVE  /\ Shine(p) \in 0..MaxLight /\ voxels[p[1]] \in [Cells -> Blocks]
         /\ grid[p[1]] \in Grids /\ Shell(p[1]) \in Shells
<1>1. p[1] \in Chunks /\ p[2] \in Cells
  BY SpotIs
<1>2. grid[p[1]] \in Grids /\ voxels[p[1]] \in [Cells -> Blocks] /\ Shell(p[1]) \in Shells
  BY <1>1, ShellTyped DEF SettledRow, TypeOK
<1> QED BY <1>1, <1>2 DEF Shine, Grids, Lumels, Levels

\* What a chunk gets over an edge is what the spot beyond shows.
LEMMA ShellShines ==
  ASSUME SettledRow, NEW d \in Chunks, NEW s \in Sides
  PROVE  Shell(d)[s].block = IF d + s \in Chunks THEN Shine(Beyond(d, s)) ELSE 0
BY DEF SettledRow, Shell, Beyond, Shine, DarkLumel

\* A chunk that is not solid rock has the light of a flood.
LEMMA RowFloods ==
  ASSUME SettledRow, NEW q \in Spots, NEW m \in Nat \ {0}
  PROVE  /\ Shine(q) >= m => BlockLight(voxels[q[1]], Shell(q[1]), q[2]) >= m
         /\ (\E x \in Cells : voxels[q[1]][x] # "rock") =>
               Shine(q) = BlockLight(voxels[q[1]], Shell(q[1]), q[2])
<1>1. q[1] \in Chunks /\ q[2] \in Cells
  BY SpotIs
<1>2. \/ grid[q[1]] = Flood(voxels[q[1]], Shell(q[1]))
      \/ grid[q[1]] = Dark /\ \A x \in Cells : voxels[q[1]][x] = "rock"
  BY <1>1 DEF SettledRow, Right
<1>3. grid[q[1]] = Flood(voxels[q[1]], Shell(q[1])) =>
        Shine(q) = BlockLight(voxels[q[1]], Shell(q[1]), q[2])
  BY <1>1 DEF Shine, Flood
<1>4. grid[q[1]] = Dark => Shine(q) = 0
  BY <1>1 DEF Shine, Dark, DarkLumel
<1> QED BY <1>2, <1>3, <1>4

\* Where light comes from: an ember of the chunk, or over an edge.
LEMMA LitFrom ==
  ASSUME SettledRow, NEW q \in Spots, NEW m \in Nat \ {0}, Shine(q) >= m
  PROVE  \/ \E x \in Cells :
              /\ Ember(<<q[1], x>>) /\ Runs(voxels[q[1]], x, q[2])
              /\ MaxLight - Distance(x, q[2]) >= m
         \/ \E s \in Sides :
              /\ q[1] + s \in Chunks /\ Runs(voxels[q[1]], BorderCell(s), q[2])
              /\ Shine(Beyond(q[1], s)) >= m + 1 + Distance(BorderCell(s), q[2])
<1> DEFINE row == voxels[q[1]]
           shell == Shell(q[1])
<1>1. q[1] \in Chunks /\ q[2] \in Cells /\ row \in [Cells -> Blocks] /\ shell \in Shells /\ MaxLight \in Nat
  BY SpotIs, RowTyped, LightAssumption
<1>2. PICK source \in Sources(row, shell) :
        Runs(row, source[1], q[2]) /\ source[2] - Distance(source[1], q[2]) >= m
  BY <1>1, RowFloods, BlockLevels
<1>3. source[1] \in Cells /\ source[2] \in 0..MaxLight /\ Distance(source[1], q[2]) \in Nat
  BY <1>1, SourcesTyped, DistanceTyped DEF Levels
<1>4. source[2] >= m + Distance(source[1], q[2]) /\ source[2] > 0
  BY <1>2, <1>3
<1>5. CASE \E x \in Cells : source = <<x, Emission(row[x])>>
  <2>1. PICK x \in Cells : source = <<x, Emission(row[x])>>
    BY <1>5
  <2>2. row[x] = "ember" /\ source[2] = MaxLight
    BY <1>4, <2>1 DEF Emission
  <2> QED BY <1>2, <2>1, <2>2 DEF Ember
<1>6. CASE \E s \in Sides : source = <<BorderCell(s), Dimmer(shell[s].block)>>
  <2>1. PICK s \in Sides : source = <<BorderCell(s), Dimmer(shell[s].block)>>
    BY <1>6
  <2>2. shell[s].block \in Nat
    BY <1>1 DEF Shells, Lumels, Levels
  <2>3. shell[s].block = source[2] + 1
    BY <1>4, <2>1, <2>2 DEF Dimmer
  <2>4. shell[s].block = IF q[1] + s \in Chunks THEN Shine(Beyond(q[1], s)) ELSE 0
    BY <1>1, ShellShines
  <2>5. q[1] + s \in Chunks /\ Shine(Beyond(q[1], s)) = source[2] + 1
    BY <1>3, <2>3, <2>4
  <2>6. Shine(Beyond(q[1], s)) >= m + 1 + Distance(BorderCell(s), q[2])
    BY <1>3, <1>4, <2>1, <2>5
  <2> QED BY <1>2, <2>1, <2>5, <2>6
<1> QED BY <1>5, <1>6 DEF Sources

\* And what comes so is there.
LEMMA LitTo ==
  ASSUME SettledRow, NEW q \in Spots, NEW m \in Nat \ {0}, \E x \in Cells : voxels[q[1]][x] # "rock",
         \/ \E x \in Cells :
              /\ Ember(<<q[1], x>>) /\ Runs(voxels[q[1]], x, q[2])
              /\ MaxLight - Distance(x, q[2]) >= m
         \/ \E s \in Sides :
              /\ q[1] + s \in Chunks /\ Runs(voxels[q[1]], BorderCell(s), q[2])
              /\ Shine(Beyond(q[1], s)) >= m + 1 + Distance(BorderCell(s), q[2])
  PROVE  Shine(q) >= m
<1> DEFINE row == voxels[q[1]]
           shell == Shell(q[1])
<1>1. q[1] \in Chunks /\ q[2] \in Cells /\ row \in [Cells -> Blocks] /\ shell \in Shells /\ MaxLight \in Nat
  BY SpotIs, RowTyped, LightAssumption
<1>2. \E source \in Sources(row, shell) :
        Runs(row, source[1], q[2]) /\ source[2] - Distance(source[1], q[2]) >= m
  <2>1. CASE \E x \in Cells :
               /\ Ember(<<q[1], x>>) /\ Runs(voxels[q[1]], x, q[2])
               /\ MaxLight - Distance(x, q[2]) >= m
    <3>1. PICK x \in Cells :
            /\ Ember(<<q[1], x>>) /\ Runs(row, x, q[2])
            /\ MaxLight - Distance(x, q[2]) >= m
      BY <2>1
    <3> DEFINE source == <<x, Emission(row[x])>>
    <3>2. source \in Sources(row, shell)
      BY DEF Sources
    <3>3. source[1] = x /\ source[2] = MaxLight
      BY <3>1 DEF Ember, Emission
    <3> HIDE DEF source
    <3> QED BY <3>1, <3>2, <3>3
  <2>2. CASE \E s \in Sides :
               /\ q[1] + s \in Chunks /\ Runs(voxels[q[1]], BorderCell(s), q[2])
               /\ Shine(Beyond(q[1], s)) >= m + 1 + Distance(BorderCell(s), q[2])
    <3>1. PICK s \in Sides :
            /\ q[1] + s \in Chunks /\ Runs(row, BorderCell(s), q[2])
            /\ Shine(Beyond(q[1], s)) >= m + 1 + Distance(BorderCell(s), q[2])
      BY <2>2
    <3> DEFINE source == <<BorderCell(s), Dimmer(shell[s].block)>>
    <3>2. source \in Sources(row, shell)
      BY DEF Sources
    <3>3. shell[s].block \in Nat /\ Distance(BorderCell(s), q[2]) \in Nat
      BY <1>1, BorderIsCell, DistanceTyped DEF Shells, Lumels, Levels
    <3>4. shell[s].block >= m + 1 + Distance(BorderCell(s), q[2])
      BY <1>1, <3>1, ShellShines
    <3>5. source[1] = BorderCell(s) /\ source[2] = shell[s].block - 1
      BY <3>3, <3>4 DEF Dimmer
    <3> HIDE DEF source
    <3>6. source[2] - Distance(source[1], q[2]) >= m
      BY <3>3, <3>4, <3>5
    <3> QED BY <3>1, <3>2, <3>5, <3>6
  <2> QED BY <2>1, <2>2
<1>3. BlockLight(row, shell, q[2]) >= m
  BY <1>1, <1>2, BlockLevels
<1> QED BY <1>3, RowFloods

\* No light without an ember: with m levels or more at q there is an ember that
\* reaches q with m or more.  What comes over an edge was brighter there.
Kindled(q, m) == \E p \in Spots : Ember(p) /\ Lights(p, q) /\ MaxLight - Apart(p, q) >= m

LEMMA KindledBeyond ==
  ASSUME SettledRow, NEW q \in Spots, NEW m \in Nat \ {0}, NEW s \in Sides,
         q[1] + s \in Chunks, Runs(voxels[q[1]], BorderCell(s), q[2]),
         Kindled(Beyond(q[1], s), m + 1 + Distance(BorderCell(s), q[2]))
  PROVE  Kindled(q, m)
<1> DEFINE d == q[1]
           e == Edge(d, s)
           b == Beyond(d, s)
           n == Distance(BorderCell(s), q[2])
<1>1. d \in Chunks /\ q[2] \in Cells /\ q = <<d, q[2]>> /\ MaxLight \in Nat /\ n \in Nat
  BY SpotIs, BorderIsCell, DistanceTyped, LightAssumption
<1>2. e \in Spots /\ b \in Spots /\ Pos(s, b) + 1 = Pos(s, e) /\ Pos(s, e) <= Pos(s, q)
  BY <1>1, ChunkSpan
<1>3. e[1] = d /\ e[2] = BorderCell(s) /\ e = <<d, BorderCell(s)>>
  BY DEF Edge
<1>4. Apart(e, q) = n
  BY <1>1, <1>2, <1>3, PosFacts
<1>5. \A r \in Spots : Pos(s, e) < Pos(s, r) /\ Pos(s, r) <= Pos(s, q) => Open(r)
  BY <1>1, <1>2, <1>3, BorderIsCell, RunsIs
<1>6. PICK p \in Spots : Ember(p) /\ Lights(p, b) /\ MaxLight - Apart(p, b) >= m + 1 + n
  BY DEF Kindled
<1> HIDE DEF d, e, b, n
<1>7. /\ Pos(s, p) \in Int /\ Pos(s, q) \in Int /\ Pos(s, b) \in Int /\ Pos(s, e) \in Int
      /\ Pos(s, q) - Pos(s, e) = n
  <2>1. Pos(s, p) \in Int /\ Pos(s, q) \in Int /\ Pos(s, b) \in Int /\ Pos(s, e) \in Int
    BY <1>2, PosTyped
  <2>2. Apart(e, q) = IF Pos(s, e) < Pos(s, q) THEN Pos(s, q) - Pos(s, e) ELSE Pos(s, e) - Pos(s, q)
    BY <1>2, PosFacts
  <2> QED BY <1>2, <1>4, <2>1, <2>2
<1>8. /\ Apart(p, b) = IF Pos(s, p) < Pos(s, b) THEN Pos(s, b) - Pos(s, p) ELSE Pos(s, p) - Pos(s, b)
      /\ Apart(p, q) = IF Pos(s, p) < Pos(s, q) THEN Pos(s, q) - Pos(s, p) ELSE Pos(s, p) - Pos(s, q)
  BY <1>2, PosFacts
<1>9. CASE Pos(s, p) <= Pos(s, b)
  <2>1. Pos(s, p) < Pos(s, q)
    BY <1>2, <1>7, <1>9
  <2>2. ASSUME NEW r \in Spots, Pos(s, p) < Pos(s, r), Pos(s, r) <= Pos(s, q) PROVE Admits(s, r)
    <3>1. Pos(s, r) \in Int
      BY PosTyped
    <3>2. CASE Pos(s, r) <= Pos(s, b)
      <4>1. Pos(s, p) < Pos(s, b)
        BY <1>7, <2>2, <3>1, <3>2
      <4> QED BY <1>2, <1>6, <2>2, <3>2, <4>1, LightsIs
    <3>3. CASE Pos(s, r) = Pos(s, e)
      <4>1. r = e
        BY <1>2, <3>3, PosFacts
      <4> QED BY <1>3, <4>1 DEF Admits
    <3>4. CASE Pos(s, e) < Pos(s, r)
      BY <1>5, <2>2, <3>4 DEF Admits
    <3> QED BY <1>2, <1>7, <3>1, <3>2, <3>3, <3>4
  <2>3. Lights(p, q)
    BY <2>1, <2>2, LightsIs
  <2>4. MaxLight - Apart(p, q) >= m
    BY <1>1, <1>2, <1>6, <1>7, <1>8, <1>9, <2>1
  <2> QED BY <1>6, <2>3, <2>4 DEF Kindled
<1>10. CASE Pos(s, b) < Pos(s, p) /\ Pos(s, p) <= Pos(s, q)
  <2>1. Apart(p, b) >= 1
    BY <1>7, <1>8, <1>10
  <2>2. MaxLight >= m + 2 + n
    BY <1>1, <1>6, <1>7, <1>8, <1>10
  <2>3. CASE p = q
    <3>1. Lights(p, q) /\ Apart(p, q) = 0
      BY <2>3, LightsItself
    <3> QED BY <1>1, <1>6, <2>2, <3>1 DEF Kindled
  <2>4. CASE p # q
    <3>1. Pos(s, p) < Pos(s, q)
      BY <1>7, <1>10, <2>4, PosFacts
    <3>2. Pos(s, p) = Pos(s, e)
      <4> SUFFICES ASSUME Pos(s, e) < Pos(s, p) PROVE FALSE
        BY <1>2, <1>7, <1>10
      <4>1. Open(p)
        BY <1>5, <1>10
      <4> QED BY <1>6, <4>1 DEF Open, Ember, Opaque
    <3>3. Lights(p, q)
      <4>1. \A r \in Spots : Pos(s, p) < Pos(s, r) /\ Pos(s, r) <= Pos(s, q) => Admits(s, r)
        BY <1>5, <3>2 DEF Admits
      <4> QED BY <3>1, <4>1, LightsIs
    <3>4. MaxLight - Apart(p, q) >= m
      BY <1>1, <1>7, <1>8, <2>2, <3>1, <3>2
    <3> QED BY <1>6, <3>3, <3>4 DEF Kindled
  <2> QED BY <2>3, <2>4
<1>11. CASE Pos(s, q) < Pos(s, p)
  <2> DEFINE t == -s
  <2>1. t \in Sides /\ \A r \in Spots : Pos(t, r) = -Pos(s, r)
    BY Mirrored
  <2> HIDE DEF t
  <2>2. Pos(t, p) < Pos(t, q) /\ Pos(t, q) < Pos(t, b)
    BY <1>2, <1>7, <1>11, <2>1
  <2>3. ASSUME NEW r \in Spots, Pos(t, p) < Pos(t, r), Pos(t, r) <= Pos(t, q) PROVE Admits(t, r)
    <3>1. Pos(t, r) <= Pos(t, b) /\ Pos(t, p) < Pos(t, b)
      BY <1>2, <2>1, <2>2, <2>3, PosTyped
    <3> QED BY <1>2, <1>6, <2>1, <2>3, <3>1, LightsIs
  <2>4. Lights(p, q)
    BY <2>1, <2>2, <2>3, LightsIs
  <2>5. MaxLight - Apart(p, q) >= m
    BY <1>1, <1>2, <1>6, <1>7, <1>8, <1>11
  <2> QED BY <1>6, <2>4, <2>5 DEF Kindled
<1> QED BY <1>7, <1>9, <1>10, <1>11

LEMMA KindledHere ==
  ASSUME SettledRow, NEW q \in Spots, NEW m \in Nat \ {0}, NEW x \in Cells,
         Ember(<<q[1], x>>), Runs(voxels[q[1]], x, q[2]), MaxLight - Distance(x, q[2]) >= m
  PROVE  Kindled(q, m)
<1> DEFINE p == <<q[1], x>>
<1>1. q[1] \in Chunks /\ q[2] \in Cells /\ q = <<q[1], q[2]>> /\ p \in Spots
  BY SpotIs DEF Spots
<1>2. Apart(p, q) = Distance(x, q[2])
  <2>1. 1 \in Sides
    BY DEF Sides
  <2> QED BY <1>1, <2>1, PosFacts
<1>3. CASE p = q
  <2>1. Lights(p, q)
    BY <1>3, LightsItself
  <2> QED BY <1>1, <1>2, <2>1 DEF Kindled
<1>4. CASE p # q
  <2>1. PICK s \in Sides : Pos(s, p) < Pos(s, q)
    BY <1>1, <1>4, FromASide
  <2>2. Pos(s, <<q[1], x>>) <= Pos(s, <<q[1], q[2]>>)
    BY <1>1, <2>1, PosTyped
  <2>3. \A r \in Spots : Pos(s, p) < Pos(s, r) /\ Pos(s, r) <= Pos(s, q) => Open(r)
    BY <1>1, <2>2, RunsIs
  <2>4. Lights(p, q)
    BY <1>1, <2>1, <2>3, LightsIs DEF Admits
  <2> QED BY <1>1, <1>2, <2>4 DEF Kindled
<1> QED BY <1>3, <1>4

LEMMA AllKindled ==
  ASSUME SettledRow
  PROVE  \A q \in Spots : \A m \in Nat \ {0} : Shine(q) >= m => Kindled(q, m)
<1> DEFINE Wrong == {k \in Nat : \E q \in Spots, m \in Nat \ {0} :
                        k = MaxLight - m /\ Shine(q) >= m /\ ~Kindled(q, m)}
<1>1. MaxLight \in Nat
  BY LightAssumption
<1>2. Wrong = {}
  <2> SUFFICES ASSUME Wrong # {} PROVE FALSE
    OBVIOUS
  <2>1. PICK k \in Wrong : \A j \in Wrong : k <= j
    BY LeastNumber
  <2>2. PICK q \in Spots, m \in Nat \ {0} : k = MaxLight - m /\ Shine(q) >= m /\ ~Kindled(q, m)
    BY <2>1
  <2>3. ASSUME NEW s \in Sides, q[1] + s \in Chunks, Runs(voxels[q[1]], BorderCell(s), q[2]),
               Shine(Beyond(q[1], s)) >= m + 1 + Distance(BorderCell(s), q[2])
        PROVE  FALSE
    <3> DEFINE n == m + 1 + Distance(BorderCell(s), q[2])
               b == Beyond(q[1], s)
    <3>1. b \in Spots /\ Distance(BorderCell(s), q[2]) \in Nat
      BY <2>3, SpotIs, ChunkSpan, BorderIsCell, DistanceTyped
    <3>2. n \in Nat \ {0} /\ n > m /\ Shine(b) >= n
      BY <2>3, <3>1
    <3>3. ~Kindled(b, n)
      BY <2>2, <2>3, KindledBeyond
    <3> HIDE DEF n, b
    <3>4. Shine(b) \in 0..MaxLight
      BY <3>1, RowTyped
    <3>5. MaxLight - n \in Nat /\ MaxLight - n < k
      BY <1>1, <2>2, <3>2, <3>4
    <3>6. MaxLight - n \in Wrong
      BY <3>1, <3>2, <3>3, <3>5
    <3> QED BY <1>1, <2>1, <2>2, <3>2, <3>5, <3>6
  <2>4. ASSUME NEW x \in Cells, Ember(<<q[1], x>>), Runs(voxels[q[1]], x, q[2]),
               MaxLight - Distance(x, q[2]) >= m
        PROVE  FALSE
    BY <2>2, <2>4, KindledHere
  <2> QED BY <2>2, <2>3, <2>4, LitFrom
<1>3. ASSUME NEW q \in Spots, NEW m \in Nat \ {0}, Shine(q) >= m PROVE Kindled(q, m)
  <2>1. Shine(q) \in 0..MaxLight
    BY RowTyped
  <2>2. MaxLight - m \in Nat
    BY <1>1, <1>3, <2>1
  <2> QED BY <1>2, <1>3, <2>2
<1> QED BY <1>3

\* What light enters a chunk goes on through open cells only.
LEMMA OpenInside ==
  ASSUME NEW s \in Sides, NEW p \in Spots, NEW q \in Spots, NEW r \in Spots, Lights(p, q),
         Pos(s, p) < Pos(s, r), Pos(s, Edge(q[1], s)) < Pos(s, r), Pos(s, r) <= Pos(s, q)
  PROVE  Open(r)
<1> DEFINE e == Edge(q[1], s)
<1>1. q[1] \in Chunks /\ e \in Spots /\ e = <<q[1], BorderCell(s)>> /\ r = <<r[1], r[2]>>
  BY SpotIs, ChunkSpan DEF Edge
<1>2. Pos(s, p) \in Int /\ Pos(s, q) \in Int /\ Pos(s, r) \in Int /\ Pos(s, e) \in Int
  BY <1>1, PosTyped
<1>3. Admits(s, r)
  <2>1. Pos(s, p) < Pos(s, q)
    BY <1>2
  <2> QED BY <2>1, LightsIs
<1>4. r[1] = q[1]
  <2>1. Pos(s, e) <= Pos(s, r)
    BY <1>2
  <2> QED BY <1>1, <2>1, ChunkSpan
<1>5. r # e
  BY <1>2
<1> QED BY <1>1, <1>3, <1>4, <1>5 DEF Admits

\* An ember lights every open spot that it reaches with all that is left of it.
\* (A chunk one cell wide could be rock and border at once.)
LEMMA AllReached ==
  ASSUME SettledRow, Width > 1, NEW p \in Spots, Ember(p)
  PROVE  \A q \in Spots : Lights(p, q) /\ (q = p \/ Open(q)) => Shine(q) >= MaxLight - Apart(p, q)
<1> DEFINE Short(q) == Lights(p, q) /\ (q = p \/ Open(q)) /\ ~(Shine(q) >= MaxLight - Apart(p, q))
           Wrong == {Apart(p, q) : q \in {r \in Spots : Short(r)}}
<1> USE DEF Short
<1>1. MaxLight \in Nat /\ Width \in Nat
  BY LightAssumption
<1>2. \A q \in Spots : Apart(p, q) \in Nat
  <2> SUFFICES ASSUME NEW q \in Spots PROVE Apart(p, q) \in Nat
    OBVIOUS
  <2>1. 1 \in Sides
    BY DEF Sides
  <2>2. Pos(1, p) \in Int /\ Pos(1, q) \in Int
    BY <2>1, PosTyped
  <2>3. Apart(p, q) = IF Pos(1, p) < Pos(1, q) THEN Pos(1, q) - Pos(1, p) ELSE Pos(1, p) - Pos(1, q)
    BY <2>1, PosFacts
  <2> QED BY <2>2, <2>3
<1> SUFFICES ASSUME Wrong # {} PROVE FALSE
  OBVIOUS
<1>3. PICK q \in Spots : Short(q) /\ \A r \in Spots : Short(r) => Apart(p, q) <= Apart(p, r)
  <2>1. Wrong \subseteq Nat
    BY <1>2
  <2>2. PICK n \in Wrong : \A k \in Wrong : n <= k
    BY <2>1, LeastNumber
  <2> QED BY <2>2
<1> HIDE DEF Short
<1> DEFINE d == q[1]
           m == MaxLight - Apart(p, q)
<1>4. m \in Nat \ {0} /\ ~(Shine(q) >= m)
  <2>1. Shine(q) \in 0..MaxLight
    BY RowTyped
  <2> QED BY <1>1, <1>2, <1>3, <2>1 DEF Short
<1>5. Lights(p, q) /\ (q = p \/ Open(q))
  BY <1>3 DEF Short
<1>6. /\ d \in Chunks /\ q[2] \in Cells /\ q = <<d, q[2]>>
      /\ p[1] \in Chunks /\ p[2] \in Cells /\ p = <<p[1], p[2]>>
  BY SpotIs
<1>7. \E x \in Cells : voxels[d][x] # "rock"
  BY <1>5, <1>6 DEF Ember, Open, Opaque
<1>8. CASE p[1] = d
  <2>1. Apart(p, q) = Distance(p[2], q[2])
    <3>1. 1 \in Sides
      BY DEF Sides
    <3> QED BY <1>8, <3>1, PosFacts
  <2>2. Runs(voxels[d], p[2], q[2])
    <3>1. CASE p = q
      BY <3>1 DEF Runs
    <3>2. CASE p # q
      <4>1. PICK s \in Sides : Pos(s, p) < Pos(s, q)
        BY <3>2, FromASide
      <4>2. /\ Pos(s, p) \in Int /\ Pos(s, q) \in Int /\ Pos(s, Edge(d, s)) \in Int
            /\ Pos(s, Edge(d, s)) <= Pos(s, p)
        BY <1>6, <1>8, PosTyped, ChunkSpan
      <4>3. ASSUME NEW r \in Spots, Pos(s, p) < Pos(s, r), Pos(s, r) <= Pos(s, q) PROVE Open(r)
        <5>1. Pos(s, Edge(d, s)) < Pos(s, r)
          BY <4>2, <4>3, PosTyped
        <5> QED BY <1>5, <4>3, <5>1, OpenInside
      <4>4. Pos(s, p) <= Pos(s, q)
        BY <4>1, <4>2
      <4>5. p = <<d, p[2]>>
        BY <1>6, <1>8
      <4> QED BY <1>6, <4>3, <4>4, <4>5, RunsIs
    <3> QED BY <3>1, <3>2
  <2>3. Ember(<<d, p[2]>>) /\ MaxLight - Distance(p[2], q[2]) >= m
    <3>1. p = <<d, p[2]>>
      BY <1>6, <1>8
    <3> QED BY <1>1, <1>2, <2>1, <3>1
  <2> QED BY <1>4, <1>6, <1>7, <2>2, <2>3, LitTo
<1>9. CASE p[1] # d
  <2>1. PICK s \in Sides : Pos(s, p) < Pos(s, q)
    BY <1>6, <1>9, FromASide
  <2> DEFINE e == Edge(d, s)
             b == Beyond(d, s)
             n == Distance(BorderCell(s), q[2])
  <2>2. e \in Spots /\ e[1] = d /\ e[2] = BorderCell(s) /\ e = <<d, BorderCell(s)>> /\ Pos(s, e) <= Pos(s, q)
    BY <1>6, ChunkSpan DEF Edge
  <2>3. Pos(s, p) \in Int /\ Pos(s, q) \in Int /\ Pos(s, e) \in Int /\ n \in Nat
    BY <1>6, <2>2, PosTyped, BorderIsCell, DistanceTyped
  <2>4. Pos(s, p) < Pos(s, e)
    <3> SUFFICES ASSUME Pos(s, e) <= Pos(s, p) PROVE FALSE
      BY <2>3
    <3>1. Pos(s, p) <= Pos(s, q)
      BY <2>1, <2>3
    <3> QED BY <1>6, <1>9, <3>1, ChunkSpan
  <2>5. d + s \in Chunks /\ b \in Spots /\ Pos(s, b) + 1 = Pos(s, e)
    BY <1>6, <1>9, <2>4, ChunkSpan
  <2>6. b[2] # BorderCell(s)
    <3>1. b[2] = BorderCell(-s)
      BY DEF Beyond
    <3>2. s # -1 => s = 1 /\ -s = -1
      BY DEF Sides
    <3>3. s # 1 => s = -1 /\ -s = 1
      BY OtherSide DEF Sides
    <3> QED BY <1>1, <3>1, <3>2, <3>3 DEF BorderCell
  <2>7. Apart(e, q) = n
    BY <2>2, PosFacts
  <2>8. /\ Apart(e, q) = (IF Pos(s, e) < Pos(s, q) THEN Pos(s, q) - Pos(s, e) ELSE Pos(s, e) - Pos(s, q))
        /\ Apart(p, b) = (IF Pos(s, p) < Pos(s, b) THEN Pos(s, b) - Pos(s, p) ELSE Pos(s, p) - Pos(s, b))
        /\ Apart(p, q) = (IF Pos(s, p) < Pos(s, q) THEN Pos(s, q) - Pos(s, p) ELSE Pos(s, p) - Pos(s, q))
    BY <2>2, <2>5, PosFacts
  <2>9. Pos(s, b) \in Int
    BY <2>5, PosTyped
  <2>10. Lights(p, b) /\ (b = p \/ Open(b))
    <3>1. CASE Pos(s, p) = Pos(s, b)
      BY <2>5, <3>1, PosFacts, LightsItself
    <3>2. CASE Pos(s, p) < Pos(s, b)
      <4>1. \A r \in Spots : Pos(s, p) < Pos(s, r) /\ Pos(s, r) <= Pos(s, q) => Admits(s, r)
        BY <1>5, <2>1, LightsIs
      <4>2. \A r \in Spots : Pos(s, r) <= Pos(s, b) => Pos(s, r) <= Pos(s, q)
        BY <2>2, <2>3, <2>5, <2>9, PosTyped
      <4>3. Lights(p, b)
        BY <2>5, <3>2, <4>1, <4>2, LightsIs
      <4>4. Admits(s, b)
        BY <2>5, <2>9, <3>2, <4>1, <4>2
      <4> QED BY <2>6, <4>3, <4>4 DEF Admits
    <3> QED BY <2>3, <2>4, <2>5, <2>9, <3>1, <3>2
  <2> HIDE DEF e, b, n
  <2>11. Apart(p, q) = Apart(p, b) + 1 + n
    BY <2>1, <2>2, <2>3, <2>4, <2>5, <2>7, <2>8, <2>9
  <2>12. Shine(b) >= MaxLight - Apart(p, b)
    <3>1. ~(Apart(p, q) <= Apart(p, b))
      BY <1>2, <2>3, <2>5, <2>11
    <3>2. ~Short(b)
      BY <1>3, <2>5, <3>1
    <3> QED BY <2>10, <3>2 DEF Short
  <2>13. Shine(b) >= m + 1 + n
    BY <1>1, <1>2, <2>3, <2>5, <2>11, <2>12
  <2>14. Runs(voxels[d], BorderCell(s), q[2])
    <3>1. ASSUME NEW r \in Spots, Pos(s, e) < Pos(s, r), Pos(s, r) <= Pos(s, q) PROVE Open(r)
      <4>1. Pos(s, p) < Pos(s, r)
        BY <2>3, <2>4, <3>1, PosTyped
      <4> QED BY <1>5, <3>1, <4>1, OpenInside DEF e
    <3> QED BY <1>6, <2>2, <3>1, BorderIsCell, RunsIs
  <2> QED BY <1>4, <1>7, <2>5, <2>13, <2>14, LitTo DEF b, n
<1> QED BY <1>8, <1>9

\* So the light of a settled row is the field of its embers.
LEMMA RowIsField ==
  ASSUME SettledRow, Width > 1
  PROVE  FieldIs(LetsOpenOrBorder)
<1> SUFFICES ASSUME NEW c \in Chunks, NEW x \in Cells, ~Opaque(voxels[c][x])
             PROVE  grid[c][x].block = FieldLight(c, x, LetsOpenOrBorder)
  BY DEF FieldIs
<1> DEFINE q == <<c, x>>
           embers == {p \in Spots : Ember(p) /\ Lights(p, q)}
           S == {0} \cup {MaxLight - Apart(p, q) : p \in embers}
<1>1. FieldLight(c, x, LetsOpenOrBorder) = Max(S)
  BY DEF FieldLight, Spots, Ember, Lights, Apart
<1>2. q \in Spots /\ Open(q) /\ Shine(q) = grid[c][x].block
  BY DEF Spots, Open, Shine
<1>3. Shine(q) \in 0..MaxLight /\ MaxLight \in Nat
  BY <1>2, RowTyped, LightAssumption
<1> HIDE DEF q
<1>4. \A p \in Spots : Apart(p, q) \in Int
  <2> SUFFICES ASSUME NEW p \in Spots PROVE Apart(p, q) \in Int
    OBVIOUS
  <2>1. 1 \in Sides
    BY DEF Sides
  <2>2. Pos(1, p) \in Int /\ Pos(1, q) \in Int
    BY <1>2, <2>1, PosTyped
  <2>3. Apart(p, q) = IF Pos(1, p) < Pos(1, q) THEN Pos(1, q) - Pos(1, p) ELSE Pos(1, p) - Pos(1, q)
    BY <1>2, <2>1, PosFacts
  <2> QED BY <2>2, <2>3
<1>5. S \in SUBSET Int
  BY <1>3, <1>4
<1>6. \A p \in embers : Shine(q) >= MaxLight - Apart(p, q)
  BY <1>2, AllReached
<1>7. \A z \in S : Shine(q) >= z
  BY <1>3, <1>6
<1>8. Shine(q) \in S
  <2>1. CASE Shine(q) = 0
    BY <2>1
  <2>2. CASE Shine(q) # 0
    <3>1. Shine(q) \in Nat \ {0} /\ Shine(q) >= Shine(q)
      BY <1>3, <2>2
    <3>2. Kindled(q, Shine(q))
      BY <1>2, <3>1, AllKindled
    <3>3. PICK p \in embers : MaxLight - Apart(p, q) >= Shine(q)
      BY <3>2 DEF Kindled
    <3>4. MaxLight - Apart(p, q) = Shine(q)
      BY <1>3, <1>4, <1>6, <3>3
    <3> QED BY <3>3, <3>4
  <2> QED BY <2>1, <2>2
<1> HIDE DEF S
<1>9. Max(S) = Shine(q)
  BY <1>5, <1>7, <1>8, MaxIs
<1> QED BY <1>1, <1>2, <1>9

\* However chunk after chunk came, went, was edited, flooded and switched, and in
\* whatever order: when all is loaded and no flood is owed, the light of the row
\* is what its embers shed, once each.  Nothing is left of an ember that is gone,
\* and no two chunks keep each other lit (settle_light, light.rs).
THEOREM FieldTrue ==
  ASSUME ~LateLosses, Width > 1
  PROVE  Spec => []QuietFieldIsTrue
<1>1. LightInv => QuietFieldIsTrue
  <2> SUFFICES ASSUME LightInv, Quiet, loaded = Chunks, untold = {}, Quarantined = {}
               PROVE  FieldIs(LetsOpenOrBorder)
    BY DEF QuietFieldIsTrue
  <2>1. TypeOK
    BY DEF LightInv, OwnerInv
  <2>2. ASSUME NEW c \in Chunks PROVE grid[c] # NoGrid /\ Right(voxels[c], Shell(c), grid[c])
    <3>1. lighting /\ c \notin worklist /\ c \notin inflight
      BY DEF Quiet
    <3>2. ~Exempt(c)
      BY DEF Exempt, Beside
    <3>3. Cared(c)
      BY <3>2 DEF LightInv, AllCared
    <3> QED BY <3>1, <3>3 DEF Cared, Rests, Matches
  <2>3. SettledRow
    BY <2>1, <2>2 DEF SettledRow
  <2> QED BY <2>3, RowIsField
<1> QED BY <1>1, LightInvHolds, PTL
=============================================================================
