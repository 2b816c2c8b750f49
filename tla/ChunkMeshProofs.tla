-------------------------- MODULE ChunkMeshProofs --------------------------
(***************************************************************************)
(* Theorems of ChunkMesh, for any boxes, chunks, workers and bounds: the   *)
(* types, that no wake-up of a worker is lost, that every claim is owed an *)
(* answer, that no lane forgets what is due, and, as long as no edit       *)
(* restores a generated block, that chunks hold what the overlay says and  *)
(* meshes show it.                                                         *)
(***************************************************************************)
EXTENDS ChunkMesh, JobPoolProofs, FiniteSetTheorems

-----------------------------------------------------------------------------
(* The operators of the model keep their types. *)

LEMMA ZeroTyped == Generated \in Voxels /\ NoMesh \in Seen /\ Absent \in Residents
<1>1. 0 \in 0..MaxEdits
  BY ChunkAssumption
<1>2. Generated \in Voxels
  BY <1>1 DEF Generated, Voxels
<1>3. NoMesh \in Seen
  BY <1>2 DEF NoMesh, Seen
<1> QED BY <1>2, <1>3 DEF Absent, Residents, States

LEMMA RemadeTyped ==
  ASSUME NEW r \in Residents
  PROVE  Remeshed(r) \in Residents /\ Invalidated(r) \in Residents /\ Released(r) \in Residents
<1>1. NoMesh \in Seen
  BY ZeroTyped
<1>2. "needs" \in States /\ "dirty" \in States
  BY DEF States
<1>3. r.rev + 1 \in Nat
  BY DEF Residents
<1>4. Remeshed(r) \in Residents
  BY <1>1, <1>2, <1>3 DEF Residents, Remeshed
<1>5. Invalidated(r) \in Residents
  BY <1>1, <1>2, <1>3 DEF Residents, Invalidated
<1>6. Released(r) \in Residents
  BY DEF Residents, Released
<1> QED BY <1>4, <1>5, <1>6

\* What the three of them leave of a chunk.
LEMMA RemadeFields ==
  ASSUME NEW r \in Residents
  PROVE  /\ Remeshed(r).st = "needs" /\ Remeshed(r).building = FALSE
         /\ Remeshed(r).rev = r.rev + 1 /\ Remeshed(r).vox = r.vox /\ Remeshed(r).of = r.of
         /\ Invalidated(r).st = "dirty" /\ Invalidated(r).building = FALSE
         /\ Invalidated(r).rev = r.rev + 1 /\ Invalidated(r).vox = r.vox
         /\ Invalidated(r).of = r.of
         /\ Released(r).st = r.st /\ Released(r).building = FALSE
         /\ Released(r).rev = r.rev /\ Released(r).vox = r.vox /\ Released(r).of = r.of
         /\ Released(r).seen = r.seen
<1>1. DOMAIN r = {"st", "building", "rev", "vox", "seen", "of"}
  BY DEF Residents
<1> QED BY <1>1 DEF Remeshed, Invalidated, Released

LEMMA SnapshotTyped ==
  ASSUME chunk \in [Chunks -> Residents], NEW c \in Chunks
  PROVE  Snapshot(chunk, c) \in Seen
<1>1. \A d, s : s \in Sides => CellOf(chunk, d, s) \in 0..MaxEdits \cup {Missing}
  BY DEF CellOf, Residents, Voxels
<1>2. chunk[c].vox \in Voxels /\ chunk[c].of \in Nat
  BY DEF Residents
<1> QED BY <1>1, <1>2 DEF Snapshot, Seen, Sides

LEMMA StoredTyped ==
  ASSUME NEW c \in Chunks, NEW base \in Voxels,
         overlay \in [Chunks -> Voxels], residency \in [Chunks -> Nat]
  PROVE  Stored(c, base) \in Residents
<1>1. Replayed(c, base) \in Voxels
  BY DEF Replayed, Voxels
<1>2. NoMesh \in Seen
  BY ZeroTyped
<1> QED BY <1>1, <1>2 DEF Stored, Residents, States

LEMMA StoreTyped ==
  ASSUME TypeOK, NEW S \in SUBSET Chunks, NEW base,
         S # {} => base \in Voxels, StoreChunks(S, base)
  PROVE  /\ chunk' \in [Chunks -> Residents] /\ residency' \in [Chunks -> Nat]
         /\ worklist' \subseteq Chunks /\ pendingFresh' \in BOOLEAN
<1>1. chunk' \in [Chunks -> Residents]
  <2>1. \A c \in Chunks : chunk[c] \in Residents
    BY DEF TypeOK
  <2>2. \A c \in S : Stored(c, base) \in Residents
    BY StoredTyped DEF TypeOK
  <2>3. \A c \in Chunks : Remeshed(chunk[c]) \in Residents
    BY <2>1, RemadeTyped
  <2> HIDE DEF Residents
  <2> QED BY <2>1, <2>2, <2>3 DEF StoreChunks
<1>2. residency' \in [Chunks -> Nat]
  BY DEF StoreChunks, TypeOK
<1>3. worklist' \subseteq Chunks
  BY DEF StoreChunks, TypeOK
<1> QED BY <1>1, <1>2, <1>3 DEF StoreChunks

-----------------------------------------------------------------------------
(* Pruning the uploads. *)

\* The entries picked from a queue are entries of it, and none of those picked
\* is missing.
LEMMA PickedIs ==
  ASSUME NEW S, NEW s \in Seq(S), NEW K \in SUBSET (1..Len(s))
  PROVE  /\ Picked(s, K) \in Seq(S)
         /\ \A n \in DOMAIN Picked(s, K) : \E i \in K : Picked(s, K)[n] = s[i]
         /\ \A i \in K : \E n \in DOMAIN Picked(s, K) : Picked(s, K)[n] = s[i]
<1> DEFINE upTo(i) == {k \in K : k <= i}
           C == Cardinality(K)
           place == [i \in K |-> Cardinality(upTo(i))]
<1>1. Len(s) \in Nat /\ IsFiniteSet(1..Len(s))
  BY FS_Interval
<1>2. IsFiniteSet(K) /\ C \in Nat
  BY <1>1, FS_Subset, FS_CardinalityType
<1>3. \A i \in K : IsFiniteSet(upTo(i)) /\ Cardinality(upTo(i)) \in Nat /\ Cardinality(upTo(i)) <= C
  BY <1>2, FS_Subset, FS_CardinalityType
<1>4. \A i \in K : Cardinality(upTo(i)) >= 1
  <2> SUFFICES ASSUME NEW i \in K PROVE Cardinality(upTo(i)) >= 1
    OBVIOUS
  <2>1. {i} \in SUBSET upTo(i)
    BY <1>1
  <2>2. Cardinality({i}) = 1
    BY FS_Singleton
  <2> HIDE DEF upTo
  <2> QED BY <2>1, <2>2, <1>3, FS_Subset
<1>5. \A i, j \in K : i < j => Cardinality(upTo(i)) # Cardinality(upTo(j))
  <2> SUFFICES ASSUME NEW i \in K, NEW j \in K, i < j
               PROVE  Cardinality(upTo(i)) # Cardinality(upTo(j))
    OBVIOUS
  <2>1. upTo(i) \in SUBSET upTo(j) /\ j \in upTo(j) /\ j \notin upTo(i)
    <3>1. K \subseteq Int /\ i \in Int /\ j \in Int
      BY <1>1
    <3>2. \A k \in K : k <= i => k <= j
      BY <3>1
    <3>3. i <= j /\ ~(j <= i) /\ j <= j
      BY <3>1
    <3> QED BY <3>2, <3>3
  <2> HIDE DEF upTo
  <2> QED BY <2>1, <1>3, FS_Subset
<1>6. place \in [K -> 1..C]
  <2>1. \A i \in K : Cardinality(upTo(i)) \in 1..C
    <3> HIDE DEF upTo, C
    <3> QED BY <1>2, <1>3, <1>4
  <2> QED BY <2>1
<1>7. \A i, j \in K : place[i] = place[j] => i = j
  <2> SUFFICES ASSUME NEW i \in K, NEW j \in K, place[i] = place[j], i # j PROVE FALSE
    OBVIOUS
  <2>1. i < j \/ j < i
    BY <1>1
  <2>2. Cardinality(upTo(i)) = Cardinality(upTo(j))
    OBVIOUS
  <2> HIDE DEF upTo, place
  <2> QED BY <2>1, <2>2, <1>5
<1>8. \A n \in 1..C : \E i \in K : place[i] = n
  <2>1. place \in Injection(K, 1..C)
    BY <1>6, <1>7 DEF Injection, IsInjective
  <2>2. IsFiniteSet(1..C) /\ Cardinality(1..C) = C
    BY <1>2, FS_Interval
  <2> HIDE DEF place
  <2>3. place \in Surjection(K, 1..C)
    BY <2>1, <2>2, FS_Injection
  <2> QED BY <2>3 DEF Surjection
<1> DEFINE pick(n) == CHOOSE i \in K : Cardinality(upTo(i)) = n
<1>9. \A n \in 1..C : pick(n) \in K /\ place[pick(n)] = n
  BY <1>8
<1>10. \A i \in K : place[i] \in 1..C /\ pick(place[i]) = i
  BY <1>6, <1>7, <1>9
<1>11. Picked(s, K) = [n \in 1..C |-> s[pick(n)]]
  BY DEF Picked
<1> HIDE DEF place, pick, upTo
<1>12. Picked(s, K) \in Seq(S)
  <2>1. \A n \in 1..C : s[pick(n)] \in S
    BY <1>9, ElementOfSeq
  <2> QED BY <1>2, <1>11, <2>1
<1>13. DOMAIN Picked(s, K) = 1..C /\ \A n \in 1..C : Picked(s, K)[n] = s[pick(n)]
  BY <1>11
<1>14. \A i \in K : Picked(s, K)[place[i]] = s[i]
  BY <1>10, <1>13
<1> QED BY <1>9, <1>10, <1>12, <1>13, <1>14

-----------------------------------------------------------------------------
(* Type correctness, action by action. *)

LEMMA PoolStays ==
  ASSUME NEW J, PoolTypeOK(J), UNCHANGED poolVars
  PROVE  PoolTypeOK(J)'
BY DEF PoolTypeOK, poolVars

LEMMA UploadTyped ==
  ASSUME TypeOK, NEW i \in DOMAIN uploads
  PROVE  uploads[i] \in MeshJobs /\ uploads[i].at \in Chunks
<1>1. uploads \in Seq(MeshJobs)
  BY DEF TypeOK
<1>2. uploads[i] \in MeshJobs
  BY <1>1, ElementOfSeq
<1> QED BY <1>2 DEF MeshJobs

\* Every action leaves most variables alone.
USE DEF vars, mainVars, genVars, meshVars, dirtyVars, viewVars, editVars, failVars, pastVars

LEMMA EditTyped ==
  ASSUME TypeOK, EditStep
  PROVE  TypeOK'
<1>1. PICK site \in EditSites : \E id \in {edits + 1} \cup (IF Reverts THEN {0} ELSE {}) :
        Edit(site[1], site[2], id)
  BY DEF EditStep
<1> DEFINE c == site[1]
           s == site[2]
<1>2. PICK id \in {edits + 1, 0} : Edit(c, s, id)
  BY <1>1
<1>3. c \in Chunks /\ s \in Sides
  BY ChunkAssumption DEF Sides
<1>4. edits \in 0..MaxEdits /\ edits < MaxEdits /\ edits' = edits + 1 /\ MaxEdits \in Nat
  BY <1>2, ChunkAssumption DEF Edit, TypeOK
<1>5. edits' \in 0..MaxEdits /\ id \in 0..MaxEdits
  BY <1>4
<1> HIDE DEF c, s
<1>6. overlay' \in [Chunks -> Voxels]
  <2>1. [overlay[c] EXCEPT ![s] = id] \in Voxels
    BY <1>3, <1>5 DEF TypeOK, Voxels
  <2> QED BY <1>2, <1>3, <2>1 DEF Edit, TypeOK
<1>7. chunk' \in [Chunks -> Residents]
  <2>1. \A d \in Chunks : chunk[d] \in Residents /\ Invalidated(chunk[d]) \in Residents
    BY RemadeTyped DEF TypeOK
  <2>2. [Invalidated(chunk[c]) EXCEPT !.vox[s] = id] \in Residents
    <3>1. Invalidated(chunk[c]).vox \in Voxels
      BY <1>3, <2>1 DEF Residents
    <3>2. [Invalidated(chunk[c]).vox EXCEPT ![s] = id] \in Voxels
      BY <1>3, <1>5, <3>1 DEF Voxels
    <3>3. \A r \in Residents, v \in Voxels : [r EXCEPT !.vox = v] \in Residents
      BY DEF Residents
    <3> QED BY <1>3, <2>1, <3>2, <3>3
  <2> HIDE DEF Residents
  <2> QED BY <1>2, <2>1, <2>2 DEF Edit
<1>8. dirtyList' \subseteq Chunks /\ pendingDirty' \in BOOLEAN /\ pendingFresh' \in BOOLEAN
      /\ failed' \subseteq Chunks
  BY <1>2 DEF Edit, TypeOK
<1>9. PoolTypeOK(Jobs)'
  BY <1>2, PoolStays DEF Edit, TypeOK, poolVars
<1> QED BY <1>2, <1>5, <1>6, <1>7, <1>8, <1>9 DEF Edit, TypeOK

LEMMA BeginTyped ==
  ASSUME TypeOK, NEW v \in Eyes, Begin(v)
  PROVE  TypeOK'
<1>1. PoolTypeOK(Jobs)'
  BY PublishTyped, ChunkAssumption DEF Begin, TypeOK
<1>2. moves' \in 0..MaxMoves
  BY ChunkAssumption DEF Begin, TypeOK
<1>3. v # NoEye
  BY ChunkAssumption, PoolAssumption
<1> QED BY <1>1, <1>2, <1>3 DEF Begin, TypeOK

LEMMA CrossTyped ==
  ASSUME TypeOK, Cross
  PROVE  TypeOK'
<1> DEFINE far == {c \in Chunks : /\ Loaded(c) /\ c \notin Box(UnloadR)
                                  /\ seededAt # NoEye => Away(c, seededAt) <= UnloadR}
           live == {i \in DOMAIN uploads : uploads[i].at \notin far /\ Applies(uploads[i])}
           stale == {uploads[i].at : i \in DOMAIN uploads \ live}
           kept == [c \in Chunks |-> IF c \in far THEN Absent
                                     ELSE IF c \in stale THEN Released(chunk[c]) ELSE chunk[c]]
           make == IF Loaded(eye) \/ eye \in generating THEN {} ELSE {eye}
           near(c) == c \in make \/ Neighbours(c) \cap make # {}
<1>1. uploads' \in Seq(MeshJobs)
  <2>1. live \in SUBSET (1..Len(uploads)) /\ uploads \in Seq(MeshJobs)
    BY DEF TypeOK
  <2>2. uploads' = Picked(uploads, live)
    BY DEF Cross
  <2> HIDE DEF live
  <2> QED BY <2>1, <2>2, PickedIs
<1>2. eye \in Eyes
  BY DEF Cross, TypeOK
<1>3. \A c \in Chunks : kept[c] \in Residents
  <2>1. \A c \in Chunks : chunk[c] \in Residents /\ Released(chunk[c]) \in Residents
    BY RemadeTyped DEF TypeOK
  <2> HIDE DEF Residents
  <2> QED BY <2>1, ZeroTyped
<1>4. chunk' \in [Chunks -> Residents]
  <2>1. \A c \in Chunks : Stored(c, Generated) \in Residents
    BY StoredTyped, ZeroTyped DEF TypeOK
  <2>2. \A c \in Chunks : Remeshed(kept[c]) \in Residents
    BY <1>3, RemadeTyped
  <2>3. chunk' = [c \in Chunks |->
          IF c \in make THEN Stored(c, Generated)
          ELSE IF kept[c].st = "ready" /\ near(c) THEN Remeshed(kept[c])
          ELSE kept[c]]
    BY DEF Cross
  <2> HIDE DEF kept, make, near
  <2> QED BY <1>3, <2>1, <2>2, <2>3
<1>5. worklist' \subseteq Chunks
  <2>1. \A i \in DOMAIN uploads : uploads[i].at \in Chunks
    BY UploadTyped
  <2>2. stale \subseteq Chunks
    BY <2>1
  <2>3. MeshBox \subseteq Chunks
    BY DEF MeshBox, Box
  <2> DEFINE window == {c \in MeshBox : seededAt # NoEye => Away(c, seededAt) > MeshR}
             fresh(c) == chunk'[c].st = "needs" /\ ~chunk'[c].building
  <2>4. worklist' = (worklist \ far) \cup {c \in stale \cup window : fresh(c)}
                                     \cup {c \in Chunks : near(c) /\ fresh(c)}
    BY DEF Cross
  <2>5. worklist \subseteq Chunks
    BY DEF TypeOK
  <2> HIDE DEF far, stale, near, fresh
  <2> QED BY <2>2, <2>3, <2>4, <2>5
<1>6. residency' \in [Chunks -> Nat]
  <2>1. residency' = [c \in Chunks |-> IF c \in make THEN residency[c] + 1 ELSE residency[c]]
    BY DEF Cross
  <2>2. \A c \in Chunks : residency[c] \in Nat /\ residency[c] + 1 \in Nat
    BY DEF TypeOK
  <2> HIDE DEF make
  <2> QED BY <2>1, <2>2
<1>7. PoolTypeOK(Jobs)'
  BY PoolStays DEF Cross, TypeOK, poolVars
<1>8. dirtyList' \subseteq Chunks /\ failed' \subseteq Chunks
  BY DEF Cross, TypeOK
<1> QED BY <1>1, <1>2, <1>4, <1>5, <1>6, <1>7, <1>8 DEF Cross, TypeOK

LEMMA GatherTyped ==
  ASSUME TypeOK, Gather
  PROVE  TypeOK'
<1> DEFINE free == {c \in Box(DataR) : ~Claimed(c) /\ c \notin Mixed}
<1>1. free \in SUBSET Chunks
  BY DEF Box
<1>2. StoreChunks(free, Generated)
  BY DEF Gather
<1> HIDE DEF free
<1>3. /\ chunk' \in [Chunks -> Residents] /\ residency' \in [Chunks -> Nat]
      /\ worklist' \subseteq Chunks /\ pendingFresh' \in BOOLEAN
  BY <1>1, <1>2, StoreTyped, ZeroTyped
<1>4. runs' \subseteq Chunks /\ gatheredFor' \in Eyes \cup {NoEye} /\ holed' \subseteq Chunks
  BY ChunkAssumption DEF Gather, TypeOK
<1>5. PoolTypeOK(Jobs)'
  BY PoolStays DEF Gather, TypeOK, poolVars
<1> QED BY <1>3, <1>4, <1>5 DEF Gather, TypeOK

LEMMA SubmitRunTyped ==
  ASSUME TypeOK, NEW c \in Chunks, SubmitRun(c)
  PROVE  TypeOK'
<1>1. PoolTypeOK(Jobs)'
  <2>1. CASE UNCHANGED poolVars
    BY <2>1, PoolStays DEF TypeOK
  <2>2. CASE Submit([kind |-> "gen", at |-> c, edits |-> overlay[c]])
    <3>1. [kind |-> "gen", at |-> c, edits |-> overlay[c]] \in Jobs
      BY DEF Jobs, GenJobs, TypeOK
    <3> QED BY <2>2, <3>1, SubmitTyped DEF TypeOK
  <2> QED BY <2>1, <2>2 DEF SubmitRun
<1>2. generating' \subseteq Chunks /\ runs' \subseteq Chunks /\ pendingGen' \in BOOLEAN
  BY DEF SubmitRun, TypeOK
<1> QED BY <1>1, <1>2 DEF SubmitRun, TypeOK

LEMMA GenerateIdleTyped ==
  ASSUME TypeOK, GenerateIdle
  PROVE  TypeOK'
<1>1. PoolTypeOK(Jobs)'
  BY PoolStays DEF GenerateIdle, TypeOK
<1> QED BY <1>1 DEF GenerateIdle, TypeOK

LEMMA MeshTyped ==
  ASSUME TypeOK, Mesh
  PROVE  TypeOK'
<1>1. ASSUME NEW c \in Chunks, Evict(c) PROVE TypeOK'
  <2>1. PoolTypeOK(Jobs)'
    BY <1>1, PoolStays DEF Evict, TypeOK
  <2> QED BY <1>1, <2>1 DEF Evict, TypeOK
<1>2. ASSUME NEW c \in Chunks, SubmitMesh(c) PROVE TypeOK'
  <2>1. chunk[c] \in Residents
    BY DEF TypeOK
  <2>2. [kind |-> "mesh", at |-> c, rev |-> chunk[c].rev, seen |-> Snapshot(chunk, c)] \in Jobs
    <3>1. chunk[c].rev \in Nat /\ Snapshot(chunk, c) \in Seen
      BY <2>1, SnapshotTyped DEF TypeOK, Residents
    <3> QED BY <3>1 DEF Jobs, MeshJobs
  <2>3. PoolTypeOK(Jobs)'
    BY <1>2, <2>2, SubmitTyped DEF SubmitMesh, TypeOK
  <2>4. [chunk[c] EXCEPT !.building = TRUE] \in Residents
    BY <2>1 DEF Residents
  <2>5. chunk' \in [Chunks -> Residents]
    BY <1>2, <2>4 DEF SubmitMesh, TypeOK
  <2> QED BY <1>2, <2>3, <2>5 DEF SubmitMesh, TypeOK
<1>3. ASSUME MeshIdle PROVE TypeOK'
  <2>1. PoolTypeOK(Jobs)'
    BY <1>3, PoolStays DEF MeshIdle, TypeOK
  <2> QED BY <1>3, <2>1 DEF MeshIdle, TypeOK
<1> QED BY <1>1, <1>2, <1>3 DEF Mesh

LEMMA RemeshDirtyTyped ==
  ASSUME TypeOK, RemeshDirty
  PROVE  TypeOK'
<1> DEFINE due == {c \in dirtyList : chunk[c].st = "dirty"}
           drawn(c) == [chunk[c] EXCEPT !.st = IF c \in Mixed THEN "ready" ELSE "air",
                          !.seen = IF c \in Mixed THEN Snapshot(chunk, c) ELSE NoMesh]
<1>1. PICK T \in SUBSET due :
        /\ \E lost \in {{}} \cup {{c} : c \in T \cap Mixed} :
             /\ uploadFails + Cardinality(lost) <= MaxUploadFails
             /\ uploadFails' = uploadFails + Cardinality(lost)
             /\ chunk' = [c \in Chunks |-> IF c \in T \ lost THEN drawn(c) ELSE chunk[c]]
             /\ failed' = failed \cup lost
        /\ dirtyList' = due \ T
        /\ pendingDirty' = (due \ T # {})
  BY DEF RemeshDirty
<1>2. PICK lost \in {{}} \cup {{c} : c \in T \cap Mixed} :
        /\ uploadFails + Cardinality(lost) <= MaxUploadFails
        /\ uploadFails' = uploadFails + Cardinality(lost)
        /\ chunk' = [c \in Chunks |-> IF c \in T \ lost THEN drawn(c) ELSE chunk[c]]
        /\ failed' = failed \cup lost
  BY <1>1
<1>3. Cardinality(lost) \in Nat
  BY FS_EmptySet, FS_Singleton
<1>4. uploadFails' \in 0..MaxUploadFails
  <2>1. uploadFails \in 0..MaxUploadFails /\ MaxUploadFails \in Nat
    BY ChunkAssumption DEF TypeOK
  <2>2. uploadFails + Cardinality(lost) <= MaxUploadFails
        /\ uploadFails' = uploadFails + Cardinality(lost)
    BY <1>2
  <2> QED BY <1>3, <2>1, <2>2
<1>5. due \subseteq Chunks /\ lost \subseteq Chunks
  BY ZenonT(60), <1>1 DEF TypeOK
<1>6. \A c \in Chunks : chunk[c] \in Residents /\ drawn(c) \in Residents
  <2> SUFFICES ASSUME NEW c \in Chunks PROVE chunk[c] \in Residents /\ drawn(c) \in Residents
    OBVIOUS
  <2>1. chunk[c] \in Residents /\ Snapshot(chunk, c) \in Seen /\ NoMesh \in Seen
    BY SnapshotTyped, ZeroTyped DEF TypeOK
  <2>2. \A st \in States, seen \in Seen : [chunk[c] EXCEPT !.st = st, !.seen = seen] \in Residents
    BY <2>1 DEF Residents
  <2>3. (IF c \in Mixed THEN "ready" ELSE "air") \in States
        /\ (IF c \in Mixed THEN Snapshot(chunk, c) ELSE NoMesh) \in Seen
    BY <2>1 DEF States
  <2> QED BY <2>1, <2>2, <2>3
<1> HIDE DEF due, drawn
<1>7. chunk' \in [Chunks -> Residents]
  BY <1>2, <1>6
<1>8. dirtyList' \subseteq Chunks /\ pendingDirty' \in BOOLEAN /\ failed' \subseteq Chunks
  BY <1>1, <1>2, <1>5 DEF TypeOK
<1>9. PoolTypeOK(Jobs)'
  BY PoolStays DEF RemeshDirty, TypeOK
<1> QED BY <1>4, <1>7, <1>8, <1>9 DEF RemeshDirty, TypeOK

\* The result at the head of the channel: one of three, over jobs of the model.
LEMMA ResultTyped ==
  ASSUME TypeOK, Integrate
  PROVE  LET r == Head(results) IN
         /\ r.how \in {"cancelled", "failed", "done"}
         /\ r.how = "cancelled" => r.jobs \in [Slots -> Jobs \cup {NoJob}]
         /\ r.how # "cancelled" => r.job \in Jobs
<1>1. Head(results) \in Answers(Jobs) \cup Batches(Jobs)
  BY ReceiveTyped DEF Integrate, TypeOK
<1> QED BY <1>1 DEF Answers, Batches

LEMMA JobTyped ==
  ASSUME NEW j \in Jobs
  PROVE  /\ j.at \in Chunks /\ j.kind \in {"gen", "mesh"}
         /\ j.kind = "gen" => j \in GenJobs /\ j.edits \in Voxels
         /\ j.kind = "mesh" => j \in MeshJobs /\ j.rev \in Nat /\ j.seen \in Seen
BY DEF Jobs, GenJobs, MeshJobs

LEMMA DropTyped ==
  ASSUME TypeOK, NEW c \in Chunks, DropStale(c)
  PROVE  /\ chunk' \in [Chunks -> Residents]
         /\ worklist' \subseteq Chunks /\ pendingFresh' \in BOOLEAN
<1>1. chunk[c] \in Residents /\ Released(chunk[c]) \in Residents
  BY RemadeTyped DEF TypeOK
<1>2. chunk' \in [Chunks -> Residents]
  <2> HIDE DEF Residents
  <2> QED BY <1>1 DEF DropStale, TypeOK
<1> QED BY <1>2 DEF DropStale, TypeOK, Seeded

LEMMA ResolveTyped ==
  ASSUME TypeOK, NEW gens \in SUBSET Chunks, NEW meshes \in SUBSET Chunks, NEW again,
         Resolve(gens, meshes, again)
  PROVE  /\ chunk' \in [Chunks -> Residents] /\ generating' \subseteq Chunks
         /\ worklist' \subseteq Chunks /\ pendingFresh' \in BOOLEAN
         /\ pendingGen' \in BOOLEAN /\ gatheredFor' \in Eyes \cup {NoEye}
         /\ UNCHANGED <<runs, residency, uploads>>
<1>1. \A c \in Chunks : chunk[c] \in Residents /\ Released(chunk[c]) \in Residents
  BY RemadeTyped DEF TypeOK
<1>2. chunk' \in [Chunks -> Residents]
  <2> HIDE DEF Residents
  <2> QED BY <1>1 DEF Resolve
<1> QED BY <1>2 DEF Resolve, TypeOK, Seeded

LEMMA IntegrateTyped ==
  ASSUME TypeOK, Integrate
  PROVE  TypeOK'
<1> DEFINE r == Head(results)
<1>1. PoolTypeOK(Jobs)'
  BY ReceiveTyped DEF Integrate, TypeOK
<1>2. /\ r.how \in {"cancelled", "failed", "done"}
      /\ r.how = "cancelled" => r.jobs \in [Slots -> Jobs \cup {NoJob}]
      /\ r.how # "cancelled" => r.job \in Jobs
  BY ResultTyped
<1>3. /\ r.how = "cancelled" => CancelJobs(r.jobs)
      /\ r.how = "failed" => FailJob(r.job)
      /\ r.how = "done" => IF r.job.kind = "gen" THEN AcceptColumn(r.job)
                           ELSE AcceptMesh(r.job)
  BY <1>2 DEF Integrate
<1> HIDE DEF r
<1>4. CASE r.how = "cancelled"
  <2> DEFINE keys(k) == {r.jobs[i].at : i \in {n \in Slots : r.jobs[n] # NoJob /\ r.jobs[n].kind = k}}
  <2>1. keys("gen") \in SUBSET Chunks /\ keys("mesh") \in SUBSET Chunks
    BY <1>2, <1>4, JobTyped
  <2>2. Resolve(keys("gen"), keys("mesh"), {}) /\ holed' = holed \cup keys("gen")
        /\ UNCHANGED failVars
    BY <1>3, <1>4 DEF CancelJobs
  <2> HIDE DEF keys
  <2>3. holed' \subseteq Chunks
    BY <2>1, <2>2 DEF TypeOK
  <2> QED BY <1>1, <2>1, <2>2, <2>3, ResolveTyped DEF Integrate, TypeOK
<1>5. CASE r.how = "failed"
  <2> DEFINE j == r.job
             key == <<j.kind, j.at>>
             struck == IF strikes[key] < MaxStrikes THEN strikes[key] + 1 ELSE strikes[key]
             only(k) == IF j.kind = k THEN {j.at} ELSE {}
  <2>1. key \in Claims /\ only("gen") \in SUBSET Chunks /\ only("mesh") \in SUBSET Chunks
    BY <1>2, <1>5, JobTyped DEF Claims
  <2>2. struck \in 0..MaxStrikes
    <3>1. strikes[key] \in 0..MaxStrikes /\ MaxStrikes \in Nat
      BY <2>1, ChunkAssumption DEF TypeOK
    <3> QED BY <3>1
  <2>3. /\ strikes' = [strikes EXCEPT ![key] = struck]
        /\ quarantined' = IF struck >= MaxStrikes THEN quarantined \cup {key} ELSE quarantined
        /\ Resolve(only("gen"), only("mesh"), IF struck >= MaxStrikes THEN {} ELSE {j.at})
        /\ UNCHANGED holed
    BY <1>3, <1>5 DEF FailJob
  <2> HIDE DEF key, struck, only
  <2>4. strikes' \in [Claims -> 0..MaxStrikes] /\ quarantined' \subseteq Claims
    BY <2>1, <2>2, <2>3 DEF TypeOK
  <2> QED BY <1>1, <2>1, <2>3, <2>4, ResolveTyped DEF Integrate, TypeOK
<1>6. CASE r.how = "done" /\ r.job.kind = "gen"
  <2> DEFINE S == IF r.job.at \in Box(DataR) /\ ~Loaded(r.job.at) THEN {r.job.at} ELSE {}
  <2>1. S \in SUBSET Chunks /\ r.job.edits \in Voxels
    BY <1>2, <1>6, JobTyped
  <2>2. /\ generating' = generating \ {r.job.at}
        /\ StoreChunks(S, r.job.edits)
        /\ UNCHANGED <<uploads, failVars, runs, gatheredFor, pendingGen, holed>>
    BY <1>3, <1>6 DEF AcceptColumn
  <2> HIDE DEF S
  <2>3. /\ chunk' \in [Chunks -> Residents] /\ residency' \in [Chunks -> Nat]
        /\ worklist' \subseteq Chunks /\ pendingFresh' \in BOOLEAN
    BY <2>1, <2>2, StoreTyped
  <2> QED BY <1>1, <2>2, <2>3 DEF Integrate, TypeOK
<1>7. CASE r.how = "done" /\ r.job.kind # "gen"
  <2>1. r.job \in MeshJobs /\ r.job.at \in Chunks /\ AcceptMesh(r.job)
    BY <1>2, <1>3, <1>7, JobTyped
  <2>2. CASE Applies(r.job)
    <3>1. uploads' = Append(uploads, r.job) /\ uploads \in Seq(MeshJobs)
      BY <2>1, <2>2 DEF AcceptMesh, TypeOK
    <3>2. uploads' \in Seq(MeshJobs)
      BY <2>1, <3>1, AppendProperties
    <3> QED BY <1>1, <2>1, <2>2, <3>2 DEF AcceptMesh, Integrate, TypeOK
  <2>3. CASE ~Applies(r.job)
    BY <1>1, <2>1, <2>3, DropTyped DEF AcceptMesh, Integrate, TypeOK
  <2> QED BY <2>2, <2>3
<1> QED BY <1>2, <1>4, <1>5, <1>6, <1>7

LEMMA UploadStepTyped ==
  ASSUME TypeOK, Upload
  PROVE  TypeOK'
<1> DEFINE m == Head(uploads)
<1>1. m \in MeshJobs /\ m.at \in Chunks /\ m.seen \in Seen /\ uploads' \in Seq(MeshJobs)
  <2>1. m \in MeshJobs /\ uploads' \in Seq(MeshJobs)
    BY HeadTailProperties DEF Upload, TypeOK
  <2> QED BY <2>1 DEF MeshJobs
<1>2. PoolTypeOK(Jobs)'
  BY PoolStays DEF Upload, TypeOK
<1>3. \/ /\ chunk' = [chunk EXCEPT ![m.at].st = "ready", ![m.at].building = FALSE,
                                   ![m.at].seen = m.seen]
         /\ UNCHANGED <<meshVars, uploadFails, failed>>
      \/ /\ uploadFails < MaxUploadFails
         /\ uploadFails' = uploadFails + 1
         /\ failed' = failed \cup {m.at}
         /\ chunk' = [chunk EXCEPT ![m.at] = IF @.st = "needs" THEN Released(@) ELSE @]
         /\ UNCHANGED meshVars
      \/ DropStale(m.at) /\ UNCHANGED <<uploadFails, failed>>
  BY DEF Upload
<1> HIDE DEF m
<1>4. chunk[m.at] \in Residents /\ Released(chunk[m.at]) \in Residents
  BY <1>1, RemadeTyped DEF TypeOK
<1>5. chunk' \in [Chunks -> Residents] /\ worklist' \subseteq Chunks /\ pendingFresh' \in BOOLEAN
      /\ uploadFails' \in 0..MaxUploadFails /\ failed' \subseteq Chunks
  <2>1. CASE /\ chunk' = [chunk EXCEPT ![m.at].st = "ready", ![m.at].building = FALSE,
                                   ![m.at].seen = m.seen]
             /\ UNCHANGED <<meshVars, uploadFails, failed>>
    <3>1. [chunk[m.at] EXCEPT !.st = "ready", !.building = FALSE, !.seen = m.seen] \in Residents
      BY <1>1, <1>4 DEF Residents, States
    <3>2. chunk' \in [Chunks -> Residents]
      BY <1>1, <2>1, <3>1 DEF TypeOK
    <3> QED BY <2>1, <3>2 DEF TypeOK
  <2>2. CASE /\ uploadFails < MaxUploadFails
             /\ uploadFails' = uploadFails + 1
             /\ failed' = failed \cup {m.at}
             /\ chunk' = [chunk EXCEPT ![m.at] = IF @.st = "needs" THEN Released(@) ELSE @]
             /\ UNCHANGED meshVars
    <3>1. chunk' \in [Chunks -> Residents]
      BY <1>1, <1>4, <2>2 DEF TypeOK
    <3>2. uploadFails' \in 0..MaxUploadFails
      BY <2>2, ChunkAssumption DEF TypeOK
    <3> QED BY <1>1, <2>2, <3>1, <3>2 DEF TypeOK
  <2>3. CASE DropStale(m.at) /\ UNCHANGED <<uploadFails, failed>>
    BY <1>1, <2>3, DropTyped DEF TypeOK
  <2> QED BY <1>3, <2>1, <2>2, <2>3
<1> QED BY <1>1, <1>2, <1>5 DEF Upload, TypeOK

LEMMA WorkTyped ==
  ASSUME TypeOK, NEW w \in Workers, Work(w)
  PROVE  TypeOK'
<1>1. PoolTypeOK(Jobs)'
  BY WorkerTyped DEF Work, TypeOK
<1> QED BY <1>1 DEF Work, TypeOK

\* Every reachable state is well-typed: what is in flight, claimed, seeded or
\* queued is about chunks of the world, and no counter passes its bound.
THEOREM TypeCorrect == Spec => []TypeOK
<1>1. Init => TypeOK
  <2> SUFFICES ASSUME Init PROVE TypeOK
    OBVIOUS
  <2>1. PoolTypeOK(Jobs)
    BY InitTyped DEF Init
  <2>2. chunk \in [Chunks -> Residents] /\ overlay \in [Chunks -> Voxels]
    BY ZeroTyped DEF Init
  <2>3. strikes \in [Claims -> 0..MaxStrikes] /\ quarantined \subseteq Claims
    BY ChunkAssumption DEF Init
  <2>4. /\ edits \in 0..MaxEdits /\ moves \in 0..MaxMoves
        /\ uploadFails \in 0..MaxUploadFails
    BY ChunkAssumption DEF Init
  <2>5. uploads \in Seq(MeshJobs) /\ residency \in [Chunks -> Nat]
    BY DEF Init
  <2> QED BY <2>1, <2>2, <2>3, <2>4, <2>5 DEF Init, TypeOK
<1>2. TypeOK /\ [Next]_vars => TypeOK'
  <2> SUFFICES ASSUME TypeOK, [Next]_vars PROVE TypeOK'
    OBVIOUS
  <2>1. CASE Next
    BY <2>1, EditTyped, BeginTyped, CrossTyped, GatherTyped, SubmitRunTyped, GenerateIdleTyped,
       MeshTyped, RemeshDirtyTyped, IntegrateTyped, UploadStepTyped, WorkTyped
       DEF Next, Generate
  <2>2. CASE UNCHANGED vars
    <3>1. PoolTypeOK(Jobs)'
      BY <2>2, PoolStays DEF TypeOK
    <3> QED BY <2>2, <3>1 DEF TypeOK
  <2> QED BY <2>1, <2>2
<1> QED BY <1>1, <1>2, PTL DEF Spec

-----------------------------------------------------------------------------
(* No notification is lost. *)

\* What a step of the streamer does to the pool.
LEMMA NextMoves ==
  ASSUME TypeOK, [Next]_vars
  PROVE  \/ \E j \in Jobs : Submit(j)
         \/ \E v : Publish(v)
         \/ Receive
         \/ \E w \in Workers : WorkerStep(w)
         \/ UNCHANGED poolVars
<1>1. CASE EditStep
  BY <1>1 DEF EditStep, Edit
<1>2. CASE \E v \in Eyes : Begin(v)
  BY <1>2 DEF Begin
<1>3. CASE Cross
  BY <1>3 DEF Cross
<1>4. CASE Generate
  <2>1. ASSUME NEW c \in Chunks, SubmitRun(c)
        PROVE  UNCHANGED poolVars \/ \E j \in Jobs : Submit(j)
    <3>1. [kind |-> "gen", at |-> c, edits |-> overlay[c]] \in Jobs
      BY DEF Jobs, GenJobs, TypeOK
    <3> QED BY <2>1, <3>1 DEF SubmitRun
  <2> QED BY <1>4, <2>1 DEF Generate, Gather, GenerateIdle
<1>5. CASE Mesh
  <2>1. ASSUME NEW c \in Chunks, SubmitMesh(c)
        PROVE  \E j \in Jobs : Submit(j)
    <3>1. chunk[c].rev \in Nat /\ Snapshot(chunk, c) \in Seen
      BY SnapshotTyped DEF TypeOK, Residents
    <3>2. [kind |-> "mesh", at |-> c, rev |-> chunk[c].rev, seen |-> Snapshot(chunk, c)] \in Jobs
      BY <3>1 DEF Jobs, MeshJobs
    <3> QED BY <2>1, <3>2 DEF SubmitMesh
  <2> QED BY <1>5, <2>1 DEF Mesh, Evict, MeshIdle
<1>6. CASE RemeshDirty
  BY <1>6 DEF RemeshDirty
<1>7. CASE Integrate
  BY <1>7 DEF Integrate
<1>8. CASE Upload
  BY <1>8 DEF Upload
<1>9. CASE \E w \in Workers : Work(w)
  BY <1>9 DEF Work
<1>10. CASE UNCHANGED vars
  BY <1>10
<1> QED BY <1>1, <1>2, <1>3, <1>4, <1>5, <1>6, <1>7, <1>8, <1>9, <1>10 DEF Next

\* Whatever the order of sleeping workers and single notifications, queued work
\* always has a worker awake.
THEOREM WakeupsKept == Spec => []WorkIsSeen
<1>1. Init => WorkIsSeen
  BY DEF Init, PoolInit, WorkIsSeen
<1>2. TypeOK /\ WorkIsSeen /\ [Next]_vars => WorkIsSeen'
  BY NextMoves, WorkSeenStep DEF TypeOK
<1> QED BY <1>1, <1>2, TypeCorrect, PTL DEF Spec

-----------------------------------------------------------------------------
(* Every claim is owed an answer. *)

\* Only a chunk that waits for its mesh is being built.
BuildingNeeds == \A c \in Chunks : chunk[c].building => chunk[c].st = "needs"

MeshOwed(c) == \/ \E j \in HeldJobs : j.kind = "mesh" /\ j.at = c
               \/ \E i \in DOMAIN uploads : uploads[i].at = c
GenOwed(c) == \E j \in HeldJobs : j.kind = "gen" /\ j.at = c

ClaimsInv == ClaimsOwed /\ BuildingNeeds

LEMMA ClaimsAre ==
  ClaimsOwed <=> /\ \A c \in Chunks : chunk[c].building => MeshOwed(c)
                 /\ \A c \in generating : chunk[c].st = "absent" /\ GenOwed(c)
BY DEF ClaimsOwed, Building, Loaded, MeshOwed, GenOwed

LEMMA ClaimsAreNext ==
  ClaimsOwed' <=> /\ \A c \in Chunks : chunk'[c].building => MeshOwed(c)'
                  /\ \A c \in generating' : chunk'[c].st = "absent" /\ GenOwed(c)'
BY DEF ClaimsOwed, Building, Loaded, MeshOwed, GenOwed

\* A step that takes no result keeps the claims if what it starts to build or
\* to generate has its job, and every upload it takes ends the building.
LEMMA ClaimsKept ==
  ASSUME TypeOK, ClaimsInv, HeldJobs \subseteq HeldJobs',
         \A c \in Chunks : chunk'[c].building =>
            /\ chunk'[c].st = "needs"
            /\ chunk[c].building \/ MeshOwed(c)'
            /\ \A i \in DOMAIN uploads :
                 uploads[i].at = c => \E k \in DOMAIN uploads' : uploads'[k].at = c,
         \A c \in generating' : chunk'[c].st = "absent" /\ (c \in generating \/ GenOwed(c)')
  PROVE  ClaimsInv'
<1>1. BuildingNeeds'
  BY DEF BuildingNeeds
<1>2. ASSUME NEW c \in Chunks, chunk'[c].building PROVE MeshOwed(c)'
  <2>1. CASE chunk[c].building
    <3>1. MeshOwed(c)
      BY <2>1, ClaimsAre DEF ClaimsInv
    <3> QED BY <1>2, <3>1 DEF MeshOwed
  <2> QED BY <1>2, <2>1
<1>3. ASSUME NEW c \in generating' PROVE GenOwed(c)'
  <2>1. CASE c \in generating
    <3>1. GenOwed(c)
      BY <2>1, ClaimsAre DEF ClaimsInv
    <3> QED BY <3>1 DEF GenOwed
  <2> QED BY <1>3, <2>1
<1> QED BY <1>1, <1>2, <1>3, ClaimsAreNext DEF ClaimsInv

LEMMA HeldStays ==
  ASSUME UNCHANGED poolVars
  PROVE  HeldJobs' = HeldJobs
BY DEF poolVars, HeldJobs, Slots

\* What StoreChunks makes of each chunk.
LEMMA StoreMakes ==
  ASSUME TypeOK, NEW S \in SUBSET Chunks, NEW base, StoreChunks(S, base), NEW c \in S
  PROVE  /\ chunk'[c].st \in {"needs", "air"} /\ chunk'[c].building = FALSE
         /\ chunk'[c].rev = 0 /\ chunk'[c].vox = Replayed(c, base)
         /\ chunk'[c].of = residency[c] + 1 /\ residency'[c] = residency[c] + 1
BY DEF StoreChunks, Stored, TypeOK

LEMMA StoreLeaves ==
  ASSUME TypeOK, NEW S \in SUBSET Chunks, NEW base, StoreChunks(S, base), NEW c \in Chunks \ S
  PROVE  /\ residency'[c] = residency[c]
         /\ IF chunk[c].st = "ready" /\ Neighbours(c) \cap S # {}
            THEN chunk'[c] = Remeshed(chunk[c]) ELSE chunk'[c] = chunk[c]
BY DEF StoreChunks, TypeOK

LEMMA StoreClaims ==
  ASSUME TypeOK, ClaimsInv, NEW S \in SUBSET Chunks, NEW base, StoreChunks(S, base),
         HeldJobs \subseteq HeldJobs', uploads' = uploads, generating' \subseteq generating,
         generating' \cap S = {}
  PROVE  ClaimsInv'
<1>1. ASSUME NEW c \in Chunks, chunk'[c].building
      PROVE  chunk'[c].st = "needs" /\ chunk[c].building
  <2>1. c \notin S
    BY <1>1, StoreMakes
  <2>2. chunk'[c] = chunk[c] \/ chunk'[c] = Remeshed(chunk[c])
    BY <2>1, StoreLeaves
  <2>3. Remeshed(chunk[c]).building = FALSE
    BY RemadeFields DEF TypeOK
  <2> QED BY <1>1, <2>2, <2>3 DEF ClaimsInv, BuildingNeeds
<1>2. ASSUME NEW c \in generating' PROVE chunk'[c].st = "absent"
  <2>1. c \in Chunks /\ chunk[c].st = "absent" /\ c \notin S
    BY <1>2, ClaimsAre DEF ClaimsInv, TypeOK
  <2> QED BY <2>1, StoreLeaves
<1>3. \A c \in Chunks : chunk'[c].building =>
        /\ chunk'[c].st = "needs"
        /\ chunk[c].building \/ MeshOwed(c)'
        /\ \A i \in DOMAIN uploads :
             uploads[i].at = c => \E k \in DOMAIN uploads' : uploads'[k].at = c
  BY <1>1
<1>4. \A c \in generating' : chunk'[c].st = "absent" /\ (c \in generating \/ GenOwed(c)')
  BY <1>2
<1> QED BY <1>3, <1>4, ClaimsKept

LEMMA EditClaims ==
  ASSUME TypeOK, ClaimsInv, EditStep
  PROVE  ClaimsInv'
<1>1. PICK site \in EditSites : \E id : Edit(site[1], site[2], id)
  BY DEF EditStep
<1> DEFINE e == site[1]
           s == site[2]
<1>2. PICK id : Edit(e, s, id)
  BY <1>1
<1> HIDE DEF e, s
<1>3. ASSUME NEW c \in Chunks
      PROVE  \/ chunk'[c] = chunk[c]
             \/ chunk'[c].building = FALSE /\ chunk[c].st # "absent"
  <2> DEFINE touched == {d \in {e, e + s} \cap Chunks : Loaded(d)}
  <2>1. /\ c \notin touched => chunk'[c] = chunk[c]
        /\ c \in touched => \/ chunk'[c] = Invalidated(chunk[c])
                             \/ chunk'[c] = [Invalidated(chunk[c]) EXCEPT !.vox[s] = id]
    BY <1>2 DEF Edit
  <2>2. Invalidated(chunk[c]).building = FALSE /\ Invalidated(chunk[c]) \in Residents
    BY RemadeFields, RemadeTyped DEF TypeOK
  <2>3. [Invalidated(chunk[c]) EXCEPT !.vox[s] = id].building = FALSE
    BY <2>2 DEF Residents
  <2> QED BY <2>1, <2>2, <2>3 DEF Loaded
<1>4. generating' = generating /\ uploads' = uploads /\ HeldJobs' = HeldJobs
  BY <1>2, HeldStays DEF Edit
<1>5. ASSUME NEW c \in generating' PROVE chunk'[c].st = "absent"
  <2>1. c \in Chunks /\ chunk[c].st = "absent"
    BY <1>4, <1>5, ClaimsAre DEF ClaimsInv, TypeOK
  <2> QED BY <1>3, <2>1
<1> QED BY <1>3, <1>4, <1>5, ClaimsKept DEF ClaimsInv, BuildingNeeds

LEMMA CrossClaims ==
  ASSUME TypeOK, ClaimsInv, Cross
  PROVE  ClaimsInv'
<1> DEFINE far == {c \in Chunks : /\ Loaded(c) /\ c \notin Box(UnloadR)
                                  /\ seededAt # NoEye => Away(c, seededAt) <= UnloadR}
           live == {i \in DOMAIN uploads : uploads[i].at \notin far /\ Applies(uploads[i])}
           stale == {uploads[i].at : i \in DOMAIN uploads \ live}
           kept == [c \in Chunks |-> IF c \in far THEN Absent
                                     ELSE IF c \in stale THEN Released(chunk[c]) ELSE chunk[c]]
           make == IF Loaded(eye) \/ eye \in generating THEN {} ELSE {eye}
           near(c) == c \in make \/ Neighbours(c) \cap make # {}
<1>1. chunk' = [c \in Chunks |->
          IF c \in make THEN Stored(c, Generated)
          ELSE IF kept[c].st = "ready" /\ near(c) THEN Remeshed(kept[c])
          ELSE kept[c]]
  BY DEF Cross
<1>2. \A c \in Chunks : kept[c] \in Residents
  <2>1. \A c \in Chunks : chunk[c] \in Residents /\ Released(chunk[c]) \in Residents
    BY RemadeTyped DEF TypeOK
  <2> HIDE DEF Residents
  <2> QED BY <2>1, ZeroTyped
<1>3. ASSUME NEW c \in Chunks, chunk'[c].building
      PROVE  chunk'[c] = chunk[c] /\ c \notin stale
  <2>1. chunk'[c] = kept[c]
    <3>1. Stored(c, Generated).building = FALSE
      BY DEF Stored
    <3>2. Remeshed(kept[c]).building = FALSE
      BY <1>2, RemadeFields
    <3> HIDE DEF kept, make, near
    <3> QED BY <1>1, <1>3, <3>1, <3>2
  <2>2. Absent.building = FALSE /\ Released(chunk[c]).building = FALSE
    BY RemadeFields DEF Absent, TypeOK
  <2> HIDE DEF stale, far, make, near
  <2> QED BY <1>3, <2>1, <2>2
<1>4. ASSUME NEW c \in Chunks, c \notin stale, NEW i \in DOMAIN uploads, uploads[i].at = c
      PROVE  \E k \in DOMAIN uploads' : uploads'[k].at = c
  <2>1. i \in live
    BY <1>4
  <2>2. uploads' = Picked(uploads, live) /\ uploads \in Seq(MeshJobs)
    BY DEF Cross, TypeOK
  <2>3. live \in SUBSET (1..Len(uploads))
    BY <2>2
  <2> HIDE DEF live
  <2> QED BY <1>4, <2>1, <2>2, <2>3, PickedIs
<1>5. ASSUME NEW c \in generating' PROVE chunk'[c].st = "absent" /\ c \in generating
  <2>1. c \in generating /\ c \in Chunks /\ chunk[c].st = "absent"
    BY <1>5, ClaimsAre DEF ClaimsInv, TypeOK, Cross
  <2>2. c \notin make
    BY <2>1
  <2>3. kept[c].st = "absent"
    <3>1. Absent.st = "absent" /\ Released(chunk[c]).st = chunk[c].st
      BY <2>1, RemadeFields DEF Absent, TypeOK
    <3> HIDE DEF far, stale
    <3> QED BY <2>1, <3>1
  <2> HIDE DEF kept, make, near
  <2> QED BY <1>1, <2>1, <2>2, <2>3
<1>6. HeldJobs' = HeldJobs
  BY HeldStays DEF Cross
<1> HIDE DEF stale
<1> QED BY <1>3, <1>4, <1>5, <1>6, ClaimsKept DEF ClaimsInv, BuildingNeeds

LEMMA GenerateClaims ==
  ASSUME TypeOK, ClaimsInv, Generate
  PROVE  ClaimsInv'
<1>1. CASE Gather
  <2> DEFINE free == {c \in Box(DataR) : ~Claimed(c) /\ c \notin Mixed}
  <2>1. free \in SUBSET Chunks /\ generating \cap free = {}
    BY DEF Box, Claimed
  <2>2. StoreChunks(free, Generated) /\ generating' = generating /\ uploads' = uploads
    BY <1>1 DEF Gather
  <2>3. HeldJobs' = HeldJobs
    BY <1>1, HeldStays DEF Gather
  <2> HIDE DEF free
  <2> QED BY <2>1, <2>2, <2>3, StoreClaims
<1>2. ASSUME NEW c \in Chunks, SubmitRun(c) PROVE ClaimsInv'
  <2> DEFINE j == [kind |-> "gen", at |-> c, edits |-> overlay[c]]
  <2>1. chunk' = chunk /\ uploads' = uploads
    BY <1>2 DEF SubmitRun
  <2>2. CASE UNCHANGED <<poolVars, generating>>
    <3>1. HeldJobs' = HeldJobs
      BY <2>2, HeldStays
    <3> QED BY <2>1, <2>2, <3>1 DEF ClaimsInv, ClaimsOwed, BuildingNeeds, Building, Loaded
  <2>3. CASE Submit(j) /\ generating' = generating \cup {c} /\ ~Claimed(c)
    <3>1. j \in Jobs /\ j # NoJob
      BY NoJobAssumption DEF Jobs, GenJobs, TypeOK
    <3>2. HeldJobs' = HeldJobs \cup {j}
      BY <2>3, <3>1, SubmitAdds DEF TypeOK
    <3>3. GenOwed(c)'
      <4>1. j \in HeldJobs' /\ j.kind = "gen" /\ j.at = c
        BY <3>2
      <4> QED BY <4>1 DEF GenOwed
    <3>4. chunk[c].st = "absent"
      BY <2>3 DEF Claimed, Loaded
    <3>5. \A d \in generating' : chunk'[d].st = "absent" /\ (d \in generating \/ GenOwed(d)')
      BY <2>1, <2>3, <3>3, <3>4, ClaimsAre DEF ClaimsInv
    <3>6. \A d \in Chunks : chunk'[d].building => chunk'[d].st = "needs" /\ chunk[d].building
      BY <2>1 DEF ClaimsInv, BuildingNeeds
    <3>7. HeldJobs \subseteq HeldJobs'
      BY <3>2
    <3> HIDE DEF j
    <3> QED BY <2>1, <3>5, <3>6, <3>7, ClaimsKept
  <2> QED BY <1>2, <2>2, <2>3 DEF SubmitRun
<1>3. CASE GenerateIdle
  <2>1. HeldJobs' = HeldJobs /\ chunk' = chunk /\ uploads' = uploads /\ generating' = generating
    BY <1>3, HeldStays DEF GenerateIdle
  <2> QED BY <2>1 DEF ClaimsInv, ClaimsOwed, BuildingNeeds, Building, Loaded
<1> QED BY <1>1, <1>2, <1>3 DEF Generate

LEMMA MeshClaims ==
  ASSUME TypeOK, ClaimsInv, Mesh
  PROVE  ClaimsInv'
<1>1. ASSUME \/ \E c \in Chunks : Evict(c)
             \/ MeshIdle
      PROVE  ClaimsInv'
  <2>1. HeldJobs' = HeldJobs /\ chunk' = chunk /\ uploads' = uploads /\ generating' = generating
    BY <1>1, HeldStays DEF Evict, MeshIdle
  <2> QED BY <2>1 DEF ClaimsInv, ClaimsOwed, BuildingNeeds, Building, Loaded
<1>2. ASSUME NEW c \in Chunks, SubmitMesh(c) PROVE ClaimsInv'
  <2> DEFINE j == [kind |-> "mesh", at |-> c, rev |-> chunk[c].rev, seen |-> Snapshot(chunk, c)]
  <2>1. j \in Jobs /\ j # NoJob
    <3>1. chunk[c].rev \in Nat /\ Snapshot(chunk, c) \in Seen
      BY SnapshotTyped DEF TypeOK, Residents
    <3> QED BY <3>1, NoJobAssumption DEF Jobs, MeshJobs
  <2>2. Submit(j)
    BY <1>2 DEF SubmitMesh
  <2>3. HeldJobs' = HeldJobs \cup {j}
    BY <2>1, <2>2, SubmitAdds DEF TypeOK
  <2>4. MeshOwed(c)'
    <3>1. j \in HeldJobs' /\ j.kind = "mesh" /\ j.at = c
      BY <2>3
    <3> QED BY <3>1 DEF MeshOwed
  <2> HIDE DEF j
  <2>5. /\ chunk' = [chunk EXCEPT ![c].building = TRUE] /\ uploads' = uploads
        /\ generating' = generating /\ chunk[c].st = "needs"
    BY <1>2 DEF SubmitMesh, Blocked
  <2>6. \A d \in Chunks : chunk'[d].st = chunk[d].st /\ (d # c => chunk'[d] = chunk[d])
    BY <2>5 DEF TypeOK, Residents
  <2>7. \A d \in Chunks : chunk'[d].building =>
           chunk'[d].st = "needs" /\ (chunk[d].building \/ MeshOwed(d)')
    BY <2>4, <2>5, <2>6 DEF ClaimsInv, BuildingNeeds
  <2>8. \A d \in generating' : chunk'[d].st = "absent" /\ d \in generating
    BY <2>5, <2>6, ClaimsAre DEF ClaimsInv, TypeOK
  <2>9. HeldJobs \subseteq HeldJobs'
    BY <2>3
  <2> QED BY <2>5, <2>7, <2>8, <2>9, ClaimsKept
<1> QED BY <1>1, <1>2 DEF Mesh

LEMMA RemeshDirtyClaims ==
  ASSUME TypeOK, ClaimsInv, RemeshDirty
  PROVE  ClaimsInv'
<1> DEFINE due == {c \in dirtyList : chunk[c].st = "dirty"}
           drawn(c) == [chunk[c] EXCEPT !.st = IF c \in Mixed THEN "ready" ELSE "air",
                          !.seen = IF c \in Mixed THEN Snapshot(chunk, c) ELSE NoMesh]
<1>1. PICK T \in SUBSET due : \E lost \in {{}} \cup {{c} : c \in T \cap Mixed} :
        chunk' = [c \in Chunks |-> IF c \in T \ lost THEN drawn(c) ELSE chunk[c]]
  BY DEF RemeshDirty
<1>2. \A c \in Chunks : \/ chunk'[c] = chunk[c]
                        \/ chunk[c].st = "dirty" /\ chunk'[c] = drawn(c)
  BY <1>1
<1>3. ASSUME NEW c \in Chunks, chunk[c].st = "dirty"
      PROVE  drawn(c).building = FALSE
  <2>1. chunk[c].building = FALSE
    BY <1>3 DEF ClaimsInv, BuildingNeeds, TypeOK, Residents
  <2> QED BY <2>1 DEF TypeOK, Residents
<1> HIDE DEF drawn, due
<1>4. /\ uploads' = uploads /\ generating' = generating /\ HeldJobs' = HeldJobs
  BY HeldStays DEF RemeshDirty
<1>5. \A c \in Chunks : chunk'[c].building => chunk'[c].st = "needs" /\ chunk[c].building
  BY <1>2, <1>3 DEF ClaimsInv, BuildingNeeds
<1>6. \A c \in generating' : chunk'[c].st = "absent" /\ c \in generating
  BY <1>2, <1>4, ClaimsAre DEF ClaimsInv, TypeOK
<1> QED BY <1>4, <1>5, <1>6, ClaimsKept

\* A stale mesh: the chunk is no longer being built, the others are as they were.
LEMMA DropMakes ==
  ASSUME TypeOK, ClaimsInv, NEW c \in Chunks, DropStale(c), NEW d \in Chunks
  PROVE  /\ chunk'[c].building = FALSE /\ chunk'[d].st = chunk[d].st
         /\ d # c => chunk'[d] = chunk[d]
         /\ chunk'[d] = chunk[d] \/ chunk'[d] = Released(chunk[d])
<1>1. chunk[c] \in Residents
  BY DEF TypeOK
<1>2. Released(chunk[c]).building = FALSE /\ Released(chunk[c]).st = chunk[c].st
  BY <1>1, RemadeFields
<1>3. chunk[c].st # "needs" => chunk[c].building = FALSE
  BY <1>1 DEF ClaimsInv, BuildingNeeds, Residents
<1>4. chunk'[c] = (IF chunk[c].st = "needs" THEN Released(chunk[c]) ELSE chunk[c])
      /\ (d # c => chunk'[d] = chunk[d])
  BY DEF DropStale, TypeOK
<1> QED BY <1>2, <1>3, <1>4

LEMMA UploadClaims ==
  ASSUME TypeOK, ClaimsInv, Upload
  PROVE  ClaimsInv'
<1> DEFINE m == Head(uploads)
<1>1. m.at \in Chunks
  <2>1. m \in MeshJobs
    BY HeadTailProperties DEF Upload, TypeOK
  <2> QED BY <2>1 DEF MeshJobs
<1>2. \/ /\ Loaded(m.at)
         /\ chunk' = [chunk EXCEPT ![m.at].st = "ready", ![m.at].building = FALSE,
                                   ![m.at].seen = m.seen]
      \/ chunk' = [chunk EXCEPT ![m.at] = IF @.st = "needs" THEN Released(@) ELSE @]
  BY DEF Upload, DropStale, Applies
<1>3. HeldJobs' = HeldJobs /\ generating' = generating
  BY HeldStays DEF Upload
<1>4. ASSUME NEW c \in Chunks, c # m.at, NEW i \in DOMAIN uploads, uploads[i].at = c
      PROVE  \E k \in DOMAIN uploads' : uploads'[k].at = c
  <2>1. /\ uploads \in Seq(MeshJobs) /\ uploads # <<>> /\ uploads' = Tail(uploads)
    BY DEF Upload, TypeOK
  <2>2. /\ DOMAIN uploads = 1..Len(uploads) /\ Len(uploads) \in Nat \ {0}
        /\ m = uploads[1]
        /\ DOMAIN uploads' = 1..(Len(uploads) - 1)
        /\ \A n \in 1..(Len(uploads) - 1) : uploads'[n] = uploads[n + 1]
    BY <2>1
  <2>3. i # 1
    BY <1>4, <2>2
  <2> HIDE DEF m
  <2>4. i - 1 \in 1..(Len(uploads) - 1) /\ (i - 1) + 1 = i
    BY <2>2, <2>3
  <2> QED BY <1>4, <2>2, <2>4
<1> HIDE DEF m
<1>5. \A c \in Chunks : c # m.at => chunk'[c] = chunk[c]
  BY <1>2 DEF TypeOK
<1>6. chunk'[m.at].building = FALSE /\ (chunk[m.at].st = "absent" => chunk'[m.at].st = "absent")
  <2>1. chunk[m.at] \in Residents
    BY <1>1 DEF TypeOK
  <2>2. CASE /\ Loaded(m.at)
             /\ chunk' = [chunk EXCEPT ![m.at].st = "ready", ![m.at].building = FALSE,
                                       ![m.at].seen = m.seen]
    BY <1>1, <2>1, <2>2 DEF TypeOK, Residents, Loaded
  <2>3. CASE chunk' = [chunk EXCEPT ![m.at] = IF @.st = "needs" THEN Released(@) ELSE @]
    <3>1. chunk'[m.at] = (IF chunk[m.at].st = "needs" THEN Released(chunk[m.at]) ELSE chunk[m.at])
      BY <1>1, <2>3 DEF TypeOK
    <3>2. chunk[m.at].st # "needs" => chunk[m.at].building = FALSE
      BY <1>1, <2>1 DEF ClaimsInv, BuildingNeeds, Residents
    <3>3. Released(chunk[m.at]).building = FALSE /\ Released(chunk[m.at]).st = chunk[m.at].st
      BY <2>1, RemadeFields
    <3> QED BY <3>1, <3>2, <3>3
  <2> QED BY <1>2, <2>2, <2>3
<1>7. \A c \in Chunks : chunk'[c].building =>
        c # m.at /\ chunk'[c].st = "needs" /\ chunk[c].building
  BY <1>5, <1>6 DEF ClaimsInv, BuildingNeeds
<1>8. \A c \in generating' : chunk'[c].st = "absent" /\ c \in generating
  BY <1>3, <1>5, <1>6, ClaimsAre DEF ClaimsInv, TypeOK
<1> QED BY <1>3, <1>4, <1>7, <1>8, ClaimsKept

LEMMA BeginClaims ==
  ASSUME TypeOK, ClaimsInv, NEW v \in Eyes, Begin(v)
  PROVE  ClaimsInv'
<1>1. HeldJobs' = HeldJobs /\ chunk' = chunk /\ uploads' = uploads /\ generating' = generating
  BY PublishKeeps DEF Begin, genVars
<1> QED BY <1>1 DEF ClaimsInv, ClaimsOwed, BuildingNeeds, Building, Loaded

LEMMA WorkClaims ==
  ASSUME TypeOK, ClaimsInv, NEW w \in Workers, Work(w)
  PROVE  ClaimsInv'
<1>1. HeldJobs' = HeldJobs
  BY WorkerKeeps DEF Work, TypeOK
<1>2. chunk' = chunk /\ uploads' = uploads /\ generating' = generating
  BY DEF Work, mainVars, genVars
<1> QED BY <1>1, <1>2 DEF ClaimsInv, ClaimsOwed, BuildingNeeds, Building, Loaded

\* A step that takes results keeps the claims if each claim those jobs answer
\* is given up, or is handed on to the uploads.
LEMMA ClaimsAnswered ==
  ASSUME TypeOK, ClaimsInv, NEW taken, HeldJobs \subseteq HeldJobs' \cup taken,
         \A c \in Chunks : chunk'[c].building =>
            /\ chunk'[c].st = "needs" /\ chunk[c].building
            /\ MeshOwed(c)' \/ \A j \in taken : j.kind = "mesh" => j.at # c
            /\ \A i \in DOMAIN uploads :
                 uploads[i].at = c => \E k \in DOMAIN uploads' : uploads'[k].at = c,
         \A c \in generating' :
            /\ chunk'[c].st = "absent" /\ c \in generating
            /\ \A j \in taken : j.kind = "gen" => j.at # c
  PROVE  ClaimsInv'
<1>1. BuildingNeeds'
  BY DEF BuildingNeeds
<1>2. ASSUME NEW c \in Chunks, chunk'[c].building, ~MeshOwed(c)' PROVE FALSE
  <2>1. MeshOwed(c)
    BY <1>2, ClaimsAre DEF ClaimsInv
  <2>2. ASSUME NEW j \in HeldJobs, j.kind = "mesh", j.at = c PROVE FALSE
    <3>1. j \in HeldJobs'
      BY <1>2, <2>2
    <3> QED BY <1>2, <2>2, <3>1 DEF MeshOwed
  <2> QED BY <1>2, <2>1, <2>2 DEF MeshOwed
<1>3. ASSUME NEW c \in generating' PROVE GenOwed(c)'
  <2>1. PICK j \in HeldJobs : j.kind = "gen" /\ j.at = c
    BY <1>3, ClaimsAre DEF ClaimsInv, GenOwed
  <2>2. j \in HeldJobs'
    BY <1>3, <2>1
  <2> QED BY <2>1, <2>2 DEF GenOwed
<1> QED BY <1>1, <1>2, <1>3, ClaimsAreNext DEF ClaimsInv

\* What giving back claims without a payload leaves of each chunk.
LEMMA ResolveMakes ==
  ASSUME TypeOK, NEW gens \in SUBSET Chunks, NEW meshes \in SUBSET Chunks, NEW again,
         Resolve(gens, meshes, again), NEW c \in Chunks
  PROVE  /\ chunk'[c].st = chunk[c].st /\ uploads' = uploads
         /\ chunk'[c] = IF c \in meshes THEN Released(chunk[c]) ELSE chunk[c]
         /\ chunk'[c].building => c \notin meshes /\ chunk[c].building
         /\ generating' = generating \ gens
<1>1. Released(chunk[c]).building = FALSE /\ Released(chunk[c]).st = chunk[c].st
  BY RemadeFields DEF TypeOK
<1>2. chunk'[c] = IF c \in meshes THEN Released(chunk[c]) ELSE chunk[c]
  BY DEF Resolve
<1> QED BY <1>1, <1>2 DEF Resolve

LEMMA IntegrateClaims ==
  ASSUME TypeOK, ClaimsInv, Integrate
  PROVE  ClaimsInv'
<1> DEFINE r == Head(results)
           taken == Carried(r) \ {NoJob}
<1>1. /\ r.how \in {"cancelled", "failed", "done"}
      /\ r.how = "cancelled" => r.jobs \in [Slots -> Jobs \cup {NoJob}]
      /\ r.how # "cancelled" => r.job \in Jobs
  BY ResultTyped
<1>2. /\ r.how = "cancelled" => CancelJobs(r.jobs)
      /\ r.how = "failed" => FailJob(r.job)
      /\ r.how = "done" => IF r.job.kind = "gen" THEN AcceptColumn(r.job)
                           ELSE AcceptMesh(r.job)
  BY <1>1 DEF Integrate
<1>3. HeldJobs \subseteq HeldJobs' \cup taken
  <2>1. HeldJobs \subseteq HeldJobs' \cup Carried(r)
    BY ReceiveTakes DEF Integrate, TypeOK
  <2>2. NoJob \notin HeldJobs
    BY DEF HeldJobs
  <2> QED BY <2>1, <2>2
<1>4. \A j \in taken : IF r.how = "cancelled" THEN \E i \in Slots : r.jobs[i] = j /\ j # NoJob
                       ELSE j = r.job
  BY DEF Carried
<1>5. \A c \in generating : c \in Chunks /\ chunk[c].st = "absent"
  BY ClaimsAre DEF ClaimsInv, TypeOK
<1>6. \A c \in Chunks : chunk[c].building => chunk[c].st = "needs"
  BY DEF ClaimsInv, BuildingNeeds
<1> HIDE DEF r, taken
<1>7. CASE r.how = "cancelled"
  <2> DEFINE keys(k) == {r.jobs[i].at : i \in {n \in Slots : r.jobs[n] # NoJob /\ r.jobs[n].kind = k}}
  <2>1. keys("gen") \in SUBSET Chunks /\ keys("mesh") \in SUBSET Chunks
    BY <1>1, <1>7, JobTyped
  <2>2. Resolve(keys("gen"), keys("mesh"), {})
    BY <1>2, <1>7 DEF CancelJobs
  <2>3. \A j \in taken : (j.kind = "gen" => j.at \in keys("gen"))
                         /\ (j.kind = "mesh" => j.at \in keys("mesh"))
    BY <1>4, <1>7
  <2> HIDE DEF keys
  <2> DEFINE G == keys("gen")
             M == keys("mesh")
  <2>4. \A c \in Chunks : /\ chunk'[c].st = chunk[c].st /\ uploads' = uploads
                          /\ chunk'[c].building => c \notin M /\ chunk[c].building
                          /\ generating' = generating \ G
    BY <2>1, <2>2, ResolveMakes
  <2> HIDE DEF G, M
  <2>5. \A j \in taken : (j.kind = "gen" => j.at \in G) /\ (j.kind = "mesh" => j.at \in M)
    BY <2>3 DEF G, M
  <2>6. \A c \in Chunks : chunk'[c].building =>
            /\ chunk'[c].st = "needs" /\ chunk[c].building
            /\ \A j \in taken : j.kind = "mesh" => j.at # c
            /\ uploads' = uploads
    BY <1>6, <2>4, <2>5
  <2>7. generating' = generating \ G
    BY <2>2 DEF Resolve, G
  <2>8. \A c \in generating' : /\ chunk'[c].st = "absent" /\ c \in generating
                               /\ \A j \in taken : j.kind = "gen" => j.at # c
    BY <1>5, <2>4, <2>5, <2>7
  <2> QED BY <1>3, <2>6, <2>8, ClaimsAnswered
<1>8. CASE r.how = "failed"
  <2> DEFINE only(k) == IF r.job.kind = k THEN {r.job.at} ELSE {}
             G == only("gen")
             M == only("mesh")
  <2>1. G \in SUBSET Chunks /\ M \in SUBSET Chunks
    BY <1>1, <1>8, JobTyped
  <2>2. \E again : Resolve(G, M, again)
    BY <1>2, <1>8 DEF FailJob
  <2>3. \A j \in taken : (j.kind = "gen" => j.at \in G) /\ (j.kind = "mesh" => j.at \in M)
    BY <1>4, <1>8
  <2> HIDE DEF G, M
  <2>4. \A c \in Chunks : /\ chunk'[c].st = chunk[c].st /\ uploads' = uploads
                          /\ chunk'[c].building => c \notin M /\ chunk[c].building
    BY <2>1, <2>2, ResolveMakes
  <2>5. generating' = generating \ G
    BY <2>2 DEF Resolve
  <2>6. \A c \in Chunks : chunk'[c].building =>
            /\ chunk'[c].st = "needs" /\ chunk[c].building
            /\ \A j \in taken : j.kind = "mesh" => j.at # c
            /\ uploads' = uploads
    BY <1>6, <2>3, <2>4
  <2>7. \A c \in generating' : /\ chunk'[c].st = "absent" /\ c \in generating
                               /\ \A j \in taken : j.kind = "gen" => j.at # c
    BY <1>5, <2>3, <2>4, <2>5
  <2> QED BY <1>3, <2>6, <2>7, ClaimsAnswered
<1>9. CASE r.how = "done" /\ r.job.kind = "gen"
  <2> DEFINE S == IF r.job.at \in Box(DataR) /\ ~Loaded(r.job.at) THEN {r.job.at} ELSE {}
  <2>1. S \in SUBSET Chunks /\ r.job.at \in Chunks /\ S \subseteq {r.job.at}
    BY <1>1, <1>9, JobTyped
  <2>2. /\ generating' = generating \ {r.job.at}
        /\ StoreChunks(S, r.job.edits) /\ uploads' = uploads
    BY <1>2, <1>9 DEF AcceptColumn
  <2> HIDE DEF S
  <2>3. ASSUME NEW c \in Chunks, chunk'[c].building
        PROVE  chunk'[c].st = "needs" /\ chunk[c].building
    <3>1. c \notin S
      BY <2>1, <2>2, <2>3, StoreMakes
    <3>2. chunk'[c] = chunk[c] \/ chunk'[c] = Remeshed(chunk[c])
      BY <2>1, <2>2, <3>1, StoreLeaves
    <3>3. Remeshed(chunk[c]).building = FALSE
      BY RemadeFields DEF TypeOK
    <3> QED BY <1>6, <2>3, <3>2, <3>3
  <2>4. ASSUME NEW c \in generating' PROVE chunk'[c].st = "absent" /\ c \in generating /\ c # r.job.at
    <3>1. c \in generating /\ c # r.job.at
      BY <2>2, <2>4
    <3>2. c \in Chunks /\ chunk[c].st = "absent" /\ c \notin S
      BY <1>5, <2>1, <3>1
    <3> QED BY <2>1, <2>2, <3>1, <3>2, StoreLeaves
  <2>5. \A j \in taken : j = r.job /\ j.kind # "mesh"
    BY <1>4, <1>9
  <2> QED BY <1>3, <2>2, <2>3, <2>4, <2>5, ClaimsAnswered
<1>10. CASE r.how = "done" /\ r.job.kind # "gen"
  <2>1. r.job.at \in Chunks /\ AcceptMesh(r.job) /\ r.job.kind = "mesh"
    BY <1>1, <1>2, <1>10, JobTyped
  <2>2. generating' = generating
    BY <2>1 DEF AcceptMesh, genVars
  <2>3. \A j \in taken : j = r.job /\ j.kind # "gen"
    BY <1>4, <1>10
  <2>4. CASE Applies(r.job)
    <3>1. uploads' = Append(uploads, r.job) /\ uploads \in Seq(MeshJobs) /\ chunk' = chunk
      BY <2>1, <2>4 DEF AcceptMesh, TypeOK
    <3>2. /\ DOMAIN uploads = 1..Len(uploads) /\ Len(uploads) \in Nat
          /\ DOMAIN uploads' = 1..(Len(uploads) + 1)
          /\ uploads'[Len(uploads) + 1] = r.job
          /\ \A n \in 1..Len(uploads) : uploads'[n] = uploads[n]
      BY <3>1
    <3>3. \A c \in Chunks : \A i \in DOMAIN uploads :
             uploads[i].at = c => \E k \in DOMAIN uploads' : uploads'[k].at = c
      BY <3>2
    <3>4. \A c \in Chunks : c = r.job.at => MeshOwed(c)'
      <4> SUFFICES ASSUME NEW c \in Chunks, c = r.job.at PROVE MeshOwed(c)'
        OBVIOUS
      <4>1. Len(uploads) + 1 \in DOMAIN uploads' /\ uploads'[Len(uploads) + 1].at = c
        BY <3>2
      <4> QED BY <4>1 DEF MeshOwed
    <3>5. \A c \in Chunks : c # r.job.at => \A j \in taken : j.at # c
      BY <2>3
    <3>6. \A c \in Chunks : chunk'[c].building =>
            /\ chunk'[c].st = "needs" /\ chunk[c].building
            /\ MeshOwed(c)' \/ \A j \in taken : j.kind = "mesh" => j.at # c
      BY <1>6, <3>1, <3>4, <3>5
    <3>7. \A c \in generating' : /\ chunk'[c].st = "absent" /\ c \in generating
                                 /\ \A j \in taken : j.kind = "gen" => j.at # c
      BY <1>5, <2>2, <2>3, <3>1
    <3> QED BY <1>3, <3>3, <3>6, <3>7, ClaimsAnswered
  <2>5. CASE ~Applies(r.job)
    <3>1. DropStale(r.job.at) /\ uploads' = uploads
      BY <2>1, <2>5 DEF AcceptMesh
    <3>2. \A d \in Chunks : /\ chunk'[r.job.at].building = FALSE /\ chunk'[d].st = chunk[d].st
                            /\ d # r.job.at => chunk'[d] = chunk[d]
      BY <2>1, <3>1, DropMakes
    <3>3. \A c \in Chunks : chunk'[c].building =>
            /\ chunk'[c].st = "needs" /\ chunk[c].building
            /\ \A j \in taken : j.kind = "mesh" => j.at # c
      BY <1>6, <2>3, <3>2
    <3>4. \A c \in generating' : /\ chunk'[c].st = "absent" /\ c \in generating
                                 /\ \A j \in taken : j.kind = "gen" => j.at # c
      BY <1>5, <2>2, <2>3, <3>2
    <3> QED BY <1>3, <3>1, <3>3, <3>4, ClaimsAnswered
  <2> QED BY <2>4, <2>5
<1> QED BY <1>1, <1>7, <1>8, <1>9, <1>10

\* The inductive invariant, over every step.
LEMMA ClaimsStep ==
  ASSUME TypeOK, ClaimsInv, [Next]_vars
  PROVE  ClaimsInv'
<1>1. CASE Next
  BY <1>1, EditClaims, BeginClaims, CrossClaims, GenerateClaims, MeshClaims, RemeshDirtyClaims,
     IntegrateClaims, UploadClaims, WorkClaims DEF Next
<1>2. CASE UNCHANGED vars
  <2>1. HeldJobs' = HeldJobs
    BY <1>2, HeldStays DEF vars
  <2>2. chunk' = chunk /\ uploads' = uploads /\ generating' = generating
    BY <1>2 DEF vars, mainVars, genVars
  <2> QED BY <2>1, <2>2 DEF ClaimsInv, ClaimsOwed, BuildingNeeds, Building, Loaded
<1> QED BY <1>1, <1>2

LEMMA ClaimsInvHolds == Spec => []ClaimsInv
<1>1. Init => ClaimsInv
  BY DEF Init, ClaimsInv, ClaimsOwed, BuildingNeeds, Building, Absent, Loaded
<1>2. TypeOK /\ ClaimsInv /\ [Next]_vars => ClaimsInv'
  BY ClaimsStep
<1> QED BY <1>1, <1>2, TypeCorrect, PTL DEF Spec

\* No claim is orphaned: as long as a chunk is held to be building or being
\* generated, a job that will resolve the claim is in the pool, on the channel
\* or among the uploads, across cancelled, failed and stale results, unloads,
\* edits and moves of the eye.
THEOREM ClaimsHold == Spec => []ClaimsOwed
<1>1. ClaimsInv => ClaimsOwed
  BY DEF ClaimsInv
<1> QED BY <1>1, ClaimsInvHolds, PTL

-----------------------------------------------------------------------------
(* The lanes forget nothing.  NothingForgotten is not inductive: between two *)
(* full passes it says nothing, and the passes work from differences to what *)
(* they did before.  What they leave behind is kept in four parts.           *)

\* Where a full pass is, and what the generate lane has gathered.
PassInv ==
  /\ phase # "begun" => seededAt = eye
  /\ phase # "lanes" => gatheredFor # eye
  /\ phase = "crossed" => pendingGen
  /\ phase = "lanes" => gatheredFor \in {eye, NoEye}
  /\ phase = "lanes" /\ eye # NoEye /\ gatheredFor # eye => pendingGen
  /\ phase = "lanes" /\ gatheredFor = eye /\ runs # {} => pendingGen

DirtyListed ==
  \A c \in Chunks \ failed : chunk[c].st = "dirty" => c \in dirtyList /\ pendingDirty

\* A chunk of the box of this pass and of the last one: those outside the last
\* one are seeded when the pass crosses.
DueMesh(c) ==
  /\ c \notin failed /\ <<"mesh", c>> \notin quarantined
  /\ eye # NoEye /\ Away(c, eye) <= MeshR
  /\ seededAt # NoEye /\ Away(c, seededAt) <= MeshR
  /\ AwaitsMesh(c) /\ HasNeighbourData(c)

DueSeeded == \A c \in Chunks : DueMesh(c) => c \in worklist /\ pendingFresh

HolesListed ==
  phase = "lanes" /\ gatheredFor = eye =>
    \A c \in Box(DataR) \ holed :
      (~Claimed(c) /\ <<"gen", c>> \notin quarantined) => c \in runs

ForgetInv == PassInv /\ DirtyListed /\ DueSeeded /\ HolesListed

LEMMA ForgetMeans ==
  ASSUME TypeOK, ForgetInv
  PROVE  NothingForgotten
<1>1. ASSUME phase = "lanes", NEW c \in MeshBox \ failed, AwaitsMesh(c), ~Blocked(c)
      PROVE  c \in worklist /\ pendingFresh
  <2>1. c \in Chunks /\ eye # NoEye /\ Away(c, eye) <= MeshR
    BY <1>1 DEF MeshBox, Box
  <2>2. seededAt = eye
    BY <1>1 DEF ForgetInv, PassInv
  <2>3. DueMesh(c)
    BY <1>1, <2>1, <2>2 DEF DueMesh, Blocked
  <2> QED BY <2>1, <2>3 DEF ForgetInv, DueSeeded
<1>2. ASSUME phase = "lanes", NEW c \in Box(DataR) \ holed, ~Claimed(c),
             <<"gen", c>> \notin quarantined
      PROVE  pendingGen /\ (gatheredFor = eye => c \in runs)
  <2>1. eye # NoEye
    BY <1>2 DEF Box
  <2>2. gatheredFor = eye => c \in runs
    BY <1>2 DEF ForgetInv, HolesListed
  <2>3. pendingGen
    BY <1>2, <2>1, <2>2 DEF ForgetInv, PassInv
  <2> QED BY <2>2, <2>3
<1> QED BY <1>1, <1>2 DEF NothingForgotten, ForgetInv, DirtyListed

\* What taking a result comes to: claims given back, all of them asked for
\* again, quarantined or holed; a generated chunk; a mesh.
Returned ==
  \E G, M \in SUBSET Chunks : \E again :
    /\ Resolve(G, M, again)
    /\ holed \subseteq holed' /\ quarantined \subseteq quarantined'
    /\ \A c \in G : c \in again \/ c \in holed' \/ <<"gen", c>> \in quarantined'

Column ==
  \E j \in GenJobs : j \in HeldJobs /\ AcceptColumn(j)

MeshBack ==
  \E j \in MeshJobs : j \in HeldJobs /\ AcceptMesh(j)

LEMMA HeadHeld ==
  ASSUME TypeOK, results # <<>>, Head(results).how # "cancelled", Head(results).job \in Jobs
  PROVE  Head(results).job \in HeldJobs
<1>1. results \in Seq(Answers(Jobs) \cup Batches(Jobs))
  BY DEF TypeOK, PoolTypeOK
<1>2. 1 \in DOMAIN results /\ Head(results) = results[1]
  BY <1>1
<1>3. Head(results).job \in Carried(results[1])
  BY <1>2 DEF Carried
<1>4. InResults(Head(results).job)
  BY <1>2, <1>3 DEF InResults
<1>5. Head(results).job # NoJob
  BY NoJobAssumption
<1> QED BY <1>4, <1>5, HeldIs DEF Held

LEMMA IntegrateIs ==
  ASSUME TypeOK, Integrate
  PROVE  Returned \/ Column \/ MeshBack
<1> DEFINE r == Head(results)
<1>1. /\ r.how \in {"cancelled", "failed", "done"}
      /\ r.how = "cancelled" => r.jobs \in [Slots -> Jobs \cup {NoJob}]
      /\ r.how # "cancelled" => r.job \in Jobs
  BY ResultTyped
<1>2. /\ r.how = "cancelled" => CancelJobs(r.jobs)
      /\ r.how = "failed" => FailJob(r.job)
      /\ r.how = "done" => IF r.job.kind = "gen" THEN AcceptColumn(r.job)
                           ELSE AcceptMesh(r.job)
  BY <1>1 DEF Integrate
<1>3. r.how # "cancelled" => r.job \in HeldJobs
  BY <1>1, HeadHeld DEF Integrate, Receive
<1> HIDE DEF r
<1>4. CASE r.how = "cancelled"
  <2> DEFINE keys(k) == {r.jobs[i].at : i \in {n \in Slots : r.jobs[n] # NoJob /\ r.jobs[n].kind = k}}
  <2>1. keys("gen") \in SUBSET Chunks /\ keys("mesh") \in SUBSET Chunks
    BY <1>1, <1>4, JobTyped
  <2>2. Resolve(keys("gen"), keys("mesh"), {}) /\ holed' = holed \cup keys("gen")
        /\ UNCHANGED quarantined
    BY <1>2, <1>4 DEF CancelJobs
  <2> HIDE DEF keys
  <2>3. \A c \in keys("gen") : c \in holed'
    BY <2>2
  <2> QED BY <2>1, <2>2, <2>3 DEF Returned
<1>5. CASE r.how = "failed"
  <2> DEFINE j == r.job
             key == <<j.kind, j.at>>
             struck == IF strikes[key] < MaxStrikes THEN strikes[key] + 1 ELSE strikes[key]
             only(k) == IF j.kind = k THEN {j.at} ELSE {}
             again == IF struck >= MaxStrikes THEN {} ELSE {j.at}
  <2>1. only("gen") \in SUBSET Chunks /\ only("mesh") \in SUBSET Chunks
    BY <1>1, <1>5, JobTyped
  <2>2. /\ quarantined' = IF struck >= MaxStrikes THEN quarantined \cup {key} ELSE quarantined
        /\ Resolve(only("gen"), only("mesh"), again)
        /\ UNCHANGED holed
    BY <1>2, <1>5 DEF FailJob
  <2>3. \A c \in only("gen") : key = <<"gen", c>> /\ c = j.at
    OBVIOUS
  <2> HIDE DEF key, struck, only
  <2>4. quarantined \subseteq quarantined'
    BY <2>2
  <2>5. \A c \in only("gen") : c \in again \/ <<"gen", c>> \in quarantined'
    BY <2>2, <2>3
  <2> HIDE DEF again
  <2> QED BY <2>1, <2>2, <2>4, <2>5 DEF Returned
<1>6. CASE r.how = "done" /\ r.job.kind = "gen"
  BY <1>1, <1>2, <1>3, <1>6, JobTyped DEF Column
<1>7. CASE r.how = "done" /\ r.job.kind # "gen"
  BY <1>1, <1>2, <1>3, <1>7, JobTyped DEF MeshBack
<1> QED BY <1>1, <1>4, <1>5, <1>6, <1>7

\* Where each action leaves the pass.
LEMMA PassStep ==
  ASSUME TypeOK, PassInv, [Next]_vars
  PROVE  PassInv'
<1>1. CASE EditStep
  BY <1>1 DEF EditStep, Edit, PassInv
<1>2. CASE \E v \in Eyes : Begin(v)
  <2>1. PICK v \in Eyes : Begin(v)
    BY <1>2
  <2>2. v # NoEye
    BY ChunkAssumption, PoolAssumption
  <2> QED BY <2>1, <2>2 DEF Begin, PassInv
<1>3. CASE Cross
  BY <1>3 DEF Cross, PassInv
<1>4. CASE Generate
  <2>1. CASE Gather
    BY <2>1 DEF Gather, PassInv, TypeOK
  <2>2. ASSUME NEW c \in Chunks, SubmitRun(c) PROVE PassInv'
    BY <2>2 DEF SubmitRun, PassInv
  <2>3. CASE GenerateIdle
    BY <2>3 DEF GenerateIdle, PassInv
  <2> QED BY <1>4, <2>1, <2>2, <2>3 DEF Generate
<1>5. CASE Mesh
  BY <1>5 DEF Mesh, Evict, SubmitMesh, MeshIdle, PassInv
<1>6. CASE RemeshDirty
  BY <1>6 DEF RemeshDirty, PassInv
<1>7. CASE Integrate
  <2>1. phase # "crossed" /\ UNCHANGED <<phase, eye, seededAt>>
    BY <1>7 DEF Integrate
  <2>2. UNCHANGED runs
    BY <1>7, IntegrateIs DEF Returned, Column, MeshBack, AcceptColumn, AcceptMesh, Resolve
  <2>3. \/ UNCHANGED <<pendingGen, gatheredFor>>
        \/ pendingGen' = TRUE /\ gatheredFor' = NoEye
    <3>1. CASE Returned
      <4>1. PICK G, M \in SUBSET Chunks : \E again : Resolve(G, M, again)
        BY <3>1 DEF Returned
      <4>2. PICK again : Resolve(G, M, again)
        BY <4>1
      <4> QED BY <4>2 DEF Resolve
    <3>2. CASE Column
      BY <3>2 DEF Column, AcceptColumn
    <3>3. CASE MeshBack
      <4>1. UNCHANGED genVars
        BY <3>3 DEF MeshBack, AcceptMesh
      <4> QED BY <4>1
    <3> QED BY <3>3, <1>7, <3>1, <3>2, IntegrateIs
  <2>4. phase # "lanes" => eye # NoEye
    BY DEF TypeOK
  <2>5. CASE UNCHANGED <<pendingGen, gatheredFor>>
    BY <2>1, <2>2, <2>5 DEF PassInv
  <2>6. CASE pendingGen' = TRUE /\ gatheredFor' = NoEye
    BY <2>1, <2>4, <2>6 DEF PassInv
  <2> QED BY <2>3, <2>5, <2>6
<1>8. CASE Upload
  BY <1>8 DEF Upload, PassInv
<1>9. CASE \E w \in Workers : Work(w)
  BY <1>9 DEF Work, PassInv
<1>10. CASE UNCHANGED vars
  BY <1>10 DEF PassInv
<1> QED BY <1>1, <1>2, <1>3, <1>4, <1>5, <1>6, <1>7, <1>8, <1>9, <1>10 DEF Next

-----------------------------------------------------------------------------
(* What a step that is no edit makes of a chunk: five things.               *)

Stays(c) ==
  /\ chunk'[c].st = chunk[c].st /\ chunk'[c].rev = chunk[c].rev
  /\ chunk'[c].vox = chunk[c].vox /\ chunk'[c].of = chunk[c].of
  /\ chunk'[c].seen = chunk[c].seen /\ residency'[c] = residency[c]

\* Drawn before, to be meshed again.
Remade(c) ==
  /\ chunk[c].st = "ready" /\ chunk'[c].st = "needs" /\ chunk'[c].building = FALSE
  /\ chunk'[c].rev = chunk[c].rev + 1 /\ chunk'[c].vox = chunk[c].vox
  /\ chunk'[c].of = chunk[c].of /\ residency'[c] = residency[c]

Unloaded(c) == chunk'[c] = Absent /\ residency'[c] = residency[c]

\* The voxels a chunk is stored with: generated here, or by a job.
MadeFrom(c, base) ==
  base = Generated \/ \E j \in HeldJobs : j \in GenJobs /\ j.at = c /\ j.edits = base

Arrives(c) ==
  /\ ~Loaded(c)
  /\ \E base \in Voxels : MadeFrom(c, base) /\ chunk'[c].vox = Replayed(c, base)
  /\ chunk'[c].st \in {"needs", "air"}
  /\ chunk'[c].of = residency[c] + 1 /\ residency'[c] = residency[c] + 1

\* Remeshed here, or with the oldest upload.
Drawn(c) ==
  /\ Loaded(c)
  /\ chunk'[c].st \in {"ready", "air"}
  /\ chunk'[c].rev = chunk[c].rev /\ chunk'[c].vox = chunk[c].vox
  /\ chunk'[c].of = chunk[c].of /\ residency'[c] = residency[c]
  /\ chunk'[c].st = "ready" =>
       \/ chunk'[c].seen = Snapshot(chunk, c)
       \/ \E i \in DOMAIN uploads : /\ uploads[i].at = c /\ uploads[i].rev = chunk[c].rev
                                    /\ chunk'[c].seen = uploads[i].seen

Moves(c) == Stays(c) \/ Remade(c) \/ Unloaded(c) \/ Arrives(c) \/ Drawn(c)

\* A chunk that is drawn after the step has no neighbour that arrived in it.
BordersHold ==
  \A c \in Chunks : chunk'[c].st = "ready" =>
    \A n \in Neighbours(c) : residency'[n] = residency[n]

LEMMA StoreMoves ==
  ASSUME TypeOK, NEW S \in SUBSET Chunks, NEW base, StoreChunks(S, base),
         \A c \in S : ~Loaded(c) /\ base \in Voxels /\ MadeFrom(c, base)
  PROVE  (\A c \in Chunks : Moves(c)) /\ BordersHold
<1>1. ASSUME NEW c \in S PROVE Arrives(c)
  BY <1>1, StoreMakes DEF Arrives
<1>2. ASSUME NEW c \in Chunks \ S PROVE Stays(c) \/ Remade(c)
  <2>1. chunk[c] \in Residents
    BY DEF TypeOK
  <2>2. residency'[c] = residency[c]
    BY StoreLeaves
  <2>3. CASE chunk'[c] = chunk[c]
    BY <2>2, <2>3 DEF Stays
  <2>4. CASE chunk[c].st = "ready" /\ chunk'[c] = Remeshed(chunk[c])
    BY <2>1, <2>2, <2>4, RemadeFields DEF Remade
  <2> QED BY <2>3, <2>4, StoreLeaves
<1>3. ASSUME NEW c \in Chunks, chunk'[c].st = "ready", NEW n \in Neighbours(c)
      PROVE  residency'[n] = residency[n]
  <2>1. c \notin S
    BY <1>3, StoreMakes
  <2>2. Remeshed(chunk[c]).st = "needs"
    BY RemadeFields DEF TypeOK
  <2>3. n \notin S /\ n \in Chunks
    BY <1>3, <2>1, <2>2, StoreLeaves DEF Neighbours
  <2> QED BY <2>3, StoreLeaves
<1> QED BY <1>1, <1>2, <1>3 DEF Moves, BordersHold

LEMMA QuietBorders ==
  ASSUME UNCHANGED residency
  PROVE  BordersHold
BY DEF BordersHold

LEMMA CrossMoves ==
  ASSUME TypeOK, Cross
  PROVE  (\A c \in Chunks : Moves(c)) /\ BordersHold
<1> DEFINE far == {c \in Chunks : /\ Loaded(c) /\ c \notin Box(UnloadR)
                                  /\ seededAt # NoEye => Away(c, seededAt) <= UnloadR}
           live == {i \in DOMAIN uploads : uploads[i].at \notin far /\ Applies(uploads[i])}
           stale == {uploads[i].at : i \in DOMAIN uploads \ live}
           kept == [c \in Chunks |-> IF c \in far THEN Absent
                                     ELSE IF c \in stale THEN Released(chunk[c]) ELSE chunk[c]]
           make == IF Loaded(eye) \/ eye \in generating THEN {} ELSE {eye}
           near(c) == c \in make \/ Neighbours(c) \cap make # {}
<1>1. /\ chunk' = [c \in Chunks |->
            IF c \in make THEN Stored(c, Generated)
            ELSE IF kept[c].st = "ready" /\ near(c) THEN Remeshed(kept[c])
            ELSE kept[c]]
      /\ residency' = [c \in Chunks |-> IF c \in make THEN residency[c] + 1 ELSE residency[c]]
  BY DEF Cross
<1>2. \A c \in Chunks : /\ c \in far => kept[c] = Absent
                        /\ c \notin far => kept[c] = chunk[c] \/ kept[c] = Released(chunk[c])
  OBVIOUS
<1>3. \A c \in make : ~Loaded(c)
  OBVIOUS
<1>4. \A c \in Chunks : ~near(c) => Neighbours(c) \cap make = {} /\ c \notin make
  OBVIOUS
<1> HIDE DEF far, live, stale, kept, make, near
<1>5. ASSUME NEW c \in Chunks PROVE Moves(c)
  <2>1. chunk[c] \in Residents /\ residency[c] \in Nat
    BY DEF TypeOK
  <2>2. CASE c \in make
    <3>1. Generated \in Voxels /\ MadeFrom(c, Generated)
      BY ZeroTyped DEF MadeFrom
    <3>2. chunk'[c] = Stored(c, Generated) /\ residency'[c] = residency[c] + 1
      BY <1>1, <2>2
    <3>3. chunk'[c].st \in {"needs", "air"} /\ chunk'[c].vox = Replayed(c, Generated)
          /\ chunk'[c].of = residency[c] + 1
      BY <3>2 DEF Stored
    <3> QED BY <1>3, <2>2, <3>1, <3>2, <3>3 DEF Arrives, Moves
  <2>3. CASE c \notin make /\ c \in far
    <3>1. kept[c].st # "ready"
      BY <1>2, <2>3 DEF Absent
    <3>2. chunk'[c] = Absent /\ residency'[c] = residency[c]
      BY <1>1, <1>2, <2>3, <3>1
    <3> QED BY <3>2 DEF Unloaded, Moves
  <2>4. CASE c \notin make /\ c \notin far
    <3>1. kept[c] \in Residents
      BY <1>2, <2>1, <2>4, RemadeTyped
    <3>2. /\ kept[c].st = chunk[c].st /\ kept[c].rev = chunk[c].rev /\ kept[c].vox = chunk[c].vox
          /\ kept[c].of = chunk[c].of /\ kept[c].seen = chunk[c].seen
      <4>1. kept[c] = chunk[c] \/ kept[c] = Released(chunk[c])
        BY <1>2, <2>4
      <4>2. /\ Released(chunk[c]).st = chunk[c].st /\ Released(chunk[c]).rev = chunk[c].rev
            /\ Released(chunk[c]).vox = chunk[c].vox /\ Released(chunk[c]).of = chunk[c].of
            /\ Released(chunk[c]).seen = chunk[c].seen
        BY <2>1, RemadeFields
      <4> QED BY <4>1, <4>2
    <3>3. residency'[c] = residency[c]
      BY <1>1, <2>4
    <3>4. CASE kept[c].st = "ready" /\ near(c)
      <4>1. chunk'[c] = Remeshed(kept[c])
        BY <1>1, <2>4, <3>4
      <4> QED BY ZenonT(60), <3>1, <3>2, <3>3, <3>4, <4>1, RemadeFields DEF Remade, Moves
    <3>5. CASE ~(kept[c].st = "ready" /\ near(c))
      <4>1. chunk'[c] = kept[c]
        BY <1>1, <2>4, <3>5
      <4> QED BY <3>2, <3>3, <4>1 DEF Stays, Moves
    <3> QED BY <3>4, <3>5
  <2> QED BY <2>2, <2>3, <2>4
<1>6. ASSUME NEW c \in Chunks, chunk'[c].st = "ready", NEW n \in Neighbours(c)
      PROVE  residency'[n] = residency[n]
  <2>1. \A r \in Residents : Remeshed(r).st = "needs"
    BY RemadeFields
  <2>2. Stored(c, Generated).st # "ready"
    BY DEF Stored
  <2>3. kept[c] \in Residents
    BY <1>2, RemadeTyped, ZeroTyped DEF TypeOK
  <2>4. ~near(c)
    BY <1>1, <1>4, <1>6, <2>1, <2>2, <2>3
  <2>5. n \in Chunks /\ n \notin make
    BY <1>4, <1>6, <2>4 DEF Neighbours
  <2> QED BY <1>1, <2>5
<1> QED BY <1>5, <1>6 DEF BordersHold

LEMMA DropMoves ==
  ASSUME TypeOK, NEW c \in Chunks, DropStale(c), UNCHANGED residency, NEW d \in Chunks
  PROVE  Stays(d)
<1>1. chunk[d] \in Residents
  BY DEF TypeOK
<1>2. chunk'[d] = chunk[d] \/ chunk'[d] = Released(chunk[d])
  BY DEF DropStale, TypeOK
<1> QED BY ZenonT(60), <1>1, <1>2, RemadeFields DEF Stays

LEMMA UploadMoves ==
  ASSUME TypeOK, Upload, NEW c \in Chunks
  PROVE  Moves(c)
<1> DEFINE m == Head(uploads)
<1>1. /\ m \in MeshJobs /\ m.at \in Chunks /\ m = uploads[1] /\ 1 \in DOMAIN uploads
      /\ m.seen \in Seen
  <2>1. uploads \in Seq(MeshJobs) /\ uploads # <<>>
    BY DEF Upload, TypeOK
  <2>2. m \in MeshJobs /\ m = uploads[1] /\ 1 \in DOMAIN uploads
    BY <2>1, HeadTailProperties
  <2> QED BY <2>2 DEF MeshJobs
<1>2. \/ /\ Applies(m)
         /\ chunk' = [chunk EXCEPT ![m.at].st = "ready", ![m.at].building = FALSE,
                                   ![m.at].seen = m.seen]
      \/ chunk' = [chunk EXCEPT ![m.at] = IF @.st = "needs" THEN Released(@) ELSE @]
      \/ DropStale(m.at)
  BY DEF Upload
<1>3. UNCHANGED residency /\ chunk[c] \in Residents
  BY DEF Upload, TypeOK
<1> HIDE DEF m
<1>4. CASE /\ Applies(m)
           /\ chunk' = [chunk EXCEPT ![m.at].st = "ready", ![m.at].building = FALSE,
                                     ![m.at].seen = m.seen]
  <2>1. CASE c = m.at
    <3>1. chunk'[c] = [chunk[c] EXCEPT !.st = "ready", !.building = FALSE, !.seen = m.seen]
      BY <1>1, <1>4, <2>1 DEF TypeOK
    <3>2. /\ chunk'[c].st = "ready" /\ chunk'[c].rev = chunk[c].rev /\ chunk'[c].vox = chunk[c].vox
          /\ chunk'[c].of = chunk[c].of /\ chunk'[c].seen = m.seen
      BY <1>3, <3>1 DEF Residents
    <3>3. m.rev = chunk[c].rev /\ Loaded(c)
      BY <1>4, <2>1 DEF Applies
    <3> QED BY <1>1, <1>3, <2>1, <3>2, <3>3 DEF Drawn, Moves
  <2>2. CASE c # m.at
    BY <1>1, <1>3, <1>4, <2>2 DEF Stays, Moves, TypeOK
  <2> QED BY <2>1, <2>2
<1>5. CASE chunk' = [chunk EXCEPT ![m.at] = IF @.st = "needs" THEN Released(@) ELSE @]
  <2>1. chunk'[c] = chunk[c] \/ chunk'[c] = Released(chunk[c])
    BY <1>1, <1>5 DEF TypeOK
  <2> QED BY ZenonT(60), <1>3, <2>1, RemadeFields DEF Stays, Moves
<1>6. CASE DropStale(m.at)
  BY <1>1, <1>3, <1>6, DropMoves DEF Moves
<1> QED BY <1>2, <1>4, <1>5, <1>6

LEMMA RemeshDirtyMoves ==
  ASSUME TypeOK, RemeshDirty, NEW c \in Chunks
  PROVE  Moves(c)
<1> DEFINE due == {d \in dirtyList : chunk[d].st = "dirty"}
           drawn(d) == [chunk[d] EXCEPT !.st = IF d \in Mixed THEN "ready" ELSE "air",
                          !.seen = IF d \in Mixed THEN Snapshot(chunk, d) ELSE NoMesh]
<1>1. PICK T \in SUBSET due : \E lost \in {{}} \cup {{d} : d \in T \cap Mixed} :
        chunk' = [d \in Chunks |-> IF d \in T \ lost THEN drawn(d) ELSE chunk[d]]
  BY DEF RemeshDirty
<1>2. \/ chunk'[c] = chunk[c]
      \/ chunk[c].st = "dirty" /\ chunk'[c] = drawn(c)
  BY <1>1
<1>3. UNCHANGED residency /\ chunk[c] \in Residents
  BY DEF RemeshDirty, TypeOK
<1>4. /\ drawn(c).st \in {"ready", "air"} /\ drawn(c).rev = chunk[c].rev
      /\ drawn(c).vox = chunk[c].vox /\ drawn(c).of = chunk[c].of
      /\ drawn(c).st = "ready" => drawn(c).seen = Snapshot(chunk, c)
  BY <1>3 DEF Residents
<1> HIDE DEF drawn
<1>5. CASE chunk'[c] = chunk[c]
  BY <1>3, <1>5 DEF Stays, Moves
<1>6. CASE chunk[c].st = "dirty" /\ chunk'[c] = drawn(c)
  BY <1>3, <1>4, <1>6 DEF Drawn, Moves, Loaded
<1> QED BY <1>2, <1>5, <1>6

LEMMA IntegrateMoves ==
  ASSUME TypeOK, Integrate
  PROVE  (\A c \in Chunks : Moves(c)) /\ BordersHold
<1>1. CASE Returned
  <2>1. PICK G, M \in SUBSET Chunks : \E again : Resolve(G, M, again)
    BY <1>1 DEF Returned
  <2>2. PICK again : Resolve(G, M, again)
    BY <2>1
  <2>3. UNCHANGED residency
    BY <2>2 DEF Resolve
  <2>4. ASSUME NEW c \in Chunks PROVE Stays(c)
    <3>1. chunk[c] \in Residents
      BY DEF TypeOK
    <3>2. chunk'[c] = chunk[c] \/ chunk'[c] = Released(chunk[c])
      BY <2>2, ResolveMakes
    <3> QED BY ZenonT(60), <2>3, <3>1, <3>2, RemadeFields DEF Stays
  <2> QED BY <2>3, <2>4, QuietBorders DEF Moves
<1>2. CASE Column
  <2>1. PICK j \in GenJobs : j \in HeldJobs /\ AcceptColumn(j)
    BY <1>2 DEF Column
  <2> DEFINE S == IF j.at \in Box(DataR) /\ ~Loaded(j.at) THEN {j.at} ELSE {}
  <2>2. S \in SUBSET Chunks /\ j.edits \in Voxels /\ StoreChunks(S, j.edits)
    BY <2>1 DEF GenJobs, AcceptColumn
  <2>3. \A c \in S : ~Loaded(c) /\ j.edits \in Voxels /\ MadeFrom(c, j.edits)
    BY <2>1, <2>2 DEF MadeFrom
  <2> HIDE DEF S
  <2> QED BY <2>2, <2>3, StoreMoves
<1>3. CASE MeshBack
  <2>1. PICK j \in MeshJobs : AcceptMesh(j)
    BY <1>3 DEF MeshBack
  <2>2. j.at \in Chunks /\ UNCHANGED residency
    BY <2>1 DEF MeshJobs, AcceptMesh
  <2>3. CASE chunk' = chunk
    BY <2>2, <2>3, QuietBorders DEF Stays, Moves
  <2>4. CASE DropStale(j.at)
    BY <2>2, <2>4, DropMoves, QuietBorders DEF Moves
  <2> QED BY <2>1, <2>3, <2>4 DEF AcceptMesh
<1> QED BY <1>1, <1>2, <1>3, IntegrateIs

\* Every step but an edit leaves the overlay, and does one of five things to a
\* chunk.
LEMMA ChunksMove ==
  ASSUME TypeOK, [Next]_vars
  PROVE  EditStep \/ ((\A c \in Chunks : Moves(c)) /\ BordersHold /\ UNCHANGED overlay)
<1>1. ASSUME chunk' = chunk, residency' = residency
      PROVE  (\A c \in Chunks : Moves(c)) /\ BordersHold
  BY <1>1 DEF Stays, Moves, BordersHold
<1>2. CASE \E v \in Eyes : Begin(v)
  BY <1>1, <1>2 DEF Begin
<1>3. CASE Cross
  BY <1>3, CrossMoves DEF Cross
<1>4. CASE Generate
  <2>1. CASE Gather
    <3> DEFINE free == {c \in Box(DataR) : ~Claimed(c) /\ c \notin Mixed}
    <3>1. free \in SUBSET Chunks /\ StoreChunks(free, Generated) /\ UNCHANGED overlay
      BY <2>1 DEF Gather, Box
    <3>2. \A c \in free : ~Loaded(c) /\ Generated \in Voxels /\ MadeFrom(c, Generated)
      BY ZeroTyped DEF Claimed, MadeFrom
    <3> HIDE DEF free
    <3> QED BY <3>1, <3>2, StoreMoves
  <2>2. CASE \E c \in Chunks : SubmitRun(c)
    BY <1>1, <2>2 DEF SubmitRun
  <2>3. CASE GenerateIdle
    BY <1>1, <2>3 DEF GenerateIdle
  <2> QED BY <1>4, <2>1, <2>2, <2>3 DEF Generate
<1>5. CASE Mesh
  <2>1. CASE \/ \E c \in Chunks : Evict(c)
             \/ MeshIdle
    BY <1>1, <2>1 DEF Evict, MeshIdle
  <2>2. ASSUME NEW c \in Chunks, SubmitMesh(c)
        PROVE  (\A d \in Chunks : Moves(d)) /\ BordersHold /\ UNCHANGED overlay
    <3>1. chunk' = [chunk EXCEPT ![c].building = TRUE] /\ UNCHANGED <<residency, overlay>>
      BY <2>2 DEF SubmitMesh
    <3>2. ASSUME NEW d \in Chunks PROVE Stays(d)
      <4>1. chunk[d] \in Residents
        BY DEF TypeOK
      <4>2. chunk'[d] = chunk[d] \/ chunk'[d] = [chunk[d] EXCEPT !.building = TRUE]
        BY <3>1 DEF TypeOK
      <4> QED BY <3>1, <4>1, <4>2 DEF Stays, Residents
    <3> QED BY <3>1, <3>2, QuietBorders DEF Moves
  <2> QED BY <1>5, <2>1, <2>2 DEF Mesh
<1>6. CASE RemeshDirty
  BY <1>6, RemeshDirtyMoves, QuietBorders DEF RemeshDirty
<1>7. CASE Integrate
  BY <1>7, IntegrateMoves DEF Integrate
<1>8. CASE Upload
  BY <1>8, UploadMoves, QuietBorders DEF Upload
<1>9. CASE \E w \in Workers : Work(w)
  BY <1>1, <1>9 DEF Work
<1>10. CASE UNCHANGED vars
  BY <1>1, <1>10
<1> QED BY <1>2, <1>3, <1>4, <1>5, <1>6, <1>7, <1>8, <1>9, <1>10 DEF Next

-----------------------------------------------------------------------------
(* The four parts of ForgetInv, step by step. *)

\* What an edit makes of a chunk: those it touches wait for a remesh.
LEMMA EditMakes ==
  ASSUME TypeOK, NEW e \in Chunks, NEW s \in Sides, NEW id, Edit(e, s, id), NEW c \in Chunks
  PROVE  \/ /\ Loaded(c) /\ c \in {e, e + s}
            /\ chunk'[c].st = "dirty" /\ chunk'[c].rev = chunk[c].rev + 1
            /\ chunk'[c].vox = IF c = e THEN [chunk[c].vox EXCEPT ![s] = id] ELSE chunk[c].vox
            /\ chunk'[c].of = chunk[c].of
            /\ c \in dirtyList' /\ pendingDirty'
         \/ /\ ~(Loaded(c) /\ c \in {e, e + s}) /\ chunk'[c] = chunk[c]
            /\ (c \in failed => c \in failed')
<1> DEFINE touched == {d \in {e, e + s} \cap Chunks : Loaded(d)}
<1>1. /\ c \notin touched => chunk'[c] = chunk[c]
      /\ c \in touched =>
           chunk'[c] = IF c = e THEN [Invalidated(chunk[c]) EXCEPT !.vox[s] = id]
                       ELSE Invalidated(chunk[c])
      /\ dirtyList' = dirtyList \cup touched
      /\ pendingDirty' = (pendingDirty \/ touched # {})
      /\ failed' = failed \ touched
  BY DEF Edit
<1>2. c \in touched <=> Loaded(c) /\ c \in {e, e + s}
  OBVIOUS
<1>3. /\ Invalidated(chunk[c]) \in Residents
      /\ Invalidated(chunk[c]).st = "dirty" /\ Invalidated(chunk[c]).rev = chunk[c].rev + 1
      /\ Invalidated(chunk[c]).vox = chunk[c].vox /\ Invalidated(chunk[c]).of = chunk[c].of
  BY RemadeTyped, RemadeFields DEF TypeOK
<1> DEFINE r == [Invalidated(chunk[c]) EXCEPT !.vox[s] = id]
<1>4. /\ r.st = "dirty" /\ r.rev = chunk[c].rev + 1 /\ r.of = chunk[c].of
      /\ r.vox = [chunk[c].vox EXCEPT ![s] = id]
  BY <1>3 DEF Residents
<1> HIDE DEF touched, r
<1>5. CASE c \in touched
  <2>1. chunk'[c] = IF c = e THEN r ELSE Invalidated(chunk[c])
    BY <1>1, <1>5 DEF r
  <2>2. c \in dirtyList' /\ pendingDirty'
    BY <1>1, <1>5
  <2> QED BY <1>2, <1>3, <1>4, <1>5, <2>1, <2>2
<1>6. CASE c \notin touched
  BY <1>1, <1>2, <1>6
<1> QED BY <1>5, <1>6

LEMMA EditIs ==
  ASSUME TypeOK, EditStep
  PROVE  \E e \in Chunks, s \in Sides, id \in {edits + 1, 0} :
           Edit(e, s, id) /\ (id = 0 => Reverts)
<1>1. PICK site \in EditSites : \E id \in {edits + 1} \cup (IF Reverts THEN {0} ELSE {}) :
        Edit(site[1], site[2], id)
  BY DEF EditStep
<1>2. PICK id \in {edits + 1} \cup (IF Reverts THEN {0} ELSE {}) : Edit(site[1], site[2], id)
  BY <1>1
<1>3. site[1] \in Chunks /\ site[2] \in Sides
  BY ChunkAssumption DEF Sides
<1>4. edits + 1 # 0
  BY ChunkAssumption DEF TypeOK
<1>5. id \in {edits + 1, 0} /\ (id = 0 => Reverts)
  BY <1>4
<1> QED BY <1>2, <1>3, <1>5

LEMMA DirtyStep ==
  ASSUME TypeOK, DirtyListed, [Next]_vars
  PROVE  DirtyListed'
<1>1. CASE EditStep
  <2>1. PICK e \in Chunks, s \in Sides, id \in {edits + 1, 0} : Edit(e, s, id)
    BY <1>1, EditIs
  <2>2. dirtyList \subseteq dirtyList' /\ (pendingDirty => pendingDirty')
    BY <2>1 DEF Edit
  <2>3. ASSUME NEW c \in Chunks \ failed', chunk'[c].st = "dirty"
        PROVE  c \in dirtyList' /\ pendingDirty'
    <3>1. CASE c \in dirtyList' /\ pendingDirty'
      BY <3>1
    <3>2. CASE chunk'[c] = chunk[c] /\ (c \in failed => c \in failed')
      BY <2>2, <2>3, <3>2 DEF DirtyListed
    <3> QED BY <2>1, <3>1, <3>2, EditMakes
  <2> QED BY <2>3 DEF DirtyListed
<1>2. ASSUME ~EditStep PROVE \A c \in Chunks : chunk'[c].st = "dirty" => chunk[c].st = "dirty"
  <2> SUFFICES ASSUME NEW c \in Chunks, chunk'[c].st = "dirty" PROVE chunk[c].st = "dirty"
    OBVIOUS
  <2>1. Moves(c)
    BY <1>2, ChunksMove
  <2>2. ~Unloaded(c)
    BY DEF Unloaded, Absent
  <2>3. ~Remade(c) /\ ~Arrives(c) /\ ~Drawn(c)
    BY DEF Remade, Arrives, Drawn
  <2> QED BY <2>1, <2>2, <2>3 DEF Moves, Stays
<1>3. CASE ~EditStep /\ UNCHANGED dirtyVars /\ failed \subseteq failed'
  BY <1>2, <1>3 DEF DirtyListed
<1>4. CASE Cross
  <2> DEFINE far == {c \in Chunks : /\ Loaded(c) /\ c \notin Box(UnloadR)
                                    /\ seededAt # NoEye => Away(c, seededAt) <= UnloadR}
  <2>1. dirtyList' = dirtyList \ far /\ failed' = failed \ far /\ UNCHANGED pendingDirty
    BY <1>4 DEF Cross
  <2>2. ~EditStep
    BY <1>4 DEF Cross, EditStep, Edit
  <2>3. ASSUME NEW c \in Chunks, c \in far PROVE chunk'[c].st # "dirty"
    BY <1>4, <2>3 DEF Cross, Absent, Stored, Remeshed
  <2> HIDE DEF far
  <2> QED BY <1>2, <2>1, <2>2, <2>3 DEF DirtyListed
<1>5. CASE RemeshDirty
  <2> DEFINE due == {c \in dirtyList : chunk[c].st = "dirty"}
             drawn(c) == [chunk[c] EXCEPT !.st = IF c \in Mixed THEN "ready" ELSE "air",
                            !.seen = IF c \in Mixed THEN Snapshot(chunk, c) ELSE NoMesh]
  <2>1. PICK T \in SUBSET due :
          /\ \E lost \in {{}} \cup {{c} : c \in T \cap Mixed} :
               /\ chunk' = [c \in Chunks |-> IF c \in T \ lost THEN drawn(c) ELSE chunk[c]]
               /\ failed' = failed \cup lost
          /\ dirtyList' = due \ T
          /\ pendingDirty' = (due \ T # {})
    BY <1>5 DEF RemeshDirty
  <2>2. PICK lost \in {{}} \cup {{c} : c \in T \cap Mixed} :
               /\ chunk' = [c \in Chunks |-> IF c \in T \ lost THEN drawn(c) ELSE chunk[c]]
               /\ failed' = failed \cup lost
    BY <2>1
  <2>3. \A c \in Chunks : drawn(c).st # "dirty"
    BY DEF TypeOK, Residents
  <2>4. \A c \in Chunks : c \in due <=> c \in dirtyList /\ chunk[c].st = "dirty"
    OBVIOUS
  <2> HIDE DEF due, drawn
  <2>5. ASSUME NEW c \in Chunks \ failed', chunk'[c].st = "dirty"
        PROVE  c \in dirtyList' /\ pendingDirty'
    <3>1. c \notin T /\ chunk[c].st = "dirty" /\ c \notin failed
      BY <2>2, <2>3, <2>5
    <3>2. c \in due
      BY <2>4, <3>1 DEF DirtyListed
    <3> QED BY <2>1, <3>1, <3>2
  <2> QED BY <2>5 DEF DirtyListed
<1>6. CASE \/ \E v \in Eyes : Begin(v)
           \/ Generate \/ Mesh \/ Integrate \/ Upload
           \/ \E w \in Workers : Work(w)
           \/ UNCHANGED vars
  <2>1. UNCHANGED dirtyVars /\ failed \subseteq failed'
    BY <1>6 DEF Begin, Generate, Gather, SubmitRun, GenerateIdle, Mesh, Evict, SubmitMesh, MeshIdle,
       Integrate, Upload, Work
  <2> QED BY <1>1, <1>3, <2>1
<1> QED BY <1>1, <1>4, <1>5, <1>6 DEF Next

\* A step that leaves the lane's inputs as they were, or seeds what it changes.
LEMMA DueKept ==
  ASSUME DueSeeded, NEW c \in Chunks, DueMesh(c)',
         c \notin failed, quarantined \subseteq quarantined',
         eye # NoEye, Away(c, eye) <= MeshR, seededAt # NoEye, Away(c, seededAt) <= MeshR,
         AwaitsMesh(c), \A n \in Neighbours(c) : Loaded(n)' => Loaded(n)
  PROVE  c \in worklist /\ pendingFresh
<1>1. <<"mesh", c>> \notin quarantined
  BY DEF DueMesh
<1>2. HasNeighbourData(c)
  BY DEF DueMesh, HasNeighbourData
<1>3. DueMesh(c)
  BY <1>1, <1>2 DEF DueMesh
<1> QED BY <1>3 DEF DueSeeded

LEMMA StoreDue ==
  ASSUME TypeOK, DueSeeded, NEW S \in SUBSET Chunks, NEW base, StoreChunks(S, base),
         UNCHANGED <<eye, seededAt, quarantined, failed>>
  PROVE  DueSeeded'
<1> SUFFICES ASSUME NEW c \in Chunks, DueMesh(c)' PROVE c \in worklist' /\ pendingFresh'
  BY DEF DueSeeded
<1>1. chunk'[c].st = "needs" /\ ~chunk'[c].building
  BY DEF DueMesh, AwaitsMesh
<1>2. /\ worklist \subseteq worklist' /\ (pendingFresh => pendingFresh')
      /\ c \in S \/ Neighbours(c) \cap S # {} => c \in worklist' /\ pendingFresh'
  BY <1>1 DEF StoreChunks
<1>3. CASE c \notin S /\ Neighbours(c) \cap S = {}
  <2>1. AwaitsMesh(c)
    BY <1>1, <1>3, StoreLeaves DEF AwaitsMesh
  <2>2. ASSUME NEW n \in Neighbours(c), Loaded(n)' PROVE Loaded(n)
    <3>1. n \in Chunks \ S
      BY <1>3 DEF Neighbours
    <3>2. chunk'[n] = chunk[n] \/ chunk[n].st = "ready"
      BY <3>1, StoreLeaves
    <3> QED BY <2>2, <3>2 DEF Loaded
  <2>3. c \notin failed /\ eye # NoEye /\ Away(c, eye) <= MeshR /\ seededAt # NoEye
        /\ Away(c, seededAt) <= MeshR /\ quarantined \subseteq quarantined'
    BY DEF DueMesh
  <2> QED BY <1>2, <2>1, <2>2, <2>3, DueKept
<1> QED BY <1>2, <1>3

LEMMA DropDue ==
  ASSUME TypeOK, ClaimsInv, DueSeeded, NEW d \in Chunks, DropStale(d),
         UNCHANGED <<eye, seededAt, quarantined, failed>>
  PROVE  DueSeeded'
<1> SUFFICES ASSUME NEW c \in Chunks, DueMesh(c)' PROVE c \in worklist' /\ pendingFresh'
  BY DEF DueSeeded
<1>1. chunk'[c].st = "needs" /\ ~chunk'[c].building
  BY DEF DueMesh, AwaitsMesh
<1>2. \A n \in Chunks : chunk'[n].st = chunk[n].st /\ (n # d => chunk'[n] = chunk[n])
  BY DropMakes
<1>3. /\ worklist' = worklist \cup {n \in {d} : chunk'[n].st = "needs" /\ ~chunk'[n].building}
      /\ pendingFresh' = (pendingFresh \/ chunk[d].st # "absent")
  BY DEF DropStale, Seeded, Loaded
<1>4. CASE c = d
  BY <1>1, <1>2, <1>3, <1>4
<1>5. CASE c # d
  <2>1. AwaitsMesh(c)
    BY <1>1, <1>2, <1>5 DEF AwaitsMesh
  <2>2. \A n \in Neighbours(c) : Loaded(n)' => Loaded(n)
    BY <1>2 DEF Neighbours, Loaded
  <2>3. c \notin failed /\ eye # NoEye /\ Away(c, eye) <= MeshR /\ seededAt # NoEye
        /\ Away(c, seededAt) <= MeshR /\ quarantined \subseteq quarantined'
    BY DEF DueMesh
  <2>4. c \in worklist /\ pendingFresh
    BY <2>1, <2>2, <2>3, DueKept
  <2> QED BY <1>3, <2>4
<1> QED BY <1>4, <1>5

LEMMA CrossDue ==
  ASSUME TypeOK, DueSeeded, Cross
  PROVE  DueSeeded'
<1> DEFINE far == {c \in Chunks : /\ Loaded(c) /\ c \notin Box(UnloadR)
                                  /\ seededAt # NoEye => Away(c, seededAt) <= UnloadR}
           live == {i \in DOMAIN uploads : uploads[i].at \notin far /\ Applies(uploads[i])}
           stale == {uploads[i].at : i \in DOMAIN uploads \ live}
           kept == [c \in Chunks |-> IF c \in far THEN Absent
                                     ELSE IF c \in stale THEN Released(chunk[c]) ELSE chunk[c]]
           make == IF Loaded(eye) \/ eye \in generating THEN {} ELSE {eye}
           window == {c \in MeshBox : seededAt # NoEye => Away(c, seededAt) > MeshR}
           near(c) == c \in make \/ Neighbours(c) \cap make # {}
           fresh(c) == chunk'[c].st = "needs" /\ ~chunk'[c].building
<1> SUFFICES ASSUME NEW c \in Chunks, DueMesh(c)' PROVE c \in worklist' /\ pendingFresh'
  BY DEF DueSeeded
<1>1. /\ chunk' = [d \in Chunks |->
            IF d \in make THEN Stored(d, Generated)
            ELSE IF kept[d].st = "ready" /\ near(d) THEN Remeshed(kept[d])
            ELSE kept[d]]
      /\ worklist' = (worklist \ far) \cup {d \in stale \cup window : fresh(d)}
                                      \cup {d \in Chunks : near(d) /\ fresh(d)}
      /\ failed' = failed \ far /\ pendingFresh' = TRUE
      /\ UNCHANGED <<eye, quarantined>>
  BY DEF Cross
<1>2. fresh(c) /\ eye # NoEye /\ Away(c, eye) <= MeshR
  BY <1>1 DEF DueMesh, AwaitsMesh
<1>3. c \notin far
  <2>1. /\ Away(c, eye) <= UnloadR
    <3>1. c \in Int /\ eye \in Int
      BY <1>2, ChunkAssumption DEF TypeOK
    <3>2. Away(c, eye) \in Int
      BY <3>1 DEF Away
    <3> QED BY <1>2, <3>2, ChunkAssumption
  <2> QED BY <1>2, <2>1 DEF Box
<1>4. c \in MeshBox
  BY <1>2 DEF MeshBox, Box
<1>5. CASE c \in stale \cup window \/ near(c)
  <2> HIDE DEF far, stale, window, near, fresh
  <2> QED BY <1>1, <1>2, <1>5
<1>6. CASE c \notin stale \cup window /\ ~near(c)
  <2>1. seededAt # NoEye /\ ~(Away(c, seededAt) > MeshR)
    BY <1>4, <1>6
  <2>2. Away(c, seededAt) <= MeshR
    <3>1. c \in Int /\ seededAt \in Int
      BY <2>1, ChunkAssumption DEF TypeOK
    <3>2. Away(c, seededAt) \in Int
      BY <3>1 DEF Away
    <3> QED BY <2>1, <3>2, ChunkAssumption
  <2>3. chunk'[c] = chunk[c]
    <3>1. kept[c] = chunk[c]
      BY <1>3, <1>6
    <3>2. c \notin make
      BY <1>6
    <3> HIDE DEF kept, make, near
    <3> QED BY <1>1, <1>6, <3>1, <3>2
  <2>4. ASSUME NEW n \in Neighbours(c), Loaded(n)' PROVE Loaded(n)
    <3>1. n \in Chunks /\ n \notin make
      BY <1>6 DEF Neighbours
    <3>2. chunk'[n] = kept[n] \/ kept[n].st = "ready"
      BY <1>1, <3>1
    <3>3. kept[n].st # "absent"
      BY <2>4, <3>2 DEF Loaded
    <3>4. kept[n] = Absent \/ kept[n] = Released(chunk[n]) \/ kept[n] = chunk[n]
      BY <3>1
    <3>5. Absent.st = "absent" /\ Released(chunk[n]).st = chunk[n].st
      BY <3>1, RemadeFields DEF Absent, TypeOK
    <3> HIDE DEF kept, make
    <3> QED BY <3>3, <3>4, <3>5 DEF Loaded
  <2>5. c \notin failed /\ AwaitsMesh(c)
    BY <1>1, <1>2, <1>3, <2>3 DEF DueMesh, AwaitsMesh
  <2>6. c \in worklist /\ pendingFresh
    BY <1>1, <1>2, <2>1, <2>2, <2>4, <2>5, DueKept
  <2> HIDE DEF far, stale, window, near, fresh
  <2> QED BY <1>1, <1>3, <2>6
<1> QED BY <1>5, <1>6

LEMMA IntegrateDue ==
  ASSUME TypeOK, ClaimsInv, DueSeeded, Integrate
  PROVE  DueSeeded'
<1>1. UNCHANGED <<eye, seededAt, failed>>
  BY DEF Integrate
<1>2. CASE Returned
  <2>1. PICK G, M \in SUBSET Chunks : \E again :
          Resolve(G, M, again) /\ quarantined \subseteq quarantined'
    BY <1>2 DEF Returned
  <2>2. PICK again : Resolve(G, M, again) /\ quarantined \subseteq quarantined'
    BY <2>1
  <2> SUFFICES ASSUME NEW c \in Chunks, DueMesh(c)' PROVE c \in worklist' /\ pendingFresh'
    BY DEF DueSeeded
  <2>3. chunk'[c].st = "needs" /\ ~chunk'[c].building /\ c \in MeshBox
    BY <1>1 DEF DueMesh, AwaitsMesh, MeshBox, Box
  <2>4. \A n \in Chunks : chunk'[n].st = chunk[n].st
    BY <2>2, ResolveMakes
  <2>5. /\ c \in M => c \in worklist' /\ pendingFresh'
        /\ worklist \subseteq worklist' /\ (pendingFresh => pendingFresh')
    BY <2>2, <2>3 DEF Resolve, Seeded
  <2>6. CASE c \notin M
    <3>1. AwaitsMesh(c)
      BY <2>2, <2>3, <2>6, ResolveMakes DEF AwaitsMesh
    <3>2. \A n \in Neighbours(c) : Loaded(n)' => Loaded(n)
      BY <2>4 DEF Neighbours, Loaded
    <3>3. c \notin failed /\ eye # NoEye /\ Away(c, eye) <= MeshR /\ seededAt # NoEye
          /\ Away(c, seededAt) <= MeshR
      BY <1>1 DEF DueMesh
    <3> QED BY <2>2, <2>5, <3>1, <3>2, <3>3, DueKept
  <2> QED BY <2>5, <2>6
<1>3. CASE Column
  <2>1. PICK j \in GenJobs : AcceptColumn(j)
    BY <1>3 DEF Column
  <2> DEFINE S == IF j.at \in Box(DataR) /\ ~Loaded(j.at) THEN {j.at} ELSE {}
  <2>2. S \in SUBSET Chunks /\ StoreChunks(S, j.edits) /\ UNCHANGED quarantined
    BY <2>1 DEF GenJobs, AcceptColumn
  <2> HIDE DEF S
  <2> QED BY <1>1, <2>2, StoreDue
<1>4. CASE MeshBack
  <2>1. PICK j \in MeshJobs : AcceptMesh(j)
    BY <1>4 DEF MeshBack
  <2>2. j.at \in Chunks /\ UNCHANGED quarantined
    BY <2>1 DEF MeshJobs, AcceptMesh
  <2>3. CASE UNCHANGED <<chunk, meshVars>>
    BY <1>1, <2>2, <2>3 DEF DueSeeded, DueMesh, AwaitsMesh, HasNeighbourData, Loaded
  <2>4. CASE DropStale(j.at)
    BY <1>1, <2>2, <2>4, DropDue
  <2> QED BY <2>1, <2>3, <2>4 DEF AcceptMesh
<1> QED BY <1>2, <1>3, <1>4, IntegrateIs

LEMMA UploadDue ==
  ASSUME TypeOK, ClaimsInv, DueSeeded, Upload
  PROVE  DueSeeded'
<1> DEFINE m == Head(uploads)
<1>1. m.at \in Chunks
  <2>1. m \in MeshJobs
    BY HeadTailProperties DEF Upload, TypeOK
  <2> QED BY <2>1 DEF MeshJobs
<1>2. \/ /\ Applies(m)
         /\ chunk' = [chunk EXCEPT ![m.at].st = "ready", ![m.at].building = FALSE,
                                   ![m.at].seen = m.seen]
         /\ UNCHANGED <<meshVars, failed>>
      \/ /\ failed' = failed \cup {m.at}
         /\ chunk' = [chunk EXCEPT ![m.at] = IF @.st = "needs" THEN Released(@) ELSE @]
         /\ UNCHANGED meshVars
      \/ DropStale(m.at) /\ UNCHANGED failed
  BY DEF Upload
<1>3. UNCHANGED <<eye, seededAt, quarantined>>
  BY DEF Upload
<1> HIDE DEF m
<1>4. ASSUME failed \subseteq failed', UNCHANGED meshVars,
             m.at \in failed' \/ chunk'[m.at].st # "needs",
             \A c \in Chunks : c # m.at => chunk'[c] = chunk[c],
             chunk'[m.at].st # "absent" => Loaded(m.at)
      PROVE  DueSeeded'
  <2> SUFFICES ASSUME NEW c \in Chunks, DueMesh(c)' PROVE c \in worklist' /\ pendingFresh'
    BY DEF DueSeeded
  <2>1. c # m.at
    BY <1>4 DEF DueMesh, AwaitsMesh
  <2>2. AwaitsMesh(c)
    BY <1>4, <2>1 DEF DueMesh, AwaitsMesh
  <2>3. ASSUME NEW n \in Neighbours(c), Loaded(n)' PROVE Loaded(n)
    <3>1. CASE n = m.at
      BY <1>4, <2>3, <3>1 DEF Loaded
    <3>2. CASE n # m.at
      <4>1. chunk'[n] = chunk[n]
        BY <1>4, <3>2 DEF Neighbours
      <4> QED BY <2>3, <4>1 DEF Loaded
    <3> QED BY <3>1, <3>2
  <2>4. c \notin failed /\ eye # NoEye /\ Away(c, eye) <= MeshR /\ seededAt # NoEye
        /\ Away(c, seededAt) <= MeshR /\ quarantined \subseteq quarantined'
    BY <1>3, <1>4 DEF DueMesh
  <2>5. c \in worklist /\ pendingFresh
    BY <2>2, <2>4, <2>3, DueKept
  <2> QED BY <1>4, <2>5
<1>5. chunk[m.at] \in Residents
  BY <1>1 DEF TypeOK
<1>6. CASE /\ Applies(m)
           /\ chunk' = [chunk EXCEPT ![m.at].st = "ready", ![m.at].building = FALSE,
                                     ![m.at].seen = m.seen]
           /\ UNCHANGED <<meshVars, failed>>
  <2>1. chunk'[m.at].st = "ready" /\ \A c \in Chunks : c # m.at => chunk'[c] = chunk[c]
    BY <1>1, <1>5, <1>6 DEF TypeOK, Residents
  <2> QED BY <1>4, <1>6, <2>1 DEF Applies
<1>7. CASE /\ failed' = failed \cup {m.at}
           /\ chunk' = [chunk EXCEPT ![m.at] = IF @.st = "needs" THEN Released(@) ELSE @]
           /\ UNCHANGED meshVars
  <2>1. /\ chunk'[m.at] = chunk[m.at] \/ chunk'[m.at] = Released(chunk[m.at])
        /\ \A c \in Chunks : c # m.at => chunk'[c] = chunk[c]
    BY <1>1, <1>7 DEF TypeOK
  <2>2. chunk'[m.at].st # "absent" => Loaded(m.at)
    <3>1. Released(chunk[m.at]).st = chunk[m.at].st
      BY <1>5, RemadeFields
    <3>2. chunk'[m.at].st = chunk[m.at].st
      BY <2>1, <3>1
    <3> QED BY <3>2 DEF Loaded
  <2> QED BY <1>4, <1>7, <2>1, <2>2
<1>8. CASE DropStale(m.at) /\ UNCHANGED failed
  BY <1>1, <1>3, <1>8, DropDue
<1> QED BY <1>2, <1>6, <1>7, <1>8

LEMMA MeshDue ==
  ASSUME TypeOK, DueSeeded, Mesh
  PROVE  DueSeeded'
<1>1. UNCHANGED <<eye, seededAt, quarantined, failed>>
  BY DEF Mesh, Evict, SubmitMesh, MeshIdle
<1>2. ASSUME NEW d \in Chunks, Evict(d) PROVE DueSeeded'
  <2> SUFFICES ASSUME NEW c \in Chunks, DueMesh(c)' PROVE c \in worklist' /\ pendingFresh'
    BY DEF DueSeeded
  <2>1. chunk' = chunk /\ worklist' = worklist \ {d} /\ pendingFresh' = (worklist' # {})
    BY <1>2 DEF Evict
  <2>2. DueMesh(c)
    BY <1>1, <2>1 DEF DueMesh, AwaitsMesh, HasNeighbourData, Loaded
  <2>3. ~Blocked(c)
    BY <2>2 DEF DueMesh, AwaitsMesh, Blocked, MeshBox, Box
  <2>4. c # d
    BY <1>2, <2>3 DEF Evict
  <2> QED BY <2>1, <2>2, <2>4 DEF DueSeeded
<1>3. ASSUME NEW d \in Chunks, SubmitMesh(d) PROVE DueSeeded'
  <2> SUFFICES ASSUME NEW c \in Chunks, DueMesh(c)' PROVE c \in worklist' /\ pendingFresh'
    BY DEF DueSeeded
  <2>1. /\ chunk' = [chunk EXCEPT ![d].building = TRUE] /\ worklist' = worklist \ {d}
        /\ pendingFresh' = (worklist' # {})
    BY <1>3 DEF SubmitMesh
  <2>2. /\ chunk'[d].building = TRUE /\ \A n \in Chunks : n # d => chunk'[n] = chunk[n]
        /\ \A n \in Chunks : chunk'[n].st = chunk[n].st
    BY <2>1 DEF TypeOK, Residents
  <2>3. c # d
    BY <2>2 DEF DueMesh, AwaitsMesh
  <2>4. AwaitsMesh(c) /\ \A n \in Neighbours(c) : Loaded(n)' => Loaded(n)
    BY <2>2, <2>3 DEF DueMesh, AwaitsMesh, Neighbours, Loaded
  <2>5. c \notin failed /\ eye # NoEye /\ Away(c, eye) <= MeshR /\ seededAt # NoEye
        /\ Away(c, seededAt) <= MeshR /\ quarantined \subseteq quarantined'
    BY <1>1 DEF DueMesh
  <2>6. c \in worklist
    BY <2>4, <2>5, DueKept
  <2> QED BY <2>1, <2>3, <2>6
<1>4. CASE MeshIdle
  <2>1. chunk' = chunk /\ worklist = {}
    BY <1>4 DEF MeshIdle
  <2>2. \A c \in Chunks : DueMesh(c)' => DueMesh(c)
    BY <1>1, <2>1 DEF DueMesh, AwaitsMesh, HasNeighbourData, Loaded
  <2> QED BY <2>1, <2>2 DEF DueSeeded
<1> QED BY <1>2, <1>3, <1>4 DEF Mesh

LEMMA DueStep ==
  ASSUME TypeOK, ClaimsInv, PassInv, DueSeeded, [Next]_vars
  PROVE  DueSeeded'
<1>1. CASE EditStep
  <2>1. PICK e \in Chunks, s \in Sides, id \in {edits + 1, 0} : Edit(e, s, id)
    BY <1>1, EditIs
  <2>2. /\ UNCHANGED <<eye, seededAt, quarantined, worklist>>
        /\ pendingFresh => pendingFresh'
    BY <2>1 DEF Edit
  <2> SUFFICES ASSUME NEW c \in Chunks, DueMesh(c)' PROVE c \in worklist' /\ pendingFresh'
    BY DEF DueSeeded
  <2>3. chunk'[c] = chunk[c] /\ (c \in failed => c \in failed')
    BY <2>1, EditMakes DEF DueMesh, AwaitsMesh
  <2>4. \A n \in Neighbours(c) : Loaded(n)' => Loaded(n)
    BY <2>1, EditMakes DEF Neighbours, Loaded
  <2>5. c \notin failed /\ AwaitsMesh(c) /\ eye # NoEye /\ Away(c, eye) <= MeshR
        /\ seededAt # NoEye /\ Away(c, seededAt) <= MeshR
    BY <2>2, <2>3 DEF DueMesh, AwaitsMesh
  <2> QED BY <2>2, <2>4, <2>5, DueKept
<1>2. CASE \E v \in Eyes : Begin(v)
  <2>1. PICK v \in Eyes : Begin(v)
    BY <1>2
  <2>2. /\ UNCHANGED <<seededAt, chunk, failed, quarantined, worklist, pendingFresh>>
        /\ seededAt = eye
    BY <2>1 DEF Begin, PassInv
  <2>3. \A c \in Chunks : DueMesh(c)' => DueMesh(c)
    BY <2>2 DEF DueMesh, AwaitsMesh, HasNeighbourData, Loaded
  <2> QED BY <2>2, <2>3 DEF DueSeeded
<1>3. CASE Gather
  <2> DEFINE free == {c \in Box(DataR) : ~Claimed(c) /\ c \notin Mixed}
  <2>1. /\ free \in SUBSET Chunks /\ StoreChunks(free, Generated)
        /\ UNCHANGED <<eye, seededAt, quarantined, failed>>
    BY <1>3 DEF Gather, Box
  <2> HIDE DEF free
  <2> QED BY <2>1, StoreDue
<1>4. CASE \/ \E c \in Chunks : SubmitRun(c)
           \/ GenerateIdle
           \/ \E w \in Workers : Work(w)
           \/ UNCHANGED vars
  <2>1. UNCHANGED <<eye, seededAt, chunk, failed, quarantined, worklist, pendingFresh>>
    BY <1>4 DEF SubmitRun, GenerateIdle, Work
  <2>2. \A c \in Chunks : DueMesh(c)' => DueMesh(c)
    BY <2>1 DEF DueMesh, AwaitsMesh, HasNeighbourData, Loaded
  <2> QED BY <2>1, <2>2 DEF DueSeeded
<1>5. CASE RemeshDirty
  <2>1. /\ UNCHANGED <<eye, seededAt, quarantined, worklist, pendingFresh>>
        /\ failed \subseteq failed'
    BY <1>5 DEF RemeshDirty
  <2>2. \A c \in Chunks : \/ chunk'[c] = chunk[c]
                          \/ Loaded(c) /\ chunk'[c].st \in {"ready", "air"}
    <3> DEFINE due == {d \in dirtyList : chunk[d].st = "dirty"}
               drawn(d) == [chunk[d] EXCEPT !.st = IF d \in Mixed THEN "ready" ELSE "air",
                              !.seen = IF d \in Mixed THEN Snapshot(chunk, d) ELSE NoMesh]
    <3>1. PICK T \in SUBSET due : \E lost \in {{}} \cup {{d} : d \in T \cap Mixed} :
            chunk' = [d \in Chunks |-> IF d \in T \ lost THEN drawn(d) ELSE chunk[d]]
      BY <1>5 DEF RemeshDirty
    <3>2. \A c \in Chunks : drawn(c).st \in {"ready", "air"}
      BY DEF TypeOK, Residents
    <3>3. \A c \in due : Loaded(c)
      BY DEF Loaded
    <3> HIDE DEF drawn, due
    <3>4. PICK lost : chunk' = [d \in Chunks |-> IF d \in T \ lost THEN drawn(d) ELSE chunk[d]]
      BY <3>1
    <3>5. \A c \in Chunks : (c \in due /\ chunk'[c] = drawn(c)) \/ chunk'[c] = chunk[c]
      BY <3>1, <3>4
    <3> QED BY <3>2, <3>3, <3>5
  <2> SUFFICES ASSUME NEW c \in Chunks, DueMesh(c)' PROVE c \in worklist' /\ pendingFresh'
    BY DEF DueSeeded
  <2>3. AwaitsMesh(c)
    BY <2>2 DEF DueMesh, AwaitsMesh
  <2>4. \A n \in Neighbours(c) : Loaded(n)' => Loaded(n)
    BY <2>2 DEF Neighbours, Loaded
  <2>5. c \notin failed /\ eye # NoEye /\ Away(c, eye) <= MeshR
        /\ seededAt # NoEye /\ Away(c, seededAt) <= MeshR
    BY <2>1 DEF DueMesh
  <2> QED BY <2>1, <2>3, <2>4, <2>5, DueKept
<1> QED BY <1>1, <1>2, <1>3, <1>4, <1>5, CrossDue, MeshDue, IntegrateDue, UploadDue
        DEF Next, Generate

\* What leaves the runs has been asked for, or is answered for.
LEMMA HolesStep ==
  ASSUME TypeOK, HolesListed, [Next]_vars
  PROVE  HolesListed'
<1>1. ASSUME UNCHANGED <<phase, eye, gatheredFor, holed, quarantined, generating, runs>>,
             \A c \in Chunks : Loaded(c) => Loaded(c)'
      PROVE  HolesListed'
  BY <1>1 DEF HolesListed, Box, Claimed
<1>2. CASE EditStep
  <2>1. PICK e \in Chunks, s \in Sides, id \in {edits + 1, 0} : Edit(e, s, id)
    BY <1>2, EditIs
  <2>2. \A c \in Chunks : Loaded(c) => Loaded(c)'
    BY <2>1, EditMakes DEF Loaded
  <2> QED BY <1>1, <2>1, <2>2 DEF Edit
<1>3. CASE (\E v \in Eyes : Begin(v)) \/ Cross
  BY <1>3 DEF Begin, Cross, HolesListed
<1>4. CASE Gather
  <2> DEFINE free == {c \in Box(DataR) : ~Claimed(c) /\ c \notin Mixed}
  <2>1. /\ free \in SUBSET Chunks /\ StoreChunks(free, Generated)
        /\ runs' = {c \in Box(DataR) \cap Mixed : ~Claimed(c) /\ <<"gen", c>> \notin quarantined}
        /\ UNCHANGED <<eye, generating, quarantined>>
    BY <1>4 DEF Gather, Box
  <2> SUFFICES ASSUME NEW c \in Box(DataR), ~Claimed(c)', <<"gen", c>> \notin quarantined
               PROVE  c \in runs'
    BY <2>1 DEF HolesListed, Box
  <2>2. c \in Chunks
    BY DEF Box
  <2>3. ~Loaded(c)' /\ c \notin generating
    BY <2>1 DEF Claimed
  <2>4. c \notin free
    BY <2>1, <2>3, StoreMakes DEF Loaded
  <2>5. ~Claimed(c)
    <3>1. chunk'[c] = chunk[c] \/ chunk'[c] = Remeshed(chunk[c])
      BY <2>1, <2>2, <2>4, StoreLeaves
    <3>2. Remeshed(chunk[c]).st = "needs"
      BY <2>2, RemadeFields DEF TypeOK
    <3> QED BY <2>3, <3>1, <3>2 DEF Claimed, Loaded
  <2> QED BY <2>1, <2>4, <2>5
<1>5. ASSUME NEW d \in Chunks, SubmitRun(d) PROVE HolesListed'
  <2>1. /\ UNCHANGED <<phase, eye, gatheredFor, holed, quarantined, chunk>>
        /\ runs' = runs \ {d} /\ phase = "lanes" /\ gatheredFor = eye
        /\ \/ <<"gen", d>> \in quarantined \/ Claimed(d)
           \/ generating' = generating \cup {d}
        /\ generating \subseteq generating'
    BY <1>5 DEF SubmitRun
  <2>2. \A c \in Chunks : Claimed(c) => Claimed(c)'
    BY <2>1 DEF Claimed, Loaded
  <2>3. <<"gen", d>> \in quarantined \/ Claimed(d)'
    BY <2>1, <2>2 DEF Claimed
  <2> QED BY <2>1, <2>2, <2>3 DEF HolesListed, Box
<1>6. CASE GenerateIdle \/ Mesh \/ (\E w \in Workers : Work(w)) \/ UNCHANGED vars
  <2>1. UNCHANGED <<phase, eye, gatheredFor, holed, quarantined, generating, runs>>
    BY <1>6 DEF GenerateIdle, Mesh, Evict, SubmitMesh, MeshIdle, Work
  <2>2. \A c \in Chunks : chunk'[c].st = chunk[c].st
    <3>1. CASE chunk' = chunk
      BY <3>1
    <3>2. CASE \E d \in Chunks : chunk' = [chunk EXCEPT ![d].building = TRUE]
      BY <3>2 DEF TypeOK, Residents
    <3> QED BY <1>6, <3>1, <3>2 DEF GenerateIdle, Mesh, Evict, SubmitMesh, MeshIdle, Work
  <2> QED BY <1>1, <2>1, <2>2 DEF Loaded
<1>7. CASE RemeshDirty
  <2>1. UNCHANGED <<phase, eye, gatheredFor, holed, quarantined, generating, runs, residency>>
    BY <1>7 DEF RemeshDirty
  <2>2. \A c \in Chunks : Loaded(c) => Loaded(c)'
    <3>1. \A c \in Chunks : chunk'[c] = chunk[c]
            \/ chunk'[c].st = (IF c \in Mixed THEN "ready" ELSE "air")
      <4> DEFINE drawn(d) == [chunk[d] EXCEPT !.st = IF d \in Mixed THEN "ready" ELSE "air",
                                !.seen = IF d \in Mixed THEN Snapshot(chunk, d) ELSE NoMesh]
      <4>1. PICK K : chunk' = [d \in Chunks |-> IF d \in K THEN drawn(d) ELSE chunk[d]]
        BY <1>7 DEF RemeshDirty
      <4>2. \A c \in Chunks : drawn(c).st = IF c \in Mixed THEN "ready" ELSE "air"
        BY DEF TypeOK, Residents
      <4> HIDE DEF drawn
      <4> QED BY <4>1, <4>2
    <3> QED BY <3>1 DEF Loaded
  <2> QED BY <1>1, <2>1, <2>2
<1>8. CASE Upload
  <2>1. UNCHANGED <<phase, eye, gatheredFor, holed, quarantined, generating, runs, residency>>
    BY <1>8 DEF Upload
  <2>2. \A c \in Chunks : Loaded(c) => Loaded(c)'
    <3> SUFFICES ASSUME NEW c \in Chunks, Loaded(c), chunk'[c].st = "absent" PROVE FALSE
      BY DEF Loaded
    <3>1. \/ chunk'[c] = Absent
          \/ chunk'[c].st = chunk[c].st
          \/ chunk'[c].st \in {"needs", "ready", "air"}
      BY <1>8, UploadMoves DEF Moves, Stays, Remade, Unloaded, Arrives, Drawn
    <3> DEFINE m == Head(uploads)
    <3>2. \/ chunk' = [chunk EXCEPT ![m.at].st = "ready", ![m.at].building = FALSE,
                                    ![m.at].seen = m.seen]
          \/ chunk' = [chunk EXCEPT ![m.at] = IF @.st = "needs" THEN Released(@) ELSE @]
      BY <1>8 DEF Upload, DropStale
    <3>3. m.at \in Chunks
      <4>1. m \in MeshJobs
        BY <1>8, HeadTailProperties DEF Upload, TypeOK
      <4> QED BY <4>1 DEF MeshJobs
    <3> HIDE DEF m
    <3>4. chunk[c] \in Residents
      BY DEF TypeOK
    <3>5. CASE chunk' = [chunk EXCEPT ![m.at].st = "ready", ![m.at].building = FALSE,
                                      ![m.at].seen = m.seen]
      <4>1. chunk'[c] = chunk[c]
            \/ chunk'[c] = [chunk[c] EXCEPT !.st = "ready", !.building = FALSE, !.seen = m.seen]
        BY <3>3, <3>5 DEF TypeOK
      <4> QED BY <3>4, <4>1 DEF Residents, Loaded
    <3>6. CASE chunk' = [chunk EXCEPT ![m.at] = IF @.st = "needs" THEN Released(@) ELSE @]
      <4>1. chunk'[c] = chunk[c] \/ chunk'[c] = Released(chunk[c])
        BY <3>3, <3>6 DEF TypeOK
      <4>2. chunk'[c].st = chunk[c].st
        BY <3>4, <4>1, RemadeFields
      <4> QED BY <4>2 DEF Loaded
    <3> QED BY <3>2, <3>5, <3>6
  <2> QED BY <1>1, <2>1, <2>2
<1>9. CASE Integrate
  <2>1. UNCHANGED <<phase, eye>>
    BY <1>9 DEF Integrate
  <2>2. CASE Returned
    <3>1. PICK G, M \in SUBSET Chunks : \E again :
            /\ Resolve(G, M, again)
            /\ holed \subseteq holed' /\ quarantined \subseteq quarantined'
            /\ \A c \in G : c \in again \/ c \in holed' \/ <<"gen", c>> \in quarantined'
      BY <2>2 DEF Returned
    <3>2. PICK again :
            /\ Resolve(G, M, again)
            /\ holed \subseteq holed' /\ quarantined \subseteq quarantined'
            /\ \A c \in G : c \in again \/ c \in holed' \/ <<"gen", c>> \in quarantined'
      BY <3>1
    <3>3. generating' = generating \ G /\ UNCHANGED runs
      BY <3>2 DEF Resolve
    <3>4. \A c \in Chunks : chunk'[c].st = chunk[c].st
      BY <3>2, ResolveMakes
    <3>5. CASE G \cap again # {}
      <4>1. gatheredFor' = NoEye
        BY <3>2, <3>5 DEF Resolve
      <4> QED BY <2>1, <4>1 DEF HolesListed, Box
    <3>6. CASE G \cap again = {}
      <4>1. UNCHANGED gatheredFor
        BY <3>2, <3>6 DEF Resolve
      <4>2. \A c \in G : c \in holed' \/ <<"gen", c>> \in quarantined'
        BY <3>2, <3>6
      <4>3. \A c \in Chunks : Claimed(c) => Claimed(c)' \/ c \in G
        BY <3>3, <3>4 DEF Claimed, Loaded
      <4> QED BY <2>1, <3>2, <3>3, <4>1, <4>2, <4>3 DEF HolesListed, Box
    <3> QED BY <3>5, <3>6
  <2>3. CASE Column
    <3>1. PICK j \in GenJobs : AcceptColumn(j)
      BY <2>3 DEF Column
    <3> DEFINE S == IF j.at \in Box(DataR) /\ ~Loaded(j.at) THEN {j.at} ELSE {}
    <3>2. /\ S \in SUBSET Chunks /\ StoreChunks(S, j.edits) /\ generating' = generating \ {j.at}
          /\ UNCHANGED <<quarantined, runs, gatheredFor, holed>> /\ j.at \in Chunks
      BY <3>1 DEF GenJobs, AcceptColumn
    <3>3. j.at \in Box(DataR) => Loaded(j.at) \/ j.at \in S
      OBVIOUS
    <3> HIDE DEF S
    <3>4. \A c \in Chunks : Loaded(c) \/ c \in S => Loaded(c)'
      <4> SUFFICES ASSUME NEW c \in Chunks, Loaded(c) \/ c \in S PROVE chunk'[c].st # "absent"
        BY DEF Loaded
      <4>1. CASE c \in S
        BY <3>2, <4>1, StoreMakes
      <4>2. CASE c \notin S
        <5>1. chunk'[c] = chunk[c] \/ chunk'[c] = Remeshed(chunk[c])
          BY <3>2, <4>2, StoreLeaves
        <5>2. Remeshed(chunk[c]).st = "needs"
          BY RemadeFields DEF TypeOK
        <5> QED BY <4>2, <5>1, <5>2 DEF Loaded
      <4> QED BY <4>1, <4>2
    <3>5. \A c \in Box(DataR) : Claimed(c) => Claimed(c)'
      BY <3>2, <3>3, <3>4 DEF Claimed, Box
    <3> QED BY <2>1, <3>2, <3>5 DEF HolesListed, Box
  <2>4. CASE MeshBack
    <3>1. PICK j \in MeshJobs : AcceptMesh(j)
      BY <2>4 DEF MeshBack
    <3>2. UNCHANGED <<gatheredFor, holed, quarantined, generating, runs>> /\ j.at \in Chunks
      BY <3>1 DEF AcceptMesh, MeshJobs
    <3>3. \A c \in Chunks : chunk'[c].st = chunk[c].st
      <4>1. CASE chunk' = chunk
        BY <4>1
      <4>2. CASE DropStale(j.at)
        <5> SUFFICES ASSUME NEW c \in Chunks PROVE chunk'[c].st = chunk[c].st
          OBVIOUS
        <5>1. chunk'[c] = chunk[c] \/ chunk'[c] = Released(chunk[c])
          BY <3>2, <4>2 DEF DropStale, TypeOK
        <5> QED BY ZenonT(60), <5>1, RemadeFields DEF TypeOK
      <4> QED BY <3>1, <4>1, <4>2 DEF AcceptMesh
    <3> QED BY <1>1, <2>1, <3>2, <3>3 DEF Loaded
  <2> QED BY <1>9, <2>2, <2>3, <2>4, IntegrateIs
<1> QED BY <1>2, <1>3, <1>4, <1>5, <1>6, <1>7, <1>8, <1>9 DEF Next, Generate

\* What is due is in the lane's own set and the lane's flag is up, through every
\* order of passes, edits, loads, results, strikes and moves of the eye: an
\* edited chunk is remeshed, a chunk of the mesh box whose neighbours have data
\* is meshed, a hole of the data box is generated.
THEOREM NothingLeftOut == Spec => []NothingForgotten
<1>1. Init => ForgetInv
  <2> SUFFICES ASSUME Init PROVE ForgetInv
    OBVIOUS
  <2>1. PassInv
    BY DEF Init, PassInv
  <2>2. DirtyListed /\ DueSeeded /\ HolesListed
    BY DEF Init, DirtyListed, DueSeeded, DueMesh, HolesListed, Box, Absent
  <2> QED BY <2>1, <2>2 DEF ForgetInv
<1>2. TypeOK /\ ClaimsInv /\ ForgetInv /\ [Next]_vars => ForgetInv'
  BY PassStep, DirtyStep, DueStep, HolesStep DEF ForgetInv
<1>3. TypeOK /\ ForgetInv => NothingForgotten
  BY ForgetMeans
<1> QED BY <1>1, <1>2, <1>3, TypeCorrect, ClaimsInvHolds, PTL DEF Spec

-----------------------------------------------------------------------------
(* What is loaded is what the overlay says, as long as no edit restores the *)
(* generated block.  (When one does, a job that replayed it is believed: the *)
(* run StaleReplay.)                                                        *)

\* Where the jobs and the uploads of the next state come from.
NewGen(j) ==
  \E c \in Chunks : j = [kind |-> "gen", at |-> c, edits |-> overlay[c]] /\ UNCHANGED overlay

NewMesh(j) ==
  \E c \in Chunks :
    /\ j = [kind |-> "mesh", at |-> c, rev |-> chunk[c].rev, seen |-> Snapshot(chunk, c)]
    /\ Loaded(c) /\ HasNeighbourData(c)

LEMMA HeldFrom ==
  ASSUME TypeOK, [Next]_vars, NEW j \in HeldJobs'
  PROVE  j \in HeldJobs \/ NewGen(j) \/ NewMesh(j)
<1>1. CASE UNCHANGED poolVars
  BY <1>1, HeldStays
<1>2. CASE \E v \in Eyes : Begin(v)
  BY <1>2, PublishKeeps DEF Begin
<1>3. CASE \E w \in Workers : Work(w)
  BY <1>3, WorkerKeeps DEF Work, TypeOK
<1>4. CASE Integrate
  BY <1>4, ReceiveTakes DEF Integrate, TypeOK
<1>5. ASSUME NEW c \in Chunks, SubmitRun(c)
      PROVE  j \in HeldJobs \/ NewGen(j)
  <2> DEFINE g == [kind |-> "gen", at |-> c, edits |-> overlay[c]]
  <2>1. CASE Submit(g)
    <3>1. g \in Jobs /\ g # NoJob
      BY NoJobAssumption DEF Jobs, GenJobs, TypeOK
    <3>2. HeldJobs' = HeldJobs \cup {g}
      BY <2>1, <3>1, SubmitAdds DEF TypeOK
    <3>3. UNCHANGED overlay
      BY <1>5 DEF SubmitRun
    <3> QED BY <3>2, <3>3 DEF NewGen
  <2>2. CASE UNCHANGED poolVars
    BY <2>2, HeldStays
  <2> QED BY <1>5, <2>1, <2>2 DEF SubmitRun
<1>6. ASSUME NEW c \in Chunks, SubmitMesh(c)
      PROVE  j \in HeldJobs \/ NewMesh(j)
  <2> DEFINE g == [kind |-> "mesh", at |-> c, rev |-> chunk[c].rev, seen |-> Snapshot(chunk, c)]
  <2>1. g \in Jobs /\ g # NoJob
    <3>1. chunk[c].rev \in Nat /\ Snapshot(chunk, c) \in Seen
      BY SnapshotTyped DEF TypeOK, Residents
    <3> QED BY <3>1, NoJobAssumption DEF Jobs, MeshJobs
  <2>2. HeldJobs' = HeldJobs \cup {g}
    BY <1>6, <2>1, SubmitAdds DEF SubmitMesh, TypeOK
  <2>3. Loaded(c) /\ HasNeighbourData(c)
    BY <1>6 DEF SubmitMesh, Blocked, Loaded
  <2> QED BY <2>2, <2>3 DEF NewMesh
<1>7. EditStep \/ Cross \/ Gather \/ GenerateIdle \/ MeshIdle \/ RemeshDirty \/ Upload
        \/ (\E c \in Chunks : Evict(c)) => UNCHANGED poolVars
  BY DEF EditStep, Edit, Cross, Gather, GenerateIdle, Evict, MeshIdle, RemeshDirty, Upload
<1> QED BY <1>1, <1>2, <1>3, <1>4, <1>5, <1>6, <1>7 DEF Next, Generate, Mesh

LEMMA UploadsFrom ==
  ASSUME TypeOK, [Next]_vars, NEW i \in DOMAIN uploads'
  PROVE  \/ \E k \in DOMAIN uploads : uploads'[i] = uploads[k]
         \/ uploads'[i] \in HeldJobs /\ uploads'[i] \in MeshJobs
<1>1. uploads \in Seq(MeshJobs)
  BY DEF TypeOK
<1>2. CASE UNCHANGED uploads
  BY <1>2
<1>3. CASE Cross
  <2>1. PICK K \in SUBSET (1..Len(uploads)) : uploads' = Picked(uploads, K)
    <3> DEFINE far == {c \in Chunks : /\ Loaded(c) /\ c \notin Box(UnloadR)
                                      /\ seededAt # NoEye => Away(c, seededAt) <= UnloadR}
               live == {n \in DOMAIN uploads : uploads[n].at \notin far /\ Applies(uploads[n])}
    <3>1. live \in SUBSET (1..Len(uploads))
      BY <1>1
    <3>2. uploads' = Picked(uploads, live)
      BY <1>3 DEF Cross
    <3> HIDE DEF live
    <3> QED BY <3>1, <3>2
  <2>2. \E k \in K : uploads'[i] = uploads[k]
    BY <1>1, <2>1, PickedIs
  <2> QED BY <1>1, <2>1, <2>2
<1>4. CASE Upload
  <2>1. uploads # <<>> /\ uploads' = Tail(uploads)
    BY <1>4 DEF Upload
  <2>2. i + 1 \in DOMAIN uploads /\ uploads'[i] = uploads[i + 1]
    BY <1>1, <2>1
  <2> QED BY <2>2
<1>5. CASE Integrate
  <2>1. CASE MeshBack
    <3>1. PICK j \in MeshJobs : j \in HeldJobs /\ AcceptMesh(j)
      BY <2>1 DEF MeshBack
    <3>2. UNCHANGED uploads \/ uploads' = Append(uploads, j)
      BY <3>1 DEF AcceptMesh
    <3>3. CASE uploads' = Append(uploads, j)
      <4>1. /\ i \in DOMAIN uploads \/ i = Len(uploads) + 1
            /\ uploads'[Len(uploads) + 1] = j
            /\ i \in DOMAIN uploads => uploads'[i] = uploads[i]
        BY <1>1, <3>3
      <4> QED BY <3>1, <4>1
    <3> QED BY <1>2, <3>2, <3>3
  <2>2. CASE Returned \/ Column
    <3>1. UNCHANGED uploads
      BY <2>2 DEF Returned, Column, Resolve, AcceptColumn
    <3> QED BY <1>2, <3>1
  <2> QED BY <1>5, <2>1, <2>2, IntegrateIs
<1>6. EditStep \/ (\E v \in Eyes : Begin(v)) \/ Generate \/ Mesh \/ RemeshDirty
        \/ (\E w \in Workers : Work(w)) \/ UNCHANGED vars => UNCHANGED uploads
  BY DEF EditStep, Edit, Begin, Generate, Gather, SubmitRun, GenerateIdle, Mesh, Evict, SubmitMesh,
     MeshIdle, RemeshDirty, Work
<1> QED BY <1>2, <1>3, <1>4, <1>5, <1>6 DEF Next

\* A generate job carries no edit that the overlay has lost.
JobsCarryOverlay ==
  \A j \in HeldJobs : j \in GenJobs =>
    \A s \in Sides : overlay[j.at][s] = 0 => j.edits[s] = 0

VoxelsInv == VoxelsAreOverlay /\ JobsCarryOverlay

LEMMA EditOverlay ==
  ASSUME TypeOK, NEW e \in Chunks, NEW s \in Sides, NEW id, Edit(e, s, id)
  PROVE  /\ \A c \in Chunks : c # e => overlay'[c] = overlay[c]
         /\ overlay'[e] = [overlay[e] EXCEPT ![s] = id]
         /\ overlay'[e][s] = id
         /\ \A t \in Sides : t # s => overlay'[e][t] = overlay[e][t]
<1>1. overlay' = [overlay EXCEPT ![e][s] = id]
  BY DEF Edit
<1>2. overlay[e] \in Voxels
  BY DEF TypeOK
<1> QED BY <1>1, <1>2 DEF TypeOK, Voxels

LEMMA EditVoxels ==
  ASSUME ~Reverts, TypeOK, VoxelsInv, EditStep
  PROVE  VoxelsInv'
<1>1. PICK e \in Chunks, s \in Sides, id \in {edits + 1, 0} :
        Edit(e, s, id) /\ (id = 0 => Reverts)
  BY EditIs
<1>2. id # 0
  BY <1>1
<1>3. VoxelsAreOverlay'
  <2> SUFFICES ASSUME NEW c \in Chunks, Loaded(c)' PROVE chunk'[c].vox = overlay'[c]
    BY DEF VoxelsAreOverlay
  <2>1. CASE /\ Loaded(c) /\ c \in {e, e + s}
             /\ chunk'[c].vox = IF c = e THEN [chunk[c].vox EXCEPT ![s] = id] ELSE chunk[c].vox
    <3>1. chunk[c].vox = overlay[c]
      BY <2>1 DEF VoxelsInv, VoxelsAreOverlay
    <3>2. overlay'[e] = [overlay[e] EXCEPT ![s] = id] /\ (c # e => overlay'[c] = overlay[c])
      BY <1>1, EditOverlay
    <3>3. CASE c = e
      BY <2>1, <3>1, <3>2, <3>3
    <3>4. CASE c # e
      BY <2>1, <3>1, <3>2, <3>4
    <3> QED BY <3>3, <3>4
  <2>2. CASE ~(Loaded(c) /\ c \in {e, e + s}) /\ chunk'[c] = chunk[c]
    <3>1. Loaded(c) /\ c # e
      BY <2>2 DEF Loaded
    <3> QED BY ZenonT(60), <1>1, <2>2, <3>1, EditOverlay DEF VoxelsInv, VoxelsAreOverlay
  <2> QED BY <1>1, <2>1, <2>2, EditMakes
<1>4. JobsCarryOverlay'
  <2> SUFFICES ASSUME NEW j \in HeldJobs', j \in GenJobs, NEW t \in Sides, overlay'[j.at][t] = 0
               PROVE  j.edits[t] = 0
    BY DEF JobsCarryOverlay
  <2>1. j \in HeldJobs
    BY <1>1, HeldStays DEF Edit
  <2>2. j.at \in Chunks
    BY DEF GenJobs
  <2>3. overlay[j.at][t] = 0
    BY <1>1, <1>2, <2>2, EditOverlay
  <2> QED BY <2>1, <2>3 DEF VoxelsInv, JobsCarryOverlay
<1> QED BY <1>3, <1>4 DEF VoxelsInv

LEMMA VoxelsStep ==
  ASSUME ~Reverts, TypeOK, VoxelsInv, [Next]_vars
  PROVE  VoxelsInv'
<1>1. CASE EditStep
  BY <1>1, EditVoxels
<1>2. CASE (\A c \in Chunks : Moves(c)) /\ UNCHANGED overlay
  <2>1. VoxelsAreOverlay'
    <3> SUFFICES ASSUME NEW c \in Chunks, Loaded(c)' PROVE chunk'[c].vox = overlay[c]
      BY <1>2 DEF VoxelsAreOverlay
    <3>1. ~Unloaded(c)
      BY DEF Unloaded, Absent, Loaded
    <3>2. CASE Stays(c) \/ Remade(c) \/ Drawn(c)
      <4>1. Loaded(c) /\ chunk'[c].vox = chunk[c].vox
        BY <3>2 DEF Stays, Remade, Drawn, Loaded
      <4> QED BY <4>1 DEF VoxelsInv, VoxelsAreOverlay
    <3>3. CASE Arrives(c)
      <4>1. PICK base \in Voxels : MadeFrom(c, base) /\ chunk'[c].vox = Replayed(c, base)
        BY <3>3 DEF Arrives
      <4>2. \A s \in Sides : overlay[c][s] = 0 => base[s] = 0
        <5>1. CASE base = Generated
          BY <5>1 DEF Generated
        <5>2. CASE \E j \in HeldJobs : j \in GenJobs /\ j.at = c /\ j.edits = base
          BY <5>2 DEF VoxelsInv, JobsCarryOverlay
        <5> QED BY <4>1, <5>1, <5>2 DEF MadeFrom
      <4>3. overlay[c] \in Voxels
        BY DEF TypeOK
      <4>4. Replayed(c, base) = [s \in Sides |-> overlay[c][s]]
        BY <4>2 DEF Replayed
      <4> QED BY <4>1, <4>3, <4>4 DEF Voxels
    <3> QED BY <1>2, <3>1, <3>2, <3>3 DEF Moves
  <2>2. JobsCarryOverlay'
    <3> SUFFICES ASSUME NEW j \in HeldJobs', j \in GenJobs, NEW t \in Sides, overlay[j.at][t] = 0
                 PROVE  j.edits[t] = 0
      BY <1>2 DEF JobsCarryOverlay
    <3>1. CASE j \in HeldJobs
      BY <3>1 DEF VoxelsInv, JobsCarryOverlay
    <3>2. CASE NewGen(j)
      BY <3>2 DEF NewGen
    <3>3. ~NewMesh(j)
      BY DEF NewMesh, GenJobs
    <3> QED BY <3>1, <3>2, <3>3, HeldFrom
  <2> QED BY <2>1, <2>2 DEF VoxelsInv
<1> QED BY <1>1, <1>2, ChunksMove

LEMMA InitHoldsNothing ==
  ASSUME Init
  PROVE  HeldJobs = {}
<1> SUFFICES ASSUME NEW j, Held(j) PROVE FALSE
  BY HeldIs
<1>1. queue = NoJobs /\ running = [w \in Workers |-> NoJob]
      /\ dropped = [w \in Workers |-> NoJobs] /\ results = <<>>
  BY DEF Init, PoolInit
<1> QED BY <1>1 DEF Held, InQueue, InHand, InBatch, InResults, NoJobs

LEMMA VoxelsInvHolds ==
  ASSUME ~Reverts
  PROVE  Spec => []VoxelsInv
<1>1. Init => VoxelsInv
  <2> SUFFICES ASSUME Init PROVE VoxelsInv
    OBVIOUS
  <2>1. VoxelsAreOverlay
    BY DEF Init, VoxelsAreOverlay, Loaded, Absent
  <2>2. HeldJobs = {}
    BY InitHoldsNothing
  <2> QED BY <2>1, <2>2 DEF VoxelsInv, JobsCarryOverlay
<1>2. TypeOK /\ VoxelsInv /\ [Next]_vars => VoxelsInv'
  BY VoxelsStep
<1> QED BY <1>1, <1>2, TypeCorrect, PTL DEF Spec

\* A loaded chunk holds the generated blocks with the overlay over them,
\* whatever was edited, loaded, unloaded and loaded again while a worker
\* generated it with the edits of an earlier time.
THEOREM VoxelsCurrent ==
  ASSUME ~Reverts
  PROVE  Spec => []VoxelsAreOverlay
<1>1. VoxelsInv => VoxelsAreOverlay
  BY DEF VoxelsInv
<1> QED BY <1>1, VoxelsInvHolds, PTL

-----------------------------------------------------------------------------
(* What is drawn is current.  Each mesh under way says of which residency it *)
(* is and of which revision, and these two tell whether what it saw is still *)
(* what the overlay says.                                                    *)

\* What a chunk sees of its neighbours when both are loaded.
LeftOf(c) == IF c - 1 \in Chunks THEN overlay[c - 1][1] ELSE Missing
RightOf(c) == IF c + 1 \in Chunks THEN overlay[c + 1][-1] ELSE Missing

ResidencyShown == \A c \in Chunks : Loaded(c) => chunk[c].of = residency[c]

Fits(m) ==
  /\ m.seen.of <= residency[m.at]
  /\ Loaded(m.at) /\ m.seen.of = chunk[m.at].of =>
       /\ m.rev <= chunk[m.at].rev
       /\ m.rev = chunk[m.at].rev =>
            m.seen.own = overlay[m.at] /\ m.seen.left = LeftOf(m.at) /\ m.seen.right = RightOf(m.at)

MeshesFit ==
  /\ \A j \in HeldJobs : j \in MeshJobs => Fits(j)
  /\ \A i \in DOMAIN uploads : Fits(uploads[i])

ReadyFits(c) ==
  chunk[c].st = "ready" /\ chunk[c].seen.of = chunk[c].of =>
    /\ chunk[c].seen.own = overlay[c]
    /\ c - 1 \in Chunks /\ Loaded(c - 1) => chunk[c].seen.left = overlay[c - 1][1]
    /\ c + 1 \in Chunks /\ Loaded(c + 1) => chunk[c].seen.right = overlay[c + 1][-1]

ReadyFit == \A c \in Chunks : ReadyFits(c)

DrawnInv == ResidencyShown /\ MeshesFit /\ ReadyFit

\* Loaded chunks see the overlay.
LEMMA SnapshotShows ==
  ASSUME TypeOK, VoxelsAreOverlay, NEW c \in Chunks, Loaded(c)
  PROVE  LET s == Snapshot(chunk, c) IN
         /\ s.own = overlay[c] /\ s.of = chunk[c].of
         /\ c - 1 \in Chunks /\ Loaded(c - 1) => s.left = overlay[c - 1][1]
         /\ c + 1 \in Chunks /\ Loaded(c + 1) => s.right = overlay[c + 1][-1]
         /\ c - 1 \notin Chunks => s.left = Missing
         /\ c + 1 \notin Chunks => s.right = Missing
<1>1. chunk[c].vox = overlay[c]
  BY DEF VoxelsAreOverlay
<1>2. /\ c - 1 \in Chunks /\ Loaded(c - 1) => CellOf(chunk, c - 1, 1) = overlay[c - 1][1]
      /\ c + 1 \in Chunks /\ Loaded(c + 1) => CellOf(chunk, c + 1, -1) = overlay[c + 1][-1]
      /\ c - 1 \notin Chunks => CellOf(chunk, c - 1, 1) = Missing
      /\ c + 1 \notin Chunks => CellOf(chunk, c + 1, -1) = Missing
  BY DEF VoxelsAreOverlay, CellOf, Loaded
<1> QED BY <1>1, <1>2 DEF Snapshot

LEMMA NewMeshFits ==
  ASSUME TypeOK, VoxelsAreOverlay, ResidencyShown, NEW j, NewMesh(j)
  PROVE  Fits(j)
<1>1. PICK c \in Chunks :
        /\ j = [kind |-> "mesh", at |-> c, rev |-> chunk[c].rev, seen |-> Snapshot(chunk, c)]
        /\ Loaded(c) /\ HasNeighbourData(c)
  BY DEF NewMesh
<1> DEFINE s == Snapshot(chunk, c)
<1>2. j.at = c /\ j.rev = chunk[c].rev /\ j.seen = s
  BY <1>1
<1>3. /\ c - 1 \in Chunks => Loaded(c - 1)
      /\ c + 1 \in Chunks => Loaded(c + 1)
  BY <1>1 DEF HasNeighbourData, Neighbours
<1>4. /\ s.own = overlay[c] /\ s.of = chunk[c].of
      /\ s.left = LeftOf(c) /\ s.right = RightOf(c)
  BY <1>1, <1>3, SnapshotShows DEF LeftOf, RightOf
<1>5. chunk[c].of = residency[c] /\ residency[c] \in Nat /\ chunk[c].rev \in Nat
  BY <1>1 DEF ResidencyShown, TypeOK, Residents
<1> HIDE DEF s
<1> QED BY <1>2, <1>4, <1>5 DEF Fits

\* An edit changes what is seen of the edited chunk and of the chunk behind
\* the edited border, and of no other.
LEMMA EditSeenNear ==
  ASSUME TypeOK, NEW e \in Chunks, NEW s \in Sides, NEW id, Edit(e, s, id),
         NEW c \in Chunks, c # e, c # e + s
  PROVE  /\ overlay'[c] = overlay[c]
         /\ c - 1 \in Chunks => overlay'[c - 1][1] = overlay[c - 1][1]
         /\ c + 1 \in Chunks => overlay'[c + 1][-1] = overlay[c + 1][-1]
<1>1. overlay'[c] = overlay[c]
  BY EditOverlay
<1>2. ASSUME c - 1 \in Chunks PROVE overlay'[c - 1][1] = overlay[c - 1][1]
  <2>1. CASE c - 1 # e
    BY ZenonT(60), <1>2, <2>1, EditOverlay
  <2>2. CASE c - 1 = e
    <3>1. s # 1
      BY <2>2, ChunkAssumption
    <3> QED BY <2>2, <3>1, EditOverlay DEF Sides
  <2> QED BY <2>1, <2>2
<1>3. ASSUME c + 1 \in Chunks PROVE overlay'[c + 1][-1] = overlay[c + 1][-1]
  <2>1. CASE c + 1 # e
    BY <1>3, <2>1, EditOverlay
  <2>2. CASE c + 1 = e
    <3>1. s # -1
      BY <2>2, ChunkAssumption
    <3> QED BY <2>2, <3>1, EditOverlay DEF Sides
  <2> QED BY <2>1, <2>2
<1> QED BY <1>1, <1>2, <1>3

\* A mesh under way stays true, or can no longer be taken for current.
LEMMA FitsStep ==
  ASSUME TypeOK, ResidencyShown, [Next]_vars, NEW m \in MeshJobs, Fits(m)
  PROVE  Fits(m)'
<1> DEFINE c == m.at
<1>1. /\ c \in Chunks /\ m.rev \in Nat /\ m.seen.of \in Nat
  BY DEF MeshJobs, Seen
<1>2. /\ chunk[c].rev \in Nat /\ chunk[c].of \in Nat /\ residency[c] \in Nat
  BY <1>1 DEF TypeOK, Residents
<1>3. CASE EditStep
  <2>1. PICK e \in Chunks, s \in Sides, id \in {edits + 1, 0} : Edit(e, s, id)
    BY <1>3, EditIs
  <2>2. UNCHANGED residency
    BY <2>1 DEF Edit
  <2>3. CASE Loaded(c) /\ chunk'[c].rev = chunk[c].rev + 1 /\ chunk'[c].of = chunk[c].of
    BY <1>1, <1>2, <2>2, <2>3 DEF Fits
  <2>4. CASE ~(Loaded(c) /\ c \in {e, e + s}) /\ chunk'[c] = chunk[c]
    <3>1. CASE ~Loaded(c)
      BY <2>2, <2>4, <3>1 DEF Fits, Loaded
    <3>2. CASE c # e /\ c # e + s
      <4>1. /\ overlay'[c] = overlay[c]
            /\ c - 1 \in Chunks => overlay'[c - 1][1] = overlay[c - 1][1]
            /\ c + 1 \in Chunks => overlay'[c + 1][-1] = overlay[c + 1][-1]
        BY <1>1, <2>1, <3>2, EditSeenNear
      <4>2. LeftOf(c)' = LeftOf(c) /\ RightOf(c)' = RightOf(c)
        BY <4>1 DEF LeftOf, RightOf
      <4> QED BY <2>2, <2>4, <4>1, <4>2 DEF Fits, Loaded
    <3> QED BY <2>4, <3>1, <3>2
  <2> HIDE DEF c
  <2> QED BY <1>1, <2>1, <2>3, <2>4, EditMakes
<1>4. CASE Moves(c) /\ UNCHANGED overlay
  <2>1. LeftOf(c)' = LeftOf(c) /\ RightOf(c)' = RightOf(c) /\ overlay'[c] = overlay[c]
    BY <1>4 DEF LeftOf, RightOf
  <2>2. CASE Stays(c) \/ Drawn(c)
    <3>1. /\ Loaded(c)' => Loaded(c)
          /\ chunk'[c].rev = chunk[c].rev /\ chunk'[c].of = chunk[c].of
          /\ residency'[c] = residency[c]
      BY <2>2 DEF Stays, Drawn, Loaded
    <3> QED BY <2>1, <3>1 DEF Fits
  <2>3. CASE Remade(c)
    <3>1. /\ Loaded(c) /\ chunk'[c].rev = chunk[c].rev + 1 /\ chunk'[c].of = chunk[c].of
          /\ residency'[c] = residency[c]
      BY <2>3 DEF Remade, Loaded
    <3> QED BY <1>1, <1>2, <3>1 DEF Fits
  <2>4. CASE Unloaded(c)
    <3>1. ~Loaded(c)' /\ residency'[c] = residency[c]
      BY <2>4 DEF Unloaded, Absent, Loaded
    <3> QED BY <3>1 DEF Fits
  <2>5. CASE Arrives(c)
    <3>1. chunk'[c].of = residency[c] + 1 /\ residency'[c] = residency[c] + 1
      BY <2>5 DEF Arrives
    <3> QED BY <1>1, <1>2, <3>1 DEF Fits
  <2> QED BY <1>4, <2>2, <2>3, <2>4, <2>5 DEF Moves
<1> QED BY <1>1, <1>3, <1>4, ChunksMove

LEMMA ResidencyStep ==
  ASSUME TypeOK, ResidencyShown, [Next]_vars
  PROVE  ResidencyShown'
<1> SUFFICES ASSUME NEW c \in Chunks, Loaded(c)' PROVE chunk'[c].of = residency'[c]
  BY DEF ResidencyShown
<1>1. CASE EditStep
  <2>1. PICK e \in Chunks, s \in Sides, id \in {edits + 1, 0} : Edit(e, s, id)
    BY <1>1, EditIs
  <2>2. Loaded(c) /\ chunk'[c].of = chunk[c].of
    BY <2>1, EditMakes DEF Loaded
  <2> QED BY <2>1, <2>2 DEF Edit, ResidencyShown
<1>2. CASE Moves(c)
  <2>1. ~Unloaded(c)
    BY DEF Unloaded, Absent, Loaded
  <2>2. CASE Stays(c) \/ Remade(c) \/ Drawn(c)
    <3>1. Loaded(c) /\ chunk'[c].of = chunk[c].of /\ residency'[c] = residency[c]
      BY <2>2 DEF Stays, Remade, Drawn, Loaded
    <3> QED BY <3>1 DEF ResidencyShown
  <2>3. CASE Arrives(c)
    BY <2>3 DEF Arrives
  <2> QED BY <1>2, <2>1, <2>2, <2>3 DEF Moves
<1> QED BY <1>1, <1>2, ChunksMove

LEMMA MeshesStep ==
  ASSUME TypeOK, VoxelsAreOverlay, ResidencyShown, MeshesFit, [Next]_vars
  PROVE  MeshesFit'
<1>1. ASSUME NEW j \in HeldJobs', j \in MeshJobs PROVE Fits(j)'
  <2>1. ~NewGen(j)
    BY <1>1 DEF NewGen, MeshJobs
  <2>2. Fits(j)
    BY <1>1, <2>1, HeldFrom, NewMeshFits DEF MeshesFit
  <2> QED BY <1>1, <2>2, FitsStep
<1>2. ASSUME NEW i \in DOMAIN uploads' PROVE Fits(uploads[i])'
  <2>1. PICK m \in MeshJobs : uploads'[i] = m /\ Fits(m)
    BY <1>2, UploadsFrom, UploadTyped DEF MeshesFit
  <2>2. Fits(m)'
    BY <2>1, FitsStep
  <2> QED BY <2>1, <2>2 DEF Fits, LeftOf, RightOf, Loaded
<1> QED BY <1>1, <1>2 DEF MeshesFit

\* A drawn chunk that an edit leaves drawn, or that a step that is no edit
\* leaves or makes drawn.
LEMMA ReadyStep ==
  ASSUME TypeOK, VoxelsAreOverlay, ResidencyShown, MeshesFit, ReadyFit, [Next]_vars,
         NEW c \in Chunks
  PROVE  ReadyFits(c)'
<1> SUFFICES ASSUME chunk'[c].st = "ready", chunk'[c].seen.of = chunk'[c].of
             PROVE  /\ chunk'[c].seen.own = overlay'[c]
                    /\ c - 1 \in Chunks /\ Loaded(c - 1)' => chunk'[c].seen.left = overlay'[c - 1][1]
                    /\ c + 1 \in Chunks /\ Loaded(c + 1)' => chunk'[c].seen.right = overlay'[c + 1][-1]
  BY DEF ReadyFits
<1>1. CASE EditStep
  <2>1. PICK e \in Chunks, s \in Sides, id \in {edits + 1, 0} : Edit(e, s, id)
    BY <1>1, EditIs
  <2>2. chunk'[c] = chunk[c] /\ c # e /\ c # e + s
    BY <2>1, EditMakes DEF Loaded
  <2>3. /\ overlay'[c] = overlay[c]
        /\ c - 1 \in Chunks => overlay'[c - 1][1] = overlay[c - 1][1]
        /\ c + 1 \in Chunks => overlay'[c + 1][-1] = overlay[c + 1][-1]
    BY <2>1, <2>2, EditSeenNear
  <2>4. \A n \in Chunks : Loaded(n)' => Loaded(n)
    BY <2>1, EditMakes DEF Loaded
  <2>5. ReadyFits(c)
    BY DEF ReadyFit
  <2> QED BY <2>2, <2>3, <2>4, <2>5 DEF ReadyFits
<1>2. CASE (\A n \in Chunks : Moves(n)) /\ BordersHold /\ UNCHANGED overlay
  <2>1. ASSUME NEW n \in Neighbours(c), Loaded(n)' PROVE Loaded(n)
    <3>1. n \in Chunks /\ residency'[n] = residency[n] /\ residency[n] \in Nat
      BY <1>2 DEF BordersHold, Neighbours, TypeOK
    <3>2. ~Arrives(n)
      BY <3>1 DEF Arrives
    <3>3. ~Unloaded(n)
      BY <2>1 DEF Unloaded, Absent, Loaded
    <3>4. Stays(n) \/ Remade(n) \/ Drawn(n)
      BY <1>2, <3>1, <3>2, <3>3 DEF Moves
    <3> QED BY <2>1, <3>4 DEF Stays, Remade, Drawn, Loaded
  <2>2. /\ c - 1 \in Chunks /\ Loaded(c - 1)' => Loaded(c - 1)
        /\ c + 1 \in Chunks /\ Loaded(c + 1)' => Loaded(c + 1)
    BY <2>1 DEF Neighbours
  <2>3. ~Unloaded(c) /\ ~Remade(c) /\ ~Arrives(c)
    BY DEF Unloaded, Absent, Remade, Arrives
  <2>4. CASE Stays(c)
    <3>1. ReadyFits(c)
      BY DEF ReadyFit
    <3>2. chunk[c].st = "ready" /\ chunk'[c].seen = chunk[c].seen /\ chunk'[c].of = chunk[c].of
      BY <2>4 DEF Stays
    <3> QED BY <1>2, <2>2, <3>1, <3>2 DEF ReadyFits
  <2>5. CASE Drawn(c)
    <3>1. Loaded(c) /\ chunk'[c].of = chunk[c].of
      BY <2>5 DEF Drawn
    <3>2. CASE chunk'[c].seen = Snapshot(chunk, c)
      BY <1>2, <2>2, <3>1, <3>2, SnapshotShows
    <3>3. ASSUME NEW i \in DOMAIN uploads, uploads[i].at = c, uploads[i].rev = chunk[c].rev,
                 chunk'[c].seen = uploads[i].seen
          PROVE  /\ chunk'[c].seen.own = overlay[c]
                 /\ chunk'[c].seen.left = LeftOf(c) /\ chunk'[c].seen.right = RightOf(c)
      <4>1. Fits(uploads[i])
        BY DEF MeshesFit
      <4> QED BY <3>1, <3>3, <4>1 DEF Fits
    <3>4. CASE \E i \in DOMAIN uploads : /\ uploads[i].at = c /\ uploads[i].rev = chunk[c].rev
                                         /\ chunk'[c].seen = uploads[i].seen
      <4>1. /\ chunk'[c].seen.own = overlay[c]
            /\ chunk'[c].seen.left = LeftOf(c) /\ chunk'[c].seen.right = RightOf(c)
        BY <3>3, <3>4
      <4> QED BY <1>2, <4>1 DEF LeftOf, RightOf
    <3> QED BY <2>5, <3>2, <3>4 DEF Drawn
  <2> QED BY <1>2, <2>3, <2>4, <2>5 DEF Moves
<1> QED BY <1>1, <1>2, ChunksMove

LEMMA DrawnMeans ==
  ASSUME TypeOK, VoxelsAreOverlay, ReadyFit
  PROVE  DrawnIsCurrent
<1> SUFFICES ASSUME NEW c \in Chunks, chunk[c].st = "ready", chunk[c].seen.of = chunk[c].of
             PROVE  Shows(c)
  BY DEF DrawnIsCurrent
<1> DEFINE now == Snapshot(chunk, c)
<1>1. /\ now.own = overlay[c]
      /\ c - 1 \in Chunks /\ Loaded(c - 1) => now.left = overlay[c - 1][1]
      /\ c + 1 \in Chunks /\ Loaded(c + 1) => now.right = overlay[c + 1][-1]
  BY SnapshotShows DEF Loaded
<1>2. /\ ~(c - 1 \in Chunks /\ Loaded(c - 1)) => now.left = Missing
      /\ ~(c + 1 \in Chunks /\ Loaded(c + 1)) => now.right = Missing
  BY DEF Snapshot, CellOf, Loaded
<1>3. ReadyFits(c)
  BY DEF ReadyFit
<1>4. /\ chunk[c].seen.own = now.own
      /\ now.left = Missing \/ chunk[c].seen.left = now.left
      /\ now.right = Missing \/ chunk[c].seen.right = now.right
  <2> HIDE DEF now
  <2> QED BY <1>1, <1>2, <1>3 DEF ReadyFits
<1> QED BY <1>4 DEF Shows

\* A mesh that is drawn, and that was taken from this residency of its chunk,
\* shows the chunk as it is, and each loaded neighbour as it is, in every order
\* of snapshots, edits on either side of a border, loads, unloads and results.
THEOREM DrawnCurrent ==
  ASSUME ~Reverts
  PROVE  Spec => []DrawnIsCurrent
<1>1. Init => DrawnInv
  <2> SUFFICES ASSUME Init PROVE DrawnInv
    OBVIOUS
  <2>1. ResidencyShown /\ ReadyFit
    BY DEF Init, ResidencyShown, ReadyFit, ReadyFits, Loaded, Absent
  <2>2. HeldJobs = {}
    BY InitHoldsNothing
  <2> QED BY <2>1, <2>2 DEF DrawnInv, MeshesFit, Init
<1>2. TypeOK /\ VoxelsInv /\ DrawnInv /\ [Next]_vars => DrawnInv'
  BY ResidencyStep, MeshesStep, ReadyStep DEF DrawnInv, ReadyFit, VoxelsInv
<1>3. TypeOK /\ VoxelsInv /\ DrawnInv => DrawnIsCurrent
  BY DrawnMeans DEF DrawnInv, VoxelsInv
<1> QED BY <1>1, <1>2, <1>3, TypeCorrect, VoxelsInvHolds, PTL DEF Spec
=============================================================================
