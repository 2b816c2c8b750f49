----------------------------- MODULE ChunkMesh -----------------------------
(***************************************************************************)
(* Streaming of chunk data and chunk meshes around the eye, over the       *)
(* worker pool, with lighting off (world/streaming, world/admit.rs,        *)
(* world/edits.rs).  The main thread owns everything here; the workers     *)
(* only see the jobs, each with a snapshot of what it reads.               *)
(*                                                                         *)
(* Chunks lie on a line.  A chunk has two border cells, one towards each   *)
(* neighbour; an edit writes one of them.  A chunk of Mixed is generated   *)
(* by a worker and draws something; any other chunk is uniform air, which  *)
(* is stored without a job and draws nothing.                              *)
(***************************************************************************)
EXTENDS JobPool

CONSTANTS
  Chunks, Mixed,
  Eyes,            \* chunks the eye may stand in
  NoEye,           \* before the first pass
  MeshR, DataR, UnloadR,  \* half widths of the mesh, data and unload boxes
  EditSites,       \* <<chunk, side>> cells that are edited
  UploadMax,       \* queued uploads at which mesh admission pauses
  DirtyBudget,     \* edited chunks remeshed in one go
  MaxStrikes,      \* panics of one claim before it is quarantined
  MaxMoves, MaxEdits, MaxUploadFails,   \* bounds
  Reverts          \* whether an edit may restore the generated block

ASSUME ChunkAssumption ==
  /\ Chunks \subseteq Int
  /\ Mixed \subseteq Chunks /\ Eyes \subseteq Chunks
  /\ NoEye = NoView
  /\ MeshR \in Nat /\ DataR \in Nat /\ UnloadR \in Nat
  /\ MeshR < DataR /\ DataR <= UnloadR /\ DataR <= KeepR
  /\ \A e \in Eyes : (e - DataR)..(e + DataR) \subseteq Chunks
  /\ EditSites \subseteq Mixed \X {-1, 1}
  /\ UploadMax \in Nat \ {0} /\ DirtyBudget \in Nat \ {0} /\ MaxStrikes \in Nat \ {0}
  /\ MaxMoves \in Nat /\ MaxEdits \in Nat /\ MaxUploadFails \in Nat
  /\ Reverts \in BOOLEAN

VARIABLES
  eye, phase, seededAt,           \* centre; where a full pass is; the centre of the last one
  chunk,                          \* loaded chunks
  residency,                      \* times each chunk was stored
  overlay,                        \* edits, kept whether the chunk is loaded or not
  generating, runs, gatheredFor, pendingGen,
  worklist, pendingFresh, dirtyList, pendingDirty,
  uploads, strikes, quarantined,
  moves, edits, uploadFails,
  holed, failed                   \* history: claims nothing asks for again, failed uploads

genVars == <<generating, runs, gatheredFor, pendingGen>>
meshVars == <<worklist, pendingFresh>>
dirtyVars == <<dirtyList, pendingDirty>>
viewVars == <<eye, phase, seededAt, moves>>
editVars == <<overlay, edits>>
failVars == <<strikes, quarantined>>
pastVars == <<uploadFails, holed, failed>>
mainVars == <<viewVars, chunk, residency, editVars, genVars, meshVars, dirtyVars,
              uploads, failVars, pastVars>>
vars == <<poolVars, mainVars>>

Sides == {-1, 1}
Voxels == [Sides -> 0..MaxEdits]           \* 0 is the generated block
Generated == [s \in Sides |-> 0]
Missing == -1                              \* a neighbour cell with no data: air

\* What a mesh is built from: the chunk's own cells, its neighbours' facing ones.
\* of: the residency of the chunk it was taken from.
Seen == [own: Voxels, left: 0..MaxEdits \cup {Missing}, right: 0..MaxEdits \cup {Missing}, of: Nat]
NoMesh == [own |-> Generated, left |-> Missing, right |-> Missing, of |-> 0]

GenJobs == [kind: {"gen"}, at: Chunks, edits: Voxels]
MeshJobs == [kind: {"mesh"}, at: Chunks, rev: Nat, seen: Seen]
Jobs == GenJobs \cup MeshJobs

Absent == [st |-> "absent", building |-> FALSE, rev |-> 0, vox |-> Generated,
           seen |-> NoMesh, of |-> 0]
States == {"absent", "air", "needs", "ready", "dirty"}
Residents == [st: States, building: BOOLEAN, rev: Nat, vox: Voxels, seen: Seen, of: Nat]
Claims == {"gen", "mesh"} \X Chunks

ASSUME NoJobAssumption == NoJob \notin Jobs

TypeOK ==
  /\ PoolTypeOK(Jobs)
  /\ eye \in Eyes \cup {NoEye} /\ seededAt \in Eyes \cup {NoEye}
  /\ phase \in {"lanes", "begun", "crossed"} /\ (phase # "lanes" => eye # NoEye)
  /\ chunk \in [Chunks -> Residents]
  /\ residency \in [Chunks -> Nat]
  /\ overlay \in [Chunks -> Voxels] /\ edits \in 0..MaxEdits
  /\ generating \subseteq Chunks /\ runs \subseteq Chunks
  /\ gatheredFor \in Eyes \cup {NoEye} /\ pendingGen \in BOOLEAN
  /\ worklist \subseteq Chunks /\ pendingFresh \in BOOLEAN
  /\ dirtyList \subseteq Chunks /\ pendingDirty \in BOOLEAN
  /\ uploads \in Seq(MeshJobs)
  /\ strikes \in [Claims -> 0..MaxStrikes]
  /\ quarantined \subseteq Claims
  /\ moves \in 0..MaxMoves /\ uploadFails \in 0..MaxUploadFails
  /\ holed \subseteq Chunks /\ failed \subseteq Chunks

-----------------------------------------------------------------------------
(* The boxes around the centre, and what the lanes ask of a chunk. *)

Box(r) == IF eye = NoEye THEN {} ELSE {c \in Chunks : Away(c, eye) <= r}
MeshBox == Box(MeshR)
Loaded(c) == chunk[c].st # "absent"
Neighbours(c) == {c - 1, c + 1} \cap Chunks
Claimed(c) == Loaded(c) \/ c \in generating
AwaitsMesh(c) == chunk[c].st = "needs" /\ ~chunk[c].building
HasNeighbourData(c) == \A n \in Neighbours(c) : Loaded(n)
Building == {c \in Chunks : chunk[c].building}
AnythingInFlight == Building # {} \/ generating # {} \/ uploads # <<>>

CellOf(ch, c, s) == IF c \in Chunks /\ ch[c].st # "absent" THEN ch[c].vox[s] ELSE Missing
Snapshot(ch, c) == [own |-> ch[c].vox, left |-> CellOf(ch, c - 1, 1),
                    right |-> CellOf(ch, c + 1, -1), of |-> ch[c].of]

\* A result still applies: its chunk is loaded, in view, and at the same rev.
Applies(m) == m.at \in MeshBox /\ Loaded(m.at) /\ chunk[m.at].rev = m.rev

-----------------------------------------------------------------------------
(* Steps on the loaded chunks that several operations share. *)

\* Mutant: what the worker replayed is taken for the whole overlay.
ReplayedByWorker(c, base) == base

\* Saved edits replayed over what the worker, or the generator here, produced.
Replayed(c, base) ==
  [s \in Sides |-> IF overlay[c][s] # 0 THEN overlay[c][s] ELSE base[s]]

Stored(c, base) ==
  [st |-> IF c \in Mixed THEN "needs" ELSE "air", building |-> FALSE, rev |-> 0,
   vox |-> Replayed(c, base), seen |-> NoMesh, of |-> residency[c] + 1]

\* The rebuild of a drawn chunk off the main thread.
Remeshed(r) == [r EXCEPT !.st = "needs", !.building = FALSE, !.rev = @ + 1, !.seen = NoMesh]

\* Mutant: an edit leaves rev alone.
InvalidatedSameRev(r) == [r EXCEPT !.st = "dirty", !.building = FALSE, !.seen = NoMesh]

\* An edit's invalidation: the in-flight build is given up.
Invalidated(r) == [r EXCEPT !.st = "dirty", !.building = FALSE, !.rev = @ + 1, !.seen = NoMesh]

Released(r) == [r EXCEPT !.building = FALSE]

\* Mutant: the neighbours that waited for this data are not seeded.
StoreChunksAlone(S, base) ==
  /\ chunk' = [c \in Chunks |->
       IF c \in S THEN Stored(c, base)
       ELSE IF chunk[c].st = "ready" /\ Neighbours(c) \cap S # {} THEN Remeshed(chunk[c])
       ELSE chunk[c]]
  /\ residency' = [c \in Chunks |-> IF c \in S THEN residency[c] + 1 ELSE residency[c]]
  /\ worklist' = worklist \cup {c \in S : chunk'[c].st = "needs"}
  /\ pendingFresh' = (pendingFresh \/ S # {})

\* Register the chunks of S, a drawn neighbour meshes again with the new border;
\* the new chunks and their neighbours are seeded.
StoreChunks(S, base) ==
  /\ chunk' = [c \in Chunks |->
       IF c \in S THEN Stored(c, base)
       ELSE IF chunk[c].st = "ready" /\ Neighbours(c) \cap S # {} THEN Remeshed(chunk[c])
       ELSE chunk[c]]
  /\ residency' = [c \in Chunks |-> IF c \in S THEN residency[c] + 1 ELSE residency[c]]
  /\ worklist' = worklist \cup
       {c \in Chunks : /\ c \in S \/ Neighbours(c) \cap S # {}
                       /\ chunk'[c].st = "needs" /\ ~chunk'[c].building}
  /\ pendingFresh' = (pendingFresh \/ S # {})

\* Put the awaiting chunks of S back on the mesh worklist.
Seeded(S) == worklist \cup {c \in S : chunk'[c].st = "needs" /\ ~chunk'[c].building}

-----------------------------------------------------------------------------
(* Edits: into the overlay, into the loaded voxels, and a sync remesh owed  *)
(* by the chunk and by the neighbour the cell touches.                      *)

Edit(c, s, id) ==
  LET touched == {d \in {c, c + s} \cap Chunks : Loaded(d)} IN
  /\ phase = "lanes" /\ edits < MaxEdits
  /\ edits' = edits + 1
  /\ ~(Loaded(c) /\ chunk[c].vox[s] = id)
  /\ overlay' = [overlay EXCEPT ![c][s] = id]
  /\ chunk' = [d \in Chunks |->
       IF d \notin touched THEN chunk[d]
       ELSE IF d = c THEN [Invalidated(chunk[d]) EXCEPT !.vox[s] = id]
       ELSE Invalidated(chunk[d])]
  /\ dirtyList' = dirtyList \cup touched
  /\ pendingDirty' = (pendingDirty \/ touched # {})
  /\ pendingFresh' = (pendingFresh \/ touched # {})
  /\ failed' = failed \ touched
  /\ UNCHANGED <<poolVars, viewVars, residency, genVars, worklist, uploads, failVars,
                 uploadFails, holed>>

EditStep ==
  \E site \in EditSites : \E id \in {edits + 1} \cup (IF Reverts THEN {0} ELSE {}) :
    Edit(site[1], site[2], id)

-----------------------------------------------------------------------------
(* A pass that finds the eye in another chunk. *)

\* The centre moves and the pool hears of it before any result is drained.
Begin(v) ==
  /\ phase = "lanes" /\ v # eye
  /\ moves < MaxMoves
  /\ moves' = moves + 1
  /\ eye' = v /\ phase' = "begun"
  /\ Publish(v)
  /\ UNCHANGED <<seededAt, chunk, residency, editVars, genVars, meshVars, dirtyVars, uploads,
                 failVars, pastVars>>

\* The entries of s at the places K, in their order.
Picked(s, K) ==
  [n \in 1..Cardinality(K) |->
     s[CHOOSE i \in K : Cardinality({k \in K : k <= i}) = n]]

\* Chunks that leave the unload box go, then stale uploads are pruned, the
\* centre's data is made here if no worker has it, and the mesh window's new
\* part is seeded.
Cross ==
  LET far == {c \in Chunks : /\ Loaded(c) /\ c \notin Box(UnloadR)
                             /\ seededAt # NoEye => Away(c, seededAt) <= UnloadR}
      live == {i \in DOMAIN uploads : uploads[i].at \notin far /\ Applies(uploads[i])}
      stale == {uploads[i].at : i \in DOMAIN uploads \ live}
      kept == [c \in Chunks |-> IF c \in far THEN Absent
                                ELSE IF c \in stale THEN Released(chunk[c]) ELSE chunk[c]]
      make == IF Loaded(eye) \/ eye \in generating THEN {} ELSE {eye}
      window == {c \in MeshBox : seededAt # NoEye => Away(c, seededAt) > MeshR}
      near(c) == c \in make \/ Neighbours(c) \cap make # {}
      fresh(c) == chunk'[c].st = "needs" /\ ~chunk'[c].building
  IN
  /\ phase = "begun"
  /\ phase' = "crossed" /\ seededAt' = eye
  /\ uploads' = Picked(uploads, live)
  /\ chunk' = [c \in Chunks |->
       IF c \in make THEN Stored(c, Generated)
       ELSE IF kept[c].st = "ready" /\ near(c) THEN Remeshed(kept[c])
       ELSE kept[c]]
  /\ residency' = [c \in Chunks |-> IF c \in make THEN residency[c] + 1 ELSE residency[c]]
  /\ worklist' = (worklist \ far) \cup {c \in stale \cup window : fresh(c)}
                                  \cup {c \in Chunks : near(c) /\ fresh(c)}
  /\ dirtyList' = dirtyList \ far
  /\ failed' = failed \ far
  /\ pendingGen' = TRUE /\ pendingFresh' = TRUE
  /\ UNCHANGED <<poolVars, eye, moves, editVars, generating, runs, gatheredFor, pendingDirty,
                 failVars, uploadFails, holed>>

-----------------------------------------------------------------------------
(* The generate lane: gather the data box once, then one run at a time.     *)
(* A pass that crossed a boundary goes straight on to it.                   *)

\* Store what needs no worker, and list the rest.
Gather ==
  LET free == {c \in Box(DataR) : ~Claimed(c) /\ c \notin Mixed} IN
  /\ phase # "begun" /\ pendingGen /\ gatheredFor # eye
  /\ phase' = "lanes"
  /\ StoreChunks(free, Generated)
  /\ runs' = {c \in Box(DataR) \cap Mixed : ~Claimed(c) /\ <<"gen", c>> \notin quarantined}
  /\ gatheredFor' = eye
  /\ holed' = {}
  /\ UNCHANGED <<poolVars, eye, seededAt, moves, editVars, generating, pendingGen, dirtyVars,
                 uploads, failVars, uploadFails, failed>>

\* The nearest run: dropped, submitted and claimed, or refused by a full queue.
SubmitRun(c) ==
  /\ phase = "lanes" /\ pendingGen /\ gatheredFor = eye
  /\ c \in runs /\ \A d \in runs : Away(c, eye) <= Away(d, eye)
  /\ SlotsFree # {}
  /\ runs' = runs \ {c}
  /\ pendingGen' = (runs' # {})
  /\ IF <<"gen", c>> \in quarantined \/ Claimed(c)
     THEN UNCHANGED <<poolVars, generating>>
     ELSE /\ Submit([kind |-> "gen", at |-> c, edits |-> overlay[c]])
          /\ generating' = generating \cup {c}
  /\ UNCHANGED <<gatheredFor, viewVars, chunk, residency, editVars, meshVars, dirtyVars, uploads,
                 failVars, pastVars>>

\* Nothing left to request.
GenerateIdle ==
  /\ phase = "lanes" /\ pendingGen /\ gatheredFor = eye /\ runs = {}
  /\ pendingGen' = FALSE
  /\ UNCHANGED <<poolVars, generating, runs, gatheredFor, viewVars, chunk, residency, editVars,
                 meshVars, dirtyVars, uploads, failVars, pastVars>>

-----------------------------------------------------------------------------
(* The mesh lane: seeds nearest first, a blocked one is evicted. *)

Blocked(c) ==
  \/ chunk[c].st # "needs"
  \/ c \notin MeshBox
  \/ <<"mesh", c>> \in quarantined
  \/ ~HasNeighbourData(c)

Nearest(c) == \A d \in worklist : Away(c, eye) <= Away(d, eye)
MeshLaneRuns == phase = "lanes" /\ eye # NoEye /\ pendingFresh /\ Len(uploads) < UploadMax

Evict(c) ==
  /\ MeshLaneRuns /\ c \in worklist /\ Nearest(c)
  /\ SlotsFree # {} /\ Blocked(c)
  /\ worklist' = worklist \ {c}
  /\ pendingFresh' = (worklist' # {})
  /\ UNCHANGED <<poolVars, viewVars, chunk, residency, editVars, genVars, dirtyVars, uploads,
                 failVars, pastVars>>

SubmitMesh(c) ==
  /\ MeshLaneRuns /\ c \in worklist /\ Nearest(c)
  /\ ~chunk[c].building /\ ~Blocked(c)
  /\ Submit([kind |-> "mesh", at |-> c, rev |-> chunk[c].rev, seen |-> Snapshot(chunk, c)])
  /\ chunk' = [chunk EXCEPT ![c].building = TRUE]
  /\ worklist' = worklist \ {c}
  /\ pendingFresh' = (worklist' # {})
  /\ UNCHANGED <<viewVars, residency, editVars, genVars, dirtyVars, uploads, failVars, pastVars>>

MeshIdle ==
  /\ MeshLaneRuns /\ worklist = {}
  /\ pendingFresh' = FALSE
  /\ UNCHANGED <<poolVars, viewVars, chunk, residency, editVars, genVars, worklist, dirtyVars,
                 uploads, failVars, pastVars>>

-----------------------------------------------------------------------------
(* The sync remesh of edited chunks: no neighbour gate, a budget.  stream    *)
(* calls it after it has set the centre, so the early return of a world      *)
(* without one, which lowers the flag, is never taken.                       *)

RemeshDirty ==
  LET due == {c \in dirtyList : chunk[c].st = "dirty"}
      nearest(T) == \A c \in T : \A d \in due \ T : Away(c, eye) <= Away(d, eye)
      drawn(c) == [chunk[c] EXCEPT !.st = IF c \in Mixed THEN "ready" ELSE "air",
                                   !.seen = IF c \in Mixed THEN Snapshot(chunk, c) ELSE NoMesh]
  IN
  /\ phase # "crossed" /\ eye # NoEye /\ pendingDirty
  /\ \E T \in SUBSET due :
       /\ nearest(T)
       /\ Cardinality(T) = (IF Cardinality(due) <= DirtyBudget THEN Cardinality(due)
                            ELSE DirtyBudget)
       /\ \E lost \in {{}} \cup {{c} : c \in T \cap Mixed} :
            /\ uploadFails + Cardinality(lost) <= MaxUploadFails
            /\ uploadFails' = uploadFails + Cardinality(lost)
            /\ chunk' = [c \in Chunks |-> IF c \in T \ lost THEN drawn(c) ELSE chunk[c]]
            /\ failed' = failed \cup lost
       /\ dirtyList' = due \ T
       /\ pendingDirty' = (due \ T # {})
  /\ UNCHANGED <<poolVars, viewVars, residency, editVars, genVars, meshVars, uploads, failVars,
                 holed>>

-----------------------------------------------------------------------------
(* Results.  Each resolves the claim it carries: released or transferred.   *)

\* A generated chunk: stored unless it is out of the data box or already here.
AcceptColumn(j) ==
  /\ generating' = generating \ {j.at}
  /\ StoreChunks(IF j.at \in Box(DataR) /\ ~Loaded(j.at) THEN {j.at} ELSE {}, j.edits)
  /\ UNCHANGED <<uploads, failVars, runs, gatheredFor, pendingGen, holed>>

\* Mutant: a stale mesh releases the claim and no more.
DropStaleQuietly(c) ==
  /\ chunk' = [chunk EXCEPT ![c] = IF @.st = "needs" THEN Released(@) ELSE @]
  /\ UNCHANGED meshVars

\* A stale mesh: the claim goes, and the chunk is seeded again.
DropStale(c) ==
  /\ chunk' = [chunk EXCEPT ![c] = IF @.st = "needs" THEN Released(@) ELSE @]
  /\ worklist' = Seeded({c})
  /\ pendingFresh' = (pendingFresh \/ Loaded(c))

AcceptMesh(j) ==
  /\ IF Applies(j)
     THEN uploads' = Append(uploads, j) /\ UNCHANGED <<chunk, meshVars>>
     ELSE DropStale(j.at) /\ UNCHANGED uploads
  /\ UNCHANGED <<residency, genVars, failVars, holed>>

\* Claims given back without a payload.  again: the claims to ask for again.
Resolve(gens, meshes, again) ==
  /\ generating' = generating \ gens
  /\ chunk' = [c \in Chunks |-> IF c \in meshes THEN Released(chunk[c]) ELSE chunk[c]]
  /\ worklist' = Seeded({c \in meshes : c \in again \/ c \in MeshBox})
  /\ pendingFresh' = (pendingFresh \/ \E c \in meshes : c \in again \/ c \in MeshBox)
  /\ IF gens \cap again # {}
     THEN pendingGen' = TRUE /\ gatheredFor' = NoEye
     ELSE UNCHANGED <<pendingGen, gatheredFor>>
  /\ UNCHANGED <<runs, residency, uploads>>

CancelJobs(batch) ==
  LET keys(k) == {batch[i].at : i \in {n \in Slots : batch[n] # NoJob /\ batch[n].kind = k}} IN
  /\ Resolve(keys("gen"), keys("mesh"), {})
  /\ holed' = holed \cup keys("gen")
  /\ UNCHANGED failVars

FailJob(j) ==
  LET key == <<j.kind, j.at>>
      struck == IF strikes[key] < MaxStrikes THEN strikes[key] + 1 ELSE strikes[key]
      only(k) == IF j.kind = k THEN {j.at} ELSE {}
  IN
  /\ strikes' = [strikes EXCEPT ![key] = struck]
  /\ quarantined' = IF struck >= MaxStrikes THEN quarantined \cup {key} ELSE quarantined
  /\ Resolve(only("gen"), only("mesh"), IF struck >= MaxStrikes THEN {} ELSE {j.at})
  /\ UNCHANGED holed

\* Take one result and route it.
Integrate ==
  /\ phase # "crossed" /\ AnythingInFlight
  /\ Receive
  /\ LET r == Head(results) IN
       CASE r.how = "cancelled" -> CancelJobs(r.jobs)
         [] r.how = "failed" -> FailJob(r.job)
         [] r.how = "done" -> IF r.job.kind = "gen" THEN AcceptColumn(r.job)
                              ELSE AcceptMesh(r.job)
  /\ UNCHANGED <<viewVars, editVars, dirtyVars, uploadFails, failed>>

\* The oldest queued upload, checked again as it is popped.
Upload ==
  /\ phase # "crossed" /\ uploads # <<>>
  /\ uploads' = Tail(uploads)
  /\ LET m == Head(uploads) IN
       \/ /\ Applies(m)
          /\ chunk' = [chunk EXCEPT ![m.at].st = "ready", ![m.at].building = FALSE,
                                    ![m.at].seen = m.seen]
          /\ UNCHANGED <<meshVars, uploadFails, failed>>
       \/ /\ Applies(m) /\ uploadFails < MaxUploadFails
          /\ uploadFails' = uploadFails + 1
          /\ failed' = failed \cup {m.at}
          /\ chunk' = [chunk EXCEPT ![m.at] = IF @.st = "needs" THEN Released(@) ELSE @]
          /\ UNCHANGED meshVars
       \/ /\ ~Applies(m)
          /\ DropStale(m.at)
          /\ UNCHANGED <<uploadFails, failed>>
  /\ UNCHANGED <<poolVars, viewVars, residency, editVars, genVars, dirtyVars, failVars, holed>>

-----------------------------------------------------------------------------
Init ==
  /\ PoolInit
  /\ eye = NoEye /\ phase = "lanes" /\ seededAt = NoEye
  /\ chunk = [c \in Chunks |-> Absent]
  /\ residency = [c \in Chunks |-> 0]
  /\ overlay = [c \in Chunks |-> Generated] /\ edits = 0
  /\ generating = {} /\ runs = {} /\ gatheredFor = NoEye /\ pendingGen = FALSE
  /\ worklist = {} /\ pendingFresh = TRUE
  /\ dirtyList = {} /\ pendingDirty = FALSE
  /\ uploads = <<>>
  /\ strikes = [k \in Claims |-> 0] /\ quarantined = {}
  /\ moves = 0 /\ uploadFails = 0 /\ holed = {} /\ failed = {}

Generate == Gather \/ (\E c \in Chunks : SubmitRun(c)) \/ GenerateIdle
Mesh == (\E c \in Chunks : Evict(c)) \/ (\E c \in Chunks : SubmitMesh(c)) \/ MeshIdle
Work(w) == WorkerStep(w) /\ UNCHANGED mainVars

Next ==
  \/ EditStep
  \/ \E v \in Eyes : Begin(v)
  \/ Cross \/ Generate \/ Mesh \/ RemeshDirty \/ Integrate \/ Upload
  \/ \E w \in Workers : Work(w)

Spec == Init /\ [][Next]_vars

\* Every lane runs on each pass of the main thread while its flag is up, and a
\* worker that is not waiting is scheduled.
Fairness ==
  /\ WF_vars(Cross) /\ WF_vars(Generate) /\ WF_vars(Mesh) /\ WF_vars(RemeshDirty)
  /\ WF_vars(Integrate) /\ WF_vars(Upload)
  /\ \A w \in Workers : WF_vars(Work(w))

FairSpec == Spec /\ Fairness

-----------------------------------------------------------------------------
(* Properties. *)

\* A claim is owed an answer: a chunk that is building has a mesh job in the
\* pool, on the channel or among the uploads, and a chunk being generated has a
\* generate job; a chunk that is being generated has no data yet.  A claim
\* without one would never be released, and the chunk never be asked for again.
ClaimsOwed ==
  /\ \A c \in Building :
       \/ \E j \in HeldJobs : j.kind = "mesh" /\ j.at = c
       \/ \E i \in DOMAIN uploads : uploads[i].at = c
  /\ \A c \in generating :
       ~Loaded(c) /\ \E j \in HeldJobs : j.kind = "gen" /\ j.at = c

\* The lanes work from flags and seed sets and never look at every chunk, so
\* nothing that is due may be missing from them: a chunk that could be meshed is
\* seeded, an edited one is listed, a hole of the data box is claimed or will be
\* gathered, and the flag of its lane is up.  (A failed upload is not seeded
\* again, and a descheduled generate job not asked for until the next gather:
\* failed and holed.)
NothingForgotten ==
  /\ \A c \in Chunks \ failed : chunk[c].st = "dirty" => c \in dirtyList /\ pendingDirty
  /\ phase = "lanes" =>
       \A c \in MeshBox \ failed :
         (AwaitsMesh(c) /\ ~Blocked(c)) => c \in worklist /\ pendingFresh
  /\ phase = "lanes" =>
       \A c \in Box(DataR) \ holed :
         (~Claimed(c) /\ <<"gen", c>> \notin quarantined) =>
            pendingGen /\ (gatheredFor = eye => c \in runs)

\* A drawn mesh shows the chunk as it is, and each neighbour as it is or as it
\* was before it was unloaded.
Shows(c) ==
  LET now == Snapshot(chunk, c)
      same(a, b) == b = Missing \/ a = b
  IN chunk[c].seen.own = now.own /\ same(chunk[c].seen.left, now.left)
       /\ same(chunk[c].seen.right, now.right)

\* A mesh taken from this residency of its chunk is current while the chunk is
\* Ready: an edit of the chunk or of a border that faces it, a load of a
\* neighbour, and every order of snapshots and results are caught by rev.
DrawnIsCurrent ==
  \A c \in Chunks : chunk[c].st = "ready" /\ chunk[c].seen.of = chunk[c].of => Shows(c)

\* What Loaded.rev is documented to give: a result whose inputs have changed is
\* dropped, so a Ready chunk shows its voxels.
ReadyShowsItsVoxels == \A c \in Chunks : chunk[c].st = "ready" => Shows(c)

\* A loaded chunk holds what generation and the edit overlay define, whatever
\* was in flight while the overlay changed.
VoxelsAreOverlay == \A c \in Chunks : Loaded(c) => chunk[c].vox = overlay[c]

\* Once the eye rests, the mesh box is drawn, each chunk as it is: except a
\* quarantined claim, a failed upload, or a hole no gather asks for again.
WantedDrawn ==
  LET lost(c) == c \in holed \/ <<"gen", c>> \in quarantined
      excused(c) == \/ c \in failed \/ <<"mesh", c>> \in quarantined
                    \/ lost(c) \/ \E n \in Neighbours(c) : lost(n)
  IN <>[](\A c \in MeshBox : excused(c) \/ chunk[c].st \in {"ready", "air"})
=============================================================================
