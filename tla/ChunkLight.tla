----------------------------- MODULE ChunkLight -----------------------------
(***************************************************************************)
(* Settling of light across chunks (world/light.rs, LightLane of           *)
(* world/admit.rs, world/streaming): a chunk's light is flooded by a       *)
(* worker from a snapshot of its voxels and of the light that its          *)
(* neighbours show at their borders, and when the grid it publishes moves  *)
(* a border, the neighbour there is flooded again.  Only the main thread   *)
(* writes; nothing waits for anything, and the field has to converge.      *)
(*                                                                         *)
(* Chunks 1..Size lie side by side on open ground, each a row of Width     *)
(* cells: skylight falls on every cell that is not opaque, block light     *)
(* spreads along the row.                                                  *)
(***************************************************************************)
EXTENDS Integers, Sequences, FiniteSets, SequencesExt

CONSTANTS
  Size, Width,
  MaxLight,          \* full light, and what an emissive block gives
  Landscapes,        \* the blocks of every chunk before any edit: one of these
  Edits,             \* <<chunk, cell, block>>: the edits that may be made
  MaxStrikes,        \* panics of a chunk's flood before it is quarantined
  MaxEdits, MaxUpsets,   \* bounds: edits; unloads, losses and switches together
  LateLosses         \* whether a job of before a switch may be lost after it

Chunks == 1..Size
Cells == 1..Width
Blocks == {"air", "rock", "ember"}     \* ember: rock that glows

ASSUME LightAssumption ==
  /\ Size \in Nat \ {0} /\ Width \in Nat \ {0} /\ MaxLight \in Nat \ {0}
  /\ Landscapes \subseteq [Chunks -> [Cells -> Blocks]]
  /\ Edits \subseteq Chunks \X Cells \X Blocks
  /\ MaxStrikes \in Nat \ {0}
  /\ MaxEdits \in Nat /\ MaxUpsets \in Nat
  /\ LateLosses \in BOOLEAN

VARIABLES
  voxels,            \* generated blocks with the edits, of loaded chunks or not
  loaded, residency, \* chunks with data; times each was stored (light_gen)
  grid, bright,      \* published light; chunks flagged has_blocklight
  worklist, lightPending, inflight, reseed,
  queue,             \* light_apply_queue: accepted grids, claim still held
  jobs,              \* floods in the pool or on the result channel
  lighting, epoch, strikes,
  edits, upsets,
  untold             \* history: chunks nobody told that light they counted on went

fieldVars == <<grid, bright>>
laneVars == <<worklist, lightPending, inflight, reseed, queue>>
switchVars == <<lighting, epoch>>
boundVars == <<edits, upsets>>
vars == <<voxels, loaded, residency, fieldVars, laneVars, jobs, switchVars, strikes,
          boundVars, untold>>

Levels == 0..MaxLight
Lumels == [sky: Levels, block: Levels]
Grids == [Cells -> Lumels]
DarkLumel == [sky |-> 0, block |-> 0]
Dark == [x \in Cells |-> DarkLumel]
OpenSky == [x \in Cells |-> [sky |-> MaxLight, block |-> 0]]
NoGrid == <<>>
Sides == {-1, 1}
Shells == [Sides -> Lumels]

Opaque(b) == b # "air"
Emission(b) == IF b = "ember" THEN MaxLight ELSE 0
Dimmer(level) == IF level = 0 THEN 0 ELSE level - 1
BorderCell(s) == IF s = -1 THEN 1 ELSE Width
Neighbours(c) == {c - 1, c + 1} \cap Chunks
Quarantined == {c \in Chunks : strikes[c] >= MaxStrikes}

-----------------------------------------------------------------------------
(* The flood of one chunk. *)

Between(x, y) == {z \in Cells : (x < z /\ z < y) \/ (y < z /\ z < x)}

\* Light runs from x to y: every cell it enters on the way lets it in.
Runs(row, x, y) == x = y \/ \A z \in Between(x, y) \cup {y} : ~Opaque(row[z])

\* Emissive cells, and what comes in over the borders; the cell at the border
\* takes it whatever block it is.
Sources(row, shell) ==
  {<<x, Emission(row[x])>> : x \in Cells}
    \cup {<<BorderCell(s), Dimmer(shell[s].block)>> : s \in Sides}

Distance(x, y) == IF x < y THEN y - x ELSE x - y

\* The highest level that is left of a source: the number of levels that are.
BlockLight(row, shell, x) ==
  Cardinality({level \in 1..MaxLight :
    \E source \in Sources(row, shell) :
      Runs(row, source[1], x) /\ source[2] - Distance(source[1], x) >= level})

\* The sky is overhead, so what comes in sideways is dimmed like any light.
SkyLight(row, shell, x) ==
  IF ~Opaque(row[x]) THEN MaxLight
  ELSE Cardinality({level \in 1..MaxLight :
         \E s \in Sides : BorderCell(s) = x /\ Dimmer(shell[s].sky) >= level})

Flood(row, shell) ==
  [x \in Cells |-> [sky |-> SkyLight(row, shell, x), block |-> BlockLight(row, shell, x)]]

\* What the neighbours show now; a missing one is dark.
Shell(c) ==
  [s \in Sides |-> IF c + s \in loaded /\ grid[c + s] # NoGrid
                   THEN grid[c + s][BorderCell(-s)] ELSE DarkLumel]

-----------------------------------------------------------------------------
(* Publishing a grid. *)

\* Mutant: the neighbour's flag is not asked for.
TrivialUnasked(c) ==
  IF \A x \in Cells : voxels[c][x] = "rock" THEN {Dark}
  ELSE IF \A x \in Cells : voxels[c][x] = "air" THEN {OpenSky}
  ELSE {}

\* The grid of a chunk whose light needs no flood, if it is one.
TrivialLight(c) ==
  IF \A x \in Cells : voxels[c][x] = "rock" THEN {Dark}
  ELSE IF /\ \A x \in Cells : voxels[c][x] = "air"
          /\ Neighbours(c) \cap loaded \cap bright = {}
       THEN {OpenSky}
  ELSE {}

HasBorderBlockLight(g) == \E s \in Sides : g[BorderCell(s)].block > 1

\* Sides whose border moved; a first grid is compared with the dark.
FaceMoves(c, g) ==
  LET old == IF grid[c] = NoGrid THEN Dark ELSE grid[c]
  IN {s \in Sides : old[BorderCell(s)] # g[BorderCell(s)]}

\* Open sky next to open sky cannot change, says the code.
BothOpen(n, g) == g = OpenSky /\ grid[n] = OpenSky

\* Loaded neighbours that owe another flood when c publishes g.
Woken(c, g) ==
  {n \in Neighbours(c) \cap loaded :
     /\ n - c \in FaceMoves(c, g)
     /\ ~BothOpen(n, g)}

\* Passed over in flight, with a snapshot of before.
PassedOver(c, g) ==
  {n \in Neighbours(c) \cap loaded \cap inflight :
     n - c \in FaceMoves(c, g) /\ BothOpen(n, g)}

\* Mutant: the mark left during the flight is forgotten when the grid lands.
SettleForgetful(c, g, marks) ==
  LET flying == inflight \ {c}
      woken == IF grid[c] = g THEN {} ELSE Woken(c, g)
      seeds == woken \ (flying \cup worklist)
  IN /\ inflight' = flying
     /\ grid' = [grid EXCEPT ![c] = g]
     /\ bright' = IF grid[c] = g THEN bright
                  ELSE IF HasBorderBlockLight(g) THEN bright \cup {c} ELSE bright \ {c}
     /\ worklist' = worklist \cup seeds
     /\ reseed' = ((marks \ {c}) \cup (woken \cap flying)) \ seeds
     /\ lightPending' = (lightPending \/ (grid[c] # g /\ worklist' # {}))
     /\ untold' = untold \cup PassedOver(c, g)

\* The claim is released; a neighbour in flight is marked for one more flood, any
\* other seeded; and c again if it was marked meanwhile.
Settle(c, g, marks) ==
  LET flying == inflight \ {c}
      woken == IF grid[c] = g THEN {} ELSE Woken(c, g)
      seeds == (woken \ (flying \cup worklist)) \cup ({c} \cap marks)
  IN /\ inflight' = flying
     /\ grid' = [grid EXCEPT ![c] = g]
     /\ bright' = IF grid[c] = g THEN bright
                  ELSE IF HasBorderBlockLight(g) THEN bright \cup {c} ELSE bright \ {c}
     /\ worklist' = worklist \cup seeds
     /\ reseed' = ((marks \ {c}) \cup (woken \cap flying)) \ seeds
     /\ lightPending' = (lightPending \/ (IF grid[c] = g THEN c \in marks ELSE worklist' # {}))
     /\ untold' = untold \cup PassedOver(c, g)

\* seed_light of chunks, loaded or not.
SeedLight(cs) ==
  /\ worklist' = worklist \cup cs
  /\ reseed' = reseed \ cs
  /\ lightPending' = (lightPending \/ cs # {})

-----------------------------------------------------------------------------
(* Chunks come, change and go. *)

Init ==
  /\ voxels \in Landscapes
  /\ loaded = {} /\ residency = [c \in Chunks |-> 0]
  /\ grid = [c \in Chunks |-> NoGrid] /\ bright = {}
  /\ worklist = {} /\ inflight = {} /\ reseed = {} /\ queue = <<>>
  /\ lightPending = FALSE
  /\ jobs = {}
  /\ lighting \in BOOLEAN /\ epoch = 0
  /\ strikes = [c \in Chunks |-> 0]
  /\ edits = 0 /\ upsets = 0
  /\ untold = {}

\* Mutant: a chunk that comes back publishes over its old claim.
StoreOverClaim(c) ==
  /\ c \notin loaded
  /\ loaded' = loaded \cup {c}
  /\ residency' = [residency EXCEPT ![c] = @ + 1]
  /\ IF ~lighting THEN UNCHANGED <<fieldVars, laneVars, untold>>
     ELSE IF TrivialLight(c) = {}
     THEN SeedLight({c}) /\ UNCHANGED <<fieldVars, inflight, queue, untold>>
     ELSE \E g \in TrivialLight(c) : Settle(c, g, reseed) /\ UNCHANGED queue
  /\ UNCHANGED <<voxels, jobs, switchVars, strikes, boundVars>>

\* Data arrives.  Its light is published at once if it needs no flood; not while
\* the job of a former residency holds the claim.
Store(c) ==
  /\ c \notin loaded
  /\ loaded' = loaded \cup {c}
  /\ residency' = [residency EXCEPT ![c] = @ + 1]
  /\ IF ~lighting THEN UNCHANGED <<fieldVars, laneVars, untold>>
     ELSE IF c \in inflight \/ TrivialLight(c) = {}
     THEN SeedLight({c}) /\ UNCHANGED <<fieldVars, inflight, queue, untold>>
     ELSE \E g \in TrivialLight(c) : Settle(c, g, reseed) /\ UNCHANGED queue
  /\ UNCHANGED <<voxels, jobs, switchVars, strikes, boundVars>>

QueuedAt(c) == {i \in DOMAIN queue : queue[i].at = c}

\* A chunk is forgotten with its seed and its queued grid (there is one at most), whose claim goes too;
\* the claim of a job still out stays until that job answers.
Unload(c) ==
  /\ c \in loaded /\ upsets < MaxUpsets
  /\ upsets' = upsets + 1
  /\ loaded' = loaded \ {c}
  /\ grid' = [grid EXCEPT ![c] = NoGrid]
  /\ bright' = bright \ {c}
  /\ worklist' = worklist \ {c} /\ reseed' = reseed \ {c}
  /\ IF QueuedAt(c) = {} THEN UNCHANGED <<queue, inflight>>
     ELSE /\ queue' = RemoveAt(queue, CHOOSE i \in QueuedAt(c) : TRUE)
          /\ inflight' = inflight \ {c}
  /\ untold' = (untold \cup (Neighbours(c) \cap loaded)) \ {c}
  /\ UNCHANGED <<voxels, residency, lightPending, jobs, switchVars, strikes, edits>>

\* The edited chunk is seeded if loaded, and a loaded neighbour whose border the
\* cell touches; with lighting off too, where the seeds wait.
Edit(c, x, b) ==
  /\ edits < MaxEdits /\ voxels[c][x] # b
  /\ edits' = edits + 1
  /\ voxels' = [voxels EXCEPT ![c][x] = b]
  /\ SeedLight(({c} \cup {n \in Neighbours(c) : x = BorderCell(n - c)}) \cap loaded)
  /\ UNCHANGED <<loaded, residency, fieldVars, inflight, queue, jobs, switchVars, strikes,
                 upsets, untold>>

-----------------------------------------------------------------------------
(* The lane. *)

Flight(c) == [at |-> c, epoch |-> epoch, of |-> residency[c], light |-> Flood(voxels[c], Shell(c))]

\* The list is emptied of c; a pass that empties it lowers the flag.
Taken(c) ==
  /\ worklist' = worklist \ {c}
  /\ lightPending' = (worklist' # {})

\* A seed becomes a job, with a snapshot of what its flood reads.
Submit(c) ==
  /\ lighting /\ lightPending
  /\ c \in worklist /\ c \notin inflight /\ c \in loaded \ Quarantined
  /\ Taken(c)
  /\ inflight' = inflight \cup {c}
  /\ jobs' = jobs \cup {Flight(c)}
  /\ untold' = untold \ {c}
  /\ UNCHANGED <<voxels, loaded, residency, fieldVars, reseed, queue, switchVars, strikes,
                 boundVars>>

\* A seed that can have no job is dropped.
DropSeed(c) ==
  /\ lighting /\ lightPending
  /\ c \in worklist /\ c \notin inflight /\ c \notin loaded \ Quarantined
  /\ Taken(c)
  /\ UNCHANGED <<voxels, loaded, residency, fieldVars, reseed, inflight, queue, jobs,
                 switchVars, strikes, boundVars, untold>>

\* A pass over an empty list.
LaneIdle ==
  /\ lighting /\ lightPending /\ worklist = {}
  /\ lightPending' = FALSE
  /\ UNCHANGED <<voxels, loaded, residency, fieldVars, worklist, reseed, inflight, queue, jobs,
                 switchVars, strikes, boundVars, untold>>

\* Mutant: a result for a former residency is dropped, claim and all.
AcceptSilent(j) ==
  IF j.epoch # epoch \/ j.at \notin loaded \/ j.of # residency[j.at] THEN UNCHANGED laneVars
  ELSE queue' = Append(queue, [at |-> j.at, light |-> j.light])
       /\ UNCHANGED <<worklist, lightPending, reseed, inflight>>

\* accept_light: nothing of an old epoch; a result for a former residency only
\* frees the claim, and the new one is seeded; any other is queued, claim held.
Accept(j) ==
  IF j.epoch # epoch THEN UNCHANGED laneVars
  ELSE IF j.at \notin loaded \/ j.of # residency[j.at]
  THEN /\ inflight' = inflight \ {j.at}
       /\ SeedLight({j.at} \cap loaded)
       /\ UNCHANGED queue
  ELSE queue' = Append(queue, [at |-> j.at, light |-> j.light])
       /\ UNCHANGED <<worklist, lightPending, reseed, inflight>>

\* Floods finish, and are integrated, in any order.
Integrate(c) ==
  \E j \in jobs :
    /\ j.at = c
    /\ jobs' = jobs \ {j}
    /\ Accept(j)
    /\ UNCHANGED <<voxels, loaded, residency, fieldVars, switchVars, strikes, boundVars, untold>>

\* The oldest accepted grid is published.
Apply ==
  /\ queue # <<>>
  /\ queue' = Tail(queue)
  /\ IF Head(queue).at \in loaded
     THEN Settle(Head(queue).at, Head(queue).light, reseed)
     ELSE /\ inflight' = inflight \ {Head(queue).at}
          /\ UNCHANGED <<fieldVars, worklist, lightPending, reseed, untold>>
  /\ UNCHANGED <<voxels, loaded, residency, jobs, switchVars, strikes, boundVars>>

\* A flood the pool descheduled is owed still.
Cancelled(c) == SeedLight({c})

\* A flood panicked: the claim goes, and the seed comes back until quarantine.
Failed(c) ==
  /\ strikes' = [strikes EXCEPT ![c] = IF @ = MaxStrikes THEN @ ELSE @ + 1]
  /\ SeedLight(IF strikes'[c] >= MaxStrikes THEN {} ELSE {c})

\* The pool gives up a job: descheduled out of view, or its flood panicked.
Lose(j) ==
  /\ upsets < MaxUpsets /\ (j.epoch = epoch \/ LateLosses)
  /\ upsets' = upsets + 1
  /\ jobs' = jobs \ {j}
  /\ inflight' = inflight \ {j.at}
  /\ \/ Cancelled(j.at) /\ UNCHANGED strikes
     \/ Failed(j.at)
  /\ UNCHANGED <<voxels, loaded, residency, fieldVars, queue, switchVars, edits, untold>>

\* What was not settled when lighting went off has no grid, so that it is found
\* when lighting comes back.
Unsettled == worklist \cup inflight \cup {queue[i].at : i \in DOMAIN queue}

\* Lighting is switched off or on: all work in progress is given up.
SwitchLighting ==
  /\ upsets < MaxUpsets
  /\ upsets' = upsets + 1
  /\ lighting' = ~lighting /\ epoch' = epoch + 1
  /\ inflight' = {} /\ queue' = <<>>
  /\ IF lighting
     THEN /\ grid' = [c \in Chunks |-> IF c \in Unsettled THEN NoGrid ELSE grid[c]]
          /\ worklist' = {}
          /\ untold' = untold \cup {c \in loaded : Neighbours(c) \cap Unsettled \cap loaded # {}}
     ELSE /\ worklist' = worklist \cup {c \in loaded : grid[c] = NoGrid}
          /\ UNCHANGED <<grid, untold>>
  /\ lightPending' = (~lighting /\ worklist' # {})
  /\ UNCHANGED <<voxels, loaded, residency, bright, reseed, jobs, strikes, edits>>

-----------------------------------------------------------------------------
Next ==
  \/ \E c \in Chunks : Store(c) \/ Unload(c) \/ Submit(c) \/ DropSeed(c) \/ Integrate(c)
  \/ \E e \in Edits : Edit(e[1], e[2], e[3])
  \/ LaneIdle \/ Apply \/ SwitchLighting
  \/ \E j \in jobs : Lose(j)

Spec == Init /\ [][Next]_vars

\* The lane runs on each pass while its flag is up, workers finish their floods,
\* and each frame drains results and publishes at least one grid.
Fairness ==
  /\ WF_vars(Apply) /\ WF_vars(LaneIdle)
  /\ \A c \in Chunks : WF_vars(Submit(c)) /\ WF_vars(DropSeed(c)) /\ WF_vars(Integrate(c))

FairSpec == Spec /\ Fairness

-----------------------------------------------------------------------------
(* Properties. *)

Flights == [at : Chunks, epoch : 0..MaxUpsets, of : Nat, light : Grids]

TypeOK ==
  /\ voxels \in [Chunks -> [Cells -> Blocks]]
  /\ loaded \subseteq Chunks /\ residency \in [Chunks -> Nat]
  /\ grid \in [Chunks -> Grids \cup {NoGrid}] /\ bright \subseteq Chunks
  /\ worklist \subseteq Chunks /\ inflight \subseteq Chunks /\ reseed \subseteq Chunks
  /\ lightPending \in BOOLEAN
  /\ queue \in Seq([at : Chunks, light : Grids])
  /\ jobs \subseteq Flights
  /\ lighting \in BOOLEAN /\ epoch \in 0..upsets
  /\ strikes \in [Chunks -> 0..MaxStrikes]
  /\ edits \in 0..MaxEdits /\ upsets \in 0..MaxUpsets
  /\ untold \subseteq Chunks
  /\ \A c \in Chunks \ loaded : grid[c] = NoGrid /\ c \notin bright \cup reseed \cup untold

Current(c) == {j \in jobs : j.at = c /\ j.epoch = epoch}

\* A claim has one owner: the one job of this epoch for its chunk, or the one
\* accepted grid of it; and no such job or grid is without its claim.  A second
\* owner could publish an older grid over a newer; a claim without one would keep
\* its chunk from ever being flooded again.
UniqueOwner ==
  \A c \in Chunks :
    /\ c \in inflight <=> Current(c) # {} \/ QueuedAt(c) # {}
    /\ Current(c) = {} \/ QueuedAt(c) = {}
    /\ \A j, k \in Current(c) : j = k
    /\ \A i, k \in QueuedAt(c) : i = k

Quiet == lighting /\ worklist = {} /\ inflight = {}

\* When no flood is owed any more, each loaded chunk has the light that its own
\* voxels and its neighbours' borders give: no move of a border was missed, no
\* older flood landed on a newer one, nothing went unseeded.  A missed one would
\* stay wrong until somebody edits nearby.  (Not a chunk from under which a
\* neighbour's light was taken by an unload or the switch, or that was passed over
\* in flight; nor one in quarantine or beside one.)
QuietIsSettled ==
  Quiet => \A c \in loaded \ untold :
    \/ ({c} \cup Neighbours(c)) \cap Quarantined # {}
    \/ /\ grid[c] # NoGrid
       /\ \A x \in Cells :
            Opaque(voxels[c][x]) \/ grid[c][x] = Flood(voxels[c], Shell(c))[x]

\* The row of all cells, and the light an ember sheds along it when the cells it
\* enters must let it in.
Place(c, x) == (c - 1) * Width + x
Gap(c, x, d, y) == IF Place(c, x) < Place(d, y) THEN Place(d, y) - Place(c, x)
                   ELSE Place(c, x) - Place(d, y)
Strictly(c, x, d, y) ==
  {p \in Chunks \X Cells :
     \/ Place(c, x) < Place(p[1], p[2]) /\ Place(p[1], p[2]) < Place(d, y)
     \/ Place(d, y) < Place(p[1], p[2]) /\ Place(p[1], p[2]) < Place(c, x)}

\* Light gets from the source <<c, x>> to the cell <<d, y>>.
Clear(c, x, d, y, lets(_, _, _)) ==
  \A p \in (Strictly(c, x, d, y) \cup {<<d, y>>}) \ {<<c, x>>} :
    lets(p[1], p[2], IF Place(c, x) < Place(p[1], p[2]) THEN -1 ELSE 1)

FieldLight(d, y, lets(_, _, _)) ==
  LET embers == {p \in Chunks \X Cells :
                   voxels[p[1]][p[2]] = "ember" /\ Clear(p[1], p[2], d, y, lets)}
  IN Max({0} \cup {MaxLight - Gap(p[1], p[2], d, y) : p \in embers})

LetsOpen(c, x, side) == ~Opaque(voxels[c][x])
LetsOpenOrBorder(c, x, side) == LetsOpen(c, x, side) \/ x = BorderCell(side)

FieldIs(lets(_, _, _)) ==
  \A c \in Chunks, x \in Cells :
    ~Opaque(voxels[c][x]) => grid[c][x].block = FieldLight(c, x, lets)

\* When all is loaded and quiet, the light of the whole row is what its embers
\* shed, once each, however chunk after chunk was settled and in whatever order:
\* nothing is left of an ember that is gone, and no two chunks keep each other
\* lit.  (The first cell of a chunk lets light of the next one in, rock or not.)
QuietFieldIsTrue ==
  Quiet /\ loaded = Chunks /\ untold = {} /\ Quarantined = {} => FieldIs(LetsOpenOrBorder)

\* What the module comment of light.rs says: light stops at opaque cells.
StopsAtOpaque ==
  Quiet /\ loaded = Chunks /\ untold = {} /\ Quarantined = {} => FieldIs(LetsOpen)

\* What settle_light relies on when it compares a first grid with the dark:
\* nobody counted on this chunk's light before.
FirstGridMissed ==
  Quiet /\ loaded = Chunks /\ Quarantined = {} => FieldIs(LetsOpenOrBorder)

\* Light settles once the world and its settings rest.
LightSettles == <>[](lighting => Quiet)
=============================================================================
