# Formal models of Project Watt Cubed

TLA+ modules for the parts of Project Watt Cubed (`src/`, a voxel game in Rust with an
authoritative multiplayer server) whose correctness depends on the order of things: who
holds which lock, which message overtakes which, what is on disk when the program dies.
TLC checks the modules on small instances; TLAPS proves the theorems of the `*Proofs`
modules for every value of the constants.

Paths below are relative to the repository; `net/`, `save/`, `world/`, ... are under `src/`.

- [1. The system](#1-the-system)
- [2. The modules](#2-the-modules)
- [3. The runs](#3-the-runs)
- [4. What is proved](#4-what-is-proved)
- [5. Where code and documentation disagree](#5-where-code-and-documentation-disagree)
- [6. Limits of the models](#6-limits-of-the-models)
- [7. Plan](#7-plan)

## 1. The system

One process is a client with a world, a server, or both (an integrated server serves a
single-player slot). They talk over QUIC: one ordered stream each way per connection.

| Component | State it keeps | Operations | What makes it correct |
|---|---|---|---|
| **Edit server** `net/server/{state,edit,fanout}.rs` | under one mutex: roster, `edits` (cell → content and revision), spec pool; an outbox and a `kicked` flag per player | decide an edit or a tool use, broadcast, kick a slow player, remove one | commits only on the expected revision; every ready client is told of every commit once, in order; verdicts are true; the pool never outgrows its limit |
| **Edit client** `net/client.rs`, `play.rs` | confirmed revision per cell, requests in flight, optimistic edits, the shown world | predict, send, hear content and verdicts, roll back, time out | nothing is left of a rejected prediction; every request settles; the world shown ends up the server's |
| **Reaction tick** `net/server/tick.rs` | the scheduler of a simulation model | commit the cells of each contact, send them, broadcast poses and the clock | one lock over a tick's commits and sends |
| **Server world file** `net/persist.rs`, `net/server/save.rs` | `world.watt`, its backup, cells and policies a build cannot parse (kept) | load down a ladder, capture, encode, write with rotation | a save is atomic; no damaged file replaces a good one; saves never go backwards |
| **Server lifecycle** `net/server/mod.rs` | shutdown flag, threads, save gate | spawn, autosave, stop, save now | stop ends, and its save has what clients were told |
| **Single-player saves** `save/{store,autosave}.rs`, `app.rs` | slots on disk, autosaver (saved, pending, in flight), a worker thread | start, poll, flush on leaving, list, pick an id | what counts as saved is on disk; leaving saves the world as it is left, and ends |
| **Join and presence** `net/server/{join,movement}.rs` | reserved seats and names, a joiner's backlog, the interest grid | handshake, reserve, bootstrap, go live, place, depart, move | a joiner sees the snapshot, then exactly what came after it; a leaver's name and seat come free |
| **Session inbox** `net/client.rs`, `net/mod.rs` | held snapshot cells, inbox, silence clock | poll with a budget | later messages wait for held cells |
| **Rate budgets** `net/server/budget.rs`, `session.rs` | a ring of stamps per channel | charge | never more than the limit in any window of a second |
| **Hooks** `net/hooks.rs` | the modules' server hooks | validate an edit or tool use, filter poses, react to ticks | run without the state lock, so their answer may be stale |
| **Simulation host** `sim/*` | selected model, paused models' records | configure, load, save, tick | records of a model that is not running survive |
| **Frame scheduler** `sched/mod.rs` | clocks, rate gates, a frame budget | run due work | no starvation, bounded catch-up |
| **Worker pool** `world/pipeline.rs` | a bounded queue under one mutex and condition variable, the view it serves, workers, the result channel | submit, pop (which deschedules what left the view), report, guard against a panic | no wake-up lost; every job taken is answered, once |
| **Chunk streaming** `world/{admit,resident,worklist}.rs`, `world/streaming/*` | loaded chunks with a state and a `rev`, claims, seed sets and flags of the lanes, uploads, strikes | move the eye, gather and submit, integrate results, upload, remesh edits, unload | no orphaned claim; no stale result drawn; what is due stays in its lane; a resting view is drawn |
| **Light lane** `world/light.rs`, `world/streaming/light.rs` | a light grid and marks per chunk, seeds, claims, floods in flight, accepted grids, an epoch | flood from a snapshot, accept, publish and wake neighbours, switch lighting | one flood per chunk at a time; the field settles, and to what its sources shed |
| **World core** `world/*` | overlay of edits, loaded voxels, sections | get, set, replay | loaded voxels are generation with the overlay |
| **Voice** `audio/*`, `net/voice.rs` | capture ring, epochs, jitter buffers | capture, send, play | no sample of before the key press is sent |
| Terrain, material law, blocks, modules, input, settings, rendering, UI, math | numeric or presentational | | no interleaving of their own |

### How they interact

- A client shows its own edit at once, sends it with the revision it expects, and notes
  it. The server's thread of that connection decides it under the state mutex. It gives
  the mutex up twice on the way: to read the generator for a cell never edited, and to
  call the hooks. Each time, every other thread may run.
- A commit is queued to all outboxes under the mutex that made it. Outboxes are bounded;
  a client whose outbox is full is kicked, never silently skipped. The author gets the
  content and the verdict, everyone else the edit.
- The reaction tick holds the mutex over a batch of commits and their sends.
- The autosave thread and `stop()` take the save gate, then the state mutex to capture
  the ledger, and write outside both.
- The main thread hands jobs with snapshots of what they read to the pool, and hears of them
  a frame or a hundred later. Claims (`generating`, a chunk's `building`, `light_inflight`)
  keep a second job from being made; `rev`, `light_gen` and `light_epoch` tell a result that
  still fits from one that does not.
- In single player the frame thread hands snapshots to a worker through a channel, hears
  of the result frames later, and blocks on it only when the world is left.

### What is hard

`PROJECT.json` lists each hazard at its line, with the properties that cover it or the
reason none does yet. They fall into five groups: handlers that look, unlock and write
(`on_edit`, `on_tool_use`); bounded queues whose overflow must not leave a hole;
predictions chained on predictions, whose verdicts come late or never; crashes and failed
steps between the renames of a save; and results of worker threads that come back to a
world that has moved on.

## 2. The modules

```
CellHistory  <== implements ==  EditSync = EditLedger + EditSession
 (abstract)                        |           \        /
                              MCEditSync        EditWire
                              EditSyncProofs

SavedWorld   <== implements ==  ServerSave, SlotSave
 (abstract)                          \       /
                                     WorldFile
           ServerSaveProofs, SlotSaveProofs  extend  them

MCWorldDoc, WorldDocProofs  extend  WorldDoc
MCPresence, PresenceProofs  extend  Presence

ChunkMesh  extends  JobPool          ChunkLight
    |                  |                 |
MCChunkMesh            |          MCChunkLight, ChunkLightProofs
ChunkMeshProofs  extends  JobPoolProofs
```

**EditWire** is what server and clients share: cells, blocks, the frames that carry
edits, and two ordered streams per connection. A stream stands for the outbox or out
queue, the QUIC stream and the reader's inbox together, since all of them keep order.

**EditLedger** is the server. `log[c]` is the list of all commits to a cell, so that
`State::edits` is its last entry and the revision is its length; the older entries exist
for the properties only. Each connection has its own thread: `phase[p]` is `idle` between
requests, `terrain` while `on_edit` has the lock released for the generator, `hook` while
it is released for the hooks, and `refuse` while `refuse_tool` reads the generator. One
action is what happens under one hold of the lock:

| Action | Code |
|---|---|
| `ReadTerrain` | `on_edit` up to the unlock for the generated block |
| `CallHooks` | `on_edit` or `on_tool_use` up to the unlock for the hooks |
| `EditRefused` | every reject of `on_edit`, and the rate budget's |
| `EditCommit` | the last checks, `State::write`, the broadcast, `Snapshot` and `EditAck` to the author |
| `ToolRefused`, `ToolAnswered` | every refusal of `on_tool_use`, through `refuse_tool` |
| `ToolCommit` | the law's outcome written, its result to the author, the edit to the rest |
| `Depart` | the connection's loop ends: `remove_player` |
| `ReactionTurn` | `ServerCells::set_pair` in a tick |
| `SendMutation` | one cell of `send_reaction_mutations` |

The tick holds the lock throughout: `tick # "off"` blocks every handler (`LockFree`). A
tick that commits nothing is a stutter. An outbox may be full whenever `OutCapacity`
frames are unread, but need not be, since the writer thread may have taken some: fullness
is a choice from there on. What a full outbox does depends on the frame, and each choice
is the code's: content kicks (`Publish`), a tool result to its author kicks
(`AnswerOrKick`), an `EditAck` is lost (`AnswerOrLose`, and the second disjunct of
`EditCommit`).

**EditSession** is the client: `known` is `cell_revs`, `view` the shown block, `pending`
the requests in flight. The session and the game each keep a map of them for the same
time, so one set stands for both. `Predict` is `commit_break` and `commit_place`,
`HearContent`, `HearAck` and `HearTool` are `apply` with what `apply_incoming` does to the
world, `Flush` is `flush_rejections` with the rollback, `EndPoll` is `expire`.

**EditSync** composes them, and states the properties. **CellHistory** is the promise:
cells are compare-and-set registers whose past never changes, and clients follow each one
forward. The mapping is `history <- log, seen <- known`.

**WorldFile** is the live file, its backup, the temporary file and `write_rotating` step
by step, with every step failing or being the last before a crash, and the read ladder.
**ServerSave** adds the gate, the autosave thread, `stop()` and the `rotate` flag;
**SlotSave** the autosaver, its worker and leaving a world. They differ where the code
does: the server rotates only a live file it trusts, single player always; the server's
ladder refuses part of a backup behind an undecodable live file, single player serves it
(`LadderSkipsBad`). A world is a generation number; a file is all of one, a part of one, or
unreadable. **SavedWorld** is the promise: one saved generation, replaced at once by a
newer one and found by the next start. The mapping of `stored` is the generation the ladder
would find (`Stored`), so every step between the renames must leave it alone.

**WorldDoc** is what the server's file says of each cell, over restarts of builds that do not
know the same blocks; how it gets onto the disk is ServerSave's. `Start` is `open` with
`install_edits` and `set_kept`: a cell is served if the build parses its block and the spec
pool can name it, which depends on the cells before it (`NamedBy`), and is kept otherwise.
`Edit`, `Tool` and `React` are the three ways to commit, which differ in `natural` and in how
they ask the pool; `Capture` is `save_world` under the state mutex, `Encode` is `Store::write`
after it, failed or not; `Halt` ends the process at any point.

**Presence** is who is there and who sees whom. `stage[p]` is where the thread of `p`'s
connection is; the hazard is that a join holds the lock five times and lets it go in
between:

| Action | Code |
|---|---|
| `Reserve`, `Abandon` | `reserve`: name and seat held, or refused; `Reserved` dropped unplaced |
| `Admit` | `place` with `State::admit`: roster, overlay and `announced` in one hold |
| `Bootstrap`, `BootstrapFails` | `send_join`, which waits for room in the outbox |
| `GoLive` | the backlog moved to the outbox, and `ready` set |
| `Announce` | `PeerJoined` to all who did not have `p` in their join roster |
| `RemovePlayer`, `Farewell` | the two halves of `depart` |
| `Move`, `PoseTick` | `commit_pose` from `on_move` and `on_teleport`; `broadcast_poses` |
| `Commit` | any broadcast of an edit |
| `Hear` | the client's `Session::apply` |

`Broadcast` is `broadcast_frame`: to the outbox of who is ready, to the backlog of who is
not, and a kick for who can take no more. The bootstrap, which nothing overtakes, is one
`Boot` frame. The world is its number of commits, of which a joiner must get the overlay and
then each later one once. Players in range are those in one place.

**JobPool** is the pool as the main thread and its workers see it. A worker is `idle`,
`waiting` on the condition variable, `running` a job or past it; `Submit` pushes and wakes
one waiter, `Pop` syncs the heap with the newest published view, reports what it sheds as
one `Cancelled` batch and takes the nearest job, `Sleep` waits when there was none, `Report`
sends the answer, `Finish` is the end of the loop's turn, where the panic guard answers
`Failed`. Priorities are distances on a line; ties are any order.

**ChunkMesh** is the streamer over that pool, with lighting off. The main thread is one
process; an action is one call that the frame makes, and what the frame's budgets may cut
short is an action for each piece:

| Action | Code |
|---|---|
| `Begin`, `Cross` | `begin_stream_at`, `cross_boundary`: a new centre, unloads, seeds, `prune_upload_queue` |
| `Gather`, `SubmitRun`, `GenerateIdle` | `request_region_data`: the cursor rebuilt, one run submitted, the flag lowered |
| `SubmitMesh`, `Evict`, `MeshIdle` | `admit_worklist` of the mesh lane |
| `Integrate` | `integrate_worker_result`: `accept_column`, `accept_mesh`, `cancel_job` or `fail_job` |
| `Upload` | `land_uploads`, one mesh; the GPU may refuse it |
| `EditStep`, `RemeshDirty` | `set_block`; the synchronous remesh of what it dirtied |
| `Work(w)` | one step of worker `w` |

Chunks lie on a line with one border cell on each side; a chunk outside `Mixed` is uniform
air. What a mesh shows (`seen`) is the snapshot it was built from, and `of` says from which
residency; both are what the properties compare. `holed` and `failed` record the two holes
the code leaves (a descheduled generate job, a failed upload), so that the properties can
say that there is no third.

**ChunkLight** is the light lane, whose chunks need no meshes: they appear and go (`Store`,
`Unload`), are edited, flooded and published.

| Action | Code |
|---|---|
| `Store` | `store_chunk`: `trivial_light` and `settle_light`, or a seed |
| `Unload` | `forget_chunk` and the purge of `light_apply_queue` in `unload_far_with` |
| `Edit` | `place` and `mark_dirty`: the seeds |
| `Submit`, `DropSeed`, `LaneIdle` | `admit_worklist` of the light lane, and its `submit` and `claim` |
| `Integrate` | `accept_light` |
| `Apply` | `apply_light_queue`: `settle_light` of the oldest grid |
| `Lose` | `resolve_claim` of a light job: descheduled or panicked |
| `SwitchLighting` | `transition_lighting` |

`Flood` is `propagate` along a row of cells, written as what the queue of the code computes:
the best of its sources, each less one per step, through cells that let light in. A job
carries its grid from the moment it is submitted, since its snapshot decides it.

## 3. The runs

| Run | Shows | Instance |
|---|---|---|
| `edit_sync` | types, commits on the expected revision, true verdicts, order, nothing missed, faithful mirror, implements `CellHistory` | 2 clients, 1 cell, 2 blocks, 2 requests each, 1 reaction commit, outbox 3, hooks on; 539k states |
| `edit_policy` | pool limit, every request settles | 1 client, 2 cells, 3 blocks, pool of 1, refusals of every kind, timeouts, a full out queue |
| `edit_live` | the clients converge | 2 clients, 1 request each, outbox 2, timeouts |
| `server_save` | the gate, the atomic file, stop's save and its end | 4 generations over all runs, 2 damaged files |
| `slot_save` | the autosaver's claims, the atomic slot until a file is damaged, leaving | 4 generations, 2 new worlds, 1 damaged file; 171k states |
| `slot_damaged` | `IntactSurvives` broken after one damaged file | 1 damaged file |
| `world_doc` | unedited cells stay in the file, the pool's limit, a restart serves what was saved | 3 cells, 3 blocks, pool of 2, 2 builds, 3 commits a session, any number of restarts and saves; 249k states |
| `presence` | names and seats, the overlay and what follows it, rosters, one announcement, rosters converge | 3 connections, 2 of one name, 2 seats, 2 commits, outbox 2; 282k states |
| `interest` | mutual interest, no ghosts | the same, 2 moves, 2 places, outbox 3; 670k states |
| `chunk_mesh` | no orphaned claim, nothing due forgotten, meshes and voxels follow the edits, no lost wake-up, a resting view is drawn | 2 workers, queue of 2, 6 chunks of which 2 need jobs, 2 places of the eye, 3 moves, 1 edit, 2 panics, 1 failed upload; 240k states |
| `stale_replay` | `VoxelsAreOverlay` broken by an edit that is undone while its chunk is generated | 1 worker, 2 edits |
| `chunk_light` | one owner of each claim, a quiet lane is a settled field and the true one, the lane falls quiet | 2 chunks of 2 cells, light up to 4, 2 edits, 2 unloads, losses or switches, quarantine after 2 panics; 367k states |

Why the bounds are enough. Two requests of one client are what a chain of predictions
takes; a second client and one reaction commit are the two ways a chain's base moves under
it. One cell carries every race over a revision; the second cell of `edit_policy` is there
for `set_pair`. An outbox of 3 is filled by one commit of each actor. Three generations let
live, backup and temporary file all differ, and a fourth makes a fresh one after a crash.
Two damaged files spoil both rungs of the ladder. `edit_sync` interchanges its clients
(symmetry); the runs that check liveness do not. In `presence` a third connection waits for
a seat or a name while two others join and leave; of two commits one can fall into a joiner's
backlog and one after it. In
`world_doc` the third cell is one more than the pool serves when all differ, so that a commit
can free the place a kept cell was refused. Two moves are what entering and leaving a range takes; `interest` has
no commits and `presence` no moves, as their frames do not touch each other's state.

`MayRefuse` and `ExpiryOn` switch sources of refusal and timeouts on per run, because the
disagreements 3 and 7 below would mask everything else. `MayRefuse` stands for rates, reach,
quotas, hooks and tool laws that find nothing to do; without it a request is refused only if its
revision is stale or the pool is full. In `edit_sync` the pool has room for both blocks and nothing times
out, so that refusals are stale ones, where `MirrorFaithful` and `NothingMissed` hold.

In `chunk_mesh` the eye leaves chunks 0 and 1 for a place from which they unload, and comes
back: three moves bring it in, out and in again, which is what a job of a former residency
takes; two chunks side by side make each the other's neighbour; two workers and a queue of
two let one sleep while the other is woken, and fill the queue. Two panics quarantine a
claim. In `chunk_light` a glowing block two cells away, with levels up to 4, lights three
cells, so it crosses the border and dims on the other side; the edits take it away, wall it
off and open rock behind the border. Two upsets are an unload with a job lost meanwhile, or
a switch off and on, or two panics of one chunk: the flood is tried again after the first and
given up after the second. With three upsets, and quarantine after one panic, the run passes
too (193 s).

The world may stop (nobody edits, the menu is left open), so deadlock is not an error in
any run.

**Fairness.** `EditSync`: a connection's thread with a request works, a kicked one leaves,
the tick finishes once it holds the lock, a client polls (it does so each frame, and each
poll times out what is due). Weak fairness is enough, as a lock's waiters are each other's
finite steps. Nobody has to edit, and the tick need not start. `ServerSave`: each saver
that can take a step takes it, and `stop` returns once it has joined the autosave thread.
`SlotSave`: the worker works or dies, and the frame thread goes on inside `flush_now`.
`Presence`: a thread goes on with a join or a departure it has begun, a kicked one leaves its
loop (the `Notify` keeps a permit), clients read; nobody has to join, move or leave.
`ChunkMesh`: each lane runs on every pass of the main thread while its flag is up, and a
worker that is not waiting is scheduled; the eye need not move. `ChunkLight`: the same of its
lane, each flood ends, and each frame integrates a result and publishes a grid, which
`integrate_results` and `apply_light_queue` do whatever their deadlines say (`integrated <
floor`, `applied == 0`).
No run assumes that a write succeeds or that an answer is not lost.

## 4. What is proved

### The edit protocol

`EditSyncProofs`, for any number of clients, cells and blocks, any bounds and either value
of every switch:

| Theorem | |
|---|---|
| `InvariantHolds` | `Spec => []IInv` |
| `TypeCorrect` | `Spec => []TypeOK` |
| `CommitsCorrect` | `Spec => []CommitsAtExpected` |
| `Implements` | `Spec => ImplementsHistory`, the refinement of `CellHistory` |
| `PoolKept` | `Spec => []PoolHolds` |
| `StreamOrdered` | `Spec => []StreamInOrder` |
| `VerdictsCorrect` | `Spec => []VerdictsTrue` |
| `MissesNothing` | `(~ExpiryOn \/ ~ToolsOn) /\ Spec => []NothingMissed` |
| `RollbacksClean` | with `~ExpiryOn`, `~MayRefuse` and a pool with room for all blocks: `Spec => []MirrorFaithful` |

The inductive invariant `IInv` is `TypeOK` with two facts: no frame in a stream names a
revision the ledger does not have (`FramesBehind`), and no client knows of one
(`KnownBehind`). Types alone do not give the refinement: `CellHistory!Learn` needs the
learned revision to exist, which for `HearContent` is a fact about the frame, and for that
frame a fact about the step that queued it. `CommitsAtExpected` is not part of it, since
each commit's guard `Current` reads the revision under the lock that writes. Assumptions: the
`ASSUME`s of EditWire, EditLedger and EditSession, which are what the names say (a
generated block for each cell, positive capacities).

Each server action is shown to do no more to the streams than append frames of a set
`Adds` names, so that the two invariants are proved once per shape of step. `next_cell_revision` is written as
a choice of the largest candidate, so no proof needs induction over the requests in flight.

The other five each add what they need to `IInv`:

- `PoolKept`: the blocks named by edited cells are finitely many and within the pool. A
  player's write adds one at most, and only under `PoolAdmits`; a reaction's two cells are
  counted after both writes.
- `StreamOrdered`: `StreamInOrder` speaks of tool results only while their use is in flight,
  and an accepted `EditAck` confirms a revision too. `InOrder` therefore orders every frame that
  carries a revision behind all that name one. It is kept because a frame names the next
  revision (`NextIsAbove`), except in the reaction tick, which sends a revision committed
  steps earlier: `HeldBack` says that meanwhile nobody has heard of it, and that nothing is
  held back once the lock is free.
- `VerdictsCorrect`: a verdict stays true only if no later commit is of the same request. So
  requests are counted (`InSequence`): there is a number below which a client's requests are
  decided and answered in order, and above which they wait in order. `AllTrue` is then kept
  by every commit, as it is of a request decided only now.
- `MissesNothing`: a lost verdict loses no content, and lost content kicks. The author of a
  tool use is left out of the broadcast, so its result must still count when it comes:
  `UsesAwaited` says that every use in a stream is still in flight, which needs the order of
  answers again, and fails once uses are given up (section 5, item 7): hence the condition.
- `RollbacksClean`: a client rolls a failed chain of predictions back to its oldest base only if
  it has confirmed nothing newer (`flush_rejections`), so what was refused must have been
  overtaken by content heard before the refusal. `Sane` says of each client and cell that it
  is: what a queued request expects is at most the ledger's revision, or one above what an
  earlier queued request expects (`Chained`), and a decided one expected less than the ledger has
  (`DecidedAbove`); so the content that made a request stale precedes its refusal in the
  stream (`AnswersNewer`), and what is rejected is older than what is confirmed (`RejectedOlder`).
  The other way out is `Hopeless`: a verdict was lost, or a request never left, and then the cell
  stays in flight for good, since nothing expires. `Books` ties requests, predictions and answers
  together client by client. The three assumptions are those of the run `edit_sync`; section 5,
  item 3 is what happens without the last two, item 7 touches the first.

### The server's saves

`ServerSaveProofs`, for any number of generations and of damaged files:

| Theorem | |
|---|---|
| `InvariantHolds` | `Spec => []IInv` |
| `TypeCorrect` | `Spec => []TypeOK`, with the gate's exclusion |
| `AcksSaved` | `Spec => []StopSavesAcks` |
| `IntactKept` | `Spec => IntactSurvives` |
| `Implements` | `Spec => ImplementsSavedWorld`, the refinement of `SavedWorld` |

Here the inductive invariant carries the argument. The promise is about the generation a
load would find, and a rename changes that generation unless the file moved onto it is whole:
so the temporary file of a saver about to rename is whole (`TmpWhole`), and between the
renames the backup holds what the live file held (`RotatedAway`). That backup counts only
if the live file was worth rotating, which is what `rotate` stands for (`LiveTrusted`, where
the ladder's first rung is the live file). Saves go forward because what is on disk is
behind what is being saved, and that behind the memory (`Behind`); this needs that one
saver only is past the gate, which is in `TypeOK`. `AcksBehind` is the same order for what
clients were told. Assumed: the bounds are naturals, and the two savers are autosave and stop.

### The single-player saves

`SlotSaveProofs`, for any number of generations, new worlds and damaged files:

| Theorem | |
|---|---|
| `InvariantHolds` | `Spec => []IInv` |
| `TypeCorrect` | `Spec => []TypeOK` |
| `ClaimsStored` | `Spec => []ClaimedIsStored` |
| `LeftSaved` | `Spec => []LeftAsItWas` |
| `Implements` | `Spec => ImplementsSavedWorld` |

No gate keeps the two writers apart here. A snapshot is at one place only, with the worker or
in its answer, and the frame thread begins only when none is in flight (`OneWriter`). A
claim must outlive the saves after it, which may fail at any step. That needs more than its
generation on disk: the disk must be `Sound`, with the live file intact, or missing and the
backup intact. Any rename then keeps what a load finds (`Backed`), although single player
rotates whatever it has. `Undamaged` carries the refinement: with no damage yet, files are whole
and no newer than what is being saved. A new world in a slot that still has a backup
(`TakesOver`) is the one step besides damage that the refinement does not cover (section 5,
item 8). Assumed: the two savers are the worker and the frame thread.

### The world file's content

`WorldDocProofs`, for any cells, blocks, builds, pool size and commits:

| Theorem | |
|---|---|
| `TypeCorrect` | `DocSpec => []TypeOK` |
| `UneditedKept` | `DocSpec => []UneditedStays` |
| `PoolHolds` | `DocSpec => []NamedWithinPool` |
| `RestartsServe` | `DocSpec => []RestartServes` |

`UneditedStays` needs that a save under way has captured what is still in the ledger wherever
nobody has edited since (`CapturedStands`): `Encode` drops kept cells by the snapshot, not by
the ledger of that moment.

A start reads the file cell by cell, and takes a cell if its block is named already or the pool
has room (`NamedBy`, a recursive function over the cells). Two facts about it hold for files of
any length: what is named never passes the pool (`NamedByPooled`), and where the ledger itself
fits the pool, nothing that a save wrote of it is refused (`SavedIsServed`, which needs that the
running build can parse what it serves, `Parsed`). Both are inductions over the cells. The library's
induction theorems cannot be used here, since they take an operator; the same argument is made
with the least number at which a claim fails (`AllNumbers`, from the library's `WFMin` and
`NatLessThanWellFounded`).

### Streaming and its pool

`ChunkMeshProofs` over `JobPoolProofs`, for any chunks on the line, boxes, workers and bounds:

| Theorem | |
|---|---|
| `TypeCorrect` | `Spec => []TypeOK` |
| `WakeupsKept` | `Spec => []WorkIsSeen`: queued work has a worker awake for it |
| `ClaimsHold` | `Spec => []ClaimsOwed`: every claim is owed an answer |
| `NothingLeftOut` | `Spec => []NothingForgotten`: what is due is in its lane's set |
| `VoxelsCurrent` | with `~Reverts`: `Spec => []VoxelsAreOverlay` |
| `DrawnCurrent` | with `~Reverts`: `Spec => []DrawnIsCurrent` |

`WorkIsSeen` is inductive with the types, and is proved of each step of the pool in
`JobPoolProofs`, for whatever set of jobs; the streamer's actions either leave the pool
alone or are one of `Submit`, `Publish` and `Receive`. `ClaimsOwed` is not inductive: that a
chunk is building must also mean that it is in a state that builds (`BuildingNeeds`), or an
edit's `invalidate` could leave a claim with a result that no longer releases it. For each
action the proof says what it does to the jobs held anywhere (`HeldJobs`) and to the claims.

The other three rest on one lemma about the whole next-state relation (`ChunksMove`): but for an
edit, a step makes one of five things of a chunk. It leaves it as it is, makes it anew for
another mesh, unloads it, loads it, or draws it; and the chunks beside a drawn or an unloaded one
keep their residency (`BordersHold`).

- `NothingLeftOut`: the invariant, `ForgetInv`, has four parts: how far the pass over the
  worklist has come (`PassInv`), that dirty chunks are listed (`DirtyListed`), that what is due is in
  its lane's set (`DueSeeded`), and that the generate lane has gathered every unclaimed chunk of its
  box, `holed` ones aside (`HolesListed`). A claim that ends without a mesh puts its chunk back.
  What is due is measured from both the eye and the place the lane was last seeded from, since the eye
  moves first and the sets are filled a step later.
- `VoxelsCurrent`: a generate job carries the overlay of the time it was submitted. What keeps
  its result right is that a cell the overlay does not hold now was not in the job either
  (`JobsCarryOverlay`), which an edit that restores a generated block breaks. That is the
  disagreement of the run `stale_replay` (section 5), and why both theorems assume `~Reverts`.
- `DrawnCurrent`: a mesh under way may be of a former residency, of a former revision, or
  current; it is never newer than its chunk, and if its two numbers are the chunk's then what it
  saw is what the overlay says (`Fits`). An edit at a border raises the revision on both
  sides, and a mesh is begun only when both neighbours have data, so no third thing can change
  under it.

### Light

`ChunkLightProofs`, for any row, landscapes, edits and bounds:

| Theorem | |
|---|---|
| `TypeCorrect` | `Spec => []TypeOK` |
| `OneOwner` | with `~LateLosses`: `Spec => []UniqueOwner` |
| `QuietSettled` | with `~LateLosses`: `Spec => []QuietIsSettled` |
| `FieldTrue` | with `~LateLosses` and `Width > 1`: `Spec => []QuietFieldIsTrue` |

`UniqueOwner` needs that no flood is of an epoch to come (`JobsBehind`): a switch clears
claims and queue but not the floods, and these must be stale for good. The assumption
`~LateLosses` is where code and documentation disagree (5.9): it says that the pool does not
lose a job of before a switch after it.

`QuietIsSettled` speaks of a lane at rest. Its invariant (`LightInv`) says of every loaded
chunk, at any time, who will put it right (`AllCared`): it is seeded; or it is claimed, and its
claim is marked for one more flood, or its flood or queued grid is the right one for the
borders beside it now (`Answered`); or it is at rest with right light. Left out are chunks
that are `untold` (section 5, item 11) or beside a quarantined claim (`Exempt`). The step that needs work is the
publishing of a grid, which changes what its neighbours' floods should have seen: either a
border moves, and then the neighbour is woken or marked; or no border moves; or both grids are
open sky, and then no block light enters and open ground stays open (`OpenStays`); or the
neighbour was passed over, and is then untold. Besides, nothing is claimed while lighting is off (`DarkIdle`), and a
grid with block light at a border is flagged as bright (`FlagsLit`).

`FieldTrue` goes on from there: chunk by chunk the light is what a flood makes of the borders
beside it, or the dark of solid rock (`Right`, which speaks of opaque cells too, as a neighbour
reads them at the border), and along the whole row this has one solution (`RowIsField`). No light
is without an ember (`AllKindled`): what came over an edge was brighter beyond it, so one follows
the light towards higher levels; light that left a chunk and came back adds nothing
(`KindledBeyond`). And an ember lights all it reaches (`AllReached`), by the distance from it. Both
are inductions by the least number. A chunk must be wider than one cell, as it is in the code: a
chunk of one rock cell is at once its own border and solid rock, which is published dark.

### Joining and presence

`PresenceProofs`, for any players, names, places and sizes:

| Theorem | |
|---|---|
| `TypeCorrect` | `Spec => []TypeOK`: who is seated, on the roster or ready is what the threads' stages say |
| `SeatsHold` | `Spec => []SeatsAndNames` |
| `InterestHolds` | `Spec => []InterestMutual` |
| `ClientsInformed` | `Spec => []ClientsInv`, the invariant of the next four |
| `JoinersCaughtUp` | `Spec => []JoinerMissesNothing` |
| `RostersAgree` | `Spec => []RosterAgrees` |
| `ToldOnce` | `Spec => []HeardOnce` |
| `GhostFree` | `Spec => []NoGhosts` |

`SeatsHold` adds that those seated are finitely many, so that they can be counted: `reserve`
counts roster and `joining` one by one, and `Admit` moves a player from one to the other, which
leaves their union alone. `InterestHolds` is inductive with the types: after a move the mover is
in another's interest exactly if that other is in range of it, as it was mutual before.

The last four speak of what a client will know once it has heard every frame on its way, which
is a fold over its queue. `ClientsInv` says of each client the server still owes every frame that
this fold agrees with the server (`Agrees`: its edits are the overlay it was admitted with and
all commits since, its peers the announced roster, its drawn players those in range), and that
no frame repeats what the frames before it said (`Clean`). A step of the server either adds
nothing for a client, or appends one or two frames, and then it is enough to apply these to the
fold (`Keeps`, `Takes`). That the fold of a longer queue is one more application, and that hearing the
first frame leaves the fold of the rest, are inductions over the queue, by the least number as
in `WorldDocProofs` (`HeardNext`, `HeardMore`). `Settled` says that nothing is queued
for nobody and that nothing waits behind a ready client.

### What stays with TLC

Every invariant and action property that a run checks and finds true is stated by a
theorem, with the assumptions given above. Liveness
(`Converges`, `RequestsSettle`, `StopCompletes`, `LeaveCompletes`, `RostersConverge`,
`WantedDrawn`, `LightSettles`) stays with TLC for good: fairness and ENABLED are out of the
prover's reach.

## 5. Where code and documentation disagree

The first two are runs that TLC must find violated; `PROJECT.json` quotes the lines. The
others are found by changing a configuration as said, and are worth a run each time the code
there is changed.

1. **A damaged slot** (`slot_damaged`). Single-player saves rotate a live file that did not
   decode over the backup that was loaded instead of it.
2. **An undone edit comes back** (`stale_replay`). A generate job replays the overlay it was
   handed; an edit restored meanwhile is dropped from the overlay as "pure weight"
   (`world/edits.rs:51`), and nothing takes the worker's copy out of the voxels.
3. **A rejected chain that is not rolled back** (`MirrorFaithful` with `MayRefuse = TRUE`,
   `HooksInstalled` and `ToolsOn` off and no symmetry in `EditSync.cfg`). A player predicts an
   edit, another player's commit lands, the player predicts again on top of it, and both are
   refused. `flush_rejections` compares the confirmed revision with the *oldest* base of the
   chain (`net/client.rs:1075`), takes the commit in between for newer content that covered
   the predictions, and leaves the second prediction on screen. A full pool has the same
   effect (`MaxSpecPool = 1`), and so has a tool use between the two that its law refuses.
4. **A kept block comes back** (`EditReplacesKept` in `WorldDoc.cfg`). Putting back the
   generated block of a cell that the file names and this build cannot parse does not replace
   it in the file: natural entries are left out of the snapshot (`net/server/save.rs:43`), by
   which `encode_snapshot` drops kept cells. A build that can parse the block shows it again,
   although a spec "stays in the file until a later edit replaces that cell"
   (`net/persist.rs:9`).
5. **A stale mesh** (`ReadyShowsItsVoxels` in place of the invariants of `ChunkMesh.cfg`, with
   `MaxEdits = 1`). Every residency of a chunk starts at rev 0 (`streaming/generate.rs:755`),
   so a mesh job of a former one passes for current. `DrawnIsCurrent` leaves that case out.
6. **Two holes of streaming** (`holed`, `failed`). A descheduled generate job is not asked
   for again until the next boundary crossing (`streaming/claims.rs:24`), and a mesh
   whose upload failed is not seeded again. Take either out of `WantedDrawn`.
7. **A late tool result** (`NothingMissed` with `ExpiryOn` and `ToolsOn` in `EditSync.cfg`). A
   use given up after `PENDING_TTL` drops its result when it comes, and the author is left out
   of the broadcast: that client never learns of its own commit (`net/server/edit.rs:204`).
8. **A hidden newcomer** (between `GoLive` and `Announce` of Presence). A client is ready
   before its `PeerJoined` is broadcast. A player whose move comes in between is sent the
   newcomer's pose first, drops it as unknown, and then shows nobody until the newcomer next
   moves (`net/server/join.rs:163`). **A slot with only a backup** is neither listed nor
   protected from `fresh_id` (`save/store.rs:237`): a new world takes it and saves over what a
   crash between the renames had left. Take `TakesOver` out of `ImplementsSavedWorld`.
9. **A claim freed twice** (`UniqueOwner` with `LateLosses = TRUE`, `MaxUpsets = 3`).
   `resolve_claim` frees the claim of a light job that is descheduled or panics without a
   look at its epoch (`streaming/claims.rs:81`). After a switch of lighting off and on the
   claim is a later flood's: two floods of one chunk are then in flight, and the older
   snapshot may land last. `accept_light` says that "releasing can never steal a newer claim".
10. **Light enters rock** (`StopsAtOpaque` with `Edits <- MCWall`). `seed_from_shell` lights the
   border cell whatever block it is, and the flood goes on from there, so light gets past an
   opaque border cell into the chunk; `world/light.rs:19` says it stops at opaque cells.
11. **Ghost light** (`FirstGridMissed`). When a chunk is unloaded its light goes on being
    counted in its neighbours; when it comes back darker, its first grid is compared with the
    dark, so they are not told. And a neighbour in flight from a snapshot of before is passed
    over when both grids are open sky now (`streaming/light.rs:430`), although its flood may
    yet land with light in it. `untold` records the chunks this may have happened to, and
    `QuietIsSettled` and `QuietFieldIsTrue` leave them out.

## 6. Limits of the models

Assumed, not modelled: renames are atomic and reach the disk in order; a file is damaged
only while the program is not running; revisions (`u32`, saturating) do not saturate; no
panic in a simulation model; once a kick is due, which of the later frames of that handler the
kicked client still gets does not matter; requests of one client time out in the order they were sent;
a connection loses nothing while it is up.

Abstracted: blocks and cells are a few values; the law a tool applies is any block; reach,
rates, quotas and hooks are one choice (`MayRefuse`); the byte encoding of files and frames
is what decoding yields.

`WorldDoc`: the cap on the edits of one file (`MAX_EDITS`), at which a save truncates, is left
out; so are the clock, the simulation records and the policy files. `RestartServes` is about
worlds whose parseable cells all fit the pool: past it, which cells are served is decided by
their order in the file, so that a restart may serve other cells than were served before.

`ChunkMesh`: chunks on a line with two border cells; one class of jobs (near), ties in any
order; no seams, ground window, spawn slab or reduced loading window; a chunk off the line
counts as loaded; light and its gate are out, as are the merging of buried solids
and the shutdown of the pool; `rev` does not wrap. `ChunkLight`: a row of cells on open
ground under the sky above (no ceilings, no other sky), no seams, no loading window
(`light_owed`), no gate from light to meshes, and a pool that takes every job; results are
integrated and published in any interleaving, where the code does so once a frame.

Not modelled, and why: terrain, material law and the geometry of meshes are numeric
functions of large inputs; rendering, UI, settings and input keep no durable or shared state; the
protocol codec is encoding; test harness and benches are not the program.

## 7. Plan

Done: the edit protocol, the server's saves and the single-player saves, each with its
refinement proved; what the world file keeps; joining, roster and presence; the worker pool,
chunk streaming and the light lane, with all their safety properties proved.

Next, in this order:

1. The section lane (far field) over JobPool, and the gate that lets a chunk mesh before its
   light has settled: degraded meshes, their promotion, and that each is replaced.
2. The policy files and the clock beside `WorldDoc`.
3. `SimHost`, `RateWindow`, `Scheduler`, inventory conservation under predictions.
