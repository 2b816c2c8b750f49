------------------------------ MODULE SlotSave ------------------------------
(***************************************************************************)
(* Single-player saves: the frame thread hands a snapshot of the world to  *)
(* the autosave worker, hears of its result a few frames later, and on the *)
(* way out of the world waits for the worker and saves once more itself.   *)
(* One slot is followed, the first that a new world is given.              *)
(***************************************************************************)
EXTENDS WorldFile

CONSTANT MaxNew     \* bound: new worlds the player makes

ASSUME SlotConstants ==
    /\ Savers = {"worker", "frame"}
    /\ MaxNew \in Nat

VARIABLES
    mode,           \* "menu", "playing", or "leaving": inside flush_now
    base,           \* the generation the world had when it was entered
    savedGen,       \* Autosaver::saved_gen
    pendingGen,     \* Autosaver::pending_gen
    inFlight,       \* Autosaver::in_flight
    worker,         \* the writer thread: "none", "alive", or "dead" and not noticed
    job,            \* the snapshot the worker has not finished with; 0 none
    result,         \* what it has sent back: "none", "written" or "failed"
    made            \* new worlds made so far

saverVars == <<savedGen, pendingGen, inFlight, worker, job, result>>
vars == <<fileVars, mode, base, saverVars, made>>

Init ==
    /\ FileInit
    /\ mode = "menu" /\ base = 0 /\ made = 0
    /\ savedGen = 0 /\ pendingGen = 0 /\ inFlight = FALSE
    /\ worker = "none" /\ job = 0 /\ result = "none"

-----------------------------------------------------------------------------
(* Entering a world.                                                       *)

(* The menu lists the slots with a live file. A loaded world that has      *)
(* edits counts as changed since saved_gen.                                *)
Open ==
    /\ mode = "menu" /\ Exists("live") /\ Rung # "none"
    /\ mode' = "playing"
    /\ world' = Stored /\ base' = Stored
    /\ savedGen' \in {0, Stored}
    /\ UNCHANGED <<disk, saver, newest, damaged, pendingGen, inFlight, worker, job, result, made>>

(* fresh_id: the slot has no live file. *)
NewWorld ==
    /\ mode = "menu" /\ ~Exists("live")
    /\ made < MaxNew /\ made' = made + 1
    /\ mode' = "playing"
    /\ Change
    /\ base' = world' /\ savedGen' = world'
    /\ UNCHANGED <<pendingGen, inFlight, worker, job, result>>

Edit ==
    /\ mode = "playing"
    /\ Change
    /\ UNCHANGED <<mode, base, saverVars, made>>

-----------------------------------------------------------------------------
(* Autosaves: a frame polls, then starts one when one is due.              *)

(* Mutant: the generation of now is promoted, not the one handed over.     *)
PollCurrent ==
    /\ mode = "playing" /\ inFlight
    /\ \/ /\ result # "none"
          /\ savedGen' = IF result = "written" THEN world ELSE savedGen
          /\ result' = "none"
          /\ UNCHANGED worker
       \/ /\ result = "none" /\ worker = "dead"
          /\ worker' = "none"
          /\ UNCHANGED <<savedGen, result>>
    /\ inFlight' = FALSE
    /\ UNCHANGED <<fileVars, mode, base, pendingGen, job, made>>

Poll ==
    /\ mode = "playing" /\ inFlight
    /\ \/ /\ result # "none"
          /\ savedGen' = IF result = "written" THEN pendingGen ELSE savedGen
          /\ result' = "none"
          /\ UNCHANGED worker
       \/ /\ result = "none" /\ worker = "dead"
          /\ worker' = "none"
          /\ UNCHANGED <<savedGen, result>>
    /\ inFlight' = FALSE
    /\ UNCHANGED <<fileVars, mode, base, pendingGen, job, made>>

(* Mutant: no worker is started.                                           *)
StartUnspawned ==
    /\ mode = "playing"
    /\ ~inFlight /\ world # savedGen
    /\ pendingGen' = world /\ job' = world
    /\ inFlight' = TRUE
    /\ UNCHANGED <<fileVars, mode, base, savedGen, worker, result, made>>

(* wants_write, and the interval has passed. The snapshot is taken here,   *)
(* and the first one starts the worker.                                    *)
Start ==
    /\ mode = "playing"
    /\ ~inFlight /\ world # savedGen
    /\ pendingGen' = world /\ job' = world
    /\ inFlight' = TRUE
    /\ worker' = "alive"
    /\ UNCHANGED <<fileVars, mode, base, savedGen, result, made>>

(* The worker encodes the snapshot and writes the slot. A panic ends it.   *)
WorkerBegins ==
    /\ worker = "alive" /\ job # 0 /\ At("worker", "idle")
    /\ \/ Begin("worker", job, TRUE) /\ UNCHANGED worker
       \/ Goes("worker", "failed") /\ UNCHANGED worker
       \/ worker' = "dead" /\ UNCHANGED saver
    /\ job' = IF worker' = "dead" THEN 0 ELSE job
    /\ UNCHANGED <<disk, world, newest, damaged, mode, base, savedGen, pendingGen, inFlight, result, made>>

WorkerEnds ==
    /\ saver["worker"].at \in {"written", "failed"}
    /\ result' = saver["worker"].at
    /\ job' = 0
    /\ saver' = [saver EXCEPT !["worker"] = Idle]
    /\ UNCHANGED <<disk, world, newest, damaged, mode, base, savedGen, pendingGen, inFlight, worker, made>>

Write(s) ==
    /\ WriteStep(s)
    /\ UNCHANGED <<mode, base, saverVars, made>>

-----------------------------------------------------------------------------
(* Leaving.                                                                *)

Leave ==
    /\ mode = "playing"
    /\ mode' = "leaving"
    /\ UNCHANGED <<fileVars, base, saverVars, made>>

(* Mutant: the dead worker is waited for as well.                          *)
DrainLiving ==
    /\ mode = "leaving" /\ inFlight
    /\ result # "none"
    /\ inFlight' = FALSE
    /\ result' = "none"
    /\ UNCHANGED <<fileVars, mode, base, savedGen, pendingGen, worker, job, made>>

(* The result of the write in flight does not matter. *)
Drain ==
    /\ mode = "leaving" /\ inFlight
    /\ result # "none" \/ worker = "dead"
    /\ inFlight' = FALSE
    /\ result' = "none"
    /\ worker' = IF result = "none" THEN "none" ELSE worker
    /\ UNCHANGED <<fileVars, mode, base, savedGen, pendingGen, job, made>>

(* Mutant: the write in flight is not waited for.                          *)
FlushAtOnce ==
    /\ mode = "leaving" /\ At("frame", "idle")
    /\ Begin("frame", world, TRUE) \/ Goes("frame", "failed")
    /\ UNCHANGED <<disk, world, newest, damaged, mode, base, saverVars, made>>

(* The world is encoded and written on the frame thread, changed or not.   *)
Flush ==
    /\ mode = "leaving" /\ ~inFlight /\ At("frame", "idle")
    /\ Begin("frame", world, TRUE) \/ Goes("frame", "failed")
    /\ UNCHANGED <<disk, world, newest, damaged, mode, base, saverVars, made>>

GoToMenu ==
    /\ Forget
    /\ mode' = "menu" /\ base' = 0
    /\ savedGen' = 0 /\ pendingGen' = 0 /\ inFlight' = FALSE
    /\ worker' = "none" /\ job' = 0 /\ result' = "none"
    /\ UNCHANGED made

(* The world is left whether or not it could be saved.                     *)
Left ==
    /\ mode = "leaving"
    /\ saver["frame"].at \in {"written", "failed"}
    /\ GoToMenu

Crash ==
    /\ mode # "menu"
    /\ GoToMenu

DamageFile ==
    /\ mode = "menu"
    /\ Damage
    /\ UNCHANGED <<mode, base, saverVars, made>>

Worker == WorkerBegins \/ Write("worker") \/ WorkerEnds

Leaving == Drain \/ Flush \/ Write("frame") \/ Left

Next ==
    \/ Open \/ NewWorld \/ Edit \/ Poll \/ Start
    \/ Leave \/ Crash \/ DamageFile
    \/ Worker \/ Leaving

Spec == Init /\ [][Next]_vars

(* The worker works, and the frame thread does not stop inside flush_now.  *)
FairSpec == Spec /\ WF_vars(Worker) /\ WF_vars(Leaving)

-----------------------------------------------------------------------------
(* Properties.                                                             *)

(* A write in flight has a worker. *)
TypeOK ==
    /\ FileTypeOK
    /\ mode \in {"menu", "playing", "leaving"}
    /\ base \in Nat /\ savedGen \in Nat /\ pendingGen \in Nat /\ job \in Nat /\ made \in Nat
    /\ inFlight \in BOOLEAN
    /\ worker \in {"none", "alive", "dead"}
    /\ result \in {"none", "written", "failed"}
    /\ inFlight => worker # "none"

(* What the autosaver counts as saved is on disk, so that an autosave it   *)
(* leaves out is not missed (Autosaver::poll, wants_write).                *)
ClaimedIsStored == savedGen > base => Stored >= savedGen

(* A world left without an error is on disk as it was when it was left:    *)
(* no older snapshot of the worker lands on top of it (flush_now).         *)
LeftAsItWas == mode = "leaving" /\ At("frame", "written") => Stored = world

(* Whatever fails or crashes, an intact file is never traded for none: the *)
(* claim of save/store.rs, which its unconditional rotation breaks.        *)
IntactSurvives == [][mode # "menu" /\ HasIntact => HasIntact']_vars

Abstract == INSTANCE SavedWorld WITH up <- mode # "menu", stored <- Stored

(* A new world in a slot that still has a backup.                          *)
TakesOver == NewWorld /\ Exists("bak")

(* On a disk where no file has been damaged yet, the renames amount to one *)
(* atomic replacement of the saved world, whatever fails or crashes        *)
(* (write_rotating), except that fresh_id takes a slot for unused that a   *)
(* crash has left with only its backup. After damage they do not: see      *)
(* IntactSurvives.                                                         *)
ImplementsSavedWorld ==
    /\ Abstract!Init
    /\ [][damaged = 0 /\ ~TakesOver => Abstract!Next]_(Abstract!vars)

(* Leaving never waits for a worker that will not answer.                  *)
LeaveCompletes == mode = "leaving" ~> mode = "menu"
=============================================================================
