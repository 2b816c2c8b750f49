--------------------------- MODULE SlotSaveProofs ---------------------------
(***************************************************************************)
(* What holds of SlotSave for any number of generations, new worlds and    *)
(* damaged files: its types, that a save which is reported is on disk,     *)
(* that a world left without an error is there as it was left, and that    *)
(* on an undamaged disk it implements SavedWorld.                          *)
(***************************************************************************)
EXTENDS SlotSave, TLAPS

-----------------------------------------------------------------------------
(* The inductive invariant.                                                *)

Writing == {"create", "fill", "ready", "swap", "undo", "clean"}

(* What the game loads is intact, and no bad file stands before it.        *)
Sound ==
    \/ disk["live"].state = "intact"
    \/ ~Exists("live") /\ disk["bak"].state = "intact"

(* A snapshot in flight is with the worker or has been answered, and the   *)
(* frame thread writes only when none is.                                  *)
OneWriter ==
    /\ mode = "menu" => ~inFlight
    /\ ~inFlight => job = 0 /\ result = "none"
    /\ job # 0 => result = "none" /\ worker = "alive" /\ job = pendingGen
    /\ job = 0 => At("worker", "idle")
    /\ ~At("frame", "idle") => mode = "leaving" /\ ~inFlight

(* Whoever is about to rename the temporary file has filled it.            *)
Steps ==
    /\ saver["worker"].at \in Writing => saver["worker"].gen = job
    /\ saver["frame"].at \in Writing => saver["frame"].gen = world
    /\ \A s \in Savers :
        /\ saver[s].at \in {"ready", "swap"} => disk["tmp"] = Intact(saver[s].gen)
        /\ saver[s].at \in {"swap", "undo"} => ~Exists("live")

(* No generation is ahead of the one it was taken from.                    *)
Gens ==
    /\ \A f \in {"live", "bak"} :
        /\ disk[f].gen <= newest
        /\ disk[f].state \in {"intact", "partial"} => disk[f].gen > 0
    /\ world <= newest
    /\ mode = "menu" => savedGen = 0
    /\ mode # "menu" => 0 < world /\ savedGen <= world
    /\ job # 0 => savedGen <= job /\ job <= world
    /\ result = "written" => pendingGen <= world

(* Every claim that a save succeeded is backed by a sound disk.            *)
Backed ==
    /\ savedGen > base => Sound /\ Stored >= savedGen
    /\ At("worker", "written") => Sound /\ Stored >= job
    /\ result = "written" => Sound /\ Stored >= pendingGen
    /\ At("frame", "written") => Stored = world

(* Without damage every file is whole and no newer than what is saved.     *)
Undamaged ==
    damaged = 0 =>
        /\ \A f \in {"live", "bak"} : disk[f].state \in {"missing", "intact"}
        /\ mode # "menu" => Stored <= world
        /\ job # 0 => Stored <= job

IInv == TypeOK /\ OneWriter /\ Steps /\ Gens /\ Backed /\ Undamaged

-----------------------------------------------------------------------------
(* The disk as a load sees it.                                             *)

LEMMA StoredTyped ==
    ASSUME FileTypeOK
    PROVE  Stored \in Int /\ Rung \in {"live", "bak", "none"} /\ Lost = -1
BY DEF FileTypeOK, File, Stored, Rung, Lost

LEMMA StoredOld ==
    ASSUME FileTypeOK, \A f \in {"live", "bak"} : disk[f].gen <= newest
    PROVE  Stored <= newest
BY DEF FileTypeOK, File, Stored, Rung, Lost

LEMMA SameDisk ==
    ASSUME disk'["live"] = disk["live"], disk'["bak"] = disk["bak"]
    PROVE  /\ Stored' = Stored /\ Sound' = Sound
           /\ Exists("live")' = Exists("live")
BY DEF Stored, Rung, Sound, Exists

(* The renames of a save move what a load would serve, and lose nothing.   *)
LEMMA RotateFound ==
    ASSUME FileTypeOK, Sound, Exists("live"),
           disk' = [disk EXCEPT !["bak"] = disk["live"], !["live"] = Missing]
    PROVE  Stored' = Stored /\ Sound'
BY DEF FileTypeOK, File, Stored, Rung, Sound, Exists, Missing

LEMMA RestoreFound ==
    ASSUME FileTypeOK, ~Exists("live"), disk["bak"].state \in {"missing", "intact"},
           disk' = [disk EXCEPT !["live"] = disk["bak"], !["bak"] = Missing]
    PROVE  Stored' = Stored /\ (Sound => Sound')
BY DEF FileTypeOK, File, Stored, Rung, Sound, Exists, Missing

LEMMA SwapFound ==
    ASSUME NEW g, disk'["live"] = Intact(g)
    PROVE  Stored' = g /\ Sound'
BY DEF Stored, Rung, Sound, Intact

(* Undamaged, a disk with a file is sound, and one without has nothing.    *)
LEMMA CleanSound ==
    ASSUME FileTypeOK, \A f \in {"live", "bak"} : disk[f].state \in {"missing", "intact"}
    PROVE  Sound \/ (~Exists("live") /\ ~Exists("bak") /\ Stored = 0)
BY DEF FileTypeOK, File, Stored, Rung, Sound, Exists

-----------------------------------------------------------------------------
(* Entering a world, and changing it.                                      *)

Promise == (damaged = 0 /\ ~TakesOver => Abstract!Next) \/ UNCHANGED Abstract!vars

LEMMA OpenKeeps ==
    ASSUME IInv, Open
    PROVE  IInv' /\ Promise
<1>1. Stored' = Stored /\ Sound' = Sound /\ Exists("live")' = Exists("live")
  BY SameDisk DEF Open
<1>2. Stored \in Int /\ Stored <= newest /\ Lost = -1
  BY StoredTyped, StoredOld DEF IInv, TypeOK, FileTypeOK, Gens
<1>3. /\ mode = "menu" /\ mode' = "playing" /\ world' = Stored /\ base' = Stored
      /\ savedGen' \in {0, Stored}
      /\ UNCHANGED <<disk, saver, newest, damaged, pendingGen, inFlight, worker, job, result, made>>
  BY DEF Open
<1>4. Stored \in Nat /\ Stored > 0
  BY DEF Open, Stored, Rung, IInv, TypeOK, FileTypeOK, File, Gens
<1>5. ~inFlight /\ job = 0 /\ result = "none" /\ At("worker", "idle") /\ At("frame", "idle")
  BY <1>3 DEF IInv, OneWriter
<1>6. TypeOK'
  BY <1>3, <1>4, <1>5 DEF IInv, TypeOK, FileTypeOK
<1>7. OneWriter' /\ Steps'
  BY <1>1, <1>3, <1>5, SlotConstants DEF SlotConstants, IInv, OneWriter, Steps, At, Writing
<1>8. Gens'
  BY <1>2, <1>3, <1>4, <1>5 DEF IInv, Gens
<1>9. Backed' /\ Undamaged'
  BY <1>1, <1>2, <1>3, <1>4, <1>5 DEF IInv, Backed, Undamaged, At
<1>10. Promise
  BY <1>1, <1>2, <1>3, <1>4 DEF Promise, Abstract!Next, Abstract!Start, Abstract!Lost
<1> QED
  BY <1>6, <1>7, <1>8, <1>9, <1>10 DEF IInv

LEMMA NewWorldKeeps ==
    ASSUME IInv, NewWorld
    PROVE  IInv' /\ Promise
<1>1. Stored' = Stored /\ Sound' = Sound /\ Exists("live")' = Exists("live")
  BY SameDisk DEF NewWorld, Change
<1>2. Stored \in Int /\ Stored <= newest /\ newest \in Nat /\ made \in Nat
  BY StoredTyped, StoredOld DEF IInv, TypeOK, FileTypeOK, Gens
<1>3. /\ mode = "menu" /\ mode' = "playing" /\ newest' = newest + 1 /\ world' = newest + 1
      /\ base' = newest + 1 /\ savedGen' = newest + 1 /\ made' = made + 1
      /\ UNCHANGED <<disk, saver, damaged, pendingGen, inFlight, worker, job, result>>
  BY DEF NewWorld, Change
<1>5. ~inFlight /\ job = 0 /\ result = "none" /\ At("worker", "idle") /\ At("frame", "idle")
  BY <1>3 DEF IInv, OneWriter
<1>6. TypeOK'
  BY <1>2, <1>3, <1>5 DEF IInv, TypeOK, FileTypeOK
<1>7. OneWriter' /\ Steps'
  BY <1>1, <1>3, <1>5, SlotConstants DEF SlotConstants, IInv, OneWriter, Steps, At, Writing
<1>8. Gens'
  BY <1>2, <1>3, <1>5 DEF IInv, TypeOK, FileTypeOK, File, Gens
<1>9. Backed' /\ Undamaged'
  BY <1>1, <1>2, <1>3, <1>5 DEF IInv, Backed, Undamaged, At
<1>10. Promise
  <2>1. damaged = 0 /\ ~TakesOver => Stored = 0
    BY <1>3 DEF TakesOver, NewWorld, Stored, Rung, Exists
  <2> QED
    BY <1>1, <1>2, <1>3, <2>1 DEF Promise, Abstract!Next, Abstract!Start, Abstract!Lost
<1> QED
  BY <1>6, <1>7, <1>8, <1>9, <1>10 DEF IInv

LEMMA EditKeeps ==
    ASSUME IInv, Edit
    PROVE  IInv' /\ Promise
<1>1. Stored' = Stored /\ Sound' = Sound /\ Exists("live")' = Exists("live")
  BY SameDisk DEF Edit, Change
<1>2. /\ mode = "playing" /\ newest' = newest + 1 /\ world' = newest + 1
      /\ UNCHANGED <<disk, saver, damaged, mode, base, savedGen, pendingGen, inFlight, worker, job, result, made>>
  BY DEF Edit, Change, saverVars
<1>3. /\ Stored \in Int /\ newest \in Nat /\ world \in Nat /\ world <= newest /\ savedGen \in Nat
      /\ job \in Nat /\ pendingGen \in Nat /\ saver["frame"].at \notin Writing /\ ~At("frame", "written")
  BY <1>2, StoredTyped DEF IInv, TypeOK, FileTypeOK, Gens, OneWriter, At, Writing
<1>4. TypeOK'
  BY <1>2, <1>3 DEF IInv, TypeOK, FileTypeOK
<1>5. OneWriter' /\ Steps'
  BY <1>1, <1>2, <1>3 DEF IInv, OneWriter, Steps, At
<1>6. Gens'
  BY <1>2, <1>3 DEF IInv, TypeOK, FileTypeOK, File, Gens
<1>7. Backed' /\ Undamaged'
  BY <1>1, <1>2, <1>3 DEF IInv, Backed, Undamaged, At
<1>8. Promise
  BY <1>1, <1>2, <1>3 DEF Promise, Abstract!Next, Abstract!Edit
<1> QED
  BY <1>4, <1>5, <1>6, <1>7, <1>8 DEF IInv

-----------------------------------------------------------------------------
(* Steps of the autosaver that leave the disk and the world alone.         *)

LEMMA PollKeeps ==
    ASSUME IInv, Poll
    PROVE  IInv' /\ Promise
<1>1. Stored' = Stored /\ Sound' = Sound /\ Exists("live")' = Exists("live")
  BY SameDisk DEF Poll, fileVars
<1>2. /\ mode = "playing" /\ inFlight /\ inFlight' = FALSE
      /\ UNCHANGED <<disk, saver, world, newest, damaged, mode, base, pendingGen, job, made>>
      /\ result' = "none" /\ worker' \in {worker, "none"}
      /\ savedGen' \in {savedGen, pendingGen} /\ (result # "written" => savedGen' = savedGen)
      /\ result # "none" \/ worker = "dead"
  BY DEF Poll, fileVars
<1>3. job = 0 /\ At("frame", "idle")
  BY <1>2 DEF IInv, OneWriter
<1>4. TypeOK'
  BY <1>2 DEF IInv, TypeOK, FileTypeOK
<1>5. OneWriter' /\ Steps'
  BY <1>1, <1>2, <1>3 DEF IInv, OneWriter, Steps, At
<1>6. Gens'
  BY <1>2, <1>3 DEF IInv, Gens
<1>7. Backed' /\ Undamaged'
  BY <1>1, <1>2, <1>3 DEF IInv, Backed, Undamaged, At
<1>8. Promise
  BY <1>1, <1>2 DEF Promise, Abstract!vars
<1> QED
  BY <1>4, <1>5, <1>6, <1>7, <1>8 DEF IInv

LEMMA StartKeeps ==
    ASSUME IInv, Start
    PROVE  IInv' /\ Promise
<1>1. Stored' = Stored /\ Sound' = Sound /\ Exists("live")' = Exists("live")
  BY SameDisk DEF Start, fileVars
<1>2. /\ mode = "playing" /\ ~inFlight /\ inFlight' = TRUE /\ pendingGen' = world /\ job' = world
      /\ worker' = "alive"
      /\ UNCHANGED <<disk, saver, world, newest, damaged, mode, base, savedGen, result, made>>
  BY DEF Start, fileVars
<1>3. /\ job = 0 /\ result = "none" /\ world \in Nat /\ 0 < world /\ savedGen <= world
      /\ At("worker", "idle") /\ At("frame", "idle")
  BY <1>2 DEF IInv, OneWriter, Gens, TypeOK, FileTypeOK
<1>4. TypeOK'
  BY <1>2, <1>3 DEF IInv, TypeOK, FileTypeOK
<1>5. OneWriter' /\ Steps'
  BY <1>1, <1>2, <1>3 DEF IInv, OneWriter, Steps, At, Writing
<1>6. Gens'
  BY <1>2, <1>3 DEF IInv, Gens
<1>7. Backed' /\ Undamaged'
  BY <1>1, <1>2, <1>3 DEF IInv, Backed, Undamaged, At
<1>8. Promise
  BY <1>1, <1>2 DEF Promise, Abstract!vars
<1> QED
  BY <1>4, <1>5, <1>6, <1>7, <1>8 DEF IInv

LEMMA LeaveKeeps ==
    ASSUME IInv, Leave
    PROVE  IInv' /\ Promise
<1>1. Stored' = Stored /\ Sound' = Sound /\ Exists("live")' = Exists("live")
  BY SameDisk DEF Leave, fileVars
<1>2. /\ mode = "playing" /\ mode' = "leaving"
      /\ UNCHANGED <<disk, saver, world, newest, damaged, base, savedGen, pendingGen, inFlight, worker, job,
                     result, made>>
  BY DEF Leave, fileVars, saverVars
<1>3. TypeOK'
  BY <1>2 DEF IInv, TypeOK, FileTypeOK
<1>4. OneWriter' /\ Steps'
  BY <1>1, <1>2 DEF IInv, OneWriter, Steps, At
<1>5. Gens' /\ Backed' /\ Undamaged'
  BY <1>1, <1>2 DEF IInv, Gens, Backed, Undamaged, At
<1>6. Promise
  BY <1>1, <1>2 DEF Promise, Abstract!vars
<1> QED
  BY <1>3, <1>4, <1>5, <1>6 DEF IInv

LEMMA DrainKeeps ==
    ASSUME IInv, Drain
    PROVE  IInv' /\ Promise
<1>1. Stored' = Stored /\ Sound' = Sound /\ Exists("live")' = Exists("live")
  BY SameDisk DEF Drain, fileVars
<1>2. /\ mode = "leaving" /\ inFlight /\ inFlight' = FALSE /\ result' = "none"
      /\ worker' \in {worker, "none"} /\ (result # "none" \/ worker = "dead")
      /\ UNCHANGED <<disk, saver, world, newest, damaged, mode, base, savedGen, pendingGen, job, made>>
  BY DEF Drain, fileVars
<1>3. job = 0 /\ At("frame", "idle")
  BY <1>2 DEF IInv, OneWriter
<1>4. TypeOK'
  BY <1>2 DEF IInv, TypeOK, FileTypeOK
<1>5. OneWriter' /\ Steps'
  BY <1>1, <1>2, <1>3 DEF IInv, OneWriter, Steps, At
<1>6. Gens' /\ Backed' /\ Undamaged'
  BY <1>1, <1>2, <1>3 DEF IInv, Gens, Backed, Undamaged, At
<1>7. Promise
  BY <1>1, <1>2 DEF Promise, Abstract!vars
<1> QED
  BY <1>4, <1>5, <1>6, <1>7 DEF IInv

-----------------------------------------------------------------------------
(* The worker and its write; the frame thread and its own.                 *)

LEMMA GoesReads ==
    ASSUME IInv, NEW s \in Savers, NEW to \in Writing \cup {"written", "failed"}, Goes(s, to)
    PROVE  /\ saver' \in [Savers -> Progress]
           /\ saver'[s].at = to /\ saver'[s].gen = saver[s].gen
           /\ \A t \in Savers \ {s} : saver'[t] = saver[t]
<1>1. saver' = [saver EXCEPT ![s].at = to] /\ saver \in [Savers -> Progress]
  BY DEF Goes, IInv, TypeOK, FileTypeOK
<1> QED
  BY <1>1 DEF Progress, Writing

(* What a write carries, and that it is the only one.                      *)
LEMMA Carries ==
    ASSUME IInv, NEW s \in Savers, saver[s].at \in Writing
    PROVE  /\ mode # "menu" /\ s \in {"worker", "frame"}
           /\ s = "worker" => /\ job # 0 /\ saver[s].gen = job /\ result = "none" /\ At("frame", "idle")
           /\ s = "frame" => /\ job = 0 /\ saver[s].gen = world /\ result = "none" /\ At("worker", "idle")
                             /\ mode = "leaving" /\ ~inFlight
           /\ saver[s].gen \in Nat /\ saver[s].gen > 0 /\ saver[s].gen <= world
           /\ savedGen <= saver[s].gen /\ world <= newest
<1>1. s \in {"worker", "frame"} /\ ~At(s, "idle")
  BY SlotConstants DEF SlotConstants, Writing, At
<1>2. CASE s = "worker"
  <2>1. job # 0 /\ inFlight /\ mode # "menu" /\ saver[s].gen = job /\ result = "none" /\ At("frame", "idle")
    BY <1>1, <1>2 DEF IInv, OneWriter, Steps
  <2> QED
    BY <1>1, <1>2, <2>1 DEF IInv, TypeOK, FileTypeOK, Gens
<1>3. CASE s = "frame"
  <2>1. /\ job = 0 /\ ~inFlight /\ mode = "leaving" /\ saver[s].gen = world /\ result = "none"
        /\ At("worker", "idle")
    BY <1>1, <1>3 DEF IInv, OneWriter, Steps
  <2> QED
    BY <1>1, <1>3, <2>1 DEF IInv, TypeOK, FileTypeOK, Gens
<1> QED
  BY <1>1, <1>2, <1>3

Unmoved ==
    UNCHANGED <<world, newest, damaged, mode, base, savedGen, pendingGen, inFlight, worker, job, result, made>>

(* A step of a write that leaves the files in order: what a load serves    *)
(* stays, or becomes the generation written.                               *)
LEMMA MovesKeep ==
    ASSUME IInv, Unmoved, NEW s \in Savers, saver[s].at \in Writing,
           NEW to \in Writing \cup {"written", "failed"}, Goes(s, to),
           disk' \in [{"live", "bak", "tmp"} -> File], Stored' \in Int,
           \A f \in {"live", "bak"} :
                /\ disk'[f].gen <= newest
                /\ disk'[f].state \in {"intact", "partial"} => disk'[f].gen > 0
                /\ damaged = 0 => disk'[f].state \in {"missing", "intact"},
           IF to = "written" THEN Sound' /\ Stored' = saver[s].gen
           ELSE /\ Sound => Sound'
                /\ Sound \/ damaged = 0 => Stored' = Stored,
           to \in {"ready", "swap"} => disk'["tmp"] = Intact(saver[s].gen),
           to \in {"swap", "undo"} => ~Exists("live")'
    PROVE  IInv' /\ Promise
<1>1. UNCHANGED <<world, newest, damaged, mode, base, savedGen, pendingGen, inFlight, worker, job, result, made>>
  BY DEF Unmoved
<1>2. /\ saver' \in [Savers -> Progress]
      /\ saver'[s].at = to /\ saver'[s].gen = saver[s].gen
      /\ \A t \in Savers \ {s} : saver'[t] = saver[t]
  BY GoesReads
<1>3. /\ mode # "menu" /\ s \in {"worker", "frame"}
      /\ s = "worker" => /\ job # 0 /\ saver[s].gen = job /\ result = "none" /\ saver["frame"].at = "idle"
      /\ s = "frame" => /\ job = 0 /\ saver[s].gen = world /\ result = "none" /\ saver["worker"].at = "idle"
                        /\ mode = "leaving" /\ ~inFlight
      /\ saver[s].gen \in Nat /\ saver[s].gen > 0 /\ saver[s].gen <= world
      /\ savedGen <= saver[s].gen /\ world <= newest
  BY Carries DEF At
<1>4. Stored \in Int /\ world \in Nat /\ savedGen \in Nat /\ base \in Nat /\ job \in Nat
  BY StoredTyped DEF IInv, TypeOK, FileTypeOK
<1>5. Savers = {"worker", "frame"} /\ to # "idle"
  BY SlotConstants DEF SlotConstants, Writing
<1>6. TypeOK'
  BY <1>1, <1>2 DEF IInv, TypeOK, FileTypeOK
<1>7. OneWriter'
  BY <1>1, <1>2, <1>3, <1>5 DEF IInv, OneWriter, At
<1>8. Steps'
  BY <1>1, <1>2, <1>3, <1>5 DEF IInv, Steps, Writing
<1>9. Gens'
  BY <1>1 DEF IInv, Gens
<1>10. Backed'
  <2>1. savedGen > base => Sound' /\ Stored' >= savedGen
    BY <1>3, <1>4 DEF IInv, Backed
  <2>2. saver'["worker"].at = "written" => Sound' /\ Stored' >= job
    BY <1>2, <1>3, <1>4, <1>5
  <2>3. saver'["frame"].at = "written" => Stored' = world
    BY <1>2, <1>3, <1>5
  <2> QED
    BY <1>1, <1>3, <2>1, <2>2, <2>3 DEF Backed, At
<1>11. Undamaged'
  BY <1>1, <1>3, <1>4 DEF IInv, Undamaged
<1>12. Promise
  BY <1>1, <1>3, <1>4 DEF IInv, Undamaged, Promise, Abstract!Next, Abstract!Save, Abstract!vars
<1> QED
  BY <1>6, <1>7, <1>8, <1>9, <1>10, <1>11, <1>12 DEF IInv

LEMMA DiskTyped ==
    ASSUME IInv
    PROVE  /\ disk \in [{"live", "bak", "tmp"} -> File] /\ FileTypeOK
           /\ Missing \in File /\ Corrupt \in File /\ (\A g \in Nat : Intact(g) \in File)
           /\ Missing = [state |-> "missing", gen |-> 0]
BY DEF IInv, TypeOK, FileTypeOK, File, Missing, Corrupt, Intact

(* What the invariant says of the files as they are.                       *)
LEMMA FilesAre ==
    ASSUME IInv
    PROVE  \A f \in {"live", "bak"} :
                /\ disk[f].gen <= newest
                /\ disk[f].state \in {"intact", "partial"} => disk[f].gen > 0
                /\ damaged = 0 => disk[f].state \in {"missing", "intact"}
BY DEF IInv, Gens, Undamaged

(* A step that touches the temporary file at most.                         *)
LEMMA AsideKeeps ==
    ASSUME IInv, Unmoved, NEW s \in Savers, saver[s].at \in Writing,
           NEW to \in Writing \cup {"failed"}, Goes(s, to),
           disk' \in [{"live", "bak", "tmp"} -> File],
           disk'["live"] = disk["live"], disk'["bak"] = disk["bak"],
           to \in {"ready", "swap"} => disk'["tmp"] = Intact(saver[s].gen),
           to \in {"swap", "undo"} => ~Exists("live")
    PROVE  IInv' /\ Promise
<1>1. Stored' = Stored /\ Sound' = Sound /\ Exists("live")' = Exists("live")
  BY SameDisk
<1>2. Stored \in Int
  BY StoredTyped, DiskTyped
<1>3. \A f \in {"live", "bak"} :
        /\ disk'[f].gen <= newest
        /\ disk'[f].state \in {"intact", "partial"} => disk'[f].gen > 0
        /\ damaged = 0 => disk'[f].state \in {"missing", "intact"}
  BY FilesAre
<1> QED
  BY <1>1, <1>2, <1>3, MovesKeep DEF Writing

LEMMA RotateKeeps ==
    ASSUME IInv, Unmoved, NEW s \in Savers, Rotate(s)
    PROVE  IInv' /\ Promise
<1>1. /\ saver[s].at = "ready" /\ Goes(s, "swap") /\ Exists("live")
      /\ disk' = [disk EXCEPT !["bak"] = disk["live"], !["live"] = Missing]
  BY DEF Rotate, Rotates, At
<1>2. /\ disk' \in [{"live", "bak", "tmp"} -> File] /\ disk'["tmp"] = disk["tmp"]
      /\ disk'["live"] = Missing /\ disk'["bak"] = disk["live"] /\ newest \in Nat
  BY <1>1, DiskTyped DEF FileTypeOK
<1>3. \A f \in {"live", "bak"} :
        /\ disk'[f].gen <= newest
        /\ disk'[f].state \in {"intact", "partial"} => disk'[f].gen > 0
        /\ damaged = 0 => disk'[f].state \in {"missing", "intact"}
  BY <1>2, FilesAre DEF Missing
<1>4. damaged = 0 => Sound
  BY <1>1, FilesAre, DiskTyped, CleanSound
<1>5. Sound => Sound' /\ Stored' = Stored
  BY <1>1, DiskTyped, RotateFound
<1>6. Stored' \in Int
  BY <1>2 DEF File, Stored, Rung, Lost
<1>7. ~Exists("live")' /\ disk["tmp"] = Intact(saver[s].gen)
  BY <1>1, <1>2 DEF Exists, Missing, IInv, Steps
<1> QED
  BY <1>1, <1>2, <1>3, <1>4, <1>5, <1>6, <1>7, MovesKeep DEF Writing

LEMMA SwapKeeps ==
    ASSUME IInv, Unmoved, NEW s \in Savers, Swap(s)
    PROVE  IInv' /\ Promise
<1>1. /\ saver[s].at \in {"ready", "swap"} /\ Goes(s, "written")
      /\ disk' = [disk EXCEPT !["live"] = disk["tmp"], !["tmp"] = Missing]
  BY DEF Swap, At
<1>2. disk["tmp"] = Intact(saver[s].gen)
  BY <1>1 DEF IInv, Steps
<1>3. /\ disk' \in [{"live", "bak", "tmp"} -> File]
      /\ disk'["live"] = Intact(saver[s].gen) /\ disk'["bak"] = disk["bak"]
  BY <1>1, <1>2, DiskTyped
<1>4. /\ saver[s].gen \in Nat /\ saver[s].gen > 0 /\ saver[s].gen <= newest
  BY <1>1, Carries DEF Writing, IInv, TypeOK, FileTypeOK
<1>5. \A f \in {"live", "bak"} :
        /\ disk'[f].gen <= newest
        /\ disk'[f].state \in {"intact", "partial"} => disk'[f].gen > 0
        /\ damaged = 0 => disk'[f].state \in {"missing", "intact"}
  BY <1>3, <1>4, FilesAre DEF Intact
<1>6. Stored' = saver[s].gen /\ Sound'
  BY <1>3, SwapFound
<1> QED
  BY <1>1, <1>3, <1>4, <1>5, <1>6, MovesKeep DEF Writing

LEMMA UndoneKeeps ==
    ASSUME IInv, Unmoved, NEW s \in Savers, At(s, "undo"), Goes(s, "clean"),
           disk' = [disk EXCEPT !["live"] = disk["bak"], !["bak"] = Missing]
    PROVE  IInv' /\ Promise
<1>1. saver[s].at = "undo" /\ ~Exists("live")
  BY DEF At, IInv, Steps
<1>2. /\ disk' \in [{"live", "bak", "tmp"} -> File]
      /\ disk'["live"] = disk["bak"] /\ disk'["bak"] = Missing /\ newest \in Nat
  BY DiskTyped DEF FileTypeOK
<1>3. \A f \in {"live", "bak"} :
        /\ disk'[f].gen <= newest
        /\ disk'[f].state \in {"intact", "partial"} => disk'[f].gen > 0
        /\ damaged = 0 => disk'[f].state \in {"missing", "intact"}
  BY <1>2, FilesAre DEF Missing
<1>4. Sound \/ damaged = 0 => Stored' = Stored /\ (Sound => Sound')
  <2>1. Sound \/ damaged = 0 => disk["bak"].state \in {"missing", "intact"}
    BY <1>1, FilesAre DEF Sound, Exists
  <2> QED
    BY <1>1, <2>1, DiskTyped, RestoreFound
<1>5. Stored' \in Int
  BY <1>2 DEF File, Stored, Rung, Lost
<1> QED
  BY <1>1, <1>2, <1>3, <1>4, <1>5, MovesKeep DEF Writing

LEMMA WriteKeeps ==
    ASSUME IInv, NEW s \in Savers, Write(s)
    PROVE  IInv' /\ Promise
<1>1. Unmoved
  BY DEF Write, WriteStep, Unmoved, saverVars
<1>2. CASE CreateTmp(s)
  <2>1. saver[s].at = "create" /\ Goes(s, "fill") /\ disk' = [disk EXCEPT !["tmp"] = Corrupt]
    BY <1>2 DEF CreateTmp, At
  <2>2. /\ disk' \in [{"live", "bak", "tmp"} -> File]
        /\ disk'["live"] = disk["live"] /\ disk'["bak"] = disk["bak"]
    BY <2>1, DiskTyped
  <2> QED
    BY <1>1, <2>1, <2>2, AsideKeeps DEF Writing
<1>3. CASE FillTmp(s)
  <2>1. saver[s].at = "fill" /\ Goes(s, "ready") /\ disk' = [disk EXCEPT !["tmp"] = Intact(saver[s].gen)]
    BY <1>3 DEF FillTmp, At
  <2>2. saver[s].gen \in Nat
    BY <2>1, Carries DEF Writing
  <2>3. /\ disk' \in [{"live", "bak", "tmp"} -> File] /\ disk'["tmp"] = Intact(saver[s].gen)
        /\ disk'["live"] = disk["live"] /\ disk'["bak"] = disk["bak"]
    BY <2>1, <2>2, DiskTyped
  <2> QED
    BY <1>1, <2>1, <2>3, AsideKeeps DEF Writing
<1>4. CASE Rotate(s)
  BY <1>1, <1>4, RotateKeeps
<1>5. CASE Swap(s)
  BY <1>1, <1>5, SwapKeeps
<1>6. CASE Fail(s)
  <2>1. disk' = disk /\ disk \in [{"live", "bak", "tmp"} -> File]
    BY <1>6, DiskTyped DEF Fail
  <2>2. CASE saver[s].at \in {"create", "fill", "ready"} /\ Goes(s, "clean")
    BY <1>1, <2>1, <2>2, AsideKeeps DEF Writing
  <2>3. CASE saver[s].at = "swap" /\ Goes(s, "undo")
    <3>1. ~Exists("live")
      BY <2>3 DEF IInv, Steps
    <3> QED
      BY <1>1, <2>1, <2>3, <3>1, AsideKeeps DEF Writing
  <2> QED
    BY <1>6, <2>2, <2>3 DEF Fail, At
<1>7. CASE Undo(s)
  <2>1. saver[s].at = "undo" /\ Goes(s, "clean")
    BY <1>7 DEF Undo, At
  <2>2. CASE disk' = [disk EXCEPT !["live"] = disk["bak"], !["bak"] = Missing]
    BY <1>1, <2>1, <2>2, UndoneKeeps DEF At
  <2>3. CASE disk' = disk
    <3>1. disk \in [{"live", "bak", "tmp"} -> File]
      BY DiskTyped
    <3> QED
      BY <1>1, <2>1, <2>3, <3>1, AsideKeeps DEF Writing
  <2> QED
    BY <1>7, <2>2, <2>3 DEF Undo
<1>8. CASE Clean(s)
  <2>1. saver[s].at = "clean" /\ Goes(s, "failed")
    BY <1>8 DEF Clean, At
  <2>2. /\ disk' \in [{"live", "bak", "tmp"} -> File]
        /\ disk'["live"] = disk["live"] /\ disk'["bak"] = disk["bak"]
    BY <1>8, DiskTyped DEF Clean
  <2> QED
    BY <1>1, <2>1, <2>2, AsideKeeps DEF Writing
<1> QED
  BY <1>2, <1>3, <1>4, <1>5, <1>6, <1>7, <1>8 DEF Write, WriteStep

LEMMA WorkerBeginsKeeps ==
    ASSUME IInv, WorkerBegins
    PROVE  IInv' /\ Promise
<1>1. Stored' = Stored /\ Sound' = Sound /\ Exists("live")' = Exists("live")
  BY SameDisk DEF WorkerBegins
<1>2. /\ worker = "alive" /\ job # 0 /\ saver["worker"].at = "idle"
      /\ UNCHANGED <<disk, world, newest, damaged, mode, base, savedGen, pendingGen, inFlight, result, made>>
  BY DEF WorkerBegins, At
<1>3. /\ inFlight /\ mode # "menu" /\ result = "none" /\ saver["frame"].at = "idle" /\ job \in Nat
      /\ saver \in [Savers -> Progress] /\ "worker" \in Savers /\ "frame" \in Savers
      /\ Savers = {"worker", "frame"}
  BY <1>2, SlotConstants DEF SlotConstants, IInv, TypeOK, FileTypeOK, OneWriter, At
<1>4. CASE saver' = saver /\ worker' = "dead" /\ job' = 0
  <2>1. TypeOK' /\ OneWriter'
    BY <1>2, <1>3, <1>4 DEF IInv, TypeOK, FileTypeOK, OneWriter, At
  <2>2. Steps' /\ Gens'
    BY <1>1, <1>2, <1>3, <1>4 DEF IInv, Steps, Gens, Writing
  <2>3. Backed' /\ Undamaged'
    BY <1>1, <1>2, <1>3, <1>4 DEF IInv, Backed, Undamaged, At
  <2>4. Promise
    BY <1>1, <1>2 DEF Promise, Abstract!vars
  <2> QED
    BY <2>1, <2>2, <2>3, <2>4 DEF IInv
<1>5. CASE /\ worker' = worker /\ job' = job /\ saver' \in [Savers -> Progress]
           /\ \/ saver'["worker"].at = "create" /\ saver'["worker"].gen = job
              \/ saver'["worker"].at = "failed"
           /\ saver'["frame"] = saver["frame"]
  <2>1. TypeOK' /\ OneWriter'
    BY <1>2, <1>3, <1>5 DEF IInv, TypeOK, FileTypeOK, OneWriter, At
  <2>2. Steps' /\ Gens'
    BY <1>1, <1>2, <1>3, <1>5 DEF IInv, Steps, Gens, Writing
  <2>3. Backed' /\ Undamaged'
    BY <1>1, <1>2, <1>3, <1>5 DEF IInv, Backed, Undamaged, At
  <2>4. Promise
    BY <1>1, <1>2 DEF Promise, Abstract!vars
  <2> QED
    BY <2>1, <2>2, <2>3, <2>4 DEF IInv
<1>6. CASE Begin("worker", job, TRUE) /\ worker' = worker
  <2>1. saver' = [saver EXCEPT !["worker"] = [at |-> "create", gen |-> job, rotate |-> TRUE]] /\ job' = job
    BY <1>2, <1>6 DEF Begin, WorkerBegins
  <2>2. [at |-> "create", gen |-> job, rotate |-> TRUE] \in Progress
    BY <1>3 DEF Progress
  <2> QED
    BY <1>3, <1>5, <1>6, <2>1, <2>2
<1>7. CASE Goes("worker", "failed") /\ worker' = worker
  <2>1. job' = job
    BY <1>2, <1>7 DEF WorkerBegins
  <2> QED
    BY <1>3, <1>5, <1>7, <2>1, GoesReads
<1> QED
  BY <1>4, <1>6, <1>7 DEF WorkerBegins

LEMMA WorkerEndsKeeps ==
    ASSUME IInv, WorkerEnds
    PROVE  IInv' /\ Promise
<1>1. Stored' = Stored /\ Sound' = Sound /\ Exists("live")' = Exists("live")
  BY SameDisk DEF WorkerEnds
<1>2. /\ saver["worker"].at \in {"written", "failed"} /\ result' = saver["worker"].at /\ job' = 0
      /\ saver' = [saver EXCEPT !["worker"] = Idle]
      /\ UNCHANGED <<disk, world, newest, damaged, mode, base, savedGen, pendingGen, inFlight, worker, made>>
  BY DEF WorkerEnds
<1>3. /\ job # 0 /\ inFlight /\ mode # "menu" /\ job = pendingGen /\ job <= world
      /\ saver["frame"].at = "idle"
      /\ saver \in [Savers -> Progress] /\ Savers = {"worker", "frame"}
  BY <1>2, SlotConstants DEF SlotConstants, IInv, TypeOK, FileTypeOK, OneWriter, Gens, At
<1>4. Idle \in Progress /\ Idle.at = "idle"
  BY DEF Idle, Progress
<1>5. /\ saver' \in [Savers -> Progress] /\ saver'["worker"].at = "idle"
      /\ saver'["frame"] = saver["frame"]
  BY <1>2, <1>3, <1>4
<1>6. TypeOK' /\ OneWriter'
  BY <1>2, <1>3, <1>5 DEF IInv, TypeOK, FileTypeOK, OneWriter, At
<1>7. Steps' /\ Gens'
  BY <1>1, <1>2, <1>3, <1>5 DEF IInv, Steps, Gens, Writing
<1>8. Backed' /\ Undamaged'
  BY <1>1, <1>2, <1>3, <1>5 DEF IInv, Backed, Undamaged, At
<1>9. Promise
  BY <1>1, <1>2 DEF Promise, Abstract!vars
<1> QED
  BY <1>6, <1>7, <1>8, <1>9 DEF IInv

LEMMA FlushKeeps ==
    ASSUME IInv, Flush
    PROVE  IInv' /\ Promise
<1>1. Stored' = Stored /\ Sound' = Sound /\ Exists("live")' = Exists("live")
  BY SameDisk DEF Flush
<1>2. /\ mode = "leaving" /\ ~inFlight /\ saver["frame"].at = "idle"
      /\ UNCHANGED <<disk, world, newest, damaged, mode, base, savedGen, pendingGen, inFlight, worker, job,
                     result, made>>
      /\ Begin("frame", world, TRUE) \/ Goes("frame", "failed")
  BY DEF Flush, At, saverVars
<1>3. /\ job = 0 /\ result = "none" /\ saver["worker"].at = "idle" /\ world \in Nat
      /\ saver \in [Savers -> Progress] /\ "frame" \in Savers /\ Savers = {"worker", "frame"}
  BY <1>2, SlotConstants DEF SlotConstants, IInv, TypeOK, FileTypeOK, OneWriter, At
<1>4. /\ saver' \in [Savers -> Progress] /\ saver'["worker"] = saver["worker"]
      /\ \/ saver'["frame"].at = "create" /\ saver'["frame"].gen = world
         \/ saver'["frame"].at = "failed"
  <2>1. CASE Begin("frame", world, TRUE)
    <3>1. saver' = [saver EXCEPT !["frame"] = [at |-> "create", gen |-> world, rotate |-> TRUE]]
      BY <2>1 DEF Begin
    <3>2. [at |-> "create", gen |-> world, rotate |-> TRUE] \in Progress
      BY <1>3 DEF Progress
    <3> QED
      BY <1>3, <3>1, <3>2
  <2>2. CASE Goes("frame", "failed")
    BY <1>3, <2>2, GoesReads
  <2> QED
    BY <1>2, <2>1, <2>2
<1>5. TypeOK' /\ OneWriter'
  BY <1>2, <1>3, <1>4 DEF IInv, TypeOK, FileTypeOK, OneWriter, At
<1>6. Steps' /\ Gens'
  BY <1>1, <1>2, <1>3, <1>4 DEF IInv, Steps, Gens, Writing
<1>7. Backed' /\ Undamaged'
  BY <1>1, <1>2, <1>3, <1>4 DEF IInv, Backed, Undamaged, At
<1>8. Promise
  BY <1>1, <1>2 DEF Promise, Abstract!vars
<1> QED
  BY <1>5, <1>6, <1>7, <1>8 DEF IInv

LEMMA GoToMenuKeeps ==
    ASSUME IInv, mode # "menu", GoToMenu
    PROVE  IInv' /\ Promise
<1>1. Stored' = Stored /\ Sound' = Sound /\ Exists("live")' = Exists("live")
  BY SameDisk DEF GoToMenu, Forget
<1>2. /\ saver' = [s \in Savers |-> Idle] /\ world' = 0 /\ mode' = "menu" /\ base' = 0 /\ savedGen' = 0
      /\ pendingGen' = 0 /\ inFlight' = FALSE /\ worker' = "none" /\ job' = 0 /\ result' = "none"
      /\ UNCHANGED <<disk, newest, damaged, made>>
  BY DEF GoToMenu, Forget
<1>3. /\ saver' \in [Savers -> Progress] /\ newest \in Nat /\ Savers = {"worker", "frame"}
      /\ \A s \in Savers : saver'[s].at = "idle"
  BY <1>2, SlotConstants DEF SlotConstants, Idle, Progress, IInv, TypeOK, FileTypeOK
<1>4. TypeOK' /\ OneWriter'
  BY <1>2, <1>3 DEF IInv, TypeOK, FileTypeOK, OneWriter, At
<1>5. Steps' /\ Gens'
  BY <1>1, <1>2, <1>3 DEF IInv, Steps, Gens, Writing
<1>6. Backed' /\ Undamaged'
  BY <1>1, <1>2, <1>3 DEF IInv, Backed, Undamaged, At
<1>7. Promise
  BY <1>1, <1>2 DEF Promise, Abstract!Next, Abstract!Halt
<1> QED
  BY <1>4, <1>5, <1>6, <1>7 DEF IInv

LEMMA DamageKeeps ==
    ASSUME IInv, DamageFile
    PROVE  IInv' /\ Promise
<1>1. /\ mode = "menu" /\ damaged' = damaged + 1
      /\ UNCHANGED <<saver, world, newest, mode, base, savedGen, pendingGen, inFlight, worker, job, result, made>>
  BY DEF DamageFile, Damage, saverVars
<1>2. PICK f \in {"live", "bak"} :
        \/ /\ disk[f].state = "intact"
           /\ disk' = [disk EXCEPT ![f].state = "partial"]
        \/ /\ disk[f].state \in {"intact", "partial"}
           /\ disk' = [disk EXCEPT ![f] = Corrupt]
  BY DEF DamageFile, Damage
<1>3. /\ ~inFlight /\ job = 0 /\ result = "none" /\ saver["worker"].at = "idle" /\ saver["frame"].at = "idle"
      /\ savedGen = 0 /\ base \in Nat /\ newest \in Nat /\ damaged \in Nat /\ Savers = {"worker", "frame"}
  BY <1>1, SlotConstants DEF SlotConstants, IInv, OneWriter, Gens, TypeOK, FileTypeOK, At
<1>4. Corrupt = [state |-> "corrupt", gen |-> 0] /\ Corrupt \in File
  BY DiskTyped DEF Corrupt
<1>5. /\ disk' \in [{"live", "bak", "tmp"} -> File]
      /\ \A g \in {"live", "bak"} :
            disk'[g].gen <= newest /\ (disk'[g].state \in {"intact", "partial"} => disk'[g].gen > 0)
  <2>1. CASE disk[f].state \in {"intact", "partial"} /\ disk' = [disk EXCEPT ![f] = Corrupt]
    BY <1>3, <1>4, <2>1, DiskTyped, FilesAre
  <2>2. CASE disk[f].state = "intact" /\ disk' = [disk EXCEPT ![f].state = "partial"]
    <3>1. /\ [disk[f] EXCEPT !.state = "partial"] \in File
          /\ [disk[f] EXCEPT !.state = "partial"].gen = disk[f].gen
      BY DiskTyped DEF File
    <3> QED
      BY <2>2, <3>1, DiskTyped, FilesAre
  <2> QED
    BY <1>2, <2>1, <2>2
<1>6. TypeOK' /\ OneWriter'
  BY <1>1, <1>3, <1>5 DEF IInv, TypeOK, FileTypeOK, OneWriter, At
<1>7. Steps'
  BY <1>1, <1>3 DEF Steps, Writing
<1>8. Gens' /\ Backed' /\ Undamaged'
  BY <1>1, <1>3, <1>5 DEF IInv, Gens, Backed, Undamaged, At
<1>9. Promise
  BY <1>1 DEF Promise, Abstract!Next, Abstract!Damage, Abstract!vars
<1> QED
  BY <1>6, <1>7, <1>8, <1>9 DEF IInv

-----------------------------------------------------------------------------
(* The theorems.                                                           *)

LEMMA InitHolds ==
    ASSUME Init
    PROVE  IInv /\ Abstract!Init
<1>1. /\ disk = [f \in {"live", "bak", "tmp"} |-> Missing] /\ saver = [s \in Savers |-> Idle]
      /\ world = 0 /\ newest = 0 /\ damaged = 0 /\ mode = "menu" /\ base = 0 /\ made = 0
      /\ savedGen = 0 /\ pendingGen = 0 /\ inFlight = FALSE /\ worker = "none" /\ job = 0 /\ result = "none"
  BY DEF Init, FileInit
<1>2. Missing = [state |-> "missing", gen |-> 0] /\ Missing \in File /\ Idle \in Progress
  BY DEF Missing, File, Idle, Progress
<1>3. saver["worker"].at = "idle" /\ saver["frame"].at = "idle" /\ Savers = {"worker", "frame"}
  BY <1>1, SlotConstants DEF SlotConstants, Idle
<1>4. TypeOK /\ OneWriter
  BY <1>1, <1>2, <1>3 DEF TypeOK, FileTypeOK, OneWriter, At
<1>5. Steps /\ Gens /\ Backed /\ Undamaged
  BY <1>1, <1>2, <1>3 DEF Steps, Gens, Backed, Undamaged, At, Writing
<1>6. Stored = 0
  BY <1>1 DEF Stored, Rung, Exists, Missing
<1> QED
  BY <1>1, <1>4, <1>5, <1>6 DEF IInv, Abstract!Init

(* A step keeps the invariant and is what SavedWorld promises.             *)
LEMMA NextKeeps ==
    ASSUME IInv, [Next]_vars
    PROVE  IInv' /\ Promise
<1>1. CASE UNCHANGED vars
  <2>1. UNCHANGED <<disk, saver, world, newest, damaged, mode, base, savedGen, pendingGen, inFlight, worker,
                    job, result, made>>
    BY <1>1 DEF vars, fileVars, saverVars
  <2>2. Stored' = Stored /\ Sound' = Sound /\ Exists("live")' = Exists("live")
    BY <2>1, SameDisk
  <2>3. TypeOK' /\ OneWriter' /\ Steps'
    BY <2>1, <2>2 DEF IInv, TypeOK, FileTypeOK, OneWriter, Steps, At
  <2>4. Gens' /\ Backed' /\ Undamaged'
    BY <2>1, <2>2 DEF IInv, Gens, Backed, Undamaged, At
  <2> QED
    BY <2>1, <2>2, <2>3, <2>4 DEF IInv, Promise, Abstract!vars
<1>2. CASE Worker
  <2>1. "worker" \in Savers
    BY SlotConstants DEF SlotConstants
  <2> QED
    BY <1>2, <2>1, WorkerBeginsKeeps, WorkerEndsKeeps, WriteKeeps DEF Worker
<1>3. CASE Leaving \/ Crash
  <2>1. "frame" \in Savers
    BY SlotConstants DEF SlotConstants
  <2>2. Left \/ Crash => mode # "menu" /\ GoToMenu
    BY DEF Left, Crash
  <2> QED
    BY <1>3, <2>1, <2>2, DrainKeeps, FlushKeeps, WriteKeeps, GoToMenuKeeps DEF Leaving
<1> QED
  BY <1>1, <1>2, <1>3, OpenKeeps, NewWorldKeeps, EditKeeps, PollKeeps, StartKeeps, LeaveKeeps,
     DamageKeeps DEF Next

(* In every reachable state one thread at most writes, what it is about to *)
(* rename is whole, and every reported save is backed by the disk.         *)
THEOREM InvariantHolds == Spec => []IInv
<1>1. Init => IInv
  BY InitHolds
<1>2. IInv /\ [Next]_vars => IInv'
  BY NextKeeps
<1> QED
  BY <1>1, <1>2, PTL DEF Spec

(* The types, and that a write in flight has a worker (Autosaver).         *)
THEOREM TypeCorrect == Spec => []TypeOK
<1>1. IInv => TypeOK
  BY DEF IInv
<1> QED
  BY <1>1, InvariantHolds, PTL

(* What the autosaver counts as saved is on disk (Autosaver::poll).        *)
THEOREM ClaimsStored == Spec => []ClaimedIsStored
<1>1. IInv => ClaimedIsStored
  BY DEF IInv, Backed, ClaimedIsStored
<1> QED
  BY <1>1, InvariantHolds, PTL

(* What flush_now has written is what a load finds: no snapshot the worker *)
(* still had lands on top of it.                                           *)
THEOREM LeftSaved == Spec => []LeftAsItWas
<1>1. IInv => LeftAsItWas
  BY DEF IInv, Backed, LeftAsItWas
<1> QED
  BY <1>1, InvariantHolds, PTL

(* On an undamaged disk the steps of write_rotating, by two threads, with  *)
(* their failures and crashes, are one atomic replacement of the world.    *)
THEOREM Implements == Spec => ImplementsSavedWorld
<1>1. Init => Abstract!Init
  BY InitHolds
<1>2. IInv /\ [Next]_vars => [damaged = 0 /\ ~TakesOver => Abstract!Next]_(Abstract!vars)
  BY NextKeeps DEF Promise
<1> QED
  BY <1>1, <1>2, InvariantHolds, PTL DEF Spec, ImplementsSavedWorld
=============================================================================
