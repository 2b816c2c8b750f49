------------------------------ MODULE WorldFile ------------------------------
(***************************************************************************)
(* A world on disk: the live file, its one backup and the temporary file   *)
(* of a save, the steps by which a save replaces them, and the ladder a    *)
(* load climbs down. The server's world file and the single-player slots   *)
(* share this code.                                                        *)
(*                                                                         *)
(* A file is told apart by what decoding it yields: all of some generation *)
(* of the world, a part of it (a cut tail), or nothing. Renames are atomic *)
(* and survive a crash in the order they were made.                        *)
(***************************************************************************)
EXTENDS Integers

CONSTANTS
    Savers,         \* the threads that save
    LadderSkipsBad, \* whether a part of a backup stands in for an undecodable live file
    MaxGen,         \* bound: generations of the world over all of its runs
    MaxDamage       \* bound: damaged files

ASSUME FileConstants ==
    /\ LadderSkipsBad \in BOOLEAN
    /\ MaxGen \in Nat
    /\ MaxDamage \in Nat

VARIABLES
    disk,           \* ["live", "bak", "tmp" -> File]
    saver,          \* [Savers -> the progress of its save]
    world,          \* the generation in memory; 0 when the program is not running
    newest,         \* the newest generation there ever was
    damaged         \* how many files were damaged so far

fileVars == <<disk, saver, world, newest, damaged>>

File == [state : {"missing", "corrupt", "partial", "intact"}, gen : Nat]

Missing     == [state |-> "missing", gen |-> 0]
Corrupt     == [state |-> "corrupt", gen |-> 0]
Intact(g)   == [state |-> "intact", gen |-> g]

(* `at` is the next step of write_rotating; "due" and "gated" come before  *)
(* it, "written" and "failed" are its results.                             *)
Progress ==
    [at : {"idle", "due", "gated", "create", "fill", "ready", "swap", "undo", "clean", "written", "failed"},
     gen : Nat, rotate : BOOLEAN]

Idle == [at |-> "idle", gen |-> 0, rotate |-> FALSE]

FileTypeOK ==
    /\ disk \in [{"live", "bak", "tmp"} -> File]
    /\ saver \in [Savers -> Progress]
    /\ world \in Nat
    /\ newest \in Nat
    /\ damaged \in Nat

FileInit ==
    /\ disk = [f \in {"live", "bak", "tmp"} |-> Missing]
    /\ saver = [s \in Savers |-> Idle]
    /\ world = 0
    /\ newest = 0
    /\ damaged = 0

-----------------------------------------------------------------------------
(* Reading.                                                                *)

Exists(f) == disk[f].state # "missing"

(* The file a load serves: intact live, intact backup, part of the live    *)
(* file, part of the backup.                                               *)
Rung ==
    IF disk["live"].state = "intact" THEN "live"
    ELSE IF disk["bak"].state = "intact" THEN "bak"
    ELSE IF disk["live"].state = "partial" THEN "live"
    ELSE IF disk["bak"].state = "partial" /\ (LadderSkipsBad \/ ~Exists("live")) THEN "bak"
    ELSE "none"

Lost == -1

(* The generation a load finds; 0 when there never was a file.             *)
Stored ==
    IF Rung # "none" THEN disk[Rung].gen
    ELSE IF ~Exists("live") /\ ~Exists("bak") THEN 0
    ELSE Lost

-----------------------------------------------------------------------------
(* One save, step by step.                                                 *)

At(s, step)  == saver[s].at = step
Goes(s, to)  == saver' = [saver EXCEPT ![s].at = to]

(* The bytes of generation g, encoded in memory, are about to be written.  *)
Begin(s, g, rotate) == saver' = [saver EXCEPT ![s] = [at |-> "create", gen |-> g, rotate |-> rotate]]

(* Mutant: the live file is overwritten where it stands.                   *)
CreateInPlace(s) ==
    /\ At(s, "create")
    /\ disk' = [disk EXCEPT !["live"] = Corrupt]
    /\ Goes(s, "fill")

CreateTmp(s) ==
    /\ At(s, "create")
    /\ disk' = [disk EXCEPT !["tmp"] = Corrupt]
    /\ Goes(s, "fill")

FillTmp(s) ==
    /\ At(s, "fill")
    /\ disk' = [disk EXCEPT !["tmp"] = Intact(saver[s].gen)]
    /\ Goes(s, "ready")

Rotates(s) == saver[s].rotate /\ Exists("live")

(* The live file becomes the backup. *)
Rotate(s) ==
    /\ At(s, "ready") /\ Rotates(s)
    /\ disk' = [disk EXCEPT !["bak"] = disk["live"], !["live"] = Missing]
    /\ Goes(s, "swap")

(* The new file becomes the live one, over whatever is there.              *)
Swap(s) ==
    /\ At(s, "swap") \/ (At(s, "ready") /\ ~Rotates(s))
    /\ disk' = [disk EXCEPT !["live"] = disk["tmp"], !["tmp"] = Missing]
    /\ Goes(s, "written")

(* Any write or rename may fail. After the rotation the live file is put   *)
(* back first.                                                             *)
Fail(s) ==
    /\ \/ saver[s].at \in {"create", "fill", "ready"} /\ Goes(s, "clean")
       \/ At(s, "swap") /\ Goes(s, "undo")
    /\ UNCHANGED disk

(* Putting it back may fail too, and is not tried again.                   *)
Undo(s) ==
    /\ At(s, "undo")
    /\ \/ disk' = [disk EXCEPT !["live"] = disk["bak"], !["bak"] = Missing]
       \/ UNCHANGED disk
    /\ Goes(s, "clean")

Clean(s) ==
    /\ At(s, "clean")
    /\ \/ disk' = [disk EXCEPT !["tmp"] = Missing]
       \/ UNCHANGED disk
    /\ Goes(s, "failed")

WriteStep(s) ==
    /\ CreateTmp(s) \/ FillTmp(s) \/ Rotate(s) \/ Swap(s) \/ Fail(s) \/ Undo(s) \/ Clean(s)
    /\ UNCHANGED <<world, newest, damaged>>

-----------------------------------------------------------------------------
(* The environment.                                                        *)

(* The world changes in memory. *)
Change ==
    /\ newest < MaxGen
    /\ newest' = newest + 1
    /\ world' = newest'
    /\ UNCHANGED <<disk, saver, damaged>>

(* A file loses its tail, or all its meaning.                              *)
Damage ==
    /\ damaged < MaxDamage
    /\ damaged' = damaged + 1
    /\ \E f \in {"live", "bak"} :
        \/ /\ disk[f].state = "intact"
           /\ disk' = [disk EXCEPT ![f].state = "partial"]
        \/ /\ disk[f].state \in {"intact", "partial"}
           /\ disk' = [disk EXCEPT ![f] = Corrupt]
    /\ UNCHANGED <<saver, world, newest>>

(* A crash, or the end of the process: only the disk is left.              *)
Forget ==
    /\ saver' = [s \in Savers |-> Idle]
    /\ world' = 0
    /\ UNCHANGED <<disk, newest, damaged>>

HasIntact == \E f \in {"live", "bak"} : disk[f].state = "intact"
=============================================================================
