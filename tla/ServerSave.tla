----------------------------- MODULE ServerSave -----------------------------
(***************************************************************************)
(* The dedicated server's saves: the autosave thread and stop() both write *)
(* the world file. A gate makes their saves take turns, and each takes its *)
(* snapshot of the ledger once it is past the gate.                        *)
(***************************************************************************)
EXTENDS WorldFile

ASSUME ServerSavers == Savers = {"autosave", "stop"}

VARIABLES
    mode,           \* "down", "serving", or "closing" once the endpoint is closed
    gate,           \* save_gate: who holds it, or "free"
    rotate,         \* Store::rotate: whether the live file may become the backup
    acked           \* the newest generation whose edit was acknowledged to a client

vars == <<fileVars, mode, gate, rotate, acked>>

Init ==
    /\ FileInit
    /\ mode = "down"
    /\ gate = "free"
    /\ rotate = FALSE
    /\ acked = 0

(* A world file that does not load is never replaced by a fresh world.     *)
Start ==
    /\ mode = "down" /\ Stored # Lost
    /\ mode' = "serving"
    /\ rotate' = (Rung # "bak")
    /\ IF Stored = 0
       THEN newest < MaxGen /\ newest' = newest + 1 /\ world' = newest'
       ELSE world' = Stored /\ UNCHANGED newest
    /\ acked' = IF Stored = 0 THEN 0 ELSE Stored
    /\ UNCHANGED <<disk, saver, damaged, gate>>

(* A commit. Its acknowledgement reaches the client only through an open   *)
(* endpoint.                                                               *)
Edit ==
    /\ mode # "down"
    /\ Change
    /\ acked' = IF mode = "serving" THEN world' ELSE acked
    /\ UNCHANGED <<mode, gate, rotate>>

(* The autosave thread saw no shutdown and its time has come.              *)
AutosaveDue ==
    /\ mode = "serving" /\ At("autosave", "idle")
    /\ Goes("autosave", "due")
    /\ UNCHANGED <<disk, world, newest, damaged, mode, gate, rotate, acked>>

Stop ==
    /\ mode = "serving"
    /\ mode' = "closing"
    /\ Goes("stop", "due")
    /\ UNCHANGED <<disk, world, newest, damaged, gate, rotate, acked>>

(* Mutant: saves do not wait for each other.                               *)
TakeGateFreely(s) ==
    /\ At(s, "due")
    /\ gate' = s
    /\ Goes(s, "gated")
    /\ UNCHANGED <<disk, world, newest, damaged, mode, rotate, acked>>

TakeGate(s) ==
    /\ At(s, "due") /\ gate = "free"
    /\ gate' = s
    /\ Goes(s, "gated")
    /\ UNCHANGED <<disk, world, newest, damaged, mode, rotate, acked>>

(* Mutant: the live file is rotated whatever it is worth.                  *)
SnapshotRotates(s) ==
    /\ At(s, "gated")
    /\ Begin(s, world, TRUE)
    /\ UNCHANGED <<disk, world, newest, damaged, mode, gate, rotate, acked>>

(* The ledger is captured under the state lock, and encoded.               *)
Snapshot(s) ==
    /\ At(s, "gated")
    /\ Begin(s, world, rotate)
    /\ UNCHANGED <<disk, world, newest, damaged, mode, gate, rotate, acked>>

(* Encoding may fail: a world with too many distinct blocks.               *)
EncodeFails(s) ==
    /\ At(s, "gated")
    /\ Goes(s, "failed")
    /\ UNCHANGED <<disk, world, newest, damaged, mode, gate, rotate, acked>>

Write(s) ==
    /\ WriteStep(s)
    /\ UNCHANGED <<mode, gate, rotate, acked>>

(* Mutant: a saver that failed keeps the gate.                             *)
ReleaseWritten(s) ==
    /\ At(s, "written") /\ gate = s
    /\ gate' = "free"
    /\ saver' = [saver EXCEPT ![s] = IF s = "autosave" THEN Idle ELSE @]
    /\ rotate' = (rotate \/ At(s, "written"))
    /\ UNCHANGED <<disk, world, newest, damaged, mode, acked>>

(* A good live file is worth keeping from now on. The autosave thread      *)
(* starts over; stop is done.                                              *)
Release(s) ==
    /\ saver[s].at \in {"written", "failed"} /\ gate = s
    /\ gate' = "free"
    /\ saver' = [saver EXCEPT ![s] = IF s = "autosave" THEN Idle ELSE @]
    /\ rotate' = (rotate \/ At(s, "written"))
    /\ UNCHANGED <<disk, world, newest, damaged, mode, acked>>

GoDown ==
    /\ Forget
    /\ mode' = "down"
    /\ gate' = "free"
    /\ rotate' = FALSE
    /\ acked' = 0

(* stop() has saved and the autosave thread has ended.                     *)
Exit ==
    /\ mode = "closing"
    /\ saver["stop"].at \in {"written", "failed"}
    /\ gate = "free" /\ At("autosave", "idle")
    /\ GoDown

Crash ==
    /\ mode # "down"
    /\ GoDown

DamageFile ==
    /\ mode = "down"
    /\ Damage
    /\ UNCHANGED <<mode, gate, rotate, acked>>

Save(s) == TakeGate(s) \/ Snapshot(s) \/ EncodeFails(s) \/ Write(s) \/ Release(s)

Next ==
    \/ Start \/ Edit \/ AutosaveDue \/ Stop \/ Exit \/ Crash \/ DamageFile
    \/ \E s \in Savers : Save(s)

Spec == Init /\ [][Next]_vars

(* A saver that may go on does, and stop() joins a thread that ended.      *)
FairSpec ==
    /\ Spec
    /\ \A s \in Savers : WF_vars(Save(s))
    /\ WF_vars(Exit)

-----------------------------------------------------------------------------
(* Properties.                                                             *)

(* Past the gate there is only its holder. *)
TypeOK ==
    /\ FileTypeOK
    /\ mode \in {"down", "serving", "closing"}
    /\ gate \in Savers \cup {"free"}
    /\ rotate \in BOOLEAN
    /\ acked \in Nat
    /\ \A s \in Savers :
        saver[s].at \notin {"idle", "due", "written", "failed"} => gate = s

(* While the server runs, whatever fails or crashes, an intact file is     *)
(* never traded for none: a damaged live file is not rotated over the      *)
(* backup that was loaded in its place (Store::rotate).                    *)
IntactSurvives == [][mode # "down" /\ HasIntact => HasIntact']_vars

(* Once stop() has written the world file, every edit a client was told of *)
(* is in it, and no older snapshot of the autosave thread comes after.     *)
StopSavesAcks == mode = "closing" /\ At("stop", "written") => Stored >= acked

Abstract == INSTANCE SavedWorld WITH up <- mode # "down", stored <- Stored

(* The renames amount to one atomic replacement of the saved world.        *)
ImplementsSavedWorld == Abstract!Spec

(* A shutdown is never stuck behind an autosave or a failed write.         *)
StopCompletes == mode = "closing" ~> mode = "down"
=============================================================================
