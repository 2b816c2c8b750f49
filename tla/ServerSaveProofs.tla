-------------------------- MODULE ServerSaveProofs --------------------------
(***************************************************************************)
(* What holds of ServerSave for any number of generations and damaged      *)
(* files: its types and the gate, that stop() saves what was acknowledged, *)
(* that no intact file is traded away, and that it implements SavedWorld.  *)
(***************************************************************************)
EXTENDS ServerSave, TLAPS

-----------------------------------------------------------------------------
(* The inductive invariant.                                                *)

Writing == {"create", "fill", "ready", "swap", "undo", "clean"}

(* A program that does not run saves nothing; stop() saves once it closed. *)
Quiet ==
    /\ mode = "down" => \A s \in Savers : saver[s] = Idle
    /\ mode # "closing" => At("stop", "idle")

(* Whoever is about to rename the temporary file has filled it.            *)
TmpWhole ==
    \A s \in Savers : saver[s].at \in {"ready", "swap"} => disk["tmp"] = Intact(saver[s].gen)

(* Between the renames the backup holds what the live file held.           *)
RotatedAway ==
    \A s \in Savers : saver[s].at \in {"swap", "undo"} =>
        /\ ~Exists("live") /\ disk["bak"].state \in {"intact", "partial"}
        /\ saver[s].rotate

(* A live file that may be rotated is the one a load would serve.          *)
LiveTrusted ==
    /\ mode # "down" /\ rotate /\ Exists("live") => Rung = "live"
    /\ \A s \in Savers : saver[s].rotate => rotate
    /\ \A s \in Savers : At(s, "written") => disk["live"].state = "intact" \/ rotate

(* What is on disk is no newer than what is being saved, and that is no    *)
(* newer than what is in memory.                                           *)
Behind ==
    /\ \A f \in {"live", "bak"} : disk[f].gen <= newest
    /\ world <= newest
    /\ mode # "down" => Stored <= world
    /\ \A s \in Savers : saver[s].at \in Writing =>
            Stored <= saver[s].gen /\ saver[s].gen <= world

(* What stop() saves has every acknowledged edit.                          *)
AcksBehind ==
    /\ mode # "down" => acked <= world
    /\ saver["stop"].at \in Writing => acked <= saver["stop"].gen
    /\ StopSavesAcks

IInv ==
    TypeOK /\ Quiet /\ TmpWhole /\ RotatedAway /\ LiveTrusted /\ Behind /\ AcksBehind

-----------------------------------------------------------------------------
(* The disk as a load sees it.                                             *)

LEMMA StoredTyped ==
    ASSUME FileTypeOK
    PROVE  /\ Stored \in Int /\ Rung \in {"live", "bak", "none"}
           /\ Lost = -1 /\ (Stored # Lost => Stored \in Nat)
BY DEF FileTypeOK, File, Stored, Rung, Lost

LEMMA StoredOld ==
    ASSUME FileTypeOK, \A f \in {"live", "bak"} : disk[f].gen <= newest
    PROVE  Stored <= newest
BY DEF FileTypeOK, File, Stored, Rung, Lost

LEMMA SameDisk ==
    ASSUME disk'["live"] = disk["live"], disk'["bak"] = disk["bak"]
    PROVE  /\ Stored' = Stored /\ Rung' = Rung /\ HasIntact' = HasIntact
           /\ Exists("live")' = Exists("live")
BY DEF Stored, Rung, HasIntact, Exists

(* An intact live file is what a load finds.                               *)
LEMMA IntactFound ==
    ASSUME disk["live"].state = "intact"
    PROVE  Rung = "live" /\ Stored = disk["live"].gen /\ HasIntact /\ Exists("live")
BY DEF Stored, Rung, HasIntact, Exists

(* Moving the live file a load would serve to the backup leaves it there.  *)
LEMMA RotateFound ==
    ASSUME FileTypeOK, Rung = "live",
           disk' = [disk EXCEPT !["bak"] = disk["live"], !["live"] = Missing]
    PROVE  /\ Stored' = Stored /\ (HasIntact => HasIntact')
           /\ ~Exists("live")' /\ disk'["bak"].state \in {"intact", "partial"}
BY DEF FileTypeOK, File, Stored, Rung, HasIntact, Exists, Missing

(* And so does moving a backup back to where there is no live file.        *)
LEMMA RestoreFound ==
    ASSUME FileTypeOK, ~Exists("live"), disk["bak"].state \in {"intact", "partial"},
           disk' = [disk EXCEPT !["live"] = disk["bak"], !["bak"] = Missing]
    PROVE  Stored' = Stored /\ (HasIntact => HasIntact') /\ Rung' = "live"
BY DEF FileTypeOK, File, Stored, Rung, HasIntact, Exists, Missing

-----------------------------------------------------------------------------
(* Steps that leave the live file and the backup alone.                    *)

Promise == Abstract!Next \/ UNCHANGED Abstract!vars

Trades == mode # "down" /\ HasIntact /\ ~HasIntact'

LEMMA StartKeeps ==
    ASSUME IInv, Start
    PROVE  IInv' /\ Promise /\ ~Trades
<1>1. /\ Stored' = Stored /\ Rung' = Rung /\ HasIntact' = HasIntact /\ Exists("live")' = Exists("live")
  BY SameDisk DEF Start
<1>2. /\ Stored \in Int /\ Rung \in {"live", "bak", "none"} /\ Stored <= newest
      /\ Lost = -1 /\ (Stored # Lost => Stored \in Nat)
  BY StoredTyped, StoredOld DEF IInv, TypeOK, Behind, FileTypeOK
<1>3. /\ mode = "down" /\ mode' = "serving" /\ saver' = saver /\ disk' = disk /\ gate' = gate
      /\ Stored # Lost /\ rotate' = (Rung # "bak") /\ (\A s \in Savers : saver[s] = Idle)
  BY DEF Start, IInv, Quiet
<1>4. /\ world' \in Nat /\ newest' \in Nat /\ acked' \in Nat /\ damaged' = damaged
      /\ newest \in Nat /\ newest <= newest'
      /\ Stored <= world' /\ world' <= newest' /\ acked' <= world'
      /\ IF Stored = 0 THEN world' > 0 ELSE world' = Stored
  BY <1>2 DEF Start, IInv, TypeOK, FileTypeOK
<1>5. TypeOK'
  BY <1>3, <1>4 DEF IInv, TypeOK, FileTypeOK
<1>6. Quiet' /\ TmpWhole' /\ RotatedAway'
  BY <1>3, ServerSavers DEF ServerSavers, Quiet, TmpWhole, RotatedAway, Idle, At
<1>7. LiveTrusted'
  <2>1. Rung = "none" => ~Exists("live")
    BY <1>3 DEF Stored
  <2>2. rotate' => Rung # "bak"
    BY <1>3
  <2>3. mode' # "down" /\ rotate' /\ Exists("live")' => Rung' = "live"
    BY <1>1, <1>2, <2>1, <2>2
  <2>4. \A s \in Savers : ~saver'[s].rotate /\ saver'[s].at = "idle"
    BY <1>3 DEF Idle
  <2> QED
    BY <2>3, <2>4 DEF LiveTrusted, At
<1>8. Behind'
  BY <1>1, <1>3, <1>4 DEF IInv, TypeOK, FileTypeOK, File, Behind, Writing, Idle
<1>9. AcksBehind'
  BY <1>3, <1>4, ServerSavers DEF ServerSavers, AcksBehind, StopSavesAcks, Writing, Idle, At
<1>10. Promise
  BY <1>1, <1>3, <1>4 DEF Promise, Abstract!Next, Abstract!Start, Abstract!Lost, Lost
<1> QED
  BY <1>1, <1>5, <1>6, <1>7, <1>8, <1>9, <1>10 DEF IInv, Trades

LEMMA EditKeeps ==
    ASSUME IInv, Edit
    PROVE  IInv' /\ Promise /\ ~Trades
<1>1. /\ Stored' = Stored /\ Rung' = Rung /\ HasIntact' = HasIntact /\ Exists("live")' = Exists("live")
  BY SameDisk DEF Edit, Change
<1>2. Stored \in Int
  BY StoredTyped DEF IInv, TypeOK
<1>3. /\ mode # "down" /\ mode' = mode /\ saver' = saver /\ disk' = disk /\ gate' = gate
      /\ rotate' = rotate /\ damaged' = damaged /\ newest' = newest + 1 /\ world' = newest + 1
      /\ acked' = IF mode = "serving" THEN newest + 1 ELSE acked
  BY DEF Edit, Change
<1>4. /\ world \in Nat /\ newest \in Nat /\ acked \in Nat /\ world <= newest /\ acked <= world
      /\ mode \in {"down", "serving", "closing"}
  BY <1>3 DEF IInv, TypeOK, FileTypeOK, Behind, AcksBehind
<1>5. TypeOK'
  BY <1>3, <1>4 DEF IInv, TypeOK, FileTypeOK
<1>6. Quiet' /\ TmpWhole' /\ RotatedAway'
  BY <1>1, <1>3 DEF IInv, Quiet, TmpWhole, RotatedAway, At
<1>7. LiveTrusted'
  BY <1>1, <1>3 DEF IInv, LiveTrusted, At
<1>8. Behind'
  BY <1>1, <1>2, <1>3, <1>4 DEF IInv, TypeOK, FileTypeOK, File, Progress, Behind, Writing
<1>9. AcksBehind'
  BY <1>1, <1>3, <1>4, ServerSavers DEF ServerSavers, IInv, Quiet, AcksBehind, StopSavesAcks, Writing, At
<1>10. Promise
  BY <1>1, <1>3, <1>4 DEF Promise, Abstract!Next, Abstract!Edit
<1> QED
  BY <1>1, <1>5, <1>6, <1>7, <1>8, <1>9, <1>10 DEF IInv, Trades

(* A step of s that touches neither the world nor the two files, and does  *)
(* not enter a write.                                                      *)
LEMMA WaitingKeeps ==
    ASSUME IInv, mode # "down", mode' \in {"serving", "closing"}, (mode = "closing" => mode' = "closing"),
           UNCHANGED <<disk, world, newest, damaged, rotate, acked>>,
           gate' \in Savers \cup {"free"}, NEW s \in Savers, NEW to \in {"due", "gated", "failed"},
           Goes(s, to), s = "stop" => mode' = "closing" /\ ~At("stop", "written"),
           saver[s].at \in {"idle", "due", "gated"},
           to = "gated" => gate' = s,
           \A t \in Savers \ {s} :
                saver[t].at \notin {"idle", "due", "written", "failed"} => gate' = t
    PROVE  IInv' /\ Promise /\ ~Trades
<1>1. /\ Stored' = Stored /\ Rung' = Rung /\ HasIntact' = HasIntact /\ Exists("live")' = Exists("live")
  BY SameDisk
<1>2. saver' = [saver EXCEPT ![s].at = to] /\ saver \in [Savers -> Progress]
  BY DEF Goes, IInv, TypeOK, FileTypeOK
<1>3. /\ saver' \in [Savers -> Progress] /\ saver'[s].at = to /\ saver'[s].rotate = saver[s].rotate
      /\ \A t \in Savers \ {s} : saver'[t] = saver[t]
  BY <1>2 DEF Progress
<1>5. TypeOK'
  BY <1>3 DEF IInv, TypeOK, FileTypeOK
<1>6. Quiet' /\ TmpWhole' /\ RotatedAway'
  BY <1>1, <1>3, ServerSavers DEF ServerSavers, IInv, Quiet, TmpWhole, RotatedAway, At
<1>7. LiveTrusted'
  BY <1>1, <1>3 DEF IInv, LiveTrusted, At
<1>8. Behind'
  BY <1>1, <1>3 DEF IInv, Behind, Writing
<1>9. AcksBehind'
  BY <1>1, <1>3, ServerSavers DEF ServerSavers, IInv, Quiet, AcksBehind, StopSavesAcks, Writing, At
<1>10. Promise
  BY <1>1 DEF Promise, Abstract!vars
<1> QED
  BY <1>1, <1>5, <1>6, <1>7, <1>8, <1>9, <1>10 DEF IInv, Trades

LEMMA AutosaveDueKeeps ==
    ASSUME IInv, AutosaveDue
    PROVE  IInv' /\ Promise /\ ~Trades
<1>1. /\ mode = "serving" /\ mode' = "serving" /\ gate' = gate /\ saver["autosave"].at = "idle"
      /\ Goes("autosave", "due")
      /\ UNCHANGED <<disk, world, newest, damaged, rotate, acked>>
  BY DEF AutosaveDue, At
<1>2. "autosave" \in Savers /\ gate \in Savers \cup {"free"}
  BY ServerSavers DEF ServerSavers, IInv, TypeOK
<1>3. \A t \in Savers \ {"autosave"} :
            saver[t].at \notin {"idle", "due", "written", "failed"} => gate' = t
  BY <1>1 DEF IInv, TypeOK
<1> QED
  BY <1>1, <1>2, <1>3, WaitingKeeps

LEMMA StopKeeps ==
    ASSUME IInv, Stop
    PROVE  IInv' /\ Promise /\ ~Trades
<1>1. /\ mode = "serving" /\ mode' = "closing" /\ gate' = gate /\ Goes("stop", "due")
      /\ UNCHANGED <<disk, world, newest, damaged, rotate, acked>>
  BY DEF Stop
<1>2. "stop" \in Savers /\ gate \in Savers \cup {"free"} /\ saver["stop"].at = "idle"
  BY <1>1, ServerSavers DEF ServerSavers, IInv, TypeOK, Quiet, At
<1>3. \A t \in Savers \ {"stop"} :
            saver[t].at \notin {"idle", "due", "written", "failed"} => gate' = t
  BY <1>1 DEF IInv, TypeOK
<1> QED
  BY <1>1, <1>2, <1>3, WaitingKeeps DEF At

(* A saver that is not idle saves for a program that runs.                 *)
LEMMA Busy ==
    ASSUME IInv, NEW s \in Savers, saver[s].at # "idle"
    PROVE  mode \in {"serving", "closing"} /\ (s = "stop" => mode = "closing")
BY DEF IInv, TypeOK, Quiet, Idle, At

LEMMA TakeGateKeeps ==
    ASSUME IInv, NEW s \in Savers, TakeGate(s)
    PROVE  IInv' /\ Promise /\ ~Trades
<1>1. /\ mode' = mode /\ gate' = s /\ gate = "free" /\ saver[s].at = "due" /\ Goes(s, "gated")
      /\ UNCHANGED <<disk, world, newest, damaged, rotate, acked>>
  BY DEF TakeGate, At
<1>2. mode \in {"serving", "closing"} /\ (s = "stop" => mode = "closing")
  BY <1>1, Busy
<1>3. \A t \in Savers \ {s} :
            saver[t].at \notin {"idle", "due", "written", "failed"} => gate' = t
  BY <1>1, ServerSavers DEF ServerSavers, IInv, TypeOK
<1> QED
  BY <1>1, <1>2, <1>3, WaitingKeeps DEF At

LEMMA EncodeFailsKeeps ==
    ASSUME IInv, NEW s \in Savers, EncodeFails(s)
    PROVE  IInv' /\ Promise /\ ~Trades
<1>1. /\ mode' = mode /\ gate' = gate /\ saver[s].at = "gated" /\ Goes(s, "failed")
      /\ UNCHANGED <<disk, world, newest, damaged, rotate, acked>>
  BY DEF EncodeFails, At
<1>2. mode \in {"serving", "closing"} /\ (s = "stop" => mode = "closing")
  BY <1>1, Busy
<1>3. gate \in Savers \cup {"free"} /\ \A t \in Savers \ {s} :
            saver[t].at \notin {"idle", "due", "written", "failed"} => gate' = t
  BY <1>1 DEF IInv, TypeOK
<1> QED
  BY <1>1, <1>2, <1>3, WaitingKeeps DEF At

-----------------------------------------------------------------------------
(* The steps of a write.                                                   *)

(* A saver past the gate keeps the others out of the write.                *)
LEMMA Alone ==
    ASSUME IInv, NEW s \in Savers, saver[s].at \in Writing \cup {"gated"}
    PROVE  /\ gate = s /\ mode \in {"serving", "closing"} /\ (s = "stop" => mode = "closing")
           /\ \A t \in Savers \ {s} : saver[t].at \in {"idle", "due", "written", "failed"}
<1>1. gate = s
  BY DEF IInv, TypeOK, Writing
<1>2. \A t \in Savers \ {s} : saver[t].at \in {"idle", "due", "written", "failed"}
  BY <1>1 DEF IInv, TypeOK
<1>3. mode \in {"serving", "closing"} /\ (s = "stop" => mode = "closing")
  BY Busy DEF Writing
<1> QED
  BY <1>1, <1>2, <1>3

LEMMA SnapshotKeeps ==
    ASSUME IInv, NEW s \in Savers, Snapshot(s)
    PROVE  IInv' /\ Promise /\ ~Trades
<1>1. /\ Stored' = Stored /\ Rung' = Rung /\ HasIntact' = HasIntact /\ Exists("live")' = Exists("live")
  BY SameDisk DEF Snapshot
<1>2. /\ saver[s].at = "gated" /\ gate = s /\ mode \in {"serving", "closing"}
      /\ (s = "stop" => mode = "closing")
      /\ \A t \in Savers \ {s} : saver[t].at \in {"idle", "due", "written", "failed"}
  BY Alone DEF Snapshot, At
<1>3. /\ UNCHANGED <<disk, world, newest, damaged, mode, gate, rotate, acked>>
      /\ saver' = [saver EXCEPT ![s] = [at |-> "create", gen |-> world, rotate |-> rotate]]
  BY DEF Snapshot, Begin
<1>4. saver \in [Savers -> Progress] /\ world \in Nat /\ rotate \in BOOLEAN
  BY DEF IInv, TypeOK, FileTypeOK
<1>5. [at |-> "create", gen |-> world, rotate |-> rotate] \in Progress
  BY <1>4 DEF Progress
<1>6. /\ saver' \in [Savers -> Progress]
      /\ saver'[s].at = "create" /\ saver'[s].gen = world /\ saver'[s].rotate = rotate
      /\ \A t \in Savers \ {s} : saver'[t] = saver[t]
  BY <1>3, <1>4, <1>5
<1>7. TypeOK'
  BY <1>2, <1>3, <1>6 DEF IInv, TypeOK, FileTypeOK
<1>8. Quiet' /\ TmpWhole' /\ RotatedAway'
  BY <1>1, <1>2, <1>3, <1>6, ServerSavers DEF ServerSavers, IInv, Quiet, TmpWhole, RotatedAway, At
<1>9. LiveTrusted'
  BY <1>1, <1>2, <1>3, <1>6 DEF IInv, LiveTrusted, At
<1>10. Behind'
  BY <1>1, <1>2, <1>3, <1>4, <1>6 DEF IInv, Behind, Writing
<1>11. AcksBehind'
  BY <1>1, <1>2, <1>3, <1>6, ServerSavers DEF ServerSavers, IInv, AcksBehind, StopSavesAcks, Writing, At
<1>12. Promise
  BY <1>1, <1>3 DEF Promise, Abstract!vars
<1> QED
  BY <1>1, <1>7, <1>8, <1>9, <1>10, <1>11, <1>12 DEF IInv, Trades

Unmoved == UNCHANGED <<world, newest, damaged, mode, gate, rotate, acked>>

LEMMA GoesReads ==
    ASSUME IInv, NEW s \in Savers, NEW to \in Writing \cup {"written", "failed"}, Goes(s, to)
    PROVE  /\ saver' \in [Savers -> Progress]
           /\ saver'[s].at = to /\ saver'[s].gen = saver[s].gen /\ saver'[s].rotate = saver[s].rotate
           /\ \A t \in Savers \ {s} : saver'[t] = saver[t]
<1>1. saver' = [saver EXCEPT ![s].at = to] /\ saver \in [Savers -> Progress]
  BY DEF Goes, IInv, TypeOK, FileTypeOK
<1>2. saver[s] \in Progress
  BY <1>1
<1>3. [saver[s] EXCEPT !.at = to] \in Progress
  BY <1>2 DEF Progress, Writing
<1> QED
  BY <1>1, <1>2, <1>3 DEF Progress

(* A step inside a write that leaves the live file and the backup alone.   *)
LEMMA AsideKeeps ==
    ASSUME IInv, NEW s \in Savers, saver[s].at \in Writing, Unmoved,
           NEW to \in Writing \cup {"failed"}, Goes(s, to), to # "swap",
           to = "undo" => saver[s].at = "swap",
           disk' \in [{"live", "bak", "tmp"} -> File],
           disk'["live"] = disk["live"], disk'["bak"] = disk["bak"],
           to = "ready" => disk'["tmp"] = Intact(saver[s].gen)
    PROVE  IInv' /\ Promise /\ ~Trades
<1>1. /\ Stored' = Stored /\ Rung' = Rung /\ HasIntact' = HasIntact /\ Exists("live")' = Exists("live")
  BY SameDisk
<1>2. /\ gate = s /\ mode \in {"serving", "closing"} /\ (s = "stop" => mode = "closing")
      /\ \A t \in Savers \ {s} : saver[t].at \in {"idle", "due", "written", "failed"}
  BY Alone
<1>3. UNCHANGED <<world, newest, damaged, mode, gate, rotate, acked>>
  BY DEF Unmoved
<1>4. /\ saver' \in [Savers -> Progress]
      /\ saver'[s].at = to /\ saver'[s].gen = saver[s].gen /\ saver'[s].rotate = saver[s].rotate
      /\ \A t \in Savers \ {s} : saver'[t] = saver[t]
  BY GoesReads
<1>5. TypeOK'
  BY <1>2, <1>3, <1>4 DEF IInv, TypeOK, FileTypeOK
<1>6. Quiet'
  BY <1>2, <1>3, <1>4, ServerSavers DEF ServerSavers, IInv, Quiet, At
<1>7. TmpWhole'
  BY <1>2, <1>4 DEF TmpWhole, Intact
<1>8. RotatedAway'
  BY <1>1, <1>2, <1>4 DEF IInv, RotatedAway
<1>9. LiveTrusted'
  BY <1>1, <1>2, <1>3, <1>4 DEF IInv, LiveTrusted, Writing, At
<1>10. Behind'
  BY <1>1, <1>2, <1>3, <1>4 DEF IInv, Behind, Writing
<1>11. AcksBehind'
  BY <1>1, <1>2, <1>3, <1>4, ServerSavers DEF ServerSavers, IInv, AcksBehind, StopSavesAcks, Writing, At
<1>12. Promise
  BY <1>1, <1>3 DEF Promise, Abstract!vars
<1> QED
  BY <1>1, <1>5, <1>6, <1>7, <1>8, <1>9, <1>10, <1>11, <1>12 DEF IInv, Trades

LEMMA DiskTyped ==
    ASSUME IInv
    PROVE  /\ disk \in [{"live", "bak", "tmp"} -> File] /\ Missing \in File /\ Corrupt \in File
           /\ \A s \in Savers : saver[s].gen \in Nat /\ Intact(saver[s].gen) \in File
BY DEF IInv, TypeOK, FileTypeOK, Progress, File, Missing, Corrupt, Intact

LEMMA RotateKeeps ==
    ASSUME IInv, NEW s \in Savers, Rotate(s), Unmoved
    PROVE  IInv' /\ Promise /\ ~Trades
<1>1. /\ saver[s].at = "ready" /\ saver[s].rotate /\ Exists("live") /\ Goes(s, "swap")
      /\ disk' = [disk EXCEPT !["bak"] = disk["live"], !["live"] = Missing]
  BY DEF Rotate, Rotates, At
<1>2. /\ gate = s /\ mode \in {"serving", "closing"} /\ (s = "stop" => mode = "closing")
      /\ \A t \in Savers \ {s} : saver[t].at \in {"idle", "due", "written", "failed"}
  BY <1>1, Alone DEF Writing
<1>3. rotate /\ Rung = "live"
  BY <1>1, <1>2 DEF IInv, LiveTrusted
<1>4. /\ Stored' = Stored /\ (HasIntact => HasIntact')
      /\ ~Exists("live")' /\ disk'["bak"].state \in {"intact", "partial"}
  BY <1>1, <1>3, RotateFound DEF IInv, TypeOK
<1>5. UNCHANGED <<world, newest, damaged, mode, gate, rotate, acked>>
  BY DEF Unmoved
<1>6. /\ saver' \in [Savers -> Progress]
      /\ saver'[s].at = "swap" /\ saver'[s].gen = saver[s].gen /\ saver'[s].rotate = saver[s].rotate
      /\ \A t \in Savers \ {s} : saver'[t] = saver[t]
  BY <1>1, GoesReads DEF Writing
<1>7. /\ disk' \in [{"live", "bak", "tmp"} -> File] /\ disk'["tmp"] = disk["tmp"]
      /\ disk'["bak"].gen = disk["live"].gen /\ disk'["live"].gen = 0
  BY <1>1, DiskTyped DEF Missing
<1>8. TypeOK'
  BY <1>2, <1>5, <1>6, <1>7 DEF IInv, TypeOK, FileTypeOK
<1>9. Quiet'
  BY <1>2, <1>5, <1>6, ServerSavers DEF ServerSavers, IInv, Quiet, At
<1>10. TmpWhole'
  BY <1>1, <1>2, <1>6, <1>7 DEF IInv, TmpWhole, Intact
<1>11. RotatedAway'
  BY <1>1, <1>2, <1>4, <1>6 DEF RotatedAway
<1>12. LiveTrusted'
  BY <1>2, <1>3, <1>4, <1>5, <1>6 DEF IInv, LiveTrusted, At
<1>13. Behind'
  <2>1. newest \in Nat
    BY DEF IInv, TypeOK, FileTypeOK
  <2> QED
    BY <1>1, <1>2, <1>4, <1>5, <1>6, <1>7, <2>1 DEF IInv, Behind, Writing
<1>14. AcksBehind'
  BY <1>1, <1>2, <1>4, <1>5, <1>6, ServerSavers DEF ServerSavers, IInv, AcksBehind, StopSavesAcks, Writing, At
<1>15. Promise
  BY <1>4, <1>5 DEF Promise, Abstract!vars
<1> QED
  BY <1>4, <1>8, <1>9, <1>10, <1>11, <1>12, <1>13, <1>14, <1>15 DEF IInv, Trades

LEMMA SwapKeeps ==
    ASSUME IInv, NEW s \in Savers, Swap(s), Unmoved
    PROVE  IInv' /\ Promise /\ ~Trades
<1>1. /\ saver[s].at \in {"ready", "swap"} /\ Goes(s, "written")
      /\ disk' = [disk EXCEPT !["live"] = disk["tmp"], !["tmp"] = Missing]
  BY DEF Swap, At
<1>2. /\ gate = s /\ mode \in {"serving", "closing"} /\ (s = "stop" => mode = "closing")
      /\ \A t \in Savers \ {s} : saver[t].at \in {"idle", "due", "written", "failed"}
  BY <1>1, Alone DEF Writing
<1>3. /\ disk' \in [{"live", "bak", "tmp"} -> File] /\ disk'["bak"] = disk["bak"]
      /\ disk'["live"].state = "intact" /\ disk'["live"].gen = saver[s].gen
  <2>1. disk["tmp"] = Intact(saver[s].gen)
    BY <1>1 DEF IInv, TmpWhole
  <2>2. disk' \in [{"live", "bak", "tmp"} -> File] /\ disk'["bak"] = disk["bak"] /\ disk'["live"] = disk["tmp"]
    BY <1>1, DiskTyped
  <2> QED
    BY <2>1, <2>2 DEF Intact
<1>4. /\ Stored' = saver[s].gen /\ Rung' = "live" /\ HasIntact' /\ Exists("live")'
  BY <1>3 DEF Stored, Rung, HasIntact, Exists
<1>5. UNCHANGED <<world, newest, damaged, mode, gate, rotate, acked>>
  BY DEF Unmoved
<1>6. /\ saver' \in [Savers -> Progress]
      /\ saver'[s].at = "written" /\ saver'[s].gen = saver[s].gen /\ saver'[s].rotate = saver[s].rotate
      /\ \A t \in Savers \ {s} : saver'[t] = saver[t]
  BY <1>1, GoesReads
<1>7. /\ Stored <= saver[s].gen /\ saver[s].gen <= world /\ world <= newest
      /\ Stored \in Int /\ saver[s].gen \in Nat /\ world \in Nat /\ newest \in Nat /\ acked \in Nat
  BY <1>1, StoredTyped, DiskTyped DEF IInv, Behind, Writing, TypeOK, FileTypeOK
<1>8. TypeOK'
  BY <1>2, <1>3, <1>5, <1>6 DEF IInv, TypeOK, FileTypeOK
<1>9. Quiet'
  BY <1>2, <1>5, <1>6, ServerSavers DEF ServerSavers, IInv, Quiet, At
<1>10. TmpWhole' /\ RotatedAway'
  BY <1>2, <1>6 DEF TmpWhole, RotatedAway
<1>11. LiveTrusted'
  BY <1>2, <1>3, <1>4, <1>5, <1>6 DEF IInv, LiveTrusted, At
<1>12. Behind'
  BY <1>2, <1>3, <1>4, <1>5, <1>6, <1>7 DEF IInv, Behind, Writing
<1>13. AcksBehind'
  <2>1. s = "stop" => acked <= saver[s].gen
    BY <1>1 DEF IInv, AcksBehind, Writing
  <2>2. s = "autosave" => (mode = "closing" /\ At("stop", "written") => acked <= saver[s].gen)
    BY <1>7 DEF IInv, AcksBehind, StopSavesAcks
  <2>3. s = "autosave" => saver["stop"] = saver'["stop"] /\ saver["stop"].at \notin Writing
    BY <1>2, <1>6, ServerSavers DEF ServerSavers, Writing
  <2>4. s \in {"autosave", "stop"} /\ acked' = acked /\ world' = world /\ mode' = mode
    BY <1>5, ServerSavers DEF ServerSavers
  <2> QED
    BY <1>4, <1>6, <1>7, <2>1, <2>2, <2>3, <2>4 DEF IInv, AcksBehind, StopSavesAcks, Writing, At
<1>14. Promise
  BY <1>2, <1>4, <1>5, <1>7 DEF Promise, Abstract!Next, Abstract!Save, Abstract!vars
<1> QED
  BY <1>4, <1>8, <1>9, <1>10, <1>11, <1>12, <1>13, <1>14 DEF IInv, Trades

LEMMA UndoneKeeps ==
    ASSUME IInv, NEW s \in Savers, At(s, "undo"), Goes(s, "clean"), Unmoved,
           disk' = [disk EXCEPT !["live"] = disk["bak"], !["bak"] = Missing]
    PROVE  IInv' /\ Promise /\ ~Trades
<1>1. saver[s].at = "undo"
  BY DEF At
<1>2. /\ gate = s /\ mode \in {"serving", "closing"} /\ (s = "stop" => mode = "closing")
      /\ \A t \in Savers \ {s} : saver[t].at \in {"idle", "due", "written", "failed"}
  BY <1>1, Alone DEF Writing
<1>3. ~Exists("live") /\ disk["bak"].state \in {"intact", "partial"} /\ saver[s].rotate /\ rotate
  BY <1>1 DEF IInv, RotatedAway, LiveTrusted
<1>4. Stored' = Stored /\ (HasIntact => HasIntact') /\ Rung' = "live"
  BY <1>3, RestoreFound DEF IInv, TypeOK
<1>5. UNCHANGED <<world, newest, damaged, mode, gate, rotate, acked>>
  BY DEF Unmoved
<1>6. /\ saver' \in [Savers -> Progress]
      /\ saver'[s].at = "clean" /\ saver'[s].gen = saver[s].gen /\ saver'[s].rotate = saver[s].rotate
      /\ \A t \in Savers \ {s} : saver'[t] = saver[t]
  BY GoesReads DEF Writing
<1>7. /\ disk' \in [{"live", "bak", "tmp"} -> File]
      /\ disk'["live"].gen = disk["bak"].gen /\ disk'["bak"].gen = 0
  BY DiskTyped DEF Missing
<1>8. TypeOK'
  BY <1>2, <1>5, <1>6, <1>7 DEF IInv, TypeOK, FileTypeOK
<1>9. Quiet'
  BY <1>2, <1>5, <1>6, ServerSavers DEF ServerSavers, IInv, Quiet, At
<1>10. TmpWhole' /\ RotatedAway'
  BY <1>2, <1>6 DEF TmpWhole, RotatedAway
<1>11. LiveTrusted'
  BY <1>2, <1>3, <1>4, <1>5, <1>6 DEF IInv, LiveTrusted, At
<1>12. Behind'
  <2>1. newest \in Nat
    BY DEF IInv, TypeOK, FileTypeOK
  <2> QED
    BY <1>1, <1>2, <1>4, <1>5, <1>6, <1>7, <2>1 DEF IInv, Behind, Writing
<1>13. AcksBehind'
  BY <1>1, <1>2, <1>4, <1>5, <1>6, ServerSavers DEF ServerSavers, IInv, AcksBehind, StopSavesAcks, Writing, At
<1>14. Promise
  BY <1>4, <1>5 DEF Promise, Abstract!vars
<1> QED
  BY <1>4, <1>8, <1>9, <1>10, <1>11, <1>12, <1>13, <1>14 DEF IInv, Trades

LEMMA WriteKeeps ==
    ASSUME IInv, NEW s \in Savers, Write(s)
    PROVE  IInv' /\ Promise /\ ~Trades
<1>1. Unmoved
  BY DEF Write, WriteStep, Unmoved
<1>2. CASE CreateTmp(s)
  <2>1. saver[s].at = "create" /\ Goes(s, "fill") /\ disk' = [disk EXCEPT !["tmp"] = Corrupt]
    BY <1>2 DEF CreateTmp, At
  <2>2. /\ disk' \in [{"live", "bak", "tmp"} -> File]
        /\ disk'["live"] = disk["live"] /\ disk'["bak"] = disk["bak"]
    BY <2>1, DiskTyped
  <2> QED
    BY <1>1, <2>1, <2>2, AsideKeeps DEF Writing
<1>3. CASE FillTmp(s)
  <2>1. saver[s].at = "fill" /\ Goes(s, "ready") /\ disk' = [disk EXCEPT !["tmp"] = Intact(saver[s].gen)]
    BY <1>3 DEF FillTmp, At
  <2>2. /\ disk' \in [{"live", "bak", "tmp"} -> File] /\ disk'["tmp"] = Intact(saver[s].gen)
        /\ disk'["live"] = disk["live"] /\ disk'["bak"] = disk["bak"]
    BY <2>1, DiskTyped
  <2> QED
    BY <1>1, <2>1, <2>2, AsideKeeps DEF Writing
<1>4. CASE Rotate(s)
  BY <1>1, <1>4, RotateKeeps
<1>5. CASE Swap(s)
  BY <1>1, <1>5, SwapKeeps
<1>6. CASE Fail(s)
  <2>1. disk' = disk /\ disk \in [{"live", "bak", "tmp"} -> File]
    BY <1>6, DiskTyped DEF Fail
  <2>2. CASE saver[s].at \in {"create", "fill", "ready"} /\ Goes(s, "clean")
    BY <1>1, <2>1, <2>2, AsideKeeps DEF Writing
  <2>3. CASE At(s, "swap") /\ Goes(s, "undo")
    BY <1>1, <2>1, <2>3, AsideKeeps DEF Writing, At
  <2> QED
    BY <1>6, <2>2, <2>3 DEF Fail
<1>7. CASE Undo(s)
  <2>1. At(s, "undo") /\ Goes(s, "clean")
    BY <1>7 DEF Undo
  <2>2. CASE disk' = [disk EXCEPT !["live"] = disk["bak"], !["bak"] = Missing]
    BY <1>1, <2>1, <2>2, UndoneKeeps
  <2>3. CASE disk' = disk
    <3>1. disk \in [{"live", "bak", "tmp"} -> File]
      BY DiskTyped
    <3> QED
      BY <1>1, <2>1, <2>3, <3>1, AsideKeeps DEF Writing, At
  <2> QED
    BY <1>7, <2>2, <2>3 DEF Undo
<1>8. CASE Clean(s)
  <2>1. saver[s].at = "clean" /\ Goes(s, "failed")
    BY <1>8 DEF Clean, At
  <2>2. /\ disk' \in [{"live", "bak", "tmp"} -> File]
        /\ disk'["live"] = disk["live"] /\ disk'["bak"] = disk["bak"]
    BY <1>8, DiskTyped DEF Clean
  <2> QED
    BY <1>1, <2>1, <2>2, AsideKeeps DEF Writing
<1> QED
  BY <1>2, <1>3, <1>4, <1>5, <1>6, <1>7, <1>8 DEF Write, WriteStep

-----------------------------------------------------------------------------
(* The end of a save, and of the program.                                  *)

LEMMA ReleaseKeeps ==
    ASSUME IInv, NEW s \in Savers, Release(s)
    PROVE  IInv' /\ Promise /\ ~Trades
<1>1. /\ Stored' = Stored /\ Rung' = Rung /\ HasIntact' = HasIntact /\ Exists("live")' = Exists("live")
  BY SameDisk DEF Release
<1>2. /\ saver[s].at \in {"written", "failed"} /\ gate = s /\ gate' = "free"
      /\ saver' = [saver EXCEPT ![s] = IF s = "autosave" THEN Idle ELSE @]
      /\ UNCHANGED <<disk, world, newest, damaged, mode, acked>>
  BY DEF Release
<1>3. rotate' \in BOOLEAN /\ (rotate => rotate') /\ (rotate' => rotate \/ saver[s].at = "written")
      /\ (saver[s].at = "written" => rotate')
  BY DEF Release, At
<1>4. Idle \in Progress /\ saver \in [Savers -> Progress]
  BY DEF IInv, TypeOK, FileTypeOK, Idle, Progress
<1>5. /\ saver' \in [Savers -> Progress]
      /\ saver'[s] = Idle \/ (saver'[s] = saver[s] /\ s # "autosave")
      /\ \A t \in Savers \ {s} : saver'[t] = saver[t]
  BY <1>2, <1>4
<1>6. \A t \in Savers \ {s} : saver[t].at \in {"idle", "due", "written", "failed"}
  BY <1>2 DEF IInv, TypeOK
<1>7. mode \in {"serving", "closing"}
  BY <1>2, Busy
<1>8. TypeOK'
  BY <1>2, <1>3, <1>5, <1>6 DEF IInv, TypeOK, FileTypeOK, Idle
<1>9. Quiet'
  BY <1>2, <1>5, <1>7, ServerSavers DEF ServerSavers, IInv, Quiet, At, Idle
<1>10. TmpWhole' /\ RotatedAway'
  BY <1>2, <1>5, <1>6 DEF TmpWhole, RotatedAway, Idle
<1>11. LiveTrusted'
  <2>1. mode' # "down" /\ rotate' /\ Exists("live")' => Rung' = "live"
    BY <1>1, <1>2, <1>3, IntactFound DEF IInv, LiveTrusted, At
  <2>2. \A t \in Savers : saver'[t].rotate => rotate'
    BY <1>3, <1>5 DEF IInv, LiveTrusted, Idle
  <2>3. \A t \in Savers : saver'[t].at = "written" => disk'["live"].state = "intact" \/ rotate'
    BY <1>2, <1>3, <1>5 DEF IInv, LiveTrusted, Idle, At
  <2> QED
    BY <2>1, <2>2, <2>3 DEF LiveTrusted, At
<1>12. Behind'
  BY <1>1, <1>2, <1>5, <1>6 DEF IInv, Behind, Writing, Idle
<1>13. AcksBehind'
  BY <1>1, <1>2, <1>5, <1>6, ServerSavers DEF ServerSavers, IInv, AcksBehind, StopSavesAcks, Writing, Idle, At
<1>14. Promise
  BY <1>1, <1>2 DEF Promise, Abstract!vars
<1> QED
  BY <1>1, <1>8, <1>9, <1>10, <1>11, <1>12, <1>13, <1>14 DEF IInv, Trades

LEMMA GoDownKeeps ==
    ASSUME IInv, mode # "down", GoDown
    PROVE  IInv' /\ Promise /\ ~Trades
<1>1. /\ Stored' = Stored /\ Rung' = Rung /\ HasIntact' = HasIntact /\ Exists("live")' = Exists("live")
  BY SameDisk DEF GoDown, Forget
<1>2. /\ saver' = [s \in Savers |-> Idle] /\ world' = 0 /\ mode' = "down" /\ gate' = "free"
      /\ rotate' = FALSE /\ acked' = 0 /\ UNCHANGED <<disk, newest, damaged>>
  BY DEF GoDown, Forget
<1>3. /\ saver' \in [Savers -> Progress] /\ newest \in Nat
      /\ \A s \in Savers : saver'[s].at = "idle" /\ ~saver'[s].rotate /\ saver'[s] = Idle
  BY <1>2 DEF Idle, Progress, IInv, TypeOK, FileTypeOK
<1>4. TypeOK'
  BY <1>2, <1>3 DEF IInv, TypeOK, FileTypeOK
<1>5. Quiet' /\ TmpWhole' /\ RotatedAway'
  BY <1>2, <1>3, ServerSavers DEF ServerSavers, Quiet, TmpWhole, RotatedAway, At
<1>6. LiveTrusted'
  BY <1>2, <1>3 DEF LiveTrusted, At
<1>7. Behind'
  BY <1>2, <1>3 DEF IInv, Behind, Writing
<1>8. AcksBehind'
  BY <1>2, <1>3, ServerSavers DEF ServerSavers, AcksBehind, StopSavesAcks, Writing, At
<1>9. Promise
  BY <1>1, <1>2 DEF Promise, Abstract!Next, Abstract!Halt
<1> QED
  BY <1>1, <1>4, <1>5, <1>6, <1>7, <1>8, <1>9 DEF IInv, Trades

LEMMA DamageKeeps ==
    ASSUME IInv, DamageFile
    PROVE  IInv' /\ Promise /\ ~Trades
<1>1. /\ mode = "down" /\ mode' = "down" /\ damaged' = damaged + 1
      /\ UNCHANGED <<saver, world, newest, gate, rotate, acked>>
  BY DEF DamageFile, Damage
<1>2. PICK f \in {"live", "bak"} :
        \/ /\ disk[f].state = "intact"
           /\ disk' = [disk EXCEPT ![f].state = "partial"]
        \/ /\ disk[f].state \in {"intact", "partial"}
           /\ disk' = [disk EXCEPT ![f] = Corrupt]
  BY DEF DamageFile, Damage
<1>3. \A s \in Savers : saver[s].at = "idle" /\ ~saver[s].rotate /\ saver[s] = Idle
  BY <1>1 DEF IInv, Quiet, Idle
<1>4. disk \in [{"live", "bak", "tmp"} -> File] /\ Corrupt \in File /\ Corrupt.gen = 0
  BY DiskTyped DEF Corrupt
<1>5. /\ disk' \in [{"live", "bak", "tmp"} -> File]
      /\ \A g \in {"live", "bak"} : disk'[g].gen \in {0, disk[g].gen}
  <2>1. CASE disk' = [disk EXCEPT ![f] = Corrupt]
    BY <1>4, <2>1
  <2>2. CASE disk' = [disk EXCEPT ![f].state = "partial"]
    <3>1. /\ [disk[f] EXCEPT !.state = "partial"] \in File
          /\ [disk[f] EXCEPT !.state = "partial"].gen = disk[f].gen
      BY <1>4 DEF File
    <3> QED
      BY <1>4, <2>2, <3>1
  <2> QED
    BY <1>2, <2>1, <2>2
<1>6. newest \in Nat /\ damaged \in Nat
  BY DEF IInv, TypeOK, FileTypeOK
<1>7. TypeOK'
  BY <1>1, <1>3, <1>5, <1>6 DEF IInv, TypeOK, FileTypeOK
<1>8. Quiet' /\ TmpWhole' /\ RotatedAway' /\ LiveTrusted'
  BY <1>1, <1>3 DEF IInv, Quiet, TmpWhole, RotatedAway, LiveTrusted, At
<1>9. Behind'
  BY <1>1, <1>3, <1>5, <1>6 DEF IInv, Behind, Writing
<1>10. AcksBehind'
  BY <1>1, <1>3, ServerSavers DEF ServerSavers, AcksBehind, StopSavesAcks, Writing, At
<1>11. Promise
  BY <1>1 DEF Promise, Abstract!Next, Abstract!Damage, Abstract!vars
<1> QED
  BY <1>1, <1>7, <1>8, <1>9, <1>10, <1>11 DEF IInv, Trades

-----------------------------------------------------------------------------
(* The theorems.                                                           *)

LEMMA InitHolds ==
    ASSUME Init
    PROVE  IInv /\ Abstract!Init
<1>1. /\ disk = [f \in {"live", "bak", "tmp"} |-> Missing] /\ saver = [s \in Savers |-> Idle]
      /\ world = 0 /\ newest = 0 /\ damaged = 0 /\ mode = "down" /\ gate = "free" /\ rotate = FALSE
      /\ acked = 0
  BY DEF Init, FileInit
<1>2. Missing \in File /\ Idle \in Progress /\ Missing.gen = 0
  BY DEF Missing, File, Idle, Progress
<1>3. \A s \in Savers : saver[s] = Idle /\ saver[s].at = "idle" /\ ~saver[s].rotate
  BY <1>1 DEF Idle
<1>4. TypeOK
  BY <1>1, <1>2, <1>3 DEF TypeOK, FileTypeOK
<1>5. Quiet /\ TmpWhole /\ RotatedAway /\ LiveTrusted
  BY <1>1, <1>3, ServerSavers DEF ServerSavers, Quiet, TmpWhole, RotatedAway, LiveTrusted, At
<1>6. Behind
  BY <1>1, <1>2, <1>3 DEF Behind, Writing
<1>7. AcksBehind
  BY <1>1, <1>3, ServerSavers DEF ServerSavers, AcksBehind, StopSavesAcks, Writing, At
<1>8. Stored = 0
  BY <1>1 DEF Stored, Rung, Exists, Missing
<1> QED
  BY <1>1, <1>4, <1>5, <1>6, <1>7, <1>8 DEF IInv, Abstract!Init

(* A step keeps the invariant, trades no intact file away, and is a step   *)
(* of SavedWorld or nothing to it.                                         *)
LEMMA NextKeeps ==
    ASSUME IInv, [Next]_vars
    PROVE  IInv' /\ Promise /\ ~Trades
<1>1. CASE UNCHANGED vars
  <2>1. UNCHANGED <<disk, saver, world, newest, damaged, mode, gate, rotate, acked>>
    BY <1>1 DEF vars, fileVars
  <2>2. /\ Stored' = Stored /\ Rung' = Rung /\ HasIntact' = HasIntact /\ Exists("live")' = Exists("live")
    BY <2>1, SameDisk
  <2>3. TypeOK' /\ Quiet' /\ TmpWhole' /\ RotatedAway' /\ LiveTrusted'
    BY <2>1, <2>2 DEF IInv, TypeOK, FileTypeOK, Quiet, TmpWhole, RotatedAway, LiveTrusted, At
  <2>4. Behind' /\ AcksBehind'
    BY <2>1, <2>2 DEF IInv, Behind, AcksBehind, StopSavesAcks, At
  <2> QED
    BY <2>1, <2>2, <2>3, <2>4 DEF IInv, Trades, Promise, Abstract!vars
<1>2. CASE \E s \in Savers : Save(s)
  BY <1>2, TakeGateKeeps, SnapshotKeeps, EncodeFailsKeeps, WriteKeeps, ReleaseKeeps DEF Save
<1>3. CASE Exit \/ Crash
  <2>1. mode # "down" /\ GoDown
    BY <1>3 DEF Exit, Crash
  <2> QED
    BY <2>1, GoDownKeeps
<1> QED
  BY <1>1, <1>2, <1>3, StartKeeps, EditKeeps, AutosaveDueKeeps, StopKeeps, DamageKeeps DEF Next

(* In every reachable state one saver at most is past the gate, what it is *)
(* about to rename is whole, and the disk, the save and the memory follow  *)
(* each other.                                                             *)
THEOREM InvariantHolds == Spec => []IInv
<1>1. Init => IInv
  BY InitHolds
<1>2. IInv /\ [Next]_vars => IInv'
  BY NextKeeps
<1> QED
  BY <1>1, <1>2, PTL DEF Spec

(* The types, and that past the gate there is only its holder.             *)
THEOREM TypeCorrect == Spec => []TypeOK
<1>1. IInv => TypeOK
  BY DEF IInv
<1> QED
  BY <1>1, InvariantHolds, PTL

(* What stop() has written has every edit a client was told of.            *)
THEOREM AcksSaved == Spec => []StopSavesAcks
<1>1. IInv => StopSavesAcks
  BY DEF IInv, AcksBehind
<1> QED
  BY <1>1, InvariantHolds, PTL

(* No step of a save trades an intact file for none.                       *)
THEOREM IntactKept == Spec => IntactSurvives
<1>1. IInv /\ [Next]_vars => [mode # "down" /\ HasIntact => HasIntact']_vars
  BY NextKeeps DEF Trades
<1> QED
  BY <1>1, InvariantHolds, PTL DEF Spec, IntactSurvives

(* The steps of write_rotating, with their failures and crashes, are one   *)
(* atomic replacement of the saved world.                                  *)
THEOREM Implements == Spec => ImplementsSavedWorld
<1>1. Init => Abstract!Init
  BY InitHolds
<1>2. IInv /\ [Next]_vars => [Abstract!Next]_(Abstract!vars)
  BY NextKeeps DEF Promise
<1> QED
  BY <1>1, <1>2, InvariantHolds, PTL DEF Spec, ImplementsSavedWorld, Abstract!Spec
=============================================================================
