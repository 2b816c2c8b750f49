------------------------------ MODULE WorldDoc ------------------------------
(***************************************************************************)
(* What a server's world file says of each cell, over restarts of builds   *)
(* that do not all know the same blocks. A cell whose block this build     *)
(* cannot parse, or the spec pool cannot hold, is not served; it is kept,  *)
(* and goes back into the file with every save.                            *)
(*                                                                         *)
(* How the file gets onto the disk is ServerSave's: here a save is written *)
(* or it is not. `file` is what the next start would load.                 *)
(***************************************************************************)
EXTENDS Naturals, FiniteSets

CONSTANTS
    NCells,         \* cells are numbered in the order of their coordinates
    Specs,          \* the text of blocks
    None,           \* no edit
    Generated,      \* [Cells -> Specs]: what the generator puts there
    Builds,         \* for each build of the server, the specs it can parse
    MaxSpecPool,    \* MAX_SPEC_POOL: distinct blocks the ledger may name
    MaxCommits      \* bound: commits of one session

Cells == 1 .. NCells

\* An edit of the ledger: Cell, without its id and revision.
Entry == [spec : Specs, natural : BOOLEAN]

ASSUME WorldDocConstants ==
    /\ NCells \in Nat
    /\ None \notin Specs /\ None \notin Builds /\ None \notin Entry
    /\ Generated \in [Cells -> Specs]
    /\ Builds \subseteq SUBSET Specs
    /\ \A b \in Builds, c \in Cells : Generated[c] \in b
    /\ MaxSpecPool \in Nat
    /\ MaxCommits \in Nat

VARIABLES
    file,           \* [Cells -> Specs or None]: the edits of the world file
    build,          \* what the running server can parse, or None when none runs
    ledger,         \* [Cells -> Entry or None]: State::edits
    kept,           \* [Cells -> Specs or None]: Store::kept
    saving,         \* the cells of the save under way, or None
    edited,         \* history: cells committed to since the start
    commits         \* commits since the start

docVars == <<file, build, ledger, kept, saving, edited, commits>>

Content  == [Cells -> Specs \cup {None}]
Nothing  == [c \in Cells |-> None]

NoLedger == [c \in Cells |-> None]

Running  == build # None

DocInit ==
    /\ file \in Content
    /\ build = None /\ ledger = NoLedger /\ kept = Nothing
    /\ saving = None /\ edited = {} /\ commits = 0

-----------------------------------------------------------------------------
(* Starting.                                                               *)

(* The blocks named once the first n cells of a file are installed.        *)
NamedBy(doc, can) ==
    LET named[n \in 0 .. NCells] ==
            IF n = 0 THEN {}
            ELSE IF doc[n] \in can /\ (doc[n] \in named[n - 1] \/ Cardinality(named[n - 1]) < MaxSpecPool)
            THEN named[n - 1] \cup {doc[n]}
            ELSE named[n - 1]
    IN  named

(* install_edits serves the cells it can parse and the pool can hold.      *)
Installed(doc, can) == {c \in Cells : doc[c] # None /\ doc[c] \in NamedBy(doc, can)[c]}

(* Mutant: cells past the pool's limit are skipped, and not kept.          *)
StartSkipping(can) ==
    /\ ~Running
    /\ build' = can
    /\ ledger' = [c \in Cells |-> IF c \in Installed(file, can) THEN [spec |-> file[c], natural |-> FALSE] ELSE None]
    /\ kept' = [c \in Cells |-> IF file[c] \in can THEN None ELSE file[c]]
    /\ edited' = {} /\ commits' = 0
    /\ UNCHANGED <<file, saving>>

(* Mutant: the file's cells are installed whatever the pool holds.         *)
StartUnbounded(can) ==
    /\ ~Running
    /\ build' = can
    /\ ledger' = [c \in Cells |-> IF file[c] \in can THEN [spec |-> file[c], natural |-> FALSE] ELSE None]
    /\ kept' = [c \in Cells |-> IF file[c] \in can THEN None ELSE file[c]]
    /\ edited' = {} /\ commits' = 0
    /\ UNCHANGED <<file, saving>>

(* open, install_edits and set_kept.                                       *)
Start(can) ==
    /\ ~Running
    /\ build' = can
    /\ ledger' = [c \in Cells |-> IF c \in Installed(file, can) THEN [spec |-> file[c], natural |-> FALSE] ELSE None]
    /\ kept' = [c \in Cells |-> IF c \in Installed(file, can) THEN None ELSE file[c]]
    /\ edited' = {} /\ commits' = 0
    /\ UNCHANGED <<file, saving>>

-----------------------------------------------------------------------------
(* Commits. How they come about is EditLedger's.                           *)

Named == {ledger[c].spec : c \in {d \in Cells : ledger[d] # None}}

(* State::write interns the new block before it releases the old one.      *)
Write(c, s, natural) ==
    /\ Running /\ commits < MaxCommits
    /\ s \in Named \/ Cardinality(Named) < MaxSpecPool
    /\ ledger' = [ledger EXCEPT ![c] = [spec |-> s, natural |-> natural]]
    /\ edited' = edited \cup {c}
    /\ commits' = commits + 1
    /\ UNCHANGED <<file, build, kept, saving>>

(* Mutant: the pool is not asked.                                          *)
EditUnbounded(c, s) ==
    /\ Running /\ commits < MaxCommits
    /\ s \in build
    /\ ledger' = [ledger EXCEPT ![c] = [spec |-> s, natural |-> s = Generated[c]]]
    /\ edited' = edited \cup {c}
    /\ commits' = commits + 1
    /\ UNCHANGED <<file, build, kept, saving>>

(* on_edit: an edit that puts back the generated block is natural.         *)
Edit(c, s) == Running /\ s \in build /\ Write(c, s, s = Generated[c])

(* on_tool_use: a tool's product is not natural, whatever it is.           *)
Tool(c, s) == Running /\ s \in build /\ Write(c, s, FALSE)

(* What the world shows: State::block.                                     *)
Shown(c) == IF ledger[c] # None THEN ledger[c].spec ELSE Generated[c]

(* ServerCells::set_pair, the one write of the tick: both products of a     *)
(* contact, admitted together against the pool's final occupancy; a cell    *)
(* that stays is not written.                                               *)
React(made) ==
    LET changed == {c \in DOMAIN made : made[c] # Shown(c)} IN
    /\ Running /\ commits < MaxCommits
    /\ changed # {}
    /\ \A c \in changed : made[c] \in build
    /\ ledger' = [c \in Cells |-> IF c \in changed THEN [spec |-> made[c], natural |-> FALSE] ELSE ledger[c]]
    /\ Cardinality(Named') <= MaxSpecPool
    /\ edited' = edited \cup changed
    /\ commits' = commits + 1
    /\ UNCHANGED <<file, build, kept, saving>>

(* The products of one contact, which is of two cells: set_pair refuses     *)
(* lo == hi.                                                                *)
Products == UNION {[touching -> Specs] : touching \in {S \in SUBSET Cells : Cardinality(S) = 2}}

-----------------------------------------------------------------------------
(* Saving, behind the gate: one save at a time.                            *)

(* What save_world captures of the ledger: natural entries stay out.       *)
Live == [c \in Cells |-> IF ledger[c] # None /\ ~ledger[c].natural THEN ledger[c].spec ELSE None]

Capture ==
    /\ Running /\ saving = None
    /\ saving' = Live
    /\ UNCHANGED <<file, build, ledger, kept, edited, commits>>

Over(live, below) == [c \in Cells |-> IF live[c] # None THEN live[c] ELSE below[c]]

(* Mutant: kept cells go into the first save only.                         *)
EncodeOnce ==
    /\ Running /\ saving # None
    /\ kept' = Nothing
    /\ file' \in {Over(saving, kept), file}
    /\ saving' = None
    /\ UNCHANGED <<build, ledger, edited, commits>>

(* Store::write: encode_snapshot lets go of the kept cells that the save   *)
(* has content for; then encoding or writing may still fail.               *)
Encode ==
    /\ Running /\ saving # None
    /\ kept' = [c \in Cells |-> IF saving[c] # None THEN None ELSE kept[c]]
    /\ file' \in {Over(saving, kept), file}
    /\ saving' = None
    /\ UNCHANGED <<build, ledger, edited, commits>>

(* The server stops, after its last save or without one.                   *)
Halt ==
    /\ Running
    /\ build' = None /\ ledger' = NoLedger /\ kept' = Nothing
    /\ saving' = None /\ edited' = {} /\ commits' = 0
    /\ UNCHANGED file

DocNext ==
    \/ \E can \in Builds : Start(can)
    \/ \E c \in Cells, s \in Specs : Edit(c, s) \/ Tool(c, s)
    \/ \E made \in Products : React(made)
    \/ Capture \/ Encode \/ Halt

DocSpec == DocInit /\ [][DocNext]_docVars

-----------------------------------------------------------------------------
(* Properties.                                                             *)

TypeOK ==
    /\ file \in Content
    /\ build \in Builds \cup {None}
    /\ ledger \in [Cells -> Entry \cup {None}]
    /\ kept \in Content
    /\ saving \in Content \cup {None}
    /\ edited \subseteq Cells
    /\ commits \in Nat
    /\ ~Running => ledger = NoLedger /\ kept = Nothing /\ saving = None

(* What a save would write now.                                            *)
Saved == Over(Live, kept)

(* No cell that nobody edited is lost or changed by saving: what this build *)
(* cannot parse, or the pool cannot hold, stays in the file through every   *)
(* save, failed ones included.                                              *)
UneditedStays == Running => \A c \in Cells \ edited : Saved[c] = file[c]

(* The ledger never names more blocks than the pool holds, loaded or not.   *)
NamedWithinPool == Cardinality(Named) <= MaxSpecPool

(* Unless the pool left cells of the file out, a restart of the same build  *)
(* serves what was served when it was saved, and the pool holds all of it,  *)
(* whatever the order in which cells come back.                             *)
RestartServes ==
    Running /\ (\A c \in Cells : kept[c] \notin build) =>
        Installed(Saved, build) = {c \in Cells : Live[c] # None}

(* A kept cell that has been edited is out of the file, as Store::kept says. *)
EditReplacesKept == Running => \A c \in edited : ledger[c].natural => Saved[c] = None
=============================================================================
