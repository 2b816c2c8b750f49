--------------------------- MODULE WorldDocProofs ---------------------------
(***************************************************************************)
(* Theorems of WorldDoc, for any cells, blocks, builds and size of the     *)
(* spec pool: types, that a save keeps what nobody edited, that the pool's *)
(* limit holds, and that a restart serves what was saved.                  *)
(***************************************************************************)
EXTENDS WorldDoc, FiniteSetTheorems, WellFoundedInduction, TLAPS

LEMMA NothingTyped == Nothing \in Content /\ NoLedger \in [Cells -> Entry \cup {None}]
BY DEF Nothing, Content, NoLedger

LEMMA LiveTyped ==
    ASSUME ledger \in [Cells -> Entry \cup {None}]
    PROVE  Live \in Content
BY DEF Live, Content, Entry

LEMMA OverTyped ==
    ASSUME NEW live \in Content, NEW below \in Content
    PROVE  Over(live, below) \in Content
BY DEF Over, Content

LEMMA ProductsTyped ==
    ASSUME NEW made \in Products
    PROVE  DOMAIN made \subseteq Cells /\ \A c \in DOMAIN made : made[c] \in Specs
BY DEF Products

LEMMA StepTyped ==
    ASSUME TypeOK, [DocNext]_docVars
    PROVE  TypeOK'
<1>1. CASE \E can \in Builds : Start(can)
    <2> PICK can \in Builds : Start(can)
        BY <1>1
    <2>1. ledger' \in [Cells -> Entry \cup {None}]
        <3>1. \A c \in Cells : c \in Installed(file, can) => file[c] \in Specs
            BY DEF TypeOK, Content, Installed
        <3> QED BY <3>1 DEF Start, Entry
    <2>2. kept' \in Content
        BY DEF Start, TypeOK, Content
    <2> QED BY <2>1, <2>2, WorldDocConstants DEF Start, TypeOK, Running
<1>2. CASE \E c \in Cells, s \in Specs : Edit(c, s) \/ Tool(c, s)
    <2> PICK c \in Cells, s \in Specs, natural \in BOOLEAN : Running /\ Write(c, s, natural)
        BY <1>2 DEF Edit, Tool
    <2>1. [spec |-> s, natural |-> natural] \in Entry
        BY DEF Entry
    <2> QED BY <2>1 DEF Write, TypeOK, Running
<1>3. CASE \E made \in Products : React(made)
    <2> PICK made \in Products : React(made)
        BY <1>3
    <2> DEFINE changed == {c \in DOMAIN made : made[c] # Shown(c)}
    <2>1. changed \subseteq Cells /\ \A c \in changed : made[c] \in Specs
        BY ProductsTyped
    <2>2. ledger' = [c \in Cells |-> IF c \in changed THEN [spec |-> made[c], natural |-> FALSE] ELSE ledger[c]]
        BY DEF React
    <2>3. edited' = edited \cup changed /\ commits' = commits + 1 /\ UNCHANGED <<file, build, kept, saving>> /\ Running
        BY DEF React
    <2> HIDE DEF changed
    <2>4. ledger' \in [Cells -> Entry \cup {None}]
        BY <2>1, <2>2 DEF TypeOK, Entry
    <2> QED BY <2>1, <2>3, <2>4 DEF TypeOK, Running
<1>4. CASE Capture
    BY <1>4, LiveTyped DEF Capture, TypeOK, Running
<1>5. CASE Encode
    <2>1. file' \in Content
        BY <1>5, OverTyped DEF Encode, TypeOK
    <2>2. kept' \in Content
        BY <1>5 DEF Encode, TypeOK, Content
    <2> QED BY <1>5, <2>1, <2>2 DEF Encode, TypeOK, Running
<1>6. CASE Halt
    BY <1>6, NothingTyped DEF Halt, TypeOK, Running
<1>7. CASE UNCHANGED docVars
    BY <1>7 DEF docVars, TypeOK, Running
<1> QED BY <1>1, <1>2, <1>3, <1>4, <1>5, <1>6, <1>7 DEF DocNext

(* Types; and a server that is down holds nothing of the world in memory.   *)
THEOREM TypeCorrect == DocSpec => []TypeOK
<1>1. DocInit => TypeOK
    BY NothingTyped DEF DocInit, TypeOK, Running
<1>2. TypeOK /\ [DocNext]_docVars => TypeOK'
    BY StepTyped
<1> QED BY <1>1, <1>2, PTL DEF DocSpec

-----------------------------------------------------------------------------

\* A save under way was captured of what is still there, where nobody edits.
CapturedStands == saving # None => \A c \in Cells \ edited : saving[c] = Live[c]

StaysInv == UneditedStays /\ (Running => CapturedStands)

LEMMA StaysStep ==
    ASSUME TypeOK, StaysInv, [DocNext]_docVars
    PROVE  StaysInv'
<1>1. CASE \E can \in Builds : Start(can)
    <2> PICK can \in Builds : Start(can)
        BY <1>1
    <2>1. \A c \in Cells : Over(Live, kept)'[c] = file[c]
        <3>1. \A c \in Cells : c \in Installed(file, can) => file[c] \in Specs
            BY DEF TypeOK, Content, Installed
        <3>2. \A c \in Cells : ledger'[c] = IF c \in Installed(file, can)
                                THEN [spec |-> file[c], natural |-> FALSE] ELSE None
            BY DEF Start
        <3>3. \A c \in Cells : kept'[c] = IF c \in Installed(file, can) THEN None ELSE file[c]
            BY DEF Start
        <3>4. \A c \in Cells : Live'[c] = IF c \in Installed(file, can) THEN file[c] ELSE None
            <4> SUFFICES ASSUME NEW c \in Cells
                         PROVE  Live'[c] = IF c \in Installed(file, can) THEN file[c] ELSE None
                OBVIOUS
            <4>1. Live'[c] = IF ledger'[c] # None /\ ~ledger'[c].natural THEN ledger'[c].spec ELSE None
                BY DEF Live
            <4>2. CASE c \in Installed(file, can)
                <5> DEFINE r == [spec |-> file[c], natural |-> FALSE]
                <5>1. r \in Entry
                    BY <3>1, <4>2 DEF Entry
                <5>2. r # None
                    BY <5>1, WorldDocConstants
                <5>3. ledger'[c] = r
                    BY <3>2, <4>2
                <5>4. r.spec = file[c] /\ ~r.natural
                    OBVIOUS
                <5> QED BY <4>1, <4>2, <5>2, <5>3, <5>4
            <4>3. CASE c \notin Installed(file, can)
                BY <3>2, <4>1, <4>3
            <4> QED BY <4>2, <4>3
        <3> QED BY <3>1, <3>3, <3>4, WorldDocConstants DEF Over
    <2>2. saving' = None /\ file' = file
        BY DEF Start, TypeOK
    <2> QED BY <2>1, <2>2 DEF StaysInv, UneditedStays, CapturedStands, Saved
<1>2. CASE \E c \in Cells, s \in Specs : Edit(c, s) \/ Tool(c, s)
    <2> PICK c \in Cells, s \in Specs, natural \in BOOLEAN : Running /\ Write(c, s, natural)
        BY <1>2 DEF Edit, Tool
    <2>1. \A d \in Cells : d # c => ledger'[d] = ledger[d]
        BY DEF Write, TypeOK
    <2>2. \A d \in Cells : d # c => Live'[d] = Live[d] /\ Over(Live, kept)'[d] = Over(Live, kept)[d]
        BY <2>1 DEF Live, Over, Write
    <2> QED BY <2>2 DEF StaysInv, UneditedStays, CapturedStands, Saved, Write, Running
<1>3. CASE \E made \in Products : React(made)
    <2> PICK made \in Products : React(made)
        BY <1>3
    <2> DEFINE changed == {c \in DOMAIN made : made[c] # Shown(c)}
    <2>1. ledger' = [c \in Cells |-> IF c \in changed THEN [spec |-> made[c], natural |-> FALSE] ELSE ledger[c]]
        BY DEF React
    <2>2. edited' = edited \cup changed /\ UNCHANGED <<file, build, kept, saving>> /\ Running
        BY DEF React
    <2> HIDE DEF changed
    <2>3. \A c \in Cells \ edited' : ledger'[c] = ledger[c] /\ c \notin edited
        BY <2>1, <2>2
    <2>4. \A c \in Cells \ edited' : Live'[c] = Live[c] /\ Over(Live, kept)'[c] = Over(Live, kept)[c]
        BY <2>2, <2>3 DEF Live, Over
    <2> QED BY <2>2, <2>3, <2>4 DEF StaysInv, UneditedStays, CapturedStands, Saved, Running
<1>4. CASE Capture
    BY <1>4 DEF Capture, StaysInv, UneditedStays, CapturedStands, Saved, Over, Live, Running
<1>5. CASE Encode
    <2>1. Running /\ saving # None /\ Live' = Live /\ edited' = edited /\ saving' = None
        BY <1>5 DEF Encode, Live
    <2>2. \A c \in Cells \ edited : saving[c] = Live[c] /\ Over(Live, kept)[c] = file[c]
        BY <2>1 DEF StaysInv, UneditedStays, CapturedStands, Saved
    <2>3. \A c \in Cells \ edited : Over(Live, kept)'[c] = Over(Live, kept)[c]
        BY <1>5, <2>1, <2>2 DEF Encode, Over
    <2>4. \A c \in Cells \ edited : file'[c] = file[c]
        BY <1>5, <2>2 DEF Encode, Over
    <2> QED BY <2>1, <2>2, <2>3, <2>4 DEF StaysInv, UneditedStays, CapturedStands, Saved
<1>6. CASE Halt
    BY <1>6 DEF Halt, StaysInv, UneditedStays, Running
<1>7. CASE UNCHANGED docVars
    BY <1>7 DEF docVars, StaysInv, UneditedStays, CapturedStands, Saved, Over, Live, Running
<1> QED BY <1>1, <1>2, <1>3, <1>4, <1>5, <1>6, <1>7 DEF DocNext

(* No save loses or changes a cell nobody edited since the start, whether   *)
(* this build serves it or only keeps it, and whether writes fail or not    *)
(* (install_edits, encode_snapshot).                                        *)
THEOREM UneditedKept == DocSpec => []UneditedStays
<1>1. DocInit => StaysInv
    BY DEF DocInit, StaysInv, UneditedStays, Running
<1>2. TypeOK /\ StaysInv /\ [DocNext]_docVars => StaysInv'
    BY StaysStep
<1>3. StaysInv => UneditedStays
    BY DEF StaysInv
<1> QED BY <1>1, <1>2, <1>3, TypeCorrect, PTL DEF DocSpec

-----------------------------------------------------------------------------
(* NamedBy is what its equation says, which takes induction over the cells; *)
(* it is done by the least number for which a fact would fail.             *)

LEMMA LeastNumber ==
    ASSUME NEW T \in SUBSET Nat, T # {}
    PROVE  \E x \in T : \A y \in T : x <= y
<1> DEFINE R == OpToRel(<, Nat)
<1>1. IsWellFoundedOn(R, Nat)
    BY NatLessThanWellFounded
<1>2. PICK x \in T : \A y \in T : ~(<<y, x>> \in R)
    <2> HIDE DEF R
    <2> QED BY <1>1, WFMin
<1>3. \A y \in T : ~(y < x)
    BY <1>2 DEF OpToRel
<1> QED BY <1>3

\* A set of numbers that holds 0, and with each the next one, holds all.
LEMMA AllNumbers ==
    ASSUME NEW T, 0 \in T, \A n \in Nat : n \in T => n + 1 \in T
    PROVE  Nat \subseteq T
<1> SUFFICES ASSUME Nat \ T # {} PROVE FALSE
    OBVIOUS
<1>1. PICK n \in Nat \ T : \A m \in Nat \ T : n <= m
    BY LeastNumber
<1>2. n # 0 /\ n - 1 \in Nat
    BY <1>1
<1>3. n - 1 \in T
    BY <1>1, <1>2
<1> QED BY <1>1, <1>2, <1>3

\* Whether a file's block is taken when those before it are named.
Takes(doc, can, named, k) == doc[k] \in can /\ (doc[k] \in named \/ Cardinality(named) < MaxSpecPool)

\* The equation that NamedBy is defined by, over the first n cells.
Naming(g, doc, can, n) ==
    [k \in 0 .. n |->
        IF k = 0 THEN {}
        ELSE IF Takes(doc, can, g[k - 1], k) THEN g[k - 1] \cup {doc[k]} ELSE g[k - 1]]

LEMMA NamingExists ==
    ASSUME NEW doc, NEW can, NEW n \in Nat
    PROVE  \E g : g = Naming(g, doc, can, n)
<1> DEFINE Done == {k \in Nat : \E g : g = Naming(g, doc, can, k)}
<1>1. 0 \in Done
    <2> DEFINE g == [k \in 0 .. 0 |-> {}]
    <2>1. \A k \in 0 .. 0 : k = 0
        OBVIOUS
    <2>2. g = Naming(g, doc, can, 0)
        BY <2>1 DEF Naming
    <2> HIDE DEF g
    <2> QED BY <2>2
<1>2. ASSUME NEW m \in Nat, m \in Done PROVE m + 1 \in Done
    <2> PICK g : g = Naming(g, doc, can, m)
        BY <1>2
    <2>1. /\ g[0] = {}
          /\ \A k \in 1 .. m : g[k] = IF Takes(doc, can, g[k - 1], k) THEN g[k - 1] \cup {doc[k]} ELSE g[k - 1]
        <3>1. \A k \in 0 .. m : g[k] = IF k = 0 THEN {}
                    ELSE IF Takes(doc, can, g[k - 1], k) THEN g[k - 1] \cup {doc[k]} ELSE g[k - 1]
            <4>1. g = [k \in 0 .. m |-> IF k = 0 THEN {}
                    ELSE IF Takes(doc, can, g[k - 1], k) THEN g[k - 1] \cup {doc[k]} ELSE g[k - 1]]
                BY DEF Naming
            <4> QED BY <4>1
        <3>2. 0 \in 0 .. m /\ \A k \in 1 .. m : k \in 0 .. m /\ k # 0
            OBVIOUS
        <3> QED BY <3>1, <3>2
    <2> DEFINE last == IF Takes(doc, can, g[m], m + 1) THEN g[m] \cup {doc[m + 1]} ELSE g[m]
               h == [k \in 0 .. m + 1 |-> IF k = m + 1 THEN last ELSE g[k]]
    <2>2. \A k \in 0 .. m : h[k] = g[k]
        OBVIOUS
    <2>3. h[m + 1] = last
        OBVIOUS
    <2>4. ASSUME NEW k \in 0 .. m + 1
          PROVE  h[k] = IF k = 0 THEN {}
                        ELSE IF Takes(doc, can, h[k - 1], k) THEN h[k - 1] \cup {doc[k]} ELSE h[k - 1]
        <3>1. CASE k = 0
            <4>1. h[0] = g[0]
                BY <2>2
            <4> HIDE DEF h
            <4> QED BY <2>1, <3>1, <4>1
        <3>2. CASE k \in 1 .. m
            <4>1. h[k] = g[k] /\ h[k - 1] = g[k - 1] /\ k # 0
                BY <2>2, <3>2
            <4> HIDE DEF h
            <4> QED BY <2>1, <3>2, <4>1
        <3>3. CASE k = m + 1
            <4>1. h[k] = last /\ h[k - 1] = g[m] /\ k # 0 /\ k - 1 = m
                <5>1. k - 1 = m /\ m \in 0 .. m
                    BY <3>3
                <5>2. h[m] = g[m]
                    BY <2>2, <5>1
                <5> HIDE DEF h, last
                <5> QED BY <2>3, <3>3, <5>1, <5>2
            <4> HIDE DEF h
            <4> QED BY <3>3, <4>1
        <3>4. k = 0 \/ k \in 1 .. m \/ k = m + 1
            OBVIOUS
        <3> HIDE DEF h
        <3> QED BY <3>1, <3>2, <3>3, <3>4
    <2>5. h = [k \in 0 .. m + 1 |-> h[k]]
        OBVIOUS
    <2> HIDE DEF h
    <2>6. h = Naming(h, doc, can, m + 1)
        BY <2>4, <2>5, Zenon DEF Naming
    <2> QED BY <2>6
<1> HIDE DEF Done
<1>3. n \in Done
    BY <1>1, <1>2, AllNumbers
<1> QED BY <1>3 DEF Done

LEMMA NamedByCells ==
    ASSUME NEW doc, NEW can
    PROVE  /\ NamedBy(doc, can)[0] = {}
           /\ \A k \in 1 .. NCells :
                NamedBy(doc, can)[k] = IF Takes(doc, can, NamedBy(doc, can)[k - 1], k)
                                       THEN NamedBy(doc, can)[k - 1] \cup {doc[k]}
                                       ELSE NamedBy(doc, can)[k - 1]
<1> DEFINE named == CHOOSE g : g = Naming(g, doc, can, NCells)
<1>1. named = Naming(named, doc, can, NCells)
    <2>1. \E g : g = Naming(g, doc, can, NCells)
        BY NamingExists, WorldDocConstants
    <2> QED BY <2>1, Zenon
<1>2. NamedBy(doc, can) = named
    BY DEF NamedBy, Naming, Takes
<1> HIDE DEF named
<1>3. \A k \in 0 .. NCells : named[k] = IF k = 0 THEN {}
            ELSE IF Takes(doc, can, named[k - 1], k) THEN named[k - 1] \cup {doc[k]} ELSE named[k - 1]
    <2>1. named = [k \in 0 .. NCells |-> IF k = 0 THEN {}
            ELSE IF Takes(doc, can, named[k - 1], k) THEN named[k - 1] \cup {doc[k]} ELSE named[k - 1]]
        BY <1>1 DEF Naming
    <2> QED BY <2>1
<1>4. 0 \in 0 .. NCells /\ \A k \in 1 .. NCells : k \in 0 .. NCells /\ k # 0
    BY WorldDocConstants
<1> QED BY <1>2, <1>3, <1>4

-----------------------------------------------------------------------------
(* The spec pool.                                                          *)

LEMMA ImageFinite ==
    ASSUME NEW D, IsFiniteSet(D), NEW f, DOMAIN f = D
    PROVE  IsFiniteSet({f[d] : d \in D})
<1> DEFINE T == {f[d] : d \in D}
           g == [d \in D |-> f[d]]
<1>1. g \in Surjection(D, T)
    BY DEF Surjection
<1> HIDE DEF g, T
<1>2. IsFiniteSet(T)
    BY <1>1, FS_Surjection
<1> QED BY <1>2 DEF T

LEMMA CellsFinite == IsFiniteSet(Cells) /\ \A D \in SUBSET Cells : IsFiniteSet(D)
<1>1. NCells \in Int /\ 1 \in Int
    BY WorldDocConstants
<1>2. IsFiniteSet(Cells)
    BY <1>1, FS_Interval DEF Cells
<1> QED BY <1>2, FS_Subset

LEMMA NamedFinite == IsFiniteSet(Named)
<1> DEFINE D == {d \in Cells : ledger[d] # None}
           f == [d \in D |-> ledger[d].spec]
<1>1. IsFiniteSet(D) /\ DOMAIN f = D
    BY CellsFinite
<1>2. Named = {f[d] : d \in D}
    BY DEF Named
<1> HIDE DEF f, D
<1> QED BY <1>1, <1>2, ImageFinite

\* As many blocks as the pool holds, and none that this build cannot parse.
Pooled(named, can) == /\ IsFiniteSet(named) /\ Cardinality(named) <= MaxSpecPool /\ named \subseteq can

LEMMA EmptyPooled == \A can : Pooled({}, can)
BY FS_EmptySet, WorldDocConstants DEF Pooled

\* What the cells of a file come to name, from each cell on to the last.
LEMMA NamedByPooled ==
    ASSUME NEW doc, NEW can
    PROVE  \A k \in 0 .. NCells :
            /\ Pooled(NamedBy(doc, can)[k], can)
            /\ \A j \in 0 .. k : NamedBy(doc, can)[j] \subseteq NamedBy(doc, can)[k]
<1> PICK named : named = NamedBy(doc, can)
    OBVIOUS
<1>1. /\ named[0] = {}
      /\ \A k \in 1 .. NCells :
            named[k] = IF Takes(doc, can, named[k - 1], k) THEN named[k - 1] \cup {doc[k]} ELSE named[k - 1]
    BY NamedByCells, Zenon
<1> DEFINE T == {k \in Nat : k <= NCells =>
                    Pooled(named[k], can) /\ \A j \in 0 .. k : named[j] \subseteq named[k]}
<1>2. 0 \in T
    <2>1. \A j \in 0 .. 0 : j = 0
        OBVIOUS
    <2> QED BY <1>1, <2>1, EmptyPooled
<1>3. ASSUME NEW m \in Nat, m \in T PROVE m + 1 \in T
    <2> SUFFICES ASSUME m + 1 <= NCells
                 PROVE  Pooled(named[m + 1], can) /\ \A j \in 0 .. m + 1 : named[j] \subseteq named[m + 1]
        OBVIOUS
    <2>1. NCells \in Nat /\ MaxSpecPool \in Nat
        BY WorldDocConstants
    <2>2. m + 1 \in 1 .. NCells /\ (m + 1) - 1 = m /\ m <= NCells
        BY <2>1
    <2>3. named[m + 1] = IF Takes(doc, can, named[m], m + 1) THEN named[m] \cup {doc[m + 1]} ELSE named[m]
        BY <1>1, <2>2
    <2>4. Pooled(named[m], can) /\ \A j \in 0 .. m : named[j] \subseteq named[m]
        BY <1>3, <2>2
    <2>5. Pooled(named[m + 1], can)
        <3>1. CASE Takes(doc, can, named[m], m + 1)
            <4>1. /\ IsFiniteSet(named[m] \cup {doc[m + 1]})
                  /\ Cardinality(named[m] \cup {doc[m + 1]}) = IF doc[m + 1] \in named[m] THEN Cardinality(named[m])
                                                              ELSE Cardinality(named[m]) + 1
                BY <2>4, FS_AddElement DEF Pooled
            <4>2. Cardinality(named[m]) \in Nat
                BY <2>4, FS_CardinalityType DEF Pooled
            <4> QED BY <2>1, <2>3, <2>4, <3>1, <4>1, <4>2 DEF Pooled, Takes
        <3> QED BY <2>3, <2>4, <3>1
    <2>6. ASSUME NEW j \in 0 .. m + 1 PROVE named[j] \subseteq named[m + 1]
        <3>1. j \in 0 .. m \/ j = m + 1
            OBVIOUS
        <3> QED BY <2>3, <2>4, <3>1
    <2> QED BY <2>5, <2>6
<1> HIDE DEF T
<1>4. \A k \in 0 .. NCells : k \in T /\ k <= NCells
    BY <1>2, <1>3, AllNumbers, WorldDocConstants
<1> QED BY <1>4 DEF T

LEMMA FewerNames ==
    ASSUME NEW T, NEW S \in SUBSET T, IsFiniteSet(T), Cardinality(T) <= MaxSpecPool
    PROVE  Cardinality(S) <= MaxSpecPool
<1>1. IsFiniteSet(S) /\ Cardinality(S) <= Cardinality(T)
    BY FS_Subset
<1>2. Cardinality(S) \in Nat /\ Cardinality(T) \in Nat /\ MaxSpecPool \in Nat
    BY <1>1, FS_CardinalityType, WorldDocConstants
<1> QED BY <1>1, <1>2

LEMMA PoolStep ==
    ASSUME TypeOK, NamedWithinPool, [DocNext]_docVars
    PROVE  NamedWithinPool'
<1>1. CASE \E can \in Builds : Start(can)
    <2> PICK can \in Builds : Start(can)
        BY <1>1
    <2> PICK named : named = NamedBy(file, can)
        OBVIOUS
    <2>1. Named' \subseteq named[NCells]
        <3> SUFFICES ASSUME NEW c \in Cells, ledger'[c] # None PROVE ledger'[c].spec \in named[NCells]
            BY DEF Named
        <3>1. c \in Installed(file, can) /\ ledger'[c].spec = file[c]
            BY DEF Start
        <3>2. c \in 0 .. NCells /\ NCells \in 0 .. NCells
            BY WorldDocConstants DEF Cells
        <3>3. named[c] \subseteq named[NCells]
            BY <3>2, NamedByPooled
        <3> QED BY <3>1, <3>3 DEF Installed
    <2>2. NCells \in 0 .. NCells
        BY WorldDocConstants
    <2>3. Pooled(named[NCells], can)
        BY <2>2, NamedByPooled
    <2> QED BY <2>1, <2>3, FewerNames DEF Pooled, NamedWithinPool
<1>2. CASE \E c \in Cells, s \in Specs : Edit(c, s) \/ Tool(c, s)
    <2> PICK c \in Cells, s \in Specs, natural \in BOOLEAN : Running /\ Write(c, s, natural)
        BY <1>2 DEF Edit, Tool
    <2> DEFINE r == [spec |-> s, natural |-> natural]
    <2>1. r.spec = s
        OBVIOUS
    <2>2. /\ s \in Named \/ Cardinality(Named) < MaxSpecPool
          /\ ledger' = [ledger EXCEPT ![c] = r]
        BY DEF Write
    <2> HIDE DEF r
    <2>3. Named' \subseteq Named \cup {s}
        BY <2>1, <2>2 DEF Named, TypeOK
    <2>4. /\ IsFiniteSet(Named \cup {s})
          /\ Cardinality(Named \cup {s}) = IF s \in Named THEN Cardinality(Named) ELSE Cardinality(Named) + 1
        BY NamedFinite, FS_AddElement
    <2>5. Cardinality(Named) \in Nat /\ MaxSpecPool \in Nat
        BY NamedFinite, FS_CardinalityType, WorldDocConstants
    <2>6. Cardinality(Named \cup {s}) <= MaxSpecPool
        BY <2>2, <2>4, <2>5 DEF NamedWithinPool
    <2> QED BY <2>3, <2>4, <2>6, FewerNames DEF NamedWithinPool
<1>3. CASE \E made \in Products : React(made)
    BY <1>3 DEF React, NamedWithinPool
<1>4. CASE Capture \/ Encode \/ UNCHANGED docVars
    BY <1>4 DEF Capture, Encode, docVars, NamedWithinPool, Named
<1>5. CASE Halt
    <2>1. Named' = {}
        BY <1>5 DEF Halt, Named, NoLedger
    <2> QED BY <2>1, FS_EmptySet, WorldDocConstants DEF NamedWithinPool
<1> QED BY <1>1, <1>2, <1>3, <1>4, <1>5 DEF DocNext

(* The ledger never names more blocks than the spec pool holds: not after a *)
(* start from a file that names more, nor after an edit, a tool use or both *)
(* products of a contact (install_edits, State::write, set_pair).           *)
THEOREM PoolHolds == DocSpec => []NamedWithinPool
<1>1. DocInit => NamedWithinPool
    <2> SUFFICES ASSUME DocInit PROVE NamedWithinPool
        OBVIOUS
    <2>1. Named = {}
        BY DEF DocInit, Named, NoLedger
    <2> QED BY <2>1, FS_EmptySet, WorldDocConstants DEF NamedWithinPool
<1>2. TypeOK /\ NamedWithinPool /\ [DocNext]_docVars => NamedWithinPool'
    BY PoolStep
<1> QED BY <1>1, <1>2, TypeCorrect, PTL DEF DocSpec

-----------------------------------------------------------------------------
(* A restart.                                                              *)

\* The running build can parse all that it serves.
Parsed == \A c \in Cells : ledger[c] # None => ledger[c].spec \in build

LEMMA ParsedStep ==
    ASSUME TypeOK, Parsed, [DocNext]_docVars
    PROVE  Parsed'
<1>1. CASE \E can \in Builds : Start(can)
    <2> PICK can \in Builds : Start(can)
        BY <1>1
    <2> SUFFICES ASSUME NEW c \in Cells, ledger'[c] # None PROVE ledger'[c].spec \in build'
        BY DEF Parsed
    <2>1. c \in Installed(file, can) /\ ledger'[c].spec = file[c] /\ build' = can
        BY DEF Start
    <2>2. NamedBy(file, can)[c] \subseteq can
        <3>1. c \in 0 .. NCells
            BY WorldDocConstants DEF Cells
        <3> QED BY <3>1, NamedByPooled DEF Pooled
    <2> QED BY <2>1, <2>2 DEF Installed
<1>2. CASE \E c \in Cells, s \in Specs : Edit(c, s) \/ Tool(c, s)
    <2> PICK c \in Cells, s \in Specs, natural \in BOOLEAN : s \in build /\ Write(c, s, natural)
        BY <1>2 DEF Edit, Tool
    <2> DEFINE r == [spec |-> s, natural |-> natural]
    <2>1. r.spec = s
        OBVIOUS
    <2>2. ledger' = [ledger EXCEPT ![c] = r] /\ build' = build
        BY DEF Write
    <2> HIDE DEF r
    <2> QED BY <2>1, <2>2 DEF Parsed, TypeOK
<1>3. CASE \E made \in Products : React(made)
    <2> PICK made \in Products : React(made)
        BY <1>3
    <2> DEFINE changed == {c \in DOMAIN made : made[c] # Shown(c)}
    <2>1. /\ \A c \in changed : made[c] \in build
          /\ ledger' = [c \in Cells |-> IF c \in changed THEN [spec |-> made[c], natural |-> FALSE] ELSE ledger[c]]
          /\ build' = build
        BY DEF React
    <2> HIDE DEF changed
    <2> QED BY <2>1 DEF Parsed
<1>4. CASE Capture \/ Encode \/ UNCHANGED docVars
    BY <1>4 DEF Capture, Encode, docVars, Parsed
<1>5. CASE Halt
    BY <1>5 DEF Halt, Parsed, NoLedger
<1> QED BY <1>1, <1>2, <1>3, <1>4, <1>5 DEF DocNext

\* Cells that the ledger would save are all taken when they are read back.
LEMMA SavedIsServed ==
    ASSUME TypeOK, NamedWithinPool, Parsed, Running, \A c \in Cells : kept[c] \notin build
    PROVE  Installed(Saved, build) = {c \in Cells : Live[c] # None}
<1> PICK named : named = NamedBy(Saved, build)
    OBVIOUS
<1>1. /\ named[0] = {}
      /\ \A k \in 1 .. NCells :
            named[k] = IF Takes(Saved, build, named[k - 1], k) THEN named[k - 1] \cup {Saved[k]} ELSE named[k - 1]
    BY ZenonT(60), NamedByCells
<1>2. \A c \in Cells : Saved[c] = IF Live[c] # None THEN Live[c] ELSE kept[c]
    BY DEF Saved, Over
<1>3. \A c \in Cells : Live[c] # None => Live[c] \in build /\ Live[c] \in Named
    BY DEF Live, Parsed, Named
<1>4. NCells \in Nat /\ MaxSpecPool \in Nat
    BY WorldDocConstants
<1> DEFINE T == {k \in Nat : k <= NCells => named[k] \subseteq Named}
<1>5. ASSUME NEW k \in Cells, named[k - 1] \subseteq Named
      PROVE  /\ Takes(Saved, build, named[k - 1], k) <=> Live[k] # None
             /\ named[k] \subseteq Named
             /\ Live[k] # None => Saved[k] \in named[k]
    <2>1. k \in 1 .. NCells
        BY DEF Cells
    <2>2. Takes(Saved, build, named[k - 1], k) <=> Live[k] # None
        <3>1. Saved[k] \in build <=> Live[k] # None
            BY <1>2, <1>3
        <3>2. ASSUME Live[k] # None, Live[k] \notin named[k - 1]
              PROVE  Cardinality(named[k - 1]) < MaxSpecPool
            <4> DEFINE more == named[k - 1] \cup {Live[k]}
            <4>1. named[k - 1] \in SUBSET Named /\ more \in SUBSET Named
                BY <1>3, <1>5, <3>2
            <4>2. IsFiniteSet(named[k - 1]) /\ Cardinality(named[k - 1]) \in Nat
                BY <4>1, NamedFinite, FS_Subset, FS_CardinalityType
            <4>3. Cardinality(more) = Cardinality(named[k - 1]) + 1
                BY <3>2, <4>2, FS_AddElement
            <4> HIDE DEF more
            <4>4. Cardinality(more) <= Cardinality(Named) /\ Cardinality(Named) \in Nat
                BY <4>1, NamedFinite, FS_Subset, FS_CardinalityType
            <4> QED BY <1>4, <4>2, <4>3, <4>4 DEF NamedWithinPool
        <3> QED BY <1>2, <3>1, <3>2 DEF Takes
    <2> QED BY <1>1, <1>2, <1>3, <1>5, <2>1, <2>2
<1>6. 0 \in T
    BY <1>1
<1>7. ASSUME NEW m \in Nat, m \in T PROVE m + 1 \in T
    <2> SUFFICES ASSUME m + 1 <= NCells PROVE named[m + 1] \subseteq Named
        OBVIOUS
    <2>1. m + 1 \in Cells /\ (m + 1) - 1 = m /\ m <= NCells
        BY <1>4 DEF Cells
    <2>2. named[m] \subseteq Named
        BY <1>7, <2>1
    <2> HIDE DEF T
    <2> QED BY <1>5, <2>1, <2>2
<1> HIDE DEF T
<1>8. \A k \in Cells : named[k - 1] \subseteq Named
    <2>1. Nat \subseteq T
        BY <1>6, <1>7, AllNumbers
    <2>2. \A k \in Cells : k - 1 \in Nat /\ k - 1 <= NCells
        BY <1>4 DEF Cells
    <2> QED BY <2>1, <2>2 DEF T
<1>9. ASSUME NEW c \in Cells
      PROVE  c \in Installed(Saved, build) <=> Live[c] # None
    <2>1. /\ Takes(Saved, build, named[c - 1], c) <=> Live[c] # None
          /\ Live[c] # None => Saved[c] \in named[c]
        BY <1>5, <1>8
    <2>2. named[c] \subseteq build
        <3>1. c \in 0 .. NCells
            BY <1>4 DEF Cells
        <3> QED BY <3>1, NamedByPooled DEF Pooled
    <2> QED BY <1>2, <2>1, <2>2 DEF Installed
<1> QED BY <1>9 DEF Installed

(* Unless the pool left cells of the file out, a restart of the same build  *)
(* serves just what a save would have written of the ledger: whatever the   *)
(* order in which the cells come back, the pool has room for each           *)
(* (snapshot, install_edits).                                               *)
THEOREM RestartsServe == DocSpec => []RestartServes
<1>1. DocInit => Parsed
    BY DEF DocInit, Parsed, NoLedger
<1>2. TypeOK /\ Parsed /\ [DocNext]_docVars => Parsed'
    BY ParsedStep
<1>3. TypeOK /\ NamedWithinPool /\ Parsed => RestartServes
    BY SavedIsServed DEF RestartServes
<1> QED BY <1>1, <1>2, <1>3, TypeCorrect, PoolHolds, PTL DEF DocSpec
=============================================================================
