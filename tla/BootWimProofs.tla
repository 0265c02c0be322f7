--------------------------- MODULE BootWimProofs ---------------------------
(***************************************************************************)
(* Shrinking boot.wim is sound for every directory tree, every naming of   *)
(* its directories, every sharing of content and every set of flags: what  *)
(* TLC checks on three nested directories holds in general, and editing    *)
(* the setup image implements editing a plain store of files.              *)
(***************************************************************************)
EXTENDS BootWim, BlobTableProofs, WellFoundedInduction

\* The tree as the counts have it: without the files whose counts were given
\* up although they could not be removed.
Live == [p \in Path |-> IF p \in stuck THEN Absent ELSE tree[p]]

\* The table is exact, and whatever it lists can be read from the export or
\* was written here.  What the tree needs is listed, but not the converse:
\* saving a hive drops new data that is merely listed.
Sound ==
    /\ bt.listed \subseteq Readable
    /\ Needed(tree) \subseteq bt.listed
    /\ Exact(bt, Live)

\* What the walk collects, and the packages that are added, in the whole tree.
Top == {d \in Dir : Foreign(d) /\ \A e \in Dir : Foreign(e) => d \notin Inside[e]}
Pkgs == {d \in SxsDir : name[d] = "_other_"}

Below(S) == UNION {Inside[d] : d \in S}

\* The items of toRemove whose turn has come.
Removed == (Top \ walked) \cup (Pkgs \ packages)

\* Outside the hives a tree is the exported one without the files of G.
Without(t, G) == \A p \in Path \ HivePath : t[p] = IF p \in G THEN Absent ELSE initial[p]

Trimmed == IF flags.skipLocaleTrim THEN {} ELSE Doomed
Cleaned == Trimmed \cup (IF flags.skipFileCleanup THEN {} ELSE Unwanted)

\* What the output lacks: a file that could not be removed is not counted in.
Goal == Cleaned \ stuck

\* Outside the hives, the files of low are gone, those outside high are as
\* exported, and the others are one or the other.
Between(t, low, high) ==
    \A p \in Path \ HivePath :
       /\ t[p] \in {Absent, initial[p]}
       /\ p \in low => t[p] = Absent
       /\ p \notin high => t[p] = initial[p]

\* Before the trim: nothing is gone.
Whole == pc \in {"tweaks", "walk", "sxs"} => dirs = Dir /\ Without(tree, {})

\* During the trim: what is gone is the removed items and what lay in them,
\* and no package goes before the last item of the walk.
Trimming ==
    /\ pc \in {"sxs", "remove"} => ~flags.skipLocaleTrim
    /\ pc = "sxs" => walked = Top
    /\ pc = "remove" =>
         /\ walked \subseteq Top /\ packages \subseteq Pkgs
         /\ walked # {} => packages = Pkgs
         /\ dirs = Dir \ (Removed \cup Below(Removed))
         /\ Without(tree, Below(Removed))

\* Through the sweeps and the removal of the engines, and after them.
After ==
    /\ pc = "fonts" => Between(tree, Trimmed, Goal)
    /\ pc = "engines" => Between(tree, Trimmed \cup (Fonts \ stuck), Goal)
    /\ pc = "drivers" => Between(tree, Trimmed \cup (Fonts \ stuck) \cup Below(Engines), Goal)
    /\ pc \in {"engines", "drivers"} => ~flags.skipFileCleanup
    /\ pc \in {"write", "writing", "done"} => Between(tree, Goal, Goal)

\* An engine directory that is no longer there has left no file behind.
EnginesGone ==
    pc \in {"fonts", "engines"} =>
      \A d \in Engines \ dirs : \A p \in Path \cap Inside[d] : tree[p] = Absent

\* Only a sweep leaves a file it failed to remove in a run that goes on.
Warned ==
    /\ pc \in {"tweaks", "walk", "sxs", "remove"} => stuck = {}
    /\ pc # "error" => stuck \subseteq Matched

\* The output, by the place the function is at.
Output ==
    /\ pc \notin {"panic", "failed"}
    /\ pc = "writing" => out = Damaged
    /\ pc = "done" => out = [tree |-> tree, table |-> Rebuilt(tree)]
    /\ pc = "error" => out \in {Untouched, Damaged}
    /\ pc \notin {"writing", "done", "error"} => out = Untouched

IInv ==
    /\ TypeOK /\ initial \in [Path -> Hash] /\ initial \in Trees
    /\ Sound /\ Whole /\ Trimming /\ After /\ EnginesGone /\ Warned /\ Output

-----------------------------------------------------------------------------
(* What the walk collects. *)

\* Every foreign directory lies in one the walk collects, or is one: there
\* are finitely many directories, so the outermost foreign one exists.
LEMMA TopCovers ==
    ASSUME NEW d \in Dir, Foreign(d)
    PROVE  \E e \in Top : d = e \/ d \in Inside[e]
  <1> USE BootWimAssumption
  <1> DEFINE Above  == {e \in Dir : Foreign(e) /\ (d = e \/ d \in Inside[e])}
             Rest(e) == Dir \ Inside[e]
             Rests  == {Rest(e) : e \in Above}
             R == StrictSubsetOrdering(Dir)
  <1>1. d \in Above
    OBVIOUS
  <1>2. Rests \subseteq FiniteSubsetsOf(Dir) /\ Rests # {}
    <2>1. \A e \in Above : Rest(e) \in SUBSET Dir /\ IsFiniteSet(Rest(e))
      BY FS_Subset
    <2> HIDE DEF Above, Rest
    <2>2. QED
      BY <1>1, <2>1 DEF FiniteSubsetsOf
  <1>3. IsWellFoundedOn(R, FiniteSubsetsOf(Dir))
    BY FS_StrictSubsetOrderingWellFounded
  <1>4. PICK x \in Rests : \A y \in Rests : <<y, x>> \notin R
    <2> HIDE DEF R, Rests
    <2>1. QED
      BY <1>2, <1>3, WFMin
  <1>5. PICK e \in Above : x = Rest(e)
    OBVIOUS
  <1>6. ASSUME NEW f \in Dir, Foreign(f), e \in Inside[f] PROVE FALSE
    <2>1. Inside[e] \subseteq Inside[f] /\ e \notin Inside[e]
      BY <1>6
    <2>2. f \in Above
      BY <1>5, <1>6, <2>1
    <2>3. Rest(f) \in Rests /\ Rest(f) \subseteq Rest(e) /\ Rest(f) # Rest(e)
      BY <1>6, <2>1, <2>2
    <2>4. <<Rest(f), x>> \in R
      BY <1>5, <2>3 DEF StrictSubsetOrdering
    <2>5. QED
      BY <1>4, <2>3, <2>4
  <1>7. e \in Top
    BY <1>5, <1>6 DEF Top
  <1>8. QED
    BY <1>5, <1>7

\* Removing the outermost foreign directories and the foreign packages
\* removes exactly the files that some foreign directory or package holds.
LEMMA DoomedIsBelow ==
    ASSUME NEW p \in Path
    PROVE  p \in Doomed <=> p \in Below(Top \cup Pkgs)
  <1> USE BootWimAssumption
  <1>1. ASSUME NEW d \in Dir, p \in Inside[d], Foreign(d)
        PROVE  p \in Below(Top \cup Pkgs)
    <2>1. PICK e \in Top : d = e \/ d \in Inside[e]
      BY <1>1, TopCovers
    <2>2. e \in Dir /\ p \in Inside[e]
      BY <1>1, <2>1 DEF Top
    <2>3. QED
      BY <2>1, <2>2 DEF Below
  <1>2. ASSUME NEW d \in SxsDir, p \in Inside[d], name[d] = "_other_"
        PROVE  p \in Below(Top \cup Pkgs)
    BY <1>2 DEF Below, Pkgs
  <1>3. ASSUME NEW d \in Top \cup Pkgs, p \in Inside[d]
        PROVE  p \in Doomed
    BY <1>3 DEF Doomed, Top, Pkgs
  <1>4. QED
    BY <1>1, <1>2, <1>3 DEF Doomed, Below

-----------------------------------------------------------------------------
(* Steps that remove files from the tree. *)

\* Giving up the counts of the files of S, and removing them or failing to,
\* keeps the table sound (treeutil.go:84-97, 110-124).
LEMMA RemovalIsSound ==
    ASSUME TypeOK, Sound, NEW S \in SUBSET Path, S \cap stuck = {},
           bt' = DecrementBlobRefs(bt, tree, S),
           \/ tree' = [p \in Path |-> IF p \in S THEN Absent ELSE tree[p]] /\ stuck' = stuck
           \/ tree' = tree /\ stuck' = stuck \cup S,
           UNCHANGED <<newBlobs, initial>>
    PROVE  tree' \in Trees /\ bt' \in Tables /\ Sound'
  <1>1. tree \in Trees /\ bt \in Tables
    BY DEF TypeOK
  <1>2. tree' \in Trees /\ Needed(tree') \subseteq Needed(tree)
    BY <1>1, NeededAfterRemoval
  <1>3. Live \in Trees
    BY <1>1 DEF Live, Trees
  <1>4. Live' = [p \in Path |-> IF p \in S THEN Absent ELSE Live[p]]
    BY <1>1 DEF Live, Trees
  <1>5. Live' \in Trees
    BY <1>3, <1>4, NeededAfterRemoval
  <1>6. \A h \in Hash : S \cap RefsTo(Live, h) = S \cap RefsTo(tree, h)
    BY BlobAssumption DEF RefsTo, Live
  <1>7. bt' = DecrementBlobRefs(bt, Live, S)
    BY <1>6 DEF DecrementBlobRefs
  <1>8. /\ bt' \in Tables
        /\ bt'.listed = bt.listed
        /\ Exact(bt, Live) => Exact(bt', Live')
    <2> HIDE DEF Live
    <2>1. QED
      BY <1>1, <1>3, <1>4, <1>5, <1>7, DecrementFollowsRemoval
  <1>9. Readable' = Readable
    BY DEF Readable
  <1>10. QED
    BY <1>2, <1>8, <1>9 DEF Sound

\* Taking the files of H out of a tree without those of G.
LEMMA WithoutMore ==
    ASSUME NEW G, NEW H, Without(tree, G), initial' = initial,
           tree' = [p \in Path |-> IF p \in H THEN Absent ELSE tree[p]]
    PROVE  \A p \in Path \ HivePath :
             tree'[p] = IF p \in G \cup H THEN Absent ELSE initial'[p]
  BY DEF Without

\* Items of toRemove are still in the tree when their turn comes: those of the
\* walk do not lie in one another, and no package lies in a directory.
LEMMA NextItemIsThere ==
    ASSUME TypeOK, Trimming, pc = "remove",
           NEW d \in (IF walked # {} THEN walked ELSE packages)
    PROVE  d \in dirs
  <1> USE BootWimAssumption
  <1>1. CASE walked # {}
    <2>1. d \in Top /\ d \in walked /\ packages = Pkgs /\ Removed = Top \ walked
      BY <1>1 DEF Trimming, Removed
    <2>2. \A e \in Removed : d \notin Inside[e]
      BY <2>1 DEF Top
    <2>3. d \notin Removed /\ d \in Dir
      BY <2>1 DEF Top
    <2>4. QED
      BY <2>2, <2>3 DEF Trimming, Below
  <1>2. CASE walked = {}
    <2>1. d \in packages /\ d \in Pkgs /\ d \in SxsDir /\ d \in Dir
      BY <1>2 DEF Trimming, Pkgs
    <2>2. d \notin Top
      BY <2>1 DEF Pkgs, Top, Foreign
    <2>3. d \notin Removed
      BY <2>1, <2>2 DEF Removed
    <2>4. \A e \in Dir : d \notin Inside[e]
      BY <2>1
    <2>5. Removed \subseteq Dir
      BY DEF Removed, Top, Pkgs
    <2>6. QED
      BY <2>1, <2>3, <2>4, <2>5 DEF Trimming, Below
  <1>3. QED
    BY <1>1, <1>2

-----------------------------------------------------------------------------
\* The exported setup image satisfies the invariant.
LEMMA InitInv == Init => IInv
  <1> SUFFICES ASSUME Init PROVE IInv
    OBVIOUS
  <1>1. initial \in Trees /\ tree = initial /\ bt = Rebuilt(tree)
    BY DEF Init, Trees
  <1>2. bt \in Tables /\ Exact(bt, tree)
    BY <1>1, RebuiltExact
  <1>3. bt.listed = Needed(tree)
    BY <1>1 DEF Rebuilt
  <1>4. Live = tree
    BY <1>1 DEF Init, Live, Trees
  <1>5. Sound
    BY <1>1, <1>2, <1>3, <1>4 DEF Sound, Readable
  <1>6. TypeOK
    BY <1>1, <1>2 DEF Init, TypeOK
  <1>7. Whole /\ Trimming /\ After /\ EnginesGone /\ Warned /\ Output
    BY DEF Init, Whole, Trimming, After, EnginesGone, Warned, Output, Without
  <1>8. QED
    BY <1>1, <1>5, <1>6, <1>7 DEF Init, IInv

\* A saved hive: the table stays sound, and no other file changes.
LEMMA TweakInv ==
    ASSUME IInv, NEW p \in HivePath, NEW c \in Hash, Tweak(p, c)
    PROVE  IInv'
  <1>0. /\ TypeOK /\ Sound /\ Whole /\ initial \in [Path -> Hash] /\ initial \in Trees /\ Output
        /\ pc = "tweaks" /\ p \in Path /\ stuck = {} /\ stuck' = {}
    BY BootWimAssumption DEF IInv, Warned, Tweak
  <1> DEFINE add   == AddBlob(bt, tree[p], c)
             after == [tree EXCEPT ![p] = c]
  <1>1. tree \in Trees /\ bt \in Tables /\ Needed(tree) \subseteq bt.listed /\ Exact(bt, tree)
    <2>1. tree \in Trees => Live = tree
      BY <1>0 DEF Live, Trees
    <2>2. QED
      BY <1>0, <2>1 DEF TypeOK, Sound
  <1>2. /\ add \in Tables
        /\ add.listed = bt.listed \cup {c}
        /\ Exact(bt, tree) => Exact(add, after)
    BY <1>0, <1>1, AddBlobFollowsWrite
  <1>3. after \in Trees /\ Needed(after) \subseteq Needed(tree) \cup {c}
    BY <1>0, <1>1, NeededAfterWrite
  <1>4. tree' = after /\ bt' = add
    BY DEF Tweak
  <1> HIDE DEF add, after
  <1>5. newBlobs' = IF c \in bt.listed THEN newBlobs ELSE newBlobs \cup {c}
    BY DEF Tweak
  <1>6. Sound'
    <2>1. bt'.listed \subseteq Readable'
      BY <1>0, <1>2, <1>4, <1>5 DEF Sound, Readable, Tweak, const
    <2>2. Live' = tree'
      BY <1>0, <1>3, <1>4 DEF Live, Trees
    <2>3. QED
      BY <1>1, <1>2, <1>3, <1>4, <2>1, <2>2 DEF Sound
  <1>7. TypeOK'
    BY <1>0, <1>2, <1>3, <1>4, <1>5 DEF TypeOK, Tweak, const
  <1>8. Whole'
    <2>1. \A q \in Path \ HivePath : tree'[q] = tree[q]
      BY <1>0, <1>4 DEF after, TypeOK, Trees
    <2>2. QED
      BY <1>0, <2>1 DEF Whole, Without, Tweak, const
  <1>9. /\ initial' \in [Path -> Hash] /\ initial' \in Trees
        /\ Trimming' /\ After' /\ EnginesGone' /\ Warned' /\ Output'
    BY <1>0 DEF Trimming, After, EnginesGone, Warned, Output, Tweak, const
  <1>10. QED
    BY <1>6, <1>7, <1>8, <1>9 DEF IInv

\* The item whose turn it is goes, with what is below it.
LEMMA RemoveNextInv ==
    ASSUME IInv, RemoveNext
    PROVE  IInv'
  <1> USE BootWimAssumption
  <1>0. /\ TypeOK /\ Sound /\ Trimming /\ initial \in [Path -> Hash] /\ initial \in Trees
        /\ Output /\ pc = "remove" /\ stuck = {} /\ stuck' = {}
        /\ out' = out /\ unsaved' = unsaved /\ newBlobs' = newBlobs
        /\ flags' = flags /\ name' = name /\ initial' = initial
    BY DEF IInv, Warned, RemoveNext, const
  <1>1. PICK d \in (IF walked # {} THEN walked ELSE packages) :
          /\ IF d \in dirs THEN RemoveDirs({d}) /\ UNCHANGED pc
             ELSE pc' = "panic" /\ UNCHANGED <<bt, tree, dirs>>
          /\ walked' = walked \ {d}
          /\ packages' = IF walked = {} THEN packages \ {d} ELSE packages
    BY DEF RemoveNext
  <1>2. d \in dirs
    BY <1>0, <1>1, NextItemIsThere
  <1>3. RemoveDirs({d}) /\ pc' = "remove"
    BY <1>0, <1>1, <1>2
  <1>4. d \in Dir /\ UNION {Inside[x] : x \in {d}} = Inside[d]
    BY <1>0, <1>2 DEF TypeOK
  <1>5. /\ bt' = DecrementBlobRefs(bt, tree, Inside[d] \cap Path)
        /\ tree' = [p \in Path |-> IF p \in Inside[d] THEN Absent ELSE tree[p]]
        /\ dirs' = dirs \ (Inside[d] \cup {d})
    BY <1>3, <1>4 DEF RemoveDirs
  <1>6. tree' \in Trees /\ bt' \in Tables /\ Sound'
    <2> DEFINE S == Inside[d] \cap Path
    <2>1. S \in SUBSET Path /\ S \cap stuck = {}
      BY <1>0
    <2>2. /\ bt' = DecrementBlobRefs(bt, tree, S)
          /\ tree' = [p \in Path |-> IF p \in S THEN Absent ELSE tree[p]]
      BY <1>5
    <2> HIDE DEF S
    <2>3. QED
      BY <1>0, <2>1, <2>2, RemovalIsSound
  <1>7. TypeOK'
    BY <1>0, <1>1, <1>3, <1>5, <1>6 DEF TypeOK
  <1>8. Top' = Top /\ Pkgs' = Pkgs
    BY <1>0 DEF Top, Pkgs, Foreign
  <1>9. Removed' = Removed \cup {d}
    <2>1. CASE walked # {}
      BY <1>0, <1>1, <1>8, <2>1 DEF Removed, Trimming
    <2>2. CASE walked = {}
      BY <1>0, <1>1, <1>8, <2>2 DEF Removed, Trimming
    <2>3. QED
      BY <2>1, <2>2
  <1>10. Below(Removed)' = Below(Removed) \cup Inside[d]
    BY <1>9 DEF Below
  <1>11. Trimming'
    <2>1. Without(tree, Below(Removed))'
      <3>1. Without(tree, Below(Removed))
        BY <1>0 DEF Trimming
      <3>2. \A p \in Path \ HivePath :
              tree'[p] = IF p \in Below(Removed) \cup Inside[d] THEN Absent ELSE initial'[p]
        BY <1>0, <1>5, <3>1, WithoutMore
      <3>3. QED
        BY <1>10, <3>2 DEF Without
    <2>2. dirs' = Dir \ (Removed \cup Below(Removed))'
      BY <1>0, <1>5, <1>9, <1>10 DEF Trimming
    <2>3. walked' \subseteq Top' /\ packages' \subseteq Pkgs' /\ (walked' # {} => packages' = Pkgs')
      BY <1>0, <1>1, <1>8 DEF Trimming
    <2>4. QED
      BY <1>0, <1>3, <2>1, <2>2, <2>3 DEF Trimming
  <1>12. Whole' /\ After' /\ EnginesGone' /\ Warned' /\ Output'
    BY <1>0, <1>3 DEF Whole, After, EnginesGone, Warned, Output
  <1>13. QED
    BY <1>0, <1>6, <1>7, <1>11, <1>12 DEF IInv

\* What is swept lies in no directory, so neither the trim nor an engine has it.
LEMMA SweptIsApart ==
    /\ Matched \subseteq Path
    /\ \A d \in Dir : Matched \cap Inside[d] = {}
    /\ Matched \cap Doomed = {}
  BY BootWimAssumption DEF Matched, Doomed

\* One file of a sweep: whether it goes or stays with a warning, the files
\* bound for removal are still there or gone, and the others as they were.
LEMMA SweepInv ==
    ASSUME IInv, SweepNext
    PROVE  IInv'
  <1>0. /\ TypeOK /\ Sound /\ After /\ EnginesGone /\ Warned /\ Output
        /\ initial \in [Path -> Hash] /\ initial \in Trees
        /\ pc \in {"fonts", "drivers"} /\ pc' = pc /\ ~flags.skipFileCleanup
        /\ out' = out /\ unsaved' = unsaved /\ newBlobs' = newBlobs /\ dirs' = dirs
        /\ walked' = walked /\ packages' = packages
        /\ flags' = flags /\ name' = name /\ initial' = initial
    BY DEF IInv, SweepNext, const
  <1>1. PICK p \in Left :
          /\ bt' = DecrementBlobRefs(bt, tree, {p})
          /\ \/ tree' = [tree EXCEPT ![p] = Absent] /\ UNCHANGED stuck
             \/ stuck' = stuck \cup {p} /\ UNCHANGED tree
    BY DEF SweepNext
  <1>2. /\ p \in Path /\ p \in Matched /\ p \notin stuck /\ tree[p] # Absent
        /\ p \in Unwanted
    BY <1>1, BootWimAssumption DEF Left, Swept, Matched, Unwanted
  <1>3. \/ tree' = [q \in Path |-> IF q \in {p} THEN Absent ELSE tree[q]] /\ stuck' = stuck
        \/ tree' = tree /\ stuck' = stuck \cup {p}
    BY <1>0, <1>1, <1>2 DEF TypeOK, Trees
  <1>4. tree' \in Trees /\ bt' \in Tables /\ Sound'
    <2> DEFINE S == {p}
    <2>1. S \in SUBSET Path /\ S \cap stuck = {}
      BY <1>2
    <2>2. /\ bt' = DecrementBlobRefs(bt, tree, S)
          /\ \/ tree' = [q \in Path |-> IF q \in S THEN Absent ELSE tree[q]] /\ stuck' = stuck
             \/ tree' = tree /\ stuck' = stuck \cup S
      BY <1>1, <1>3
    <2> HIDE DEF S
    <2>3. QED
      BY <1>0, <2>1, <2>2, RemovalIsSound
  <1>5. TypeOK'
    BY <1>0, <1>2, <1>3, <1>4 DEF TypeOK
  <1>6. /\ Matched' = Matched /\ Cleaned' = Cleaned /\ Trimmed' = Trimmed
        /\ Cleaned = Trimmed \cup Unwanted /\ p \notin Trimmed
    <2>1. p \notin Doomed
      BY <1>2, SweptIsApart
    <2>2. QED
      BY <1>0, <2>1 DEF Matched, Cleaned, Trimmed, Doomed, Unwanted, Foreign
  <1>7. \A low : Between(tree, low, Goal) /\ p \notin low => Between(tree', low, Goal')
    BY <1>0, <1>2, <1>3, <1>6 DEF Between, Goal
  <1>8. After'
    <2>1. CASE pc = "fonts"
      BY <1>0, <1>6, <1>7, <2>1 DEF After, Between
    <2>2. CASE pc = "drivers"
      <3>1. p \notin Fonts /\ p \notin Below(Engines)
        <4>1. p \in Storage
          BY <1>1, <2>2 DEF Left, Swept
        <4>2. QED
          BY <1>2, <4>1, SweptIsApart, BootWimAssumption DEF Below
      <3>2. Fonts \ stuck' = Fonts \ stuck
        BY <1>3, <3>1
      <3>3. Between(tree', Trimmed \cup (Fonts \ stuck) \cup Below(Engines), Goal')
        BY <1>0, <1>6, <1>7, <2>2, <3>1 DEF After
      <3>4. QED
        BY <1>0, <1>6, <2>2, <3>2, <3>3 DEF After, Below, Between
    <2>3. QED
      BY <1>0, <2>1, <2>2
  <1>9. EnginesGone'
    BY <1>0, <1>2, <1>3 DEF EnginesGone
  <1>10. Warned' /\ Whole' /\ Trimming' /\ Output'
    BY <1>0, <1>2, <1>3, <1>6 DEF Warned, Whole, Trimming, Output
  <1>11. QED
    BY <1>0, <1>4, <1>5, <1>8, <1>9, <1>10 DEF IInv

\* An engine goes with what is left in it; failing to, the run is over.
LEMMA EngineInv ==
    ASSUME IInv, NEW d \in Engines, RemoveEngine(d)
    PROVE  IInv'
  <1> USE BootWimAssumption
  <1> DEFINE S == Inside[d] \cap Path
  <1>0. /\ TypeOK /\ Sound /\ After /\ EnginesGone /\ Warned /\ Output
        /\ initial \in [Path -> Hash] /\ initial \in Trees
        /\ pc = "engines" /\ d \in Dir /\ d \in dirs
        /\ out' = out /\ unsaved' = unsaved /\ newBlobs' = newBlobs
        /\ walked' = walked /\ packages' = packages
        /\ flags' = flags /\ name' = name /\ initial' = initial
    BY DEF IInv, RemoveEngine, const
  <1>1. stuck \subseteq Matched /\ S \in SUBSET Path /\ S \cap stuck = {} /\ S \subseteq Unwanted
    BY <1>0, SweptIsApart DEF Warned, Unwanted
  <1>2. /\ Matched' = Matched /\ Cleaned' = Cleaned /\ Trimmed' = Trimmed
        /\ Cleaned = Trimmed \cup Unwanted
    BY <1>0 DEF Matched, Cleaned, Trimmed, Doomed, Unwanted, Foreign, After
  <1>3. CASE RemoveDirs({d}) /\ UNCHANGED <<pc, stuck>>
    <2>1. UNION {Inside[x] : x \in {d}} = Inside[d]
      OBVIOUS
    <2>2. /\ bt' = DecrementBlobRefs(bt, tree, S)
          /\ tree' = [p \in Path |-> IF p \in S THEN Absent ELSE tree[p]]
          /\ dirs' = dirs \ (Inside[d] \cup {d})
          /\ pc' = pc /\ stuck' = stuck
      BY <1>3, <2>1 DEF RemoveDirs
    <2> HIDE DEF S
    <2>3. tree' \in Trees /\ bt' \in Tables /\ Sound'
      BY <1>0, <1>1, <2>2, RemovalIsSound
    <2>4. TypeOK'
      BY <1>0, <2>2, <2>3 DEF TypeOK
    <2>5. Goal' = Goal /\ S \ Goal = {}
      BY <1>1, <1>2, <2>2 DEF Goal
    <2>6. \A low : Between(tree, low, Goal) => Between(tree', low, Goal)
      BY <1>0, <2>2, <2>5 DEF Between
    <2>7. Between(tree', Trimmed \cup (Fonts \ stuck), Goal)
      BY <1>0, <2>6 DEF After
    <2>8. After'
      BY <1>0, <1>2, <2>2, <2>5, <2>7 DEF After, Between
    <2>9. EnginesGone'
      <3>1. ASSUME NEW e \in Engines \ dirs', NEW p \in Path \cap Inside[e]
            PROVE  tree'[p] = Absent
        <4>1. CASE e \notin dirs
          BY <1>0, <2>2, <3>1, <4>1 DEF EnginesGone
        <4>2. CASE e \in Inside[d] \cup {d}
          <5>1. p \in S
            BY <1>0, <3>1, <4>2 DEF S
          <5>2. QED
            BY <2>2, <5>1
        <4>3. QED
          BY <2>2, <3>1, <4>1, <4>2
      <3>2. QED
        BY <3>1 DEF EnginesGone
    <2>10. Warned' /\ Whole' /\ Trimming' /\ Output'
      BY <1>0, <1>2, <2>2 DEF Warned, Whole, Trimming, Output
    <2>11. QED
      BY <1>0, <2>3, <2>4, <2>8, <2>9, <2>10 DEF IInv
  <1>4. CASE /\ bt' = DecrementBlobRefs(bt, tree, S)
             /\ stuck' = stuck \cup S
             /\ pc' = "error"
             /\ UNCHANGED <<tree, dirs>>
    <2> HIDE DEF S
    <2>1. tree' \in Trees /\ bt' \in Tables /\ Sound'
      BY <1>0, <1>1, <1>4, RemovalIsSound
    <2>2. TypeOK'
      BY <1>0, <1>1, <1>4, <2>1 DEF TypeOK
    <2>3. Whole' /\ Trimming' /\ After' /\ EnginesGone' /\ Warned' /\ Output'
      BY <1>0, <1>4 DEF Whole, Trimming, After, EnginesGone, Warned, Output
    <2>4. QED
      BY <1>0, <2>1, <2>2, <2>3 DEF IInv
  <1>5. QED
    BY <1>3, <1>4 DEF RemoveEngine

\* Every step preserves the invariant.
LEMMA NextInv == IInv /\ [Next]_vars => IInv'
  <1> SUFFICES ASSUME IInv, [Next]_vars PROVE IInv'
    OBVIOUS
  <1>0. /\ TypeOK /\ initial \in [Path -> Hash] /\ initial \in Trees
        /\ Sound /\ Whole /\ Trimming /\ After /\ EnginesGone /\ Warned /\ Output
    BY DEF IInv
  <1>1. ASSUME UNCHANGED image, UNCHANGED const
        PROVE  /\ initial' \in [Path -> Hash] /\ initial' \in Trees /\ Sound'
               /\ tree' = tree /\ bt' = bt /\ newBlobs' = newBlobs /\ unsaved' = unsaved
               /\ dirs' = dirs /\ flags' = flags /\ initial' = initial /\ stuck' = stuck
               /\ Trimmed' = Trimmed /\ Goal' = Goal /\ Matched' = Matched
               /\ Top' = Top /\ Pkgs' = Pkgs
    <2>1. /\ tree' = tree /\ stuck' = stuck /\ bt' = bt /\ newBlobs' = newBlobs /\ unsaved' = unsaved
          /\ dirs' = dirs /\ flags' = flags /\ name' = name /\ initial' = initial
      BY <1>1 DEF image, const
    <2>2. Sound'
      BY <1>0, <2>1 DEF Sound, Readable, Exact, Live
    <2>3. /\ Trimmed' = Trimmed /\ Goal' = Goal /\ Matched' = Matched
          /\ Top' = Top /\ Pkgs' = Pkgs
      BY <2>1 DEF Trimmed, Goal, Cleaned, Doomed, Unwanted, Matched, Foreign, Top, Pkgs
    <2>4. QED
      BY <1>0, <2>1, <2>2, <2>3
  <1>2. CASE Skip(flags.skipRegTweaks, "tweaks", "walk")
    <2>1. TypeOK' /\ Output'
      BY <1>0, <1>1, <1>2 DEF Skip, TypeOK, Output
    <2>2. Whole' /\ Trimming' /\ After' /\ EnginesGone' /\ Warned'
      BY <1>0, <1>1, <1>2 DEF Skip, Whole, Trimming, After, EnginesGone, Warned, Without, Between
    <2>3. QED
      BY <1>1, <1>2, <2>1, <2>2 DEF Skip, IInv
  <1>3. ASSUME NEW p \in HivePath, NEW c \in Hash, Tweak(p, c) PROVE IInv'
    BY <1>3, TweakInv
  <1>4. CASE Skip(flags.skipLocaleTrim, "walk", "fonts")
    <2>1. TypeOK' /\ Output'
      BY <1>0, <1>1, <1>4 DEF Skip, TypeOK, Output
    <2>2. Trimmed = {} /\ Without(tree, {}) /\ dirs = Dir
      BY <1>0, <1>4 DEF Skip, Trimmed, Whole
    <2>3. Between(tree, Trimmed, Goal)
      BY <1>0, <2>2, BootWimAssumption DEF Without, Between
    <2>4. Engines \ dirs = {}
      BY <2>2, BootWimAssumption
    <2>5. After' /\ EnginesGone'
      BY <1>1, <1>4, <2>3, <2>4 DEF Skip, After, EnginesGone, Between
    <2>6. Whole' /\ Trimming' /\ Warned'
      BY <1>0, <1>1, <1>4 DEF Skip, Whole, Trimming, Warned
    <2>7. QED
      BY <1>1, <1>4, <2>1, <2>5, <2>6 DEF Skip, IInv
  <1>5. CASE CollectWalk
    <2>1. dirs = Dir /\ Walk = Top
      BY <1>0, <1>5 DEF CollectWalk, Whole, Walk, Top
    <2>2. TypeOK' /\ Output'
      BY <1>0, <1>1, <1>5, <2>1 DEF CollectWalk, TypeOK, Output, Top
    <2>3. Whole' /\ Trimming' /\ After' /\ EnginesGone' /\ Warned'
      BY <1>0, <1>1, <1>5, <2>1 DEF CollectWalk, Whole, Trimming, After, EnginesGone, Warned, Without, Between
    <2>4. QED
      BY <1>1, <1>5, <2>2, <2>3 DEF CollectWalk, IInv
  <1>6. CASE CollectPackages
    <2>1. dirs = Dir /\ packages' = Pkgs /\ walked = Top /\ walked' = walked
      BY <1>0, <1>6, BootWimAssumption DEF CollectPackages, Whole, Trimming, Pkgs
    <2>2. TypeOK' /\ Output'
      BY <1>0, <1>1, <1>6, <2>1 DEF CollectPackages, TypeOK, Output, Pkgs
    <2>3. Removed' = {} /\ Below(Removed)' = {}
      <3>1. Removed' = {}
        BY <1>1, <1>6, <2>1 DEF CollectPackages, Removed
      <3>2. QED
        BY <3>1 DEF Below
    <2>4. Whole' /\ Trimming' /\ After' /\ EnginesGone' /\ Warned'
      BY <1>0, <1>1, <1>6, <2>1, <2>3 DEF CollectPackages, Whole, Trimming, After, EnginesGone, Warned, Without, Between
    <2>5. QED
      BY <1>1, <1>6, <2>2, <2>4 DEF CollectPackages, IInv
  <1>7. CASE RemoveNext
    BY <1>7, RemoveNextInv
  <1>8. CASE TrimDone
    <2>1. Removed = Top \cup Pkgs /\ Trimmed = Doomed
      BY <1>0, <1>8 DEF TrimDone, Removed, Trimming, Trimmed
    <2>2. Without(tree, Trimmed)
      BY <1>0, <1>8, <2>1, DoomedIsBelow DEF TrimDone, Trimming, Without
    <2>3. Between(tree, Trimmed, Goal)
      <3>1. stuck = {} /\ Trimmed \subseteq Goal
        BY <1>0, <1>8 DEF TrimDone, Warned, Goal, Cleaned
      <3>2. QED
        BY <1>0, <2>2, <3>1, BootWimAssumption DEF Without, Between
    <2>4. \A d \in Engines \ dirs : \A p \in Path \cap Inside[d] : tree[p] = Absent
      <3>1. SUFFICES ASSUME NEW d \in Engines \ dirs, NEW p \in Path \cap Inside[d]
                     PROVE  tree[p] = Absent
        OBVIOUS
      <3>2. d \in Dir /\ (d \in Removed \/ d \in Below(Removed)) /\ Removed \subseteq Dir
        BY <1>0, <1>8, <2>1, <3>1, BootWimAssumption DEF TrimDone, Trimming, Top, Pkgs
      <3>3. p \in Below(Removed)
        BY <3>1, <3>2, BootWimAssumption DEF Below
      <3>4. p \notin HivePath
        BY <3>1, <3>2, BootWimAssumption
      <3>5. QED
        BY <1>0, <1>8, <3>1, <3>3, <3>4 DEF TrimDone, Trimming, Without
    <2>5. After' /\ EnginesGone'
      BY <1>1, <1>8, <2>3, <2>4 DEF TrimDone, After, EnginesGone, Between
    <2>6. TypeOK' /\ Output'
      BY <1>0, <1>1, <1>8 DEF TrimDone, TypeOK, Output
    <2>7. Whole' /\ Trimming' /\ Warned'
      BY <1>0, <1>1, <1>8 DEF TrimDone, Whole, Trimming, Warned
    <2>8. QED
      BY <1>1, <1>8, <2>5, <2>6, <2>7 DEF TrimDone, IInv
  <1>9. CASE Skip(flags.skipFileCleanup, "fonts", "write")
    <2>1. TypeOK' /\ Output'
      BY <1>0, <1>1, <1>9 DEF Skip, TypeOK, Output
    <2>2. Goal \subseteq Trimmed
      BY <1>9 DEF Skip, Cleaned, Goal
    <2>3. Between(tree, Goal, Goal)
      BY <1>0, <1>9, <2>2 DEF Skip, After, Between
    <2>4. Whole' /\ Trimming' /\ After' /\ EnginesGone' /\ Warned'
      BY <1>0, <1>1, <1>9, <2>3 DEF Skip, Whole, Trimming, After, EnginesGone, Warned, Between
    <2>5. QED
      BY <1>1, <1>9, <2>1, <2>4 DEF Skip, IInv
  <1>10. CASE SweepNext
    BY <1>10, SweepInv
  <1>11. CASE SweepDone
    <2>1. ~flags.skipFileCleanup /\ Cleaned = Trimmed \cup Unwanted
      BY <1>11 DEF SweepDone, Cleaned
    <2>2. ASSUME pc = "fonts" PROVE Between(tree, Trimmed \cup (Fonts \ stuck), Goal)
      BY <1>0, <1>11, <2>2 DEF SweepDone, Left, Swept, After, Between
    <2>3. ASSUME pc = "drivers" PROVE Between(tree, Goal, Goal)
      <3>1. Goal \subseteq Trimmed \cup (Fonts \ stuck) \cup Below(Engines) \cup (Swept \ stuck)
        BY <2>1, <2>3 DEF Goal, Unwanted, Matched, Swept, Below
      <3>2. QED
        BY <1>0, <1>11, <2>3, <3>1 DEF SweepDone, Left, After, Between
    <2>4. TypeOK' /\ Output'
      BY <1>0, <1>1, <1>11 DEF SweepDone, TypeOK, Output
    <2>5. After'
      BY <1>1, <1>11, <2>1, <2>2, <2>3 DEF SweepDone, After, Between
    <2>6. Whole' /\ Trimming' /\ EnginesGone' /\ Warned'
      BY <1>0, <1>1, <1>11 DEF SweepDone, Whole, Trimming, EnginesGone, Warned
    <2>7. QED
      BY <1>1, <1>11, <2>4, <2>5, <2>6 DEF SweepDone, IInv
  <1>12. ASSUME NEW d \in Engines, RemoveEngine(d) PROVE IInv'
    BY <1>12, EngineInv
  <1>13. CASE EnginesDone
    <2>1. Below(Engines)' = Below(Engines)
      BY DEF Below
    <2>2. \A p \in Path \cap Below(Engines) : tree[p] = Absent
      BY <1>0, <1>13 DEF EnginesDone, EnginesGone, Below
    <2>3. Between(tree, Trimmed \cup (Fonts \ stuck) \cup Below(Engines), Goal)
      BY <1>0, <1>13, <2>2 DEF EnginesDone, After, Between
    <2>4. TypeOK' /\ Output'
      BY <1>0, <1>1, <1>13 DEF EnginesDone, TypeOK, Output
    <2>5. After'
      BY <1>0, <1>1, <1>13, <2>1, <2>3 DEF EnginesDone, After, Between
    <2>6. Whole' /\ Trimming' /\ EnginesGone' /\ Warned'
      BY <1>0, <1>1, <1>13 DEF EnginesDone, Whole, Trimming, EnginesGone, Warned
    <2>7. QED
      BY <1>1, <1>13, <2>4, <2>5, <2>6 DEF EnginesDone, IInv
  <1>14. CASE Create
    <2>1. out' = Damaged /\ pc' = "writing" /\ pc = "write"
      BY <1>0, <1>14 DEF Create, Sound
    <2>2. TypeOK' /\ Output'
      BY <1>0, <1>1, <1>14, <2>1 DEF Create, TypeOK, Output
    <2>3. Whole' /\ Trimming' /\ After' /\ EnginesGone' /\ Warned'
      BY <1>0, <1>1, <1>14, <2>1 DEF Create, Whole, Trimming, After, EnginesGone, Warned, Without, Between
    <2>4. QED
      BY <1>1, <1>14, <2>2, <2>3 DEF Create, IInv
  <1>15. CASE WriteOut
    <2>1. /\ out' = [tree |-> tree, table |-> Rebuilt(tree)]
          /\ pc' = "done" /\ pc = "writing"
      BY <1>0, <1>15 DEF WriteOut, Sound
    <2>2. TypeOK' /\ Output'
      BY <1>0, <1>1, <1>15, <2>1 DEF WriteOut, TypeOK, Output
    <2>3. Whole' /\ Trimming' /\ After' /\ EnginesGone' /\ Warned'
      BY <1>0, <1>1, <1>15, <2>1 DEF WriteOut, Whole, Trimming, After, EnginesGone, Warned, Without, Between
    <2>4. QED
      BY <1>1, <1>15, <2>2, <2>3 DEF WriteOut, IInv
  <1>16. CASE Abort
    <2>1. TypeOK' /\ Output'
      BY <1>0, <1>1, <1>16 DEF Abort, TypeOK, Output
    <2>2. Whole' /\ Trimming' /\ After' /\ EnginesGone' /\ Warned'
      BY <1>0, <1>1, <1>16 DEF Abort, Whole, Trimming, After, EnginesGone, Warned, Without, Between
    <2>3. QED
      BY <1>1, <1>16, <2>1, <2>2 DEF Abort, IInv
  <1>17. CASE UNCHANGED vars
    <2>1. UNCHANGED image /\ UNCHANGED const /\ UNCHANGED <<pc, walked, packages, out>>
      BY <1>17 DEF vars, image, const
    <2>2. TypeOK' /\ Output'
      BY <1>0, <1>1, <2>1 DEF TypeOK, Output
    <2>3. Removed' = Removed /\ Below(Removed)' = Below(Removed)
      BY <1>1, <2>1 DEF Removed, Below
    <2>4. Whole' /\ Trimming' /\ After' /\ EnginesGone' /\ Warned'
      BY <1>0, <1>1, <2>1, <2>3 DEF Whole, Trimming, After, EnginesGone, Warned, Without, Between
    <2>5. QED
      BY <1>1, <2>1, <2>2, <2>4 DEF IInv
  <1>18. QED
    BY <1>2, <1>3, <1>4, <1>5, <1>6, <1>7, <1>8, <1>9, <1>10, <1>11, <1>12, <1>13, <1>14, <1>15, <1>16, <1>17 DEF Next

\* The invariant holds from the export to the output.
THEOREM Invariance == Spec => []IInv
  BY InitInv, NextInv, PTL DEF Spec

-----------------------------------------------------------------------------
\* Every variable keeps its type; no count underflows.
THEOREM TypeCorrect == Spec => []TypeOK
  <1>1. IInv => TypeOK
    BY DEF IInv
  <1>2. QED
    BY <1>1, Invariance, PTL

\* No item of toRemove is gone when its turn comes, and neither the table nor
\* the blobs fail once the trim is done (bootwim.go:262-269).
THEOREM PanicUnreachable == Spec => []NeverPanics
  <1>1. IInv => NeverPanics
    BY DEF IInv, Output, NeverPanics
  <1>2. QED
    BY <1>1, Invariance, PTL

\* The counts equal a recount of the tree through every nested removal, but
\* for the files a sweep or an engine's removal gave up and failed to remove.
THEOREM CountsExact == Spec => []RefsExact
  <1>1. IInv => RefsExact
    <2> SUFFICES ASSUME IInv, NEW h \in Hash
                 PROVE  bt.refs[h] = Cardinality(RefsTo(tree, h) \ stuck)
      BY DEF RefsExact
    <2>1. RefsTo(Live, h) = RefsTo(tree, h) \ stuck
      BY BlobAssumption DEF RefsTo, Live
    <2>2. QED
      BY <2>1 DEF IInv, Sound, Exact
  <1>2. QED
    BY <1>1, Invariance, PTL

\* The output has every file the trim and the cleanup are not about, as it
\* was, and none of the others but the files a sweep warned of.
THEOREM OutputExactlyTrimmed == Spec => []OutputIsTrimmed
  <1>1. IInv => OutputIsTrimmed
    <2>1. SUFFICES ASSUME IInv, pc = "done" PROVE OutputIsTrimmed
      BY DEF OutputIsTrimmed
    <2>2. /\ out.tree = tree /\ Between(tree, Goal, Goal)
          /\ stuck \subseteq Matched /\ stuck \cap Doomed = {}
      BY <2>1, SweptIsApart DEF IInv, Output, After, Warned
    <2>3. \A p \in Path \ HivePath :
            out.tree[p] = IF \/ ~flags.skipLocaleTrim /\ p \in Doomed
                             \/ ~flags.skipFileCleanup /\ p \in Unwanted \ stuck
                          THEN Absent ELSE initial[p]
      BY <2>2 DEF Between, Goal, Cleaned, Trimmed
    <2>4. QED
      BY <2>2, <2>3 DEF OutputIsTrimmed
  <1>2. QED
    BY <1>1, Invariance, PTL

\* Content that only foreign directories and packages held is not in the
\* output: of two hard links in a directory and in a package both are gone.
THEOREM ForeignContentDropped == Spec => []ForeignPayloadDropped
  <1>1. IInv => ForeignPayloadDropped
    <2> SUFFICES ASSUME IInv, pc = "done", ~flags.skipLocaleTrim,
                        NEW h \in Hash, h \in out.table.listed
                 PROVE  \E p \in Path : \/ (initial[p] = h /\ p \notin Doomed)
                                       \/ (p \in HivePath /\ out.tree[p] = h)
      BY DEF ForeignPayloadDropped
    <2>1. /\ out.tree = tree /\ out.table = Rebuilt(tree) /\ Between(tree, Goal, Goal)
          /\ stuck \cap Doomed = {}
      BY SweptIsApart DEF IInv, Output, After, Warned
    <2>2. PICK p \in Path : tree[p] = h
      BY <2>1 DEF Rebuilt, Needed, RefsTo
    <2>3. p \notin HivePath => initial[p] = h /\ p \notin Doomed
      BY <2>1, <2>2, BlobAssumption DEF Between, Goal, Cleaned, Trimmed
    <2>4. QED
      BY <2>1, <2>2, <2>3
  <1>2. QED
    BY <1>1, Invariance, PTL

-----------------------------------------------------------------------------
(* The refinement of FileStore. *)

\* The mapped store of files and output, for short.
MappedFiles == [p \in Path |-> Reads(p, bt.listed \cap Readable)]
MappedOut == IF out \in {Untouched, Damaged} THEN out ELSE [p \in Path |-> ReadBack(p)]

\* Every file reads as the tree says.
LEMMA FilesAreTree ==
    Sound => MappedFiles = [p \in Path |-> tree[p]]
  <1> SUFFICES ASSUME Sound, NEW p \in Path PROVE Reads(p, bt.listed \cap Readable) = tree[p]
    BY DEF MappedFiles
  <1>1. tree[p] \in Hash => tree[p] \in Needed(tree)
    BY DEF Needed, RefsTo
  <1>2. QED
    BY <1>1 DEF Sound, Reads

\* Every step of the shrinking is a step of the store, or leaves it as it is.
LEMMA StepRefines ==
    IInv /\ IInv' /\ [Next]_vars => [Store!FSNext]_(Store!fsVars)
  <1> SUFFICES ASSUME IInv, IInv', [Next]_vars PROVE [Store!FSNext]_(Store!fsVars)
    OBVIOUS
  <1>0. TypeOK /\ TypeOK' /\ Sound /\ Sound' /\ Output /\ Output'
    BY DEF IInv
  <1>1. MappedFiles = [p \in Path |-> tree[p]] /\ MappedFiles' = [p \in Path |-> tree'[p]]
    <2>1. (Sound => MappedFiles = [p \in Path |-> tree[p]])'
      BY FilesAreTree, PTL
    <2>2. QED
      BY <1>0, <2>1, FilesAreTree
  <1>2. ASSUME pc \notin {"write", "writing"}, out' = out, out = Untouched PROVE Store!FSNext
    <2>1. MappedFiles' \in [Path -> Hash \cup {Zero, Absent}]
      BY <1>0, <1>1 DEF TypeOK, Trees
    <2>2. MappedOut = Untouched /\ MappedOut' = MappedOut
      BY <1>2 DEF MappedOut
    <2>3. QED
      BY <2>1, <2>2 DEF Store!FSNext, Store!Edit, MappedFiles, MappedOut
  <1>3. ASSUME UNCHANGED <<tree, out>> PROVE UNCHANGED Store!fsVars
    <2>1. MappedFiles' = MappedFiles
      BY <1>1, <1>3
    <2>2. MappedOut' = MappedOut
      BY <1>3 DEF MappedOut, ReadBack
    <2>3. QED
      BY <2>1, <2>2 DEF Store!fsVars, MappedFiles, MappedOut
  <1>4. CASE Create
    <2>1. out = Untouched /\ out' = Damaged /\ tree' = tree
      BY <1>0, <1>4 DEF Create, Output, Sound, image
    <2>2. MappedFiles' = MappedFiles /\ MappedOut = Untouched /\ MappedOut' = Damaged
      BY <1>1, <2>1 DEF MappedOut
    <2>3. QED
      BY <2>2 DEF Store!FSNext, Store!Truncate, MappedFiles, MappedOut
  <1>5. CASE WriteOut
    <2>1. /\ out = Damaged /\ tree' = tree
          /\ out' = [tree |-> tree, table |-> Rebuilt(tree)]
      BY <1>0, <1>5 DEF WriteOut, Output, Sound, image
    <2>2. [tree |-> tree, table |-> Rebuilt(tree)] \in [tree : Trees, table : Tables]
      BY <1>0, RebuiltExact DEF TypeOK
    <2>3. out' \notin {Untouched, Damaged}
      BY <2>1, <2>2, BootWimAssumption
    <2>4. ASSUME NEW p \in Path PROVE ReadBack(p)' = tree[p]
      <3>1. tree[p] \in Hash => tree[p] \in Rebuilt(tree).listed
        BY DEF Rebuilt, Needed, RefsTo
      <3>2. QED
        BY <2>1, <3>1 DEF ReadBack
    <2>5. MappedOut' = [p \in Path |-> tree[p]]
      BY <2>3, <2>4 DEF MappedOut
    <2>6. MappedFiles' = MappedFiles /\ MappedOut = Damaged
      BY <1>1, <2>1 DEF MappedOut
    <2>7. QED
      BY <1>1, <2>5, <2>6 DEF Store!FSNext, Store!Publish, MappedFiles, MappedOut
  <1>6. CASE Abort \/ UNCHANGED vars
    BY <1>3, <1>6 DEF Abort, vars, image
  <1>7. ASSUME Next, ~Create, ~WriteOut, ~Abort
        PROVE  pc \notin {"write", "writing"} /\ out' = out /\ out = Untouched
    <2>1. pc \in {"tweaks", "walk", "sxs", "remove", "fonts", "engines", "drivers"} /\ out' = out
      BY <1>7 DEF Next, Skip, Tweak, CollectWalk, CollectPackages, RemoveNext, TrimDone,
                  SweepNext, SweepDone, RemoveEngine, EnginesDone
    <2>2. QED
      BY <1>0, <2>1 DEF Output
  <1>8. QED
    BY <1>2, <1>4, <1>5, <1>6, <1>7

\* Shrinking boot.wim implements editing a plain store of files and publishing
\* it as it stands.
THEOREM Refinement == Spec => ImplementsFileStore
  <1>1. Init => Store!FSInit
    <2> SUFFICES ASSUME Init PROVE Store!FSInit
      OBVIOUS
    <2>1. MappedFiles \in [Path -> Hash \cup {Zero, Absent}]
      BY InitInv, FilesAreTree DEF IInv, TypeOK, Trees
    <2>2. MappedOut = Untouched
      BY DEF Init, MappedOut
    <2>3. QED
      BY <2>1, <2>2 DEF Store!FSInit, MappedFiles, MappedOut
  <1>2. QED
    BY <1>1, StepRefines, Invariance, PTL DEF Spec, ImplementsFileStore, Store!FSSpec

=============================================================================
