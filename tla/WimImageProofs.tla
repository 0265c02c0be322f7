--------------------------- MODULE WimImageProofs ---------------------------
(***************************************************************************)
(* The blob table of an edited image is sound for every set of paths,      *)
(* hashes, hives and removable subtrees, and editing an image implements   *)
(* editing a plain store of files.                                         *)
(***************************************************************************)
EXTENDS WimImage, BlobTableProofs

\* Whatever the table lists can be read: it has a resource in the export or
\* its content was written by this run.  TreeReadable alone is not inductive,
\* because Save and addBlob find content that only the table still lists.
Sound ==
    /\ TypeOK
    /\ bt.listed \subseteq Readable
    /\ Needed(tree) \subseteq bt.listed

Counted ==
    /\ Bounded(bt, tree)
    /\ ~drift => Exact(bt, tree)

\* Where the run may be with hives unsaved, a sweep under way or an output.
Staged ==
    /\ sweep # {} => pc \in {"sweep", "failed"}
    /\ pc \in {"rebuild", "create", "write", "done"} => unsaved = {}
    /\ pc \in {"edit", "sweep"} => unsaved = HivePath
    /\ pc = "write" => out = Damaged
    /\ pc \notin {"write", "done", "failed"} => out = Untouched

IInv == Sound /\ Counted /\ Staged

-----------------------------------------------------------------------------
\* What removing entry e does, in a sweep or by name (treeutil.go:84-97).
LEMMA RemovalKeepsInv ==
    ASSUME IInv, NEW e \in Entry, RemoveEntry(e),
           UNCHANGED <<source, newBlobs, hive, unsaved, pc, drift, out>>
    PROVE  /\ tree' \in Trees /\ bt' \in Tables
           /\ bt'.listed = bt.listed
           /\ Needed(tree') \subseteq bt'.listed
           /\ Counted'
  <1> USE DEF IInv, Sound, Counted
  <1>1. Subtree[e] \in SUBSET Path
    BY WimAssumption
  <1>2. tree' = [p \in Path |-> IF p \in Subtree[e] THEN Absent ELSE tree[p]]
    BY DEF RemoveEntry, Without
  <1>3. tree \in Trees /\ bt \in Tables
    BY DEF TypeOK
  <1>4. tree' \in Trees /\ Needed(tree') \subseteq Needed(tree)
    BY <1>2, <1>3, NeededAfterRemoval
  <1>5. /\ bt' \in Tables
        /\ bt'.listed = bt.listed
        /\ Bounded(bt, tree) => Bounded(bt', tree')
        /\ Exact(bt, tree) => Exact(bt', tree')
    BY <1>1, <1>2, <1>3, <1>4, DecrementFollowsRemoval DEF RemoveEntry
  <1>6. QED
    BY <1>4, <1>5

\* What giving path p the content c does (treeutil.go:35-54).
LEMMA WriteKeepsInv ==
    ASSUME IInv, NEW p \in Path, NEW c \in Hash,
           tree' = [tree EXCEPT ![p] = c], bt' = AddBlob(bt, tree[p], c),
           drift' = drift
    PROVE  /\ tree' \in Trees /\ bt' \in Tables
           /\ bt'.listed = bt.listed \cup {c}
           /\ Needed(tree') \subseteq bt'.listed
           /\ Counted'
  <1> DEFINE add   == AddBlob(bt, tree[p], c)
             after == [tree EXCEPT ![p] = c]
  <1>1. tree \in Trees /\ bt \in Tables /\ Needed(tree) \subseteq bt.listed
    BY DEF IInv, Sound, TypeOK
  <1>0. /\ add \in Tables
        /\ add.listed = bt.listed \cup {c}
        /\ Bounded(bt, tree) => Bounded(add, after)
        /\ Exact(bt, tree) => Exact(add, after)
    BY <1>1, AddBlobFollowsWrite
  <1> HIDE DEF add, after
  <1>2. /\ bt' \in Tables
        /\ bt'.listed = bt.listed \cup {c}
        /\ Bounded(bt, tree) => Bounded(bt', tree')
        /\ Exact(bt, tree) => Exact(bt', tree')
    <2>1. tree' = after /\ bt' = add
      BY DEF add, after
    <2>2. QED
      BY <1>0, <2>1
  <1>3. tree' \in Trees /\ Needed(tree') \subseteq Needed(tree) \cup {c}
    BY <1>1, NeededAfterWrite
  <1>4. QED
    BY <1>1, <1>2, <1>3 DEF IInv, Counted

-----------------------------------------------------------------------------
\* The state run() starts its stages in satisfies the invariant.
LEMMA InitInv == Init => IInv
  <1> SUFFICES ASSUME Init PROVE IInv
    OBVIOUS
  <1>1. tree \in Trees /\ bt = Rebuilt(tree)
    BY DEF Init
  <1>2. bt \in Tables /\ Exact(bt, tree)
    BY <1>1, RebuiltExact
  <1>3. Bounded(bt, tree)
    BY <1>2, RefsFinite DEF Exact, Bounded
  <1>4. bt.listed = Needed(tree) /\ Needed(tree) \subseteq Hash
    BY <1>1 DEF Rebuilt, Needed
  <1>5. TypeOK
    BY <1>1, <1>2, <1>4, WimAssumption DEF Init, TypeOK, Phases
  <1>6. Sound
    BY <1>4, <1>5 DEF Init, Sound, Readable
  <1>7. Staged
    BY DEF Init, Staged
  <1>8. QED
    BY <1>2, <1>3, <1>6, <1>7 DEF IInv, Counted

\* Every step preserves the invariant.
LEMMA NextInv == IInv /\ [Next]_vars => IInv'
  <1> SUFFICES ASSUME IInv, [Next]_vars PROVE IInv'
    OBVIOUS
  <1>0. TypeOK /\ Counted /\ Staged /\ bt.listed \subseteq Readable /\ Needed(tree) \subseteq bt.listed
    BY DEF IInv, Sound
  <1>1. ASSUME NEW p \in Path \ HivePath, NEW c \in Hash, WriteFile(p, c) PROVE IInv'
    <2>1. /\ tree' \in Trees /\ bt' \in Tables
          /\ bt'.listed = bt.listed \cup {c} /\ Needed(tree') \subseteq bt'.listed /\ Counted'
      BY <1>1, WriteKeepsInv DEF WriteFile
    <2>2. TypeOK' /\ Staged'
      BY <1>0, <1>1, <2>1 DEF WriteFile, TypeOK, Staged
    <2>3. bt'.listed \subseteq Readable'
      BY <1>0, <1>1, <2>1 DEF WriteFile, Readable
    <2>4. QED
      BY <2>1, <2>2, <2>3 DEF IInv, Sound
  <1>2. ASSUME NEW e \in Entry, RemoveIfExists(e) PROVE IInv'
    <2>1. /\ tree' \in Trees /\ bt' \in Tables
          /\ bt'.listed = bt.listed /\ Needed(tree') \subseteq bt'.listed /\ Counted'
      BY <1>2, RemovalKeepsInv DEF RemoveIfExists
    <2>2. TypeOK' /\ Staged'
      BY <1>0, <1>2, <2>1 DEF RemoveIfExists, TypeOK, Staged
    <2>3. bt'.listed \subseteq Readable'
      BY <1>0, <1>2, <2>1 DEF RemoveIfExists, Readable
    <2>4. QED
      BY <2>1, <2>2, <2>3 DEF IInv, Sound
  <1>3. ASSUME NEW S \in SUBSET Entry, BeginSweep(S) PROVE IInv'
    BY <1>0, <1>3 DEF BeginSweep, IInv, Sound, Counted, TypeOK, Staged, Phases, Readable
  <1>4. ASSUME NEW e \in Entry, SweepRemoves(e) PROVE IInv'
    <2>1. /\ tree' \in Trees /\ bt' \in Tables
          /\ bt'.listed = bt.listed /\ Needed(tree') \subseteq bt'.listed /\ Counted'
      BY <1>4, RemovalKeepsInv DEF SweepRemoves
    <2>2. TypeOK' /\ Staged'
      BY <1>0, <1>4, <2>1 DEF SweepRemoves, TypeOK, Staged
    <2>3. bt'.listed \subseteq Readable'
      BY <1>0, <1>4, <2>1 DEF SweepRemoves, Readable
    <2>4. QED
      BY <2>1, <2>2, <2>3 DEF IInv, Sound
  <1>5. ASSUME NEW e \in Entry, SweepWarns(e) PROVE IInv'
    <2>1. Subtree[e] \in SUBSET Path /\ tree \in Trees /\ bt \in Tables /\ Without(e) \in Trees
      BY <1>0, WimAssumption, NeededAfterRemoval DEF TypeOK, Without
    <2>2. bt' \in Tables /\ bt'.listed = bt.listed /\ Bounded(bt', tree)
      BY <1>0, <1>5, <2>1, DecrementFollowsRemoval DEF SweepWarns, Without, Counted
    <2>3. TypeOK' /\ Staged'
      BY <1>0, <1>5, <2>2 DEF SweepWarns, TypeOK, Staged
    <2>4. QED
      BY <1>0, <1>5, <2>2, <2>3 DEF SweepWarns, IInv, Sound, Counted, Readable
  <1>6. ASSUME EndSweep PROVE IInv'
    BY <1>0, <1>6 DEF EndSweep, IInv, Sound, Counted, TypeOK, Staged, Phases, Readable
  <1>7. ASSUME NEW p \in HivePath, NEW c \in Hash, TweakHive(p, c) PROVE IInv'
    BY <1>0, <1>7 DEF TweakHive, IInv, Sound, Counted, TypeOK, Staged, Readable
  <1>8. ASSUME BeginSave PROVE IInv'
    BY <1>0, <1>8 DEF BeginSave, IInv, Sound, Counted, TypeOK, Staged, Phases, Readable
  <1>9. ASSUME NEW p \in HivePath, SaveHive(p) PROVE IInv'
    <2>1. p \in Path /\ hive[p] \in Hash
      BY <1>0, <1>9, WimAssumption DEF TypeOK
    <2>2. /\ tree' \in Trees /\ bt' \in Tables
          /\ bt'.listed = bt.listed \cup {hive[p]} /\ Needed(tree') \subseteq bt'.listed /\ Counted'
      BY <1>9, <2>1, WriteKeepsInv DEF SaveHive
    <2>3. TypeOK' /\ Staged'
      BY <1>0, <1>9, <2>1, <2>2 DEF SaveHive, TypeOK, Staged
    <2>4. bt'.listed \subseteq Readable'
      BY <1>0, <1>9, <2>2 DEF SaveHive, Readable
    <2>5. QED
      BY <2>2, <2>3, <2>4 DEF IInv, Sound
  <1>10. ASSUME EndSave PROVE IInv'
    BY <1>0, <1>10 DEF EndSave, IInv, Sound, Counted, TypeOK, Staged, Phases, Readable
  <1>11. ASSUME Rebuild PROVE IInv'
    BY <1>0, <1>11 DEF Rebuild, IInv, Sound, Counted, TypeOK, Staged, Phases, Readable
  <1>12. ASSUME CreateOut PROVE IInv'
    BY <1>0, <1>12 DEF CreateOut, IInv, Sound, Counted, TypeOK, Staged, Phases, Readable
  <1>13. ASSUME WriteOut PROVE IInv'
    <2>1. [tree |-> tree, table |-> Rebuilt(tree)] \in Images
      BY <1>0, RebuiltExact DEF TypeOK, Images
    <2>2. TypeOK'
      BY <1>0, <1>13, <2>1 DEF WriteOut, TypeOK, Phases
    <2>3. Staged'
      BY <1>0, <1>13 DEF WriteOut, Staged
    <2>4. QED
      BY <1>0, <1>13, <2>2, <2>3 DEF WriteOut, IInv, Sound, Counted, Readable
  <1>14. ASSUME Abort PROVE IInv'
    BY <1>0, <1>14 DEF Abort, IInv, Sound, Counted, TypeOK, Staged, Phases, Readable
  <1>15. CASE UNCHANGED vars
    BY <1>0, <1>15 DEF vars, IInv, Sound, Counted, TypeOK, Staged, Readable
  <1>16. QED
    BY <1>1, <1>2, <1>3, <1>4, <1>5, <1>6, <1>7, <1>8, <1>9, <1>10, <1>11, <1>12,
       <1>13, <1>14, <1>15 DEF Next

\* The invariant holds throughout a run.
THEOREM Invariance == Spec => []IInv
  BY InitInv, NextInv, PTL DEF Spec

-----------------------------------------------------------------------------
\* Every variable keeps its type: no count underflows (treeutil.go:38, 118).
THEOREM TypeCorrect == Spec => []TypeOK
  <1>1. IInv => TypeOK
    BY DEF IInv, Sound
  <1>2. QED
    BY <1>1, Invariance, PTL

\* No blob is counted more often than the tree refers to it, even after
\* removals that failed half way.
THEOREM RefsBoundedByTree == Spec => []RefsNeverExceedTree
  <1>1. IInv => RefsNeverExceedTree
    BY DEF IInv, Counted, Bounded, RefsNeverExceedTree
  <1>2. QED
    BY <1>1, Invariance, PTL

\* Without such a removal the maintained counts equal a recount.
THEOREM RefsExactUnlessDrift == Spec => []RefsExact
  <1>1. IInv => RefsExact
    BY DEF IInv, Counted, Exact, RefsExact
  <1>2. QED
    BY <1>1, Invariance, PTL

\* Neither RebuildBlobTable nor WriteTo ever meets a hash it cannot resolve.
THEOREM TreeAlwaysReadable == Spec => []TreeReadable
  <1>1. IInv => TreeReadable
    BY DEF IInv, Sound, Needed, RefsTo, TreeReadable
  <1>2. QED
    BY <1>1, Invariance, PTL

\* The output is created and written only after every stage and every save.
THEOREM OutputTouchedLate == Spec => OutputLate
  <1>1. IInv /\ [Next]_vars =>
          [out' # out => (unsaved = {} /\ sweep = {}
                          /\ out' # Untouched /\ out \in {Untouched, Damaged})]_vars
    <2> SUFFICES ASSUME IInv, Next, out' # out
                 PROVE  unsaved = {} /\ sweep = {} /\ out' # Untouched /\ out \in {Untouched, Damaged}
      BY DEF vars
    <2>1. CreateOut \/ WriteOut
      BY DEF Next, WriteFile, RemoveIfExists, BeginSweep, SweepRemoves, SweepWarns, EndSweep,
             TweakHive, BeginSave, SaveHive, EndSave, Rebuild, Abort
    <2>2. CASE CreateOut
      BY <2>2, WimAssumption DEF CreateOut, IInv, Staged
    <2>3. CASE WriteOut
      <3>1. [tree |-> tree, table |-> Rebuilt(tree)] \in Images
        BY RebuiltExact DEF IInv, Sound, TypeOK, Images
      <3>2. QED
        BY <2>3, <3>1, WimAssumption DEF WriteOut, IInv, Staged
    <2>4. QED
      BY <2>1, <2>2, <2>3
  <1>2. QED
    BY <1>1, Invariance, PTL DEF Spec, OutputLate

-----------------------------------------------------------------------------
\* The mapped store of files, for short.
MappedFiles == [p \in Path |-> FileContent(p)]

\* The mapped store has the type the abstract specification gives it.
LEMMA MappedType ==
    TypeOK => MappedFiles \in [Path -> Hash \cup {Zero, Absent}]
  BY DEF TypeOK, MappedFiles, FileContent, Trees

\* A step that leaves the output alone while it is untouched is an edit.
LEMMA EditStep ==
    ASSUME TypeOK', out = Untouched, out' = out
    PROVE  Store!FSNext
  <1>1. MappedFiles' \in [Path -> Hash \cup {Zero, Absent}]
    BY DEF TypeOK, MappedFiles, FileContent, Trees
  <1>2. Published = Untouched /\ Published' = Published
    BY DEF Published
  <1>3. QED
    BY <1>1, <1>2 DEF Store!FSNext, Store!Edit, MappedFiles

\* Every step of an image is a step of the store, or leaves it as it is.
LEMMA StepRefines ==
    IInv /\ IInv' /\ [Next]_vars => [Store!FSNext]_(Store!fsVars)
  <1> SUFFICES ASSUME IInv, IInv', [Next]_vars PROVE [Store!FSNext]_(Store!fsVars)
    OBVIOUS
  <1>0. TypeOK /\ TypeOK' /\ Staged /\ Needed(tree) \subseteq bt.listed
    BY DEF IInv, Sound
  <1>1. ASSUME pc \in {"edit", "sweep", "save"}, out' = out PROVE Store!FSNext
    <2>1. out = Untouched
      BY <1>0, <1>1 DEF Staged
    <2>2. QED
      BY <1>0, <1>1, <2>1, EditStep
  <1>2. ASSUME UNCHANGED <<tree, hive, unsaved, out>> PROVE UNCHANGED Store!fsVars
    <2>1. MappedFiles' = MappedFiles
      BY <1>2 DEF MappedFiles, FileContent
    <2>2. Published' = Published
      BY <1>2 DEF Published, ReadBack
    <2>3. QED
      BY <2>1, <2>2 DEF Store!fsVars, MappedFiles
  <1>3. ASSUME CreateOut PROVE Store!FSNext
    <2>1. out = Untouched /\ out' = Damaged /\ UNCHANGED <<tree, hive, unsaved>>
      BY <1>0, <1>3 DEF CreateOut, Staged
    <2>2. MappedFiles' = MappedFiles
      BY <2>1 DEF MappedFiles, FileContent
    <2>3. Published = Untouched /\ Published' = Damaged
      BY <2>1 DEF Published
    <2>4. QED
      BY <2>2, <2>3 DEF Store!FSNext, Store!Truncate, MappedFiles
  <1>4. ASSUME WriteOut, out' # out PROVE Store!FSNext
    <2>1. /\ out = Damaged /\ unsaved = {}
          /\ out' = [tree |-> tree, table |-> Rebuilt(tree)]
          /\ UNCHANGED <<tree, hive, unsaved>>
      BY <1>0, <1>4 DEF WriteOut, Staged
    <2>2. [tree |-> tree, table |-> Rebuilt(tree)] \in Images
      BY <1>0, RebuiltExact DEF TypeOK, Images
    <2>3. out' \notin {Untouched, Damaged}
      BY <2>1, <2>2, WimAssumption
    <2>4. ASSUME NEW p \in Path PROVE ReadBack(p)' = tree[p]
      <3>1. tree[p] \in Hash => tree[p] \in Rebuilt(tree).listed
        BY DEF Rebuilt, Needed, RefsTo
      <3>2. QED
        BY <2>1, <3>1 DEF ReadBack
    <2>5. Published' = [p \in Path |-> tree[p]]
      BY <2>3, <2>4 DEF Published
    <2>6. MappedFiles = [p \in Path |-> tree[p]] /\ MappedFiles' = MappedFiles
      BY <2>1 DEF MappedFiles, FileContent
    <2>7. Published = Damaged
      BY <2>1 DEF Published
    <2>8. QED
      BY <2>5, <2>6, <2>7 DEF Store!FSNext, Store!Publish, MappedFiles
  <1>5. CASE WriteOut /\ out' = out
    BY <1>2, <1>5 DEF WriteOut
  <1>6. CASE Rebuild \/ Abort
    BY <1>2, <1>6 DEF Rebuild, Abort
  <1>7. CASE UNCHANGED vars
    BY <1>2, <1>7 DEF vars
  <1>8. ASSUME Next, ~CreateOut, ~WriteOut, ~Rebuild, ~Abort
        PROVE  pc \in {"edit", "sweep", "save"} /\ out' = out
    BY <1>8 DEF Next, WriteFile, RemoveIfExists, BeginSweep, SweepRemoves, SweepWarns,
                EndSweep, TweakHive, BeginSave, SaveHive, EndSave
  <1>9. QED
    BY <1>1, <1>3, <1>4, <1>5, <1>6, <1>7, <1>8

\* Editing and writing an image implements editing a plain store of files
\* and publishing it: every published file reads back as it stood, hives
\* included, although counts may have drifted on the way.
THEOREM Refinement == Spec => ImplementsFileStore
  <1>1. Init => Store!FSInit
    <2> SUFFICES ASSUME Init PROVE Store!FSInit
      OBVIOUS
    <2>1. MappedFiles \in [Path -> Hash \cup {Zero, Absent}]
      BY InitInv, MappedType DEF IInv, Sound
    <2>2. Published = Untouched
      BY DEF Init, Published
    <2>3. QED
      BY <2>1, <2>2 DEF Store!FSInit, MappedFiles
  <1>2. QED
    BY <1>1, StepRefines, Invariance, PTL DEF Spec, ImplementsFileStore, Store!FSSpec

=============================================================================
