------------------------------ MODULE WimImage ------------------------------
(***************************************************************************)
(* One image being edited and written, as run() and shrinkBootWim() do it: *)
(* the exported image's tree and blob table are read into memory, the      *)
(* stages write and remove files and tweak the loaded registry hives, every*)
(* hive is saved back into the tree, the table is rebuilt from the tree,   *)
(* and only then is the output created and written.                        *)
(*                                                                         *)
(* Content is identified with its SHA-1 hash.  The source image's own      *)
(* blobs are readable from the exported WIM; everything written during the *)
(* run is readable only through newBlobs (combinedBlobSource).             *)
(***************************************************************************)
EXTENDS BlobTable

CONSTANTS
    HivePath,    \* the files registry.LoadHiveSet parses, a subset of Path
    Subtree,     \* Subtree[e]: the files at or under the directory entry e
    Untouched,   \* the output file has not been created by this run
    Damaged      \* the output was truncated and is not complete

Entry == DOMAIN Subtree    \* what a removal step may name

\* A complete output: the tree and the table written with it.
Images == [tree : Trees, table : Tables]

ASSUME WimAssumption ==
    /\ HivePath \subseteq Path
    /\ \A e \in Entry : Subtree[e] \subseteq Path \ HivePath
    /\ Untouched # Damaged /\ Untouched \notin Images /\ Damaged \notin Images

VARIABLES
    tree,      \* [Path -> hash]: the image's directory tree
    bt,        \* the blob table bt2
    source,    \* hashes with a resource in the exported WIM
    newBlobs,  \* hashes of content written by this run
    hive,      \* [HivePath -> hash]: what each loaded hive would serialise to
    unsaved,   \* hives whose Save is still to come
    sweep,     \* entries a directory sweep still has to remove
    pc,        \* where the run is
    drift,     \* history: an entry's counts were given up and it stayed
    out        \* the output file

vars == <<tree, bt, source, newBlobs, hive, unsaved, sweep, pc, drift, out>>

Phases == {"edit", "sweep", "save", "rebuild", "create", "write", "done", "failed"}

Readable == source \cup newBlobs

\* run() up to LoadHiveSet: the export holds exactly the blobs the image
\* references, each with its reference count.
Init ==
    /\ tree \in Trees
    /\ \A p \in HivePath : tree[p] \in Hash
    /\ bt = Rebuilt(tree)
    /\ source = bt.listed
    /\ newBlobs = {}
    /\ hive = [p \in HivePath |-> tree[p]]
    /\ unsaved = HivePath
    /\ sweep = {}
    /\ pc = "edit"
    /\ drift = FALSE
    /\ out = Untouched

-----------------------------------------------------------------------------
(* The editing stages. *)

\* Only table entries with a resource can be read, so writing content that
\* is not recorded in newBlobs would lose it.
WriteFileNoOverride(p, c) ==
    /\ pc = "edit"
    /\ tree' = [tree EXCEPT ![p] = c]
    /\ bt' = AddBlob(bt, tree[p], c)
    /\ UNCHANGED <<source, newBlobs, hive, unsaved, sweep, pc, drift, out>>

\* writeFile: create or replace a file with content c.
WriteFile(p, c) ==
    /\ pc = "edit"
    /\ tree' = [tree EXCEPT ![p] = c]
    /\ bt' = AddBlob(bt, tree[p], c)
    /\ newBlobs' = newBlobs \cup {c}
    /\ UNCHANGED <<source, hive, unsaved, sweep, pc, drift, out>>

\* The tree without the subtree of e.
Without(e) == [p \in Path |-> IF p \in Subtree[e] THEN Absent ELSE tree[p]]

\* removeIfExists when root.Remove succeeds.
RemoveEntry(e) ==
    /\ bt' = DecrementBlobRefs(bt, tree, Subtree[e])
    /\ tree' = Without(e)

\* removeIfExists called by a stage for one path; an entry that is not there
\* is left alone.
RemoveIfExists(e) ==
    /\ pc = "edit"
    /\ RemoveEntry(e)
    /\ UNCHANGED <<source, newBlobs, hive, unsaved, sweep, pc, drift, out>>

\* removeMatchingChildren and keepOnlyMatchingChildren: ReadDir gives a
\* snapshot of the children, the patterns select some of them.
BeginSweep(S) ==
    /\ pc = "edit"
    /\ sweep' = S
    /\ pc' = "sweep"
    /\ UNCHANGED <<tree, bt, source, newBlobs, hive, unsaved, drift, out>>

SweepRemoves(e) ==
    /\ pc = "sweep" /\ e \in sweep
    /\ RemoveEntry(e)
    /\ sweep' = sweep \ {e}
    /\ UNCHANGED <<source, newBlobs, hive, unsaved, pc, drift, out>>

\* root.Remove fails after decrementBlobRefs ran: the sweep logs a warning
\* and goes on with the counts already given up.
SweepWarns(e) ==
    /\ pc = "sweep" /\ e \in sweep
    /\ bt' = DecrementBlobRefs(bt, tree, Subtree[e])
    /\ sweep' = sweep \ {e}
    /\ drift' = TRUE
    /\ UNCHANGED <<tree, source, newBlobs, hive, unsaved, pc, out>>

EndSweep ==
    /\ pc = "sweep" /\ sweep = {}
    /\ pc' = "edit"
    /\ UNCHANGED <<tree, bt, source, newBlobs, hive, unsaved, sweep, drift, out>>

\* A registry stage (or appx.Remove) changes a loaded hive in memory only.
TweakHive(p, c) ==
    /\ pc = "edit"
    /\ hive' = [hive EXCEPT ![p] = c]
    /\ UNCHANGED <<tree, bt, source, newBlobs, unsaved, sweep, pc, drift, out>>

-----------------------------------------------------------------------------
(* Saving the hives, rebuilding the table, writing the output. *)

BeginSave ==
    /\ pc = "edit"
    /\ pc' = "save"
    /\ UNCHANGED <<tree, bt, source, newBlobs, hive, unsaved, sweep, drift, out>>

\* h.Save in the order of a Go map: the hive's file takes the new hash, and
\* its data is returned, and recorded, unless the table already lists it.
SaveHive(p) ==
    /\ pc = "save" /\ p \in unsaved
    /\ tree' = [tree EXCEPT ![p] = hive[p]]
    /\ bt' = AddBlob(bt, tree[p], hive[p])
    /\ newBlobs' = IF hive[p] \in bt.listed THEN newBlobs
                   ELSE newBlobs \cup {hive[p]}
    /\ unsaved' = unsaved \ {p}
    /\ UNCHANGED <<source, hive, sweep, pc, drift, out>>

\* The save loop left early.
EndSaveEarly ==
    /\ pc = "save"
    /\ pc' = "rebuild"
    /\ UNCHANGED <<tree, bt, source, newBlobs, hive, unsaved, sweep, drift, out>>

EndSave ==
    /\ pc = "save" /\ unsaved = {}
    /\ pc' = "rebuild"
    /\ UNCHANGED <<tree, bt, source, newBlobs, hive, unsaved, sweep, drift, out>>

\* RebuildBlobTable looks every hash of the tree up in bt2.
Rebuild ==
    /\ pc = "rebuild"
    /\ pc' = IF Needed(tree) \subseteq bt.listed THEN "create" ELSE "failed"
    /\ UNCHANGED <<tree, bt, source, newBlobs, hive, unsaved, sweep, drift, out>>

\* os.Create truncates the output path.
CreateOut ==
    /\ pc = "create"
    /\ out' = Damaged
    /\ pc' = "write"
    /\ UNCHANGED <<tree, bt, source, newBlobs, hive, unsaved, sweep, drift>>

\* WriteTo given the table the stages maintained instead of the rebuilt one,
\* minus the entries whose count fell to zero.
WriteOutTrustingCounts ==
    /\ pc = "write"
    /\ out' = [tree |-> tree,
               table |-> [bt EXCEPT !.listed = {h \in @ : bt.refs[h] > 0}]]
    /\ pc' = "done"
    /\ UNCHANGED <<tree, bt, source, newBlobs, hive, unsaved, sweep, drift>>

\* WriteTo: every blob of the rebuilt table is read through
\* combinedBlobSource and written; one that no source holds is an error.
WriteOut ==
    /\ pc = "write"
    /\ IF Needed(tree) \subseteq Readable
       THEN out' = [tree |-> tree, table |-> Rebuilt(tree)] /\ pc' = "done"
       ELSE out' = out /\ pc' = "failed"
    /\ UNCHANGED <<tree, bt, source, newBlobs, hive, unsaved, sweep, drift>>

\* Any step may return an error (a read, a parse, a disk that is full): run()
\* returns it and nothing more is done.
Abort ==
    /\ pc \notin {"done", "failed"}
    /\ pc' = "failed"
    /\ UNCHANGED <<tree, bt, source, newBlobs, hive, unsaved, sweep, drift, out>>

Next ==
    \/ \E p \in Path \ HivePath, c \in Hash : WriteFile(p, c)
    \/ \E e \in Entry : RemoveIfExists(e)
    \/ \E S \in SUBSET Entry : BeginSweep(S)
    \/ \E e \in Entry : SweepRemoves(e) \/ SweepWarns(e)
    \/ EndSweep
    \/ \E p \in HivePath, c \in Hash : TweakHive(p, c)
    \/ BeginSave
    \/ \E p \in HivePath : SaveHive(p)
    \/ EndSave \/ Rebuild \/ CreateOut \/ WriteOut \/ Abort

Spec == Init /\ [][Next]_vars

-----------------------------------------------------------------------------
(* Properties. *)

\* Every variable keeps its type; counts in particular never go below zero.
TypeOK ==
    /\ tree \in Trees
    /\ bt \in Tables
    /\ source \subseteq Hash
    /\ newBlobs \subseteq Hash
    /\ hive \in [HivePath -> Hash]
    /\ unsaved \subseteq HivePath
    /\ sweep \subseteq Entry
    /\ pc \in Phases
    /\ drift \in BOOLEAN
    /\ out \in {Untouched, Damaged} \cup Images

\* No blob is ever counted more often than the tree refers to it, so dead
\* payload cannot look alive (addBlob, decrementBlobRefs).
RefsNeverExceedTree ==
    \A h \in Hash : bt.refs[h] <= Cardinality(RefsTo(tree, h))

\* As long as no removal failed half way, the incremental bookkeeping agrees
\* exactly with a recount of the tree, through any sequence of writes,
\* replacements, removals of nested entries and hive saves.
RefsExact ==
    ~drift => \A h \in Hash : bt.refs[h] = Cardinality(RefsTo(tree, h))

\* Every blob the tree needs is listed in the table and can be read, from
\* the exported WIM or from what this run wrote (combinedBlobSource): neither
\* RebuildBlobTable nor WriteTo ever meets a hash it cannot resolve.
TreeReadable ==
    \A p \in Path : tree[p] \in Hash => tree[p] \in bt.listed \cap Readable

\* The output is touched only once, after every hive was saved: a run that
\* fails in a stage leaves an earlier output alone.
OutputLate ==
    [][out' # out => (unsaved = {} /\ sweep = {}
                      /\ out' # Untouched /\ out \in {Untouched, Damaged})]_vars

-----------------------------------------------------------------------------
(* The image as a plain store of files: a hive's file is what the loaded   *)
(* hive says until it is saved, and the published files are what the       *)
(* output's own tree and table give back.                                  *)

FileContent(p) == IF p \in unsaved THEN hive[p] ELSE tree[p]

\* What reading path p from the written image gives.
ReadBack(p) ==
    IF out.tree[p] \in Hash /\ out.tree[p] \notin out.table.listed
    THEN Damaged ELSE out.tree[p]

Published == IF out \in {Untouched, Damaged} THEN out
             ELSE [p \in Path |-> ReadBack(p)]

Store == INSTANCE FileStore WITH
            File <- Path,
            Content <- Hash \cup {Zero, Absent},
            files <- [p \in Path |-> FileContent(p)],
            published <- Published

\* Editing and writing an image behaves like editing a plain store of files
\* and publishing it as it stands.
ImplementsFileStore == Store!FSSpec

=============================================================================
