------------------------------ MODULE BootWim ------------------------------
(***************************************************************************)
(* shrinkBootWim's editing of the setup image (bootwim.go): registry       *)
(* tweaks saved at once, the locale trim over nested directories, the file *)
(* cleanup with its sweeps that warn and go on, then the output.           *)
(* Exporting and the temporary file are in Pipeline.                       *)
(*                                                                         *)
(* The shape of the tree is fixed; how its directories are named, what the *)
(* files hold (and so which copies are hard-linked) and the flags vary.    *)
(***************************************************************************)
EXTENDS BlobTable

CONSTANTS
    Dir,        \* the directories, but for those that lead to WinSxS, to a
                \* hive or to a file the cleanup sweeps
    Inside,     \* Inside[d]: the directories and files below d, at any depth
    SxsDir,     \* the immediate child directories of Windows\WinSxS
    HivePath,   \* the DEFAULT, NTUSER.DAT and SYSTEM hives
    Engines,    \* the speech engine directories
    Fonts,      \* files of Windows\Boot\Fonts* and Windows\Fonts the patterns match
    Storage,    \* files bootWimEnterpriseStoragePatterns matches in System32\drivers
    Untouched,  \* the output before os.Create
    Damaged     \* the output between os.Create and WriteTo's end

ASSUME BootWimAssumption ==
    /\ IsFiniteSet(Dir)
    /\ Inside \in [Dir -> SUBSET (Dir \cup Path)]
    /\ \A d \in Dir : d \notin Inside[d]
    /\ \A d \in Dir, e \in Dir : e \in Inside[d] => Inside[e] \subseteq Inside[d]
    /\ SxsDir \subseteq Dir /\ Engines \subseteq Dir
    /\ HivePath \cup Fonts \cup Storage \subseteq Path
    /\ Fonts \cap Storage = {}
    /\ \A d \in Dir : (HivePath \cup Fonts \cup Storage \cup SxsDir) \cap Inside[d] = {}
    /\ Untouched # Damaged
    /\ {Untouched, Damaged} \cap [tree : Trees, table : Tables] = {}

\* How a directory is named: a tag such as de-DE or fr, en-US, a tag with a
\* script such as sr-Latn-RS, or no language at all; for a package of WinSxS,
\* its locale suffix instead.
Names == {"other", "en-US", "script", "plain"}
Suffixes == {"_other_", "_en-us_", "plain"}

Flags == [skipRegTweaks : BOOLEAN, skipLocaleTrim : BOOLEAN,
          skipFileCleanup : BOOLEAN, keepDrivers : BOOLEAN]

VARIABLES
    flags, pc,
    name,      \* [Dir -> name or suffix]
    initial,   \* the exported tree
    tree, bt, newBlobs,
    unsaved,   \* hives still to be saved
    dirs,      \* directories still in the tree
    walked,    \* what the walk put on toRemove
    packages,  \* what the look at WinSxS put on toRemove, after that
    stuck,     \* files whose counts were given up but whose removal failed
    out        \* the written image: Untouched, Damaged, or its tree and its table

image == <<tree, bt, newBlobs, unsaved, dirs, stuck>>
const == <<flags, name, initial>>
vars == <<flags, pc, name, initial, tree, bt, newBlobs, unsaved, dirs, walked, packages,
          stuck, out>>

Init ==
    /\ flags \in Flags /\ pc = "tweaks"
    /\ name \in [Dir -> Names \cup Suffixes]
    /\ \A d \in Dir : name[d] \in (IF d \in SxsDir THEN Suffixes
                                   ELSE IF d \in Engines THEN {"plain"} ELSE Names)
    /\ initial \in [Path -> Hash]
    /\ tree = initial /\ bt = Rebuilt(initial) /\ newBlobs = {}
    /\ unsaved = HivePath /\ dirs = Dir /\ walked = {} /\ packages = {}
    /\ stuck = {} /\ out = Untouched

-----------------------------------------------------------------------------
(* Registry tweaks. *)

Skip(flag, from, to) ==
    /\ pc = from /\ flag
    /\ pc' = to
    /\ UNCHANGED <<image, walked, packages, out>> /\ UNCHANGED const

\* A saved hive's new data not put in newBlobs.
TweakLosesData(p, c) ==
    /\ pc = "tweaks" /\ ~flags.skipRegTweaks
    /\ p \in unsaved /\ unsaved' = unsaved \ {p}
    /\ tree' = [tree EXCEPT ![p] = c]
    /\ bt' = AddBlob(bt, tree[p], c)
    /\ pc' = IF unsaved' = {} THEN "walk" ELSE "tweaks"
    /\ UNCHANGED <<newBlobs, dirs, walked, packages, stuck, out>> /\ UNCHANGED const

\* The hives are tweaked, then saved one after the other: p's file takes the
\* hash c, and its data is kept unless the table already lists it.
Tweak(p, c) ==
    /\ pc = "tweaks" /\ ~flags.skipRegTweaks
    /\ p \in unsaved /\ unsaved' = unsaved \ {p}
    /\ tree' = [tree EXCEPT ![p] = c]
    /\ bt' = AddBlob(bt, tree[p], c)
    /\ newBlobs' = IF c \in bt.listed THEN newBlobs ELSE newBlobs \cup {c}
    /\ pc' = IF unsaved' = {} THEN "walk" ELSE "tweaks"
    /\ UNCHANGED <<dirs, walked, packages, stuck, out>> /\ UNCHANGED const

-----------------------------------------------------------------------------
(* trimBootWimNonEnUSLocaleContent. *)

\* bootWimLocaleDirRe matches and the name is not en-US; a neutral tag, "en"
\* itself included, is one of the matches.
Foreign(d) == name[d] = "other"

\* Every foreign directory, the nested ones as well: the walk going on below
\* a directory it has collected.
WalkNested == {d \in dirs : Foreign(d)}

\* The walk does not go below a directory it has collected.
Walk == {d \in dirs : Foreign(d) /\ \A e \in dirs : Foreign(e) => d \notin Inside[e]}

CollectWalk ==
    /\ pc = "walk" /\ ~flags.skipLocaleTrim
    /\ walked' = Walk
    /\ pc' = "sxs"
    /\ UNCHANGED <<image, packages, out>> /\ UNCHANGED const

\* The look at WinSxS left out.
CollectNoPackages ==
    /\ pc = "sxs"
    /\ pc' = "remove"
    /\ UNCHANGED <<image, walked, packages, out>> /\ UNCHANGED const

\* The WinSxS packages with a locale suffix other than en-us are added.
CollectPackages ==
    /\ pc = "sxs"
    /\ packages' = {d \in SxsDir \cap dirs : name[d] = "_other_"}
    /\ pc' = "remove"
    /\ UNCHANGED <<image, walked, out>> /\ UNCHANGED const

\* One entry is removed with all that is below it; the counts are given up
\* first, for the streams the entry still holds.
RemoveDirs(S) ==
    LET gone == UNION {Inside[d] : d \in S}
    IN  /\ bt' = DecrementBlobRefs(bt, tree, gone \cap Path)
        /\ tree' = [p \in Path |-> IF p \in gone THEN Absent ELSE tree[p]]
        /\ dirs' = dirs \ (gone \cup S)

\* The next item of toRemove: root.Remove fails, and the program panics, when
\* its path is gone.
RemoveNext ==
    /\ pc = "remove"
    /\ \E d \in (IF walked # {} THEN walked ELSE packages) :
         /\ IF d \in dirs THEN RemoveDirs({d}) /\ UNCHANGED pc
            ELSE pc' = "panic" /\ UNCHANGED <<bt, tree, dirs>>
         /\ walked' = walked \ {d}
         /\ packages' = IF walked = {} THEN packages \ {d} ELSE packages
    /\ UNCHANGED <<newBlobs, unsaved, stuck, out>> /\ UNCHANGED const

\* The loop left when the walk's items are done.
TrimDoneEarly ==
    /\ pc = "remove" /\ walked = {}
    /\ pc' = "fonts"
    /\ UNCHANGED <<image, walked, packages, out>> /\ UNCHANGED const

TrimDone ==
    /\ pc = "remove" /\ walked = {} /\ packages = {}
    /\ pc' = "fonts"
    /\ UNCHANGED <<image, walked, packages, out>> /\ UNCHANGED const

-----------------------------------------------------------------------------
(* trimBootWimFiles and the output. *)

\* What the sweep under way is to remove: the boot fonts and fonts, then the
\* storage drivers.
Swept ==
    IF pc = "fonts" THEN Fonts
    ELSE IF pc = "drivers" /\ ~flags.keepDrivers THEN Storage ELSE {}

\* A file that could not be removed tried again.
LeftAgain == {p \in Swept : tree[p] # Absent}

\* What of it the sweep has still to come to.
Left == {p \in Swept \ stuck : tree[p] # Absent}

\* One child of removeMatchingChildren: its counts are given up, then it is
\* removed; should that fail, a warning is logged and the sweep goes on.
SweepNext ==
    /\ pc \in {"fonts", "drivers"} /\ ~flags.skipFileCleanup
    /\ \E p \in Left :
         /\ bt' = DecrementBlobRefs(bt, tree, {p})
         /\ \/ tree' = [tree EXCEPT ![p] = Absent] /\ UNCHANGED stuck
            \/ stuck' = stuck \cup {p} /\ UNCHANGED tree
    /\ UNCHANGED <<pc, newBlobs, unsaved, dirs, walked, packages, out>> /\ UNCHANGED const

SweepDone ==
    /\ pc \in {"fonts", "drivers"} /\ ~flags.skipFileCleanup /\ Left = {}
    /\ pc' = IF pc = "fonts" THEN "engines" ELSE "write"
    /\ UNCHANGED <<image, walked, packages, out>> /\ UNCHANGED const

\* An engine directory is removed whole; that failing is an error, after the
\* counts are given up.
RemoveEngine(d) ==
    /\ pc = "engines" /\ d \in dirs
    /\ \/ RemoveDirs({d}) /\ UNCHANGED <<pc, stuck>>
       \/ /\ bt' = DecrementBlobRefs(bt, tree, Inside[d] \cap Path)
          /\ stuck' = stuck \cup (Inside[d] \cap Path)
          /\ pc' = "error"
          /\ UNCHANGED <<tree, dirs>>
    /\ UNCHANGED <<newBlobs, unsaved, walked, packages, out>> /\ UNCHANGED const

EnginesDone ==
    /\ pc = "engines" /\ Engines \cap dirs = {}
    /\ pc' = "drivers"
    /\ UNCHANGED <<image, walked, packages, out>> /\ UNCHANGED const

\* RebuildBlobTable finds every blob of the tree in the table; os.Create.
Create ==
    /\ pc = "write"
    /\ IF Needed(tree) \subseteq bt.listed
       THEN out' = Damaged /\ pc' = "writing"
       ELSE UNCHANGED out /\ pc' = "failed"
    /\ UNCHANGED <<image, walked, packages>> /\ UNCHANGED const

\* The blobs combinedBlobSource can give: the export's and those written here.
Readable == Needed(initial) \cup newBlobs

\* WriteTo given the edited table as it is.
WriteOutNotRebuilt ==
    /\ pc = "writing"
    /\ out' = [tree |-> tree, table |-> bt] /\ pc' = "done"
    /\ UNCHANGED <<image, walked, packages>> /\ UNCHANGED const

\* WriteTo with the rebuilt table.
WriteOut ==
    /\ pc = "writing"
    /\ IF Needed(tree) \subseteq Readable
       THEN out' = [tree |-> tree, table |-> Rebuilt(tree)] /\ pc' = "done"
       ELSE UNCHANGED out /\ pc' = "failed"
    /\ UNCHANGED <<image, walked, packages>> /\ UNCHANGED const

\* A missing hive, or any other error: shrinkBootWim returns it.
Abort ==
    /\ pc \in {"tweaks", "walk", "fonts", "engines", "drivers", "write", "writing"}
    /\ pc' = "error"
    /\ UNCHANGED <<image, walked, packages, out>> /\ UNCHANGED const

Next ==
    \/ Skip(flags.skipRegTweaks, "tweaks", "walk")
    \/ \E p \in HivePath, c \in Hash : Tweak(p, c)
    \/ Skip(flags.skipLocaleTrim, "walk", "fonts")
    \/ CollectWalk \/ CollectPackages \/ RemoveNext \/ TrimDone
    \/ Skip(flags.skipFileCleanup, "fonts", "write")
    \/ SweepNext \/ SweepDone \/ (\E d \in Engines : RemoveEngine(d)) \/ EnginesDone
    \/ Create \/ WriteOut \/ Abort

Spec == Init /\ [][Next]_vars

-----------------------------------------------------------------------------
(* Properties. *)

TypeOK ==
    /\ flags \in Flags /\ tree \in Trees /\ bt \in Tables /\ newBlobs \subseteq Hash
    /\ dirs \subseteq Dir /\ walked \subseteq Dir /\ packages \subseteq SxsDir
    /\ unsaved \subseteq HivePath /\ stuck \subseteq Path
    /\ pc \notin {"sxs", "remove", "panic"} => walked = {} /\ packages = {}
    /\ pc \in {"tweaks", "walk", "sxs", "remove", "fonts", "engines", "drivers",
              "write", "writing", "done", "failed", "error", "panic"}

\* "Already accounted for in toRemove via a live tree walk, so removal cannot
\* fail" (bootwim.go:266): however locale directories and packages are nested
\* in one another, no item's path is gone when its turn comes; and the image
\* can be written, neither table nor blobs failing before or after the output
\* is truncated.
NeverPanics == pc \notin {"panic", "failed"}

\* The counts agree with the tree, through nested removals, of directories
\* inside packages and of engines already thinned by the trim, but for the
\* files whose removal failed: each of those is given up once, no more.
RefsExact == \A h \in Hash : bt.refs[h] = Cardinality(RefsTo(tree, h) \ stuck)

\* What a foreign directory or package holds, directly or further down.
Doomed == {p \in Path : \E d \in Dir :
             p \in Inside[d] /\ (Foreign(d) \/ (d \in SxsDir /\ name[d] = "_other_"))}

\* What the sweeps are to remove, and what the whole cleanup is to.
Matched == Fonts \cup (IF flags.keepDrivers THEN {} ELSE Storage)
Unwanted == Matched \cup {p \in Path : \E d \in Engines : p \in Inside[d]}

\* The image written has every file the trim and the cleanup are not about,
\* unchanged, and none of the others but those a sweep could not remove and
\* warned of: a failing removal never takes another file with it or leaves an
\* engine in the image of a run that goes on.
OutputIsTrimmed ==
    pc = "done" =>
      /\ stuck \subseteq Matched
      /\ \A p \in Path \ HivePath :
           out.tree[p] = IF \/ ~flags.skipLocaleTrim /\ p \in Doomed
                            \/ ~flags.skipFileCleanup /\ p \in Unwanted \ stuck
                         THEN Absent ELSE initial[p]

\* "Both copies have to go together for wim.RebuildBlobTable to actually drop
\* the blob": content that only foreign directories and foreign packages held
\* is not in the output.
ForeignPayloadDropped ==
    pc = "done" /\ ~flags.skipLocaleTrim =>
      \A h \in Hash :
        h \in out.table.listed =>
          \E p \in Path : \/ (initial[p] = h /\ p \notin Doomed)
                          \/ (p \in HivePath /\ out.tree[p] = h)

\* "every non-en-US locale-named directory" is removed (bootwim.go:201).
NoForeignDirectoryLeft ==
    pc = "done" /\ ~flags.skipLocaleTrim =>
      \A d \in dirs : name[d] \notin {"other", "script"}

\* What a file reads as, in the edited image and in the one written.
Reads(p, blobs) == IF tree[p] \in Hash \ blobs THEN Damaged ELSE tree[p]

ReadBack(p) == IF out.tree[p] \in Hash \ out.table.listed THEN Damaged ELSE out.tree[p]

Store == INSTANCE FileStore WITH
    File <- Path,
    Content <- Hash \cup {Zero, Absent},
    files <- [p \in Path |-> Reads(p, bt.listed \cap Readable)],
    published <- IF out \in {Untouched, Damaged} THEN out ELSE [p \in Path |-> ReadBack(p)]

\* Shrinking boot.wim edits a plain store of files and publishes it as it
\* stands, like debloating install.wim (WimImage).
ImplementsFileStore == Store!FSSpec

=============================================================================
