# nano11-go: TLA+ verification project

nano11-go edits Windows installation media: it exports one image of an
`install.wim`, strips it, writes it again, may do the same to the setup image of a
`boot.wim`, and may author a bootable ISO around both.  It is a sequential command
line program (`package main`, one goroutine) on top of the external library
`gowim`.  What is hard about it is not scheduling.  It is bookkeeping that must stay
exact through thousands of edits, a directory tree and a disk that outlive a run and
are edited in place, stages that fail half way, and formats whose edges nobody
tests by hand.

- [1. The system](#1-the-system)
- [2. Modules, and how they correspond to the code](#2-modules-and-how-they-correspond-to-the-code)
- [3. What the runs check](#3-what-the-runs-check)
- [4. What is proved](#4-what-is-proved)
- [5. Where the code and its words differ](#5-where-the-code-and-its-words-differ)
- [6. Assumptions, and what is not modelled](#6-assumptions-and-what-is-not-modelled)
- [7. Plan](#7-plan)

## 1. The system

### Components

| component | state | operations | correct when |
|---|---|---|---|
| blob table and tree edits (`treeutil.go`) | the image's tree, the blob table `bt2`, `newBlobs` | `addBlob`, `writeFile`, `removeIfExists`, `decrementBlobRefs`, the two directory sweeps, `combinedBlobSource` | the reference counts agree with the tree, and every hash the tree names is listed and readable |
| editing one image (`main.go: run`) | the above, loaded registry hives, the output | read the export, run the stages, save the hives, rebuild the table, create and write the output | the output reads back as the edited files; it is not touched before everything that can be checked has been |
| command line and stages (`main.go`, `bootwim.go`, `isoimage.go`) | files: cached export, `-out`, temporary boot export, `-boot-wim-out`, the media tree, the ISO | `main`, `run`, `shrinkBootWim`, `buildISO` in that order, each ending in `log.Fatal` on an error | a run that says it succeeded left complete outputs of what it was asked for |
| install image stages (`appx.go`, `services.go`, `regtweaks.go`, `winsxs.go`, `filecleanup.go`) | provisioned apps, WinSxS, services, recovery image | one function each, in the order of `run()`, switched by flags | nothing left depends on what was removed, whichever flags were given |
| servicing packages (`packages.go`) | manifests and catalogs in the tree, the blob table | one pass over a directory listing: match, read, remove | manifest and catalog go together, nothing still to be read becomes unreadable, what the flags keep stays |
| file cleanup (`filecleanup.go`) | files of the tree | sweeps and lists in a fixed order, switched by seven flags | what OOBE, the network and the shell need stays under every combination |
| boot.wim shrinking (`bootwim.go`) | setup image's tree, `toRemove` | registry tweaks, locale trim, file cleanup | exactly the foreign language payload goes, and nothing is removed twice |
| ISO authoring (`isoimage.go`, `isobloat.go`) | the extracted media tree, boot entries, ISO | delete the chunk data, place the answer file, clean the root, remove extras, stage boot images, author | the ISO is what this run's flags ask for, whatever earlier runs left |
| GRUB FAT image (`fatimg.go`) | a byte buffer | `buildGrubFATImage` | firmware takes it for FAT16 and finds the file |
| recovery stub (`filecleanup.go`) | a donor file, `winre.wim` | extract the donor, graft a stub, remove the donor | an image Setup could use stays usable |
| answer file (`autounattend.go`) | none | written into the image and onto the ISO | it is the embedded one, unless skipped |

### How they interact

- `main` calls the three stages in order; they share no memory, only files.
  `run` leaves `<out>.export.tmp` for later runs to reuse; `shrinkBootWim` always
  makes its own and removes it; `buildISO` copies what the two produced into the
  media tree, which it edits in place and which the next run finds that way.
- Inside a run, every stage gets the same tree and table and may only change them
  through `treeutil.go`.  Registry stages change hives held in memory, which become
  files only in the save loop at the end.  `wim.RebuildBlobTable` recounts the table
  from the tree, and the output is created after that.
- The recovery image is read (as a donor) before the stage that replaces it.

### What is hard

There is no concurrency inside a process.  The hazards, each with its line in
`PROJECT.json` under `hazards`, are these: files of earlier, failed or killed runs
that a later run finds (the cached export, the edited media tree); a removal that
fails after its counts were given up, with a warning, in a run that goes on; unsigned counters; a list of removals computed
before any is done; paths on one command line that name the same file or lie in the
tree being edited; an error that only `Close` reports; patterns that overlap; the order of stages; content looked up by a
hash that only the table still knows; flags that imply one another; FAT arithmetic at its
limits.

## 2. Modules, and how they correspond to the code

```
 BlobTable  <--  WimImage  --refines-->  FileStore      Pipeline   (files, runs, kills)
    ^  ^            ^                      ^            BuildIso --refines--> IsoOutput
    |  |            +-- WimImageProofs     |            Debloat    (stages of run())
    |  +--- BlobTableProofs --^            |            Cleanup    (what its files are)
    +------ BootWim  -------refines--------+            FatImage
    +------ Packages
```

Every component has a module of proofs that EXTENDS it: `<component>Proofs`, and
`StagesProofs` for Debloat and Cleanup together, for whose sake Cleanup's specification
has names of its own (`CleanupSpec`, `stages` for the flags, `at` for the position).
Those of WimImage, BootWim and Packages extend BlobTableProofs as well, whose lemmas
they share.

**BlobTable** has no variables: a tree is a function from paths to hashes (`Absent`
for no file, `Zero` for an empty one), a table says which hashes are listed and how
often each is counted.  `AddBlob` is `addBlob`, `DecrementBlobRefs` is
`decrementBlobRefs` with the guard on `RefCount > 0`, `Rebuilt` is what
`wim.RebuildBlobTable` yields.  Content and its SHA-1 hash are identified.

**WimImage** is one image from export to output.  `tree`, `bt`, `newBlobs` are the
variables of the same names in `run` (`root`, `bt2`, `newBlobs`), `source` the
hashes with a resource in the export, `hive` what each hive in memory would
serialise to, `unsaved` the hives still to be saved, `sweep` the children a
directory sweep has selected and not yet visited, `out` the output.  Stages are
sequences of `WriteFile`, `RemoveIfExists`, sweeps and `TweakHive` in any order,
so what holds of all of them holds of the order `run` uses.  A sweep's removal may
fail after `decrementBlobRefs` ran (`SweepWarns`): the code warns and goes on, and
`drift` remembers.  `SaveHive` keeps the new data only if the table did not list the
hash, as the code does.  `Rebuild` and `WriteOut` fail exactly when a hash cannot be
resolved.  `Abort` stands for every other error return.

**FileStore** is what that promises: files are edited, then the output is truncated,
then the files are published as they stand.  `WimImage!ImplementsFileStore` maps a
path to the hive in memory until the hive is saved, and the published files to what
reading the output's own tree through its own table gives.

**BootWim** is the editing inside `shrinkBootWim`: nested directories with arbitrary
names, packages of WinSxS with arbitrary suffixes, and files with arbitrary (so
possibly hard-linked) content.  `walked` and `packages` are the two parts of
`toRemove` in their order; `RemoveNext` on a path that is gone is the `panic` of
the removal loop.  `trimBootWimFiles` is two sweeps with the engines between them:
`SweepNext` is one child of `removeMatchingChildren`, whose counts are given up before its
removal, which may fail with a warning (`stuck` remembers it) and the sweep goes on;
`RemoveEngine` is a direct `removeIfExists`, whose failure ends the run.  `Create` is
`RebuildBlobTable` and `os.Create`, `WriteOut` the
`WriteTo` after them.  BootWim implements `FileStore` as WimImage does: a path maps to
what can be read for it through the table and `combinedBlobSource` (`Readable`).
Exporting is left to Pipeline.

**Packages** is `removePackagesMatching` on the table the other stages share.  An
identity is the sequence of its parts, so that "matches a prefix" is `IsPrefix`, and
`PackagePatterns` is the list of the source, flag and language included.  A package has
a manifest, perhaps a catalog, and the catalog's copy in CatRoot, whose contents may
coincide in any way; `RemovePackage` reads the manifest through the table, which may
fail, and removes the pair.  The paths of BlobTable are those of the three files of every
package (`ServicingPath`).

**Cleanup** is `runAggressiveFileCleanup` without the recovery image and the WebView
component (Debloat).  A file stands for all that the same patterns and flags
decide about; where two lists overlap, where one is a prefix of another, or where a
comment says that something stays, there is a file for it.  `Step` is the order of the
function; a sweep may leave files behind with a warning, a list may not.

**Debloat** is `run()`'s stages for what they mean rather than which paths they name:
keyword tiers, frameworks and the apps no keyword names (`Other`), donor and stub, WinSxS and architecture names, update
services between two stages that both touch them.  One action is one stage, or one
family in the AppX loop.  `SweepSxs` is either of the two sweeps of WinSxS: any of the
entries it found may stay with a warning (`unswept`), as a family may (`warned`).

**Pipeline** is the disk.  `disk` has a file for each path a command line may name: the
two WIMs as extracted, outputs outside the media tree, one at its root, and the tree's
own two WIMs, each missing, partly written or whole; `export` the `.export.tmp` beside
it.  `args` is the command line, in which `-wim`, `-out`, `-boot-wim`, `-boot-wim-out` and
the two `-iso-*-wim` overrides may name the same path; `pc` is the step `main` is at.
Each step that writes may fail with part of its output on disk; `Killed` may happen at
any step; `Start` begins another run with any command line.  `Cache` takes any
non-empty export; `Open` needs the blob table and XML data that end a WIM, so a
partial export is an error.  An index above 1 does not exist in a WIM this program
wrote, and a boot.wim it wrote is no longer one to shrink (`ImageAt`, `BootExport`).
`WriteOutput` is `WriteTo` with the deferred `Close`: its third outcome is an error that
only `Close` reports, which the program does not see; `lost` remembers it, so that the
invariants can say what holds otherwise.

**BuildIso** is what `buildISO` does to the media tree, one file for each way the
stage treats files, over runs that may stop anywhere.  `BiosBootEntry` is the El Torito
entry with its table and its load size.

**IsoOutput** is what that promises of the file at `-iso-out`: it is as it was, damaged,
or boots exactly as the flags of the run that wrote it say.
`BuildIso!ImplementsOutput` maps it from what the recorded tree and the entries lead
firmware to, not from which step ran.

**FatImage** is `buildGrubFATImage`: BPB fields (with the 16-bit truncations of the
code), the loop over the chain, the extents copied.  The reader at the module's end
computes what firmware finds from the boot sector alone; it shares no offset with
the writer.

Definitions beside a mapped one whose comment states a slip ("The loop run once too
often", "addBlob that forgets to give up the replaced stream") are not used by any
specification.  Each is a plausible bug in the definition that follows it, kept to
show that a property notices it; `mutants` in `PROJECT.json` pairs them with the
property each one breaks.

## 3. What the runs check

| run | states | shows |
|---|---|---|
| `wim_image` | 184 000 | any order of writes, nested removals, failing sweeps, hive edits and saves keeps the counts exact (`RefsExact`, bounded by the tree if a removal failed: `RefsNeverExceedTree`), every hash resolvable (`TreeReadable`), the output late (`OutputLate`) and a plain file store implemented (`ImplementsFileStore`) |
| `boot_wim` | 3 380 000 | for every naming of nested directories, every sharing of content and every removal that fails: no removal finds its path gone and the image can be written (`NeverPanics`), the counts are exact but for files a sweep could not remove (`RefsExact`), the output has exactly the files it should and those a warning names (`OutputIsTrimmed`), blobs only foreign copies used are not in it (`ForeignPayloadDropped`), and a plain file store is implemented (`ImplementsFileStore`) |
| `debloat` | 740 000 | every flag combination, architecture, recovery image and failing removal: no app without its frameworks but as the flag, a warning or the keyword lists explain (`NoAppStranded`), the update services off (`UpdateIsOff`), the recovery image still usable (`RecoveryUsable`), WinSxS reduced to its keep list and what a warning names, and no further (`WinSxSWiped`) |
| `packages` | 60 000 | any two packages of fourteen identities with any sharing of content: counts exact with respect to CatRoot's copies too, and no manifest unreadable when its turn comes (`NeverUnreadable`); nothing a flag or the image's language keeps is matched by another pattern but an input method's (`KeptAsSaid`) |
| `cleanup` | 134 000 | all 128 combinations of the stage's flags, with files missing and removals failing: each of the two parts OOBE needs goes by its own flag alone, the network stack always stays and the drivers when asked, two overlapping font sweeps leave what the shell draws with (`EssentialsStay`) |
| `pipeline` | 1 090 000 | two runs on one disk, whose paths may coincide, failing or killed anywhere: success means complete outputs (`SuccessMeansWhole`), of the image asked for if the run made its own export (`FreshRunGivesAskedImage`), an ISO with the WIMs the flags name or this run wrote (`IsoHoldsThisRunsWims`), no temporary boot export left, and no stale export on the ISO from anywhere but beside the tree's own WIMs (`ExportsCleaned`); beside an output, damaged or not, stands the whole export it was made from, unless it is one of the tree's WIMs (`OutputsHaveExports`) |
| `build_iso` | 413 000 | two runs with any flags on one tree: its root is trimmed and its answer file the embedded one (`RootTrimmed`), the file at `-iso-out` is not touched before flags, root, extras, answer file and GRUB images are as the run asks (`TreePreparedFirst`; it says nothing of Windows' own boot images, section 5), and the file is the earlier one, damaged, or boots what this run asked for (`ImplementsOutput`) |
| `fat_image` | 11 000 | every file length through the limit and past it: chain, cluster count, reader and disjoint extents |
| `pipeline_asked`, `pipeline_close`, `boot_wim_tags`, `debloat_webview` | until violated | section 5 |

### Bounds, and why they are enough

- `wim_image`: two removable files in a directory, one outside it, one hive, two
  hashes.  The bookkeeping treats paths and hashes one at a time: sharing needs two
  files, replacement by already-listed content two hashes, nesting one directory and
  one file inside it.  The theorems of section 4 hold for any number.
- `boot_wim`: three levels of nested directories, the outermost a package, plus a
  speech engine with a directory in it, one font and one storage driver.  That has every pair the removal list can
  contain: collected inside collected, collected inside a package, both, and an
  engine thinned earlier.  Hashes are symmetric: no action or property names one.
- `debloat`: one family per tier, and one of none, is enough: families of a tier are
  treated alike and the framework is needed by an app of each.
- `pipeline`: two runs, one to leave something and one to trip over it; what a run finds
  is determined by the disk, and every disk a run can leave, killed and failed runs
  included, is one the second run starts from.  Two images (`MaxImage`), one to confuse
  with the other.  `Outs` is no `-out`, one outside the tree, one at the tree's root, from
  where it is deleted, and the tree's own install.wim; `WimArgs`, `BootArgs` and
  `IsoArgs` have one command line for each way the paths may be given or coincide.
- `packages`: two packages at once (`MaxPresent`), since sharing and interference are between
  two; identities for every group of patterns and every exception, two hashes, two languages.
- `cleanup`: `Missing` has one essential file and one vendor driver, `MaxLeft` two
  failed removals, one for each of the two font sweeps.
- `build_iso`: two runs (`MaxRuns`), since a run's effect on the tree is determined by its
  flags and where it stopped, and `status = "ok"` can be reached from any tree the
  first one leaves.
- `fat_image`: sectors of 8 bytes and entries of 6 bits, so that the end of the
  cluster range, the 16-bit sector count and the reserved entry values all lie
  within reach; `MaxLen` lets the file pass the limit by two clusters.

Deadlock is not checked: every model ends (a finished run, a bounded number of runs).

### Fairness

None is assumed, and no liveness is stated.  The program has no retry, no wait and no loop
but over what it has read beforehand (a directory listing, a list of patterns, the entries
of a table), so that it ends if the calls it makes return: its position only moves forward,
in the code as in every model, and a property that says so would say nothing about the code.

## 4. What is proved

With the TLA+ proof system, for every value of the constants the assumptions admit.
Each module of proofs has the same shape: an inductive invariant `IInv`, the lemmas that
`Init` establishes it (`InitInv`) and every step keeps it (`NextInv`, one case or lemma for
each action), `Invariance`, and one theorem for each property.  TLC checked each `IInv` on
the bounds of section 3 before it was proved.  The assumptions are named in the modules that
declare the constants; TLC evaluates them in every run.

| property | theorem | module |
|---|---|---|
| `TypeOK` of seven components, `CleanupTypeOK` | `TypeCorrect`, `CleanupTypeCorrect` | each but BlobTableProofs, which has no variables |
| `RefsNeverExceedTree`, `RefsExact`, `TreeReadable`, `OutputLate`, `ImplementsFileStore` | `RefsBoundedByTree`, `RefsExactUnlessDrift`, `TreeAlwaysReadable`, `OutputTouchedLate`, `Refinement` | WimImageProofs |
| `NeverPanics`, `RefsExact`, `OutputIsTrimmed`, `ForeignPayloadDropped`, `ImplementsFileStore` | `PanicUnreachable`, `CountsExact`, `OutputExactlyTrimmed`, `ForeignContentDropped`, `Refinement` | BootWimProofs |
| `NeverUnreadable`, `KeptAsSaid` | `AlwaysReadable`, `SaidPackagesKept` | PackagesProofs |
| `SuccessMeansWhole`, `FreshRunGivesAskedImage`, `IsoHoldsThisRunsWims`, `ExportsCleaned`, `OutputsHaveExports` | `SuccessIsWhole`, `FreshRunIsRight`, `IsoIsThisRuns`, `ExportsGone`, `OutputsAlwaysHaveExports` | PipelineProofs |
| `RootTrimmed`, `TreePreparedFirst`, `ImplementsOutput` | `IsoIsTrimmed`, `IsoAfterTheTree`, `Refinement` | BuildIsoProofs |
| `NoAppStranded`, `UpdateIsOff`, `RecoveryUsable`, `WinSxSWiped` | `NoneStranded`, `UpdateStaysOff`, `RecoveryStaysUsable`, `WinSxSIsWiped` | StagesProofs |
| `EssentialsStay` | `EssentialsAlwaysStay` | StagesProofs |
| `ChainReadsFile`, `CountsAsFAT16`, `ReaderFindsFile`, `ExtentsDisjoint` | `ChainCorrect`, `AlwaysFAT16`, `ReaderAlwaysFindsFile`, `NothingOverlaps` | FatImageProofs |

So every property of the passing runs is a theorem.  These are proved
besides; no run lists them, and TLC agreed with each on the bounds of section 3 first:

| theorem | says | module |
|---|---|---|
| `DecrementFollowsRemoval`, `AddBlobFollowsWrite` | the incremental counts follow the edits of a tree | BlobTableProofs |
| `RemovalsCompose` | removals one after the other, nested or overlapping, amount to one removal of all their files, in the table as in the tree | BlobTableProofs |
| `ChosenAndNoOthersGo` | the packages stage removes exactly the packages its patterns select, manifest and catalog together, and no other file | PackagesProofs |
| `NothingElseChanges` | no step writes a file but an output of its run, from a whole export, or what `-iso-dir` names | PipelineProofs |
| `TreeEditedAsAsked` | no step takes from the media tree or overwrites in it what the flags of its own run do not say | BuildIsoProofs |
| `RefusalIsExact` | an application is refused only if it is empty or does not fit a FAT16 volume, and then always | FatImageProofs |

**BlobTableProofs** (from `BlobAssumption`: finitely many paths, `Zero` and `Absent`
are no hashes).  `DecrementFollowsRemoval` and `AddBlobFollowsWrite`: the two
incremental operations follow the two tree edits.  If the counts were exact they
are exact, if they were at most what the tree has they still are.  The guard on
`RefCount > 0` is what makes the second half hold.  `RebuiltExact` is the same of
the recount; `NeededAfterRemoval` and `NeededAfterWrite` bound what a tree needs after
an edit.  The three image editors cite them.  `RemovalsCompose` is why neither the
order of removals nor how a directory is cut up into them matters, even where one names
what another has already taken: a count is given up once for each reference the tree
still has.

**WimImageProofs** (and `WimAssumption`: hives lie outside the subtrees the stages
remove).  `IInv == Sound /\ Counted /\ Staged`.
- `Sound` strengthens `TreeReadable` from what the tree needs to everything the
  table lists.  It has to: `SaveHive` drops new data when the table already lists
  the hash, although no file may use it any more, so readability of what is merely
  listed is what a later step relies on.
- `Counted` is both counting properties at once; without `Bounded`, a count that had
  drifted would leave nothing to say after the next decrement.
- `Staged` ties the output and the unsaved hives to the place the run is at.

For `Refinement`, each step is an `Edit`, `Truncate` or `Publish` of FileStore or a
stutter.  The saving of a hive maps to a stutter because its file already read as the hive
in memory, and publishing to the files as they stand because the rebuilt table lists what
the tree needs.

**BootWimProofs** (from `BootWimAssumption`: finitely many directories; nesting is
transitive and without cycles; the hives, the files the sweeps look for and the packages of
WinSxS, which are entries of WinSxS itself, lie in no directory that can be collected; the
two sweeps look in different directories; an untouched and a damaged
output are two things, neither of them an image).  `IInv` says what is left of the image at
each step: `Trimming` determines `dirs` and `tree` from the
items of the removal list already done (`Removed`).  `NeverPanics` alone is far from
inductive: that the next item is still there needs that the walk collects only outermost
foreign directories (`Top`), that no package lies in one, and that the packages go last.
`TopCovers` is what makes stopping at the outermost enough: every foreign directory is one
of them or lies in one, by well-founded descent along the nesting, so that removing the
list takes exactly `Doomed`.
A removal that fails makes table and tree differ, so `Sound`'s exactness is of `Live`, the
tree without the files whose counts were given up and that are still there: a sweep's
removal, failing or not, takes one file from `Live`, which is what `DecrementFollowsRemoval`
needs.  It also needs that the same file is not given up twice, which is why a sweep's files
must lie outside the directories and the other sweep (`SweptIsApart`).  `After` brackets the
tree between what must be gone and what may be (`Between`), until the last sweep closes the
two to `Goal`.  `Warned` keeps a run that goes on from having left an engine behind.
`Refinement` reads a file through table and written blobs as WimImage's does.

**PackagesProofs** (from `PackagesAssumption`: identities are non-empty sequences of
parts, and the paths are their three files).  `IInv` adds to `TypeOK` that the table is
exact, that it lists what the tree needs, and that a package gone was selected.
`AlwaysReadable` follows from the second: a manifest still in the tree is needed, whatever
content it shares with one removed.  `PatternsKeep` does not depend on the identities in an
image: comparing parts by their position in a pattern, it shows that no exact or prefix
pattern takes what the flags, the language and the exclusions keep.  The patterns of the
input methods do: they look anywhere in an identity (`*IME-ja-jp*`), so a language feature
or Defender package whose name has such a part goes in any case.  `KeptAsSaid` excepts them,
and the run has an identity of that kind.  `ChosenAndNoOthersGo` needs a second invariant,
`OnlyPairsGone`: the tree is at each step the exported one without the pairs of the chosen
packages whose turn has been.  It determines the tree, so that removing a file of a package
not chosen, or leaving one of a pair, contradicts it whichever package is next.

**PipelineProofs** (from `PipelineAssumption`, which bounds nothing but `-out`: as many
images and runs as one likes).  `IInv` holds about a run only what that run did:
`BootStage`, `WimStage` and `IsoStage` each say, for every later step, what the stage left
on disk, so that a kill or a failure, after which nothing is claimed, ends all of them and
`Start` begins from any disk of the right type.  `Good` is the output's state as
`SuccessMeansWhole` and `FreshRunGivesAskedImage` need it, kept through the copying of the WIMs
over the tree's own, the one place where a later stage may overwrite an earlier one's output,
and through the cleaning, which may delete it (`rootOut`).

Two theorems say what holds across failures and kills, where `IInv` says nothing.
`OutputsHaveExports` is an invariant of the disk alone; it needs `FreshExports`, that while
a stage is under way its own export is what it just made or checked.  So a run that
`main.go:331` refuses (section 5) has not lost the image, if `-out` is outside the tree's
sources: the export it would have used is there, whole.
`OnlyOutputsChange` is an action property: `MayWrite` gives, for each step, the paths it may
write and the state of what they are written from.

**BuildIsoProofs** (any number of runs).  `Trimmed` carries, step by step, that what
`CleanRoot` and `RemoveExtra` have not yet deleted is in `todo`, `Staged` what the boot
entries name and that the file they name is this run's, `Iso` that the recorded tree is the
tree.  Nothing is said of the tree between runs except `Media`: what the media had and no
run removes.  `Refinement` maps each step to `IsoOutput`'s damaging or writing of the
file, or to a stutter.  `TreeEdits` is about every step of every run, failed ones included:
`MayTake` and `MayPut` say which file a step may take or write under the current flags.
Its invariant is `ExtrasKept`, that a run with `-keep-iso-extras` has no extra on its list
of things to remove: what such a run finds missing (section 5) it did not remove itself.

**StagesProofs** (from `DebloatAssumption`: families match one tier, apps depend on
frameworks).  For Debloat,  `IInv` keeps what each stage brought about until the end of `run()`: `AppsLeft`
the families still to be visited while the loop runs and those warned of, `SxsLeft` with the
entries warned of, `ServicesLeft`, whose
second half must outlast a tweak stage that comes before it, and `RecoveryLeft`, that a
donor taken from the image is the recovery image as it was.

For Cleanup, whatever `Missing` and however large `MaxLeft`, `CleanupIInv` adds `LeftSwept`
to the properties.  `EssentialsStay` alone is not inductive: a sweep that fails
leaves files which a later list could name.  `LeftSwept` bounds what was left by the sweeps
that are over, and no list names a file of theirs.  `Spared` is the condition on a sweep or
list under which `EssentialsStay` survives it; each stage then only has to show that its own
patterns meet it.

**FatImageProofs** (from `FatAssumption`, which the constants of `fatimg.go` satisfy:
512-byte sectors, 4200 clusters at least, 16-bit entries).  `CeilDivProps`,
`TwoPerSector` and `Sizes` do the arithmetic: the table covers its entries, its
sector count fits 16 bits, the cluster limit keeps links below the reserved values.  `IInv`
describes the partly linked chain by the loop index.  `LayoutInBytes` turns sectors and
clusters into byte offsets, from which `NothingOverlaps` compares neighbours.
`FitsIfSized` turns the code's comparison of rounded clusters into the comparison of bytes
that `RefusalIsExact` states.

Only model-checked are the four violations of section 5: those properties are false.

## 5. Where the code and its words differ

| run | code | words |
|---|---|---|
| `pipeline_asked` | `main.go:368` reuses any non-empty `<out>.export.tmp`, so a second run with another `-image` debloats the first one's | `main.go:199`: "1-based image index to debloat" |
| `boot_wim_tags` | `bootwim.go:193` does not match a tag with a script (`sr-Latn-RS`) | `bootwim.go:200-201`: "every non-en-US locale-named directory" |
| `debloat_webview` | `filecleanup.go:735` looks for `x64_...`, component directories start with `amd64_` | `filecleanup.go:733`: "Removing Edge WebView WinSxS component..." |
| `pipeline_close` | `main.go:544` defers `Close` of the output and drops its error: a damaged WIM, exit status 0, and the ISO stage places it | `main.go:558`: "Wrote debloated single-image WIM to %s" |

In the first, the program's comment (`main.go:361-366`) does say that the export is
reused as it is, not that `-image` then has no effect.  `debloat_webview` is hidden by
default, because the WinSxS wipe takes the component anyway.  `pipeline_close` is the
one a user cannot avoid by a choice of flags.

Met while modelling, and visible in the modules, but with no run of their own, because
each follows from one line or needs unusual flags:
- `main.go:331` reads `-wim` before the cached export is looked for.  When the run
  overwrites that file (it is `-out`, or the tree's own install.wim) and is stopped
  there, the same command fails although the export is whole; `main.go:364-365` keeps it
  "so a subsequent run fixing something downstream doesn't have to pay for it again".
- `main.go:367` puts the export beside `-out`; if that is `sources/install.wim` of the media
  tree, the export is recorded into the ISO (`ExportsCleaned` allows it).  `isoimage.go:177-178`
  removes another leftover because "it would otherwise be recorded into the image".
- `isoimage.go:361` deletes an `-out` at the tree's root, and its export, in a run that
  succeeds (`SuccessMeansWhole` excepts it).
- `isoimage.go:183`: `-skip-iso-autounattend` skips only the write; a copy an earlier run
  placed is on the keep list.
- `isoimage.go:200` removes the extras from the tree itself, so that `-keep-iso-extras` in
  a later run has nothing to keep; `isobloat.go:13-14` wants a regression to stay "bisectable".
- `isoimage.go:333` truncates the file at `-iso-out` before `WriteTo` looks for the boot
  images.  For a tree without `etfsboot.com` (ARM media), without the two `-grub-bios-*` flags,
  the earlier ISO is lost to a run that then fails (`WriteTo` of BuildIso;
  `TreePreparedFirst` does not promise otherwise).
- `main.go:304`: a run with `-iso-dir` alone authors the tree as it is, an
  `install.wim` that an interrupted copy truncated included; `SuccessMeansWhole` and
  `IsoHoldsThisRunsWims` speak of the WIMs the run itself was told to place.
- `appx.go:118` only warns when an app cannot be removed, and the frameworks it needs go
  all the same (`NoAppStranded` allows it to the apps warned of).
- `appx.go:100`: a provisioned app that no keyword of any tier names stays, also when
  `-remove-uwp-frameworks` takes the frameworks it needs, and no warning says so
  (`NoAppStranded` allows it to `Other`); `main.go:114-116` implies `-remove-store-apps` because
  "removing frameworks while apps still need them would break those apps".
- `treeutil.go:146` and 180: an entry a sweep cannot remove stays in the image of a run that
  ends well, its counts gone; the rebuilt table counts it again.
- `packages.go:31`, 33, 34 and 84-87 carry patterns the comment at 119 lists as "deliberately
  NOT carried over".
- `filecleanup.go:583` cuts resources of packages also with `-skip-packages`, and 597 Defender's
  program files also with `-keep-defender-search`; 582 says that their owner "is genuinely
  gone".

## 6. Assumptions, and what is not modelled

What the models take from code outside `src/`:
- `wim.ReadDir` gives a copy of the children, so a sweep may remove while it goes
  over it; `root.Remove` removes an entry with everything below it or nothing; for a path the
  locale trim has just found in the live tree it does not fail.
- `wim.RebuildBlobTable` recounts from the tree and fails on a hash the table lacks;
  `WriteTo` reads every listed blob.
- `wim.Export` of one image holds exactly the blobs that image references.
- Opening a WIM whose end is missing fails, since table and XML data are at its end.
- `component.Remove` deletes a package's manifest and the catalog beside it, giving up
  their counts; the copies in CatRoot stay.
- A media tree is spelt as on Microsoft's media, as the keep list is.
- `appx.Remove` removes a family from the tree and the hives, or fails.
- The donor's temporary file can be removed; a kill leaves it, as it leaves any temporary file.
- A FAT reader follows Microsoft's FAT specification for FAT16.

Abstracted: paths and patterns are sets of entries, hive contents are hashes, sizes
are left out except in FatImage, logging and progress are left out.

Not modelled, with reasons:
- the values of the registry tweaks other than the update services': constants written
  once, which no property tells apart;
- the spelling of each path, driver family and font: Cleanup has one file for all that
  are treated alike;
- LZX compression, WIM, registry and ISO 9660/UDF formats: in `gowim`;
- `measure_test.go`, `fatimg_test.go`: tests;
- `contrib/grub/build-grub.sh`: builds an external binary;
- volume names, dates and the hybrid MBR switch;
- what the directory entries of the FAT image say (`fatimg.go:137`, 144-154): FatImage covers
  where they lie, and its reader starts from the clusters 2, 3 and 4 they name;
- two runs at the same time on one disk: nothing in the program is meant for it.

## 7. Plan

Order of the modules, the most important behaviour first.  Done: 1 to 11.

1. `BlobTable`, `WimImage`, `FileStore`, with the proofs: every output depends on them.
2. `FatImage`, with the proofs: small, and all edges.
3. `Pipeline`: runs, failures, kills.
4. `BuildIso`: the tree edited in place.
5. `BootWim`: nested removals.
6. `Debloat`: the order and implications of stages.
7. Pipeline with paths: a `Close` that fails after `WriteTo`, the two `-iso-*-wim`
   overrides, outputs and sources in the media tree.
8. `Packages` on BlobTable, and `Cleanup`.
9. BootWim as a refinement of FileStore, `IsoOutput` as what BuildIso implements.
10. Proofs, on top of the lemmas of BlobTableProofs where the counts are involved:
    BootWim, Packages, then Pipeline, BuildIso, Debloat, and `ExtentsDisjoint`.
11. Cleanup's invariants; what holds across failures and kills in Pipeline and BuildIso;
    the exact outcome of Packages and of FatImage's checks; the composition of removals.

A change to the source that adds a stage, a list
of patterns or a path to the command line belongs in the module named for it in section 2,
and the lemma of that step in its proofs will say what the stage must preserve.
