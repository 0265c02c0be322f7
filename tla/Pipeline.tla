------------------------------ MODULE Pipeline ------------------------------
(***************************************************************************)
(* The command line program over several runs on one disk (main.go, the    *)
(* skeletons of run(), shrinkBootWim and buildISO, copyFileInto): which    *)
(* file each stage reads and writes, what a failed stage leaves behind,    *)
(* what the next run finds, and what a killed process leaves.  The paths   *)
(* on a command line may name the same file, and may lie in the media tree *)
(* that is edited in place.  What the stages do inside an image is         *)
(* WimImage's subject.                                                     *)
(***************************************************************************)
EXTENDS Integers

CONSTANTS
    MaxImage,   \* images in the install.wim as it was extracted
    Outs,       \* the values tried for -out
    MaxRuns     \* bound: runs of the program

\* Paths: the two WIMs as they were extracted, outside the tree; outputs
\* outside it; a file at the root of -iso-dir; and the tree's own two WIMs.
Path == {"src", "bootSrc", "out", "bootOut", "rootOut", "treeWim", "treeBoot"}
No == "none"      \* a flag that is not given

ASSUME PipelineAssumption ==
    /\ MaxImage \in Nat \ {0} /\ MaxRuns \in Nat
    /\ Outs \subseteq {No, "out", "rootOut", "treeWim"}

Image == 1..MaxImage
List == 0         \* -image 0
NoWim == -1       \* -wim is not given

\* What a WIM holds: every image it was extracted with, the one image of that
\* number, or the setup image.
Media == 0
Setup == -1
Content == Image \cup {Media, Setup}

\* A file is missing, or empty, partly written, or whole.
NoFile == [state |-> "none", of |-> Media]
Part(x) == [state |-> "part", of |-> x]
Whole(x) == [state |-> "whole", of |-> x]
Files == [state : {"none", "part", "whole"}, of : Content]

\* The image at an index of a WIM, if it has one: a WIM with a single image
\* has index 1 only.
ImageAt(file, i) == IF file.state # "whole" THEN {}
                    ELSE IF file.of = Media THEN {i}
                    ELSE IF i = 1 THEN {file.of} ELSE {}

\* What the user asks for, a flag forgotten included.  image is NoWim without -wim.
WimArgs == [image : {NoWim}, wim : {"src"}, out : {No}]
             \cup [image : {List}, wim : {"treeWim"}, out : {No}]
             \cup [image : Image, wim : {"src"}, out : Outs]
             \cup [image : {1}, wim : {"treeWim"}, out : Outs]
BootArgs == [boot : {No}, bootOut : {No, "bootOut"}]
              \cup [boot : {"bootSrc"}, bootOut : {No, "bootOut"}]
              \cup [boot : {"treeBoot"}, bootOut : {"treeBoot"}]
IsoArgs == [iso : {FALSE}, isoOut : {FALSE}, isoWim : {No}, isoBoot : {No}]
             \cup [iso : {TRUE}, isoOut : BOOLEAN, isoWim : {No}, isoBoot : {No}]
             \cup [iso : {TRUE}, isoOut : {TRUE}, isoWim : {"out"}, isoBoot : {No}]
             \cup [iso : {TRUE}, isoOut : {TRUE}, isoWim : {No}, isoBoot : {"bootOut"}]

VARIABLES
    args,       \* the current run's command line: three records
    pc,         \* the step it is at
    status,     \* how the last run ended, or "running"
    runs,       \* runs started
    disk,       \* the file at each path
    export,     \* the file at <path>.export.tmp
    recorded,   \* what AddTree found in the tree: its WIMs, the exports in it
    iso,        \* -iso-out as this run leaves it: none written, part or whole
    reused,     \* history: this run took the export of an earlier one
    asked,      \* history: the image -image named when this run started
    lost        \* history: outputs of this run whose Close failed

history == <<reused, asked, lost>>
files == <<disk, export, recorded, iso>>
vars == <<args, pc, status, runs, disk, export, recorded, iso, reused, asked, lost>>

w == args.wim
b == args.boot
i == args.iso

NothingRecorded == [wim |-> NoFile, boot |-> NoFile, exports |-> {}]

Init ==
    /\ args = [wim |-> [image |-> NoWim, wim |-> "src", out |-> No],
               boot |-> [boot |-> No, bootOut |-> No],
               iso |-> [iso |-> FALSE, isoOut |-> FALSE, isoWim |-> No, isoBoot |-> No]]
    /\ pc = "idle" /\ status = "none" /\ runs = 0
    /\ disk = [p \in Path |-> IF p \in {"src", "bootSrc", "treeWim", "treeBoot"}
                              THEN Whole(Media) ELSE NoFile]
    /\ export = [p \in Path |-> NoFile]
    /\ recorded = NothingRecorded /\ iso = "none"
    /\ reused = FALSE /\ asked = {} /\ lost = {}

-----------------------------------------------------------------------------
(* Going on, failing, being killed. *)

Goto(step) == pc' = step /\ UNCHANGED <<args, status, runs>>

End(how) == pc' = "idle" /\ status' = how /\ UNCHANGED <<args, runs>>

\* An error that main() does not report.
FailSilently == pc' = "idle" /\ UNCHANGED <<args, runs, status>>

\* log.Fatal; for the disk and for later runs being killed is the same.
Fail == End("stopped")

\* main() reaches its end.
Exit == End("ok")

\* A new run is started by the user.
Start ==
    /\ pc = "idle" /\ runs < MaxRuns
    /\ args' \in [wim : WimArgs, boot : BootArgs, iso : IsoArgs]
    /\ runs' = runs + 1 /\ status' = "running" /\ pc' = "boot"
    /\ recorded' = NothingRecorded /\ iso' = "none"
    /\ reused' = FALSE /\ asked' = {} /\ lost' = {}
    /\ UNCHANGED <<disk, export>>

\* The process is killed, or the machine stops, at any step.
Killed ==
    /\ pc # "idle"
    /\ Fail
    /\ UNCHANGED <<files, history>>

\* The file at out is written to its end as content x; the system may report
\* an error, or only report it to the deferred Close, which ignores it.
WriteOutput(out, x, next) ==
    \/ disk' = [disk EXCEPT ![out] = Whole(x)] /\ Goto(next) /\ UNCHANGED lost
    \/ Fail /\ UNCHANGED <<disk, lost>>
    \/ Goto(next) /\ lost' = lost \cup {out} /\ UNCHANGED disk

-----------------------------------------------------------------------------
(* -boot-wim: shrinkBootWim. *)

\* main.go:279-296, with the check that something was asked for.
Boot ==
    /\ pc = "boot"
    /\ IF b.boot # No THEN IF b.bootOut # No THEN Goto("bootExport") ELSE Fail
       ELSE IF w.image = NoWim /\ ~i.iso THEN Fail ELSE Goto("wim")
    /\ UNCHANGED <<files, history>>

\* exportBootSetupImage makes the export afresh from a WIM that still has both
\* of its images; a failure returns before the deferred os.Remove is set up.
BootExport ==
    /\ pc = "bootExport"
    /\ \/ disk[b.boot] = Whole(Media) /\ Goto("bootOpen")
          /\ export' \in {[export EXCEPT ![b.bootOut] = f] : f \in {Whole(Setup), Part(Setup)}}
       \/ disk[b.boot] = Whole(Media) /\ export' = [export EXCEPT ![b.bootOut] = Part(Setup)] /\ Fail
       \/ UNCHANGED export /\ Fail
    /\ UNCHANGED <<disk, recorded, iso, history>>

\* Opening the export, which fails for a damaged one, and all the trimming of
\* it; os.Create comes last.
BootOpen ==
    /\ pc = "bootOpen"
    /\ \/ /\ export[b.bootOut].state = "whole" /\ Goto("bootWrite")
          /\ disk' = [disk EXCEPT ![b.bootOut] = Part(Setup)] /\ UNCHANGED export
       \/ export' = [export EXCEPT ![b.bootOut] = NoFile] /\ Fail /\ UNCHANGED disk
    /\ UNCHANGED <<recorded, iso, history>>

\* The deferred os.Remove forgotten.
BootWriteKeepsTmp ==
    /\ pc = "bootWrite"
    /\ WriteOutput(b.bootOut, Setup, "wim")
    /\ UNCHANGED <<export, recorded, iso, reused, asked>>

\* WriteTo; the deferred os.Remove runs on success and on error.
BootWrite ==
    /\ pc = "bootWrite"
    /\ WriteOutput(b.bootOut, Setup, "wim")
    /\ export' = [export EXCEPT ![b.bootOut] = NoFile]
    /\ UNCHANGED <<recorded, iso, reused, asked>>

-----------------------------------------------------------------------------
(* -wim: run(). *)

\* Reading and listing the source, which fails for a damaged one, and the
\* check of -out.
Wim ==
    /\ pc = "wim"
    /\ \/ w.image = NoWim /\ Goto("iso") /\ UNCHANGED asked
       \/ w.image = List /\ disk[w.wim].state = "whole" /\ Goto("iso") /\ UNCHANGED asked
       \/ /\ w.image \in Image /\ disk[w.wim].state = "whole" /\ w.out # No
          /\ asked' = ImageAt(disk[w.wim], w.image) /\ Goto("cache")
       \/ w.image # NoWim /\ Fail /\ UNCHANGED asked
    /\ UNCHANGED <<files, reused, lost>>

\* An export that is there, and not empty, is reused as it is.
Cache ==
    /\ pc = "cache"
    /\ reused' = (export[w.out].state # "none")
    /\ Goto(IF reused' THEN "open" ELSE "export")
    /\ UNCHANGED <<files, asked, lost>>

\* exportImage asked for another index than -image.
ExportOther ==
    /\ pc = "export"
    /\ \/ \E x \in Image : export' = [export EXCEPT ![w.out] = Whole(x)] /\ Goto("open")
       \/ UNCHANGED export /\ Fail
    /\ UNCHANGED <<disk, recorded, iso, history>>

\* exportImage: a failure leaves what was written, an index that is not there
\* an empty file; an error of the deferred Close is ignored.
Export ==
    /\ pc = "export"
    /\ \/ \E x \in asked :
            \/ export' = [export EXCEPT ![w.out] = Whole(x)] /\ Goto("open")
            \/ export' = [export EXCEPT ![w.out] = Part(x)] /\ (Goto("open") \/ Fail)
       \/ UNCHANGED export /\ Fail
    /\ UNCHANGED <<disk, recorded, iso, history>>

\* Being killed while exporting leaves part of the export.
KilledExporting ==
    /\ \/ pc = "export" /\ \E x \in asked : export' = [export EXCEPT ![w.out] = Part(x)]
       \/ pc = "bootExport" /\ export' = [export EXCEPT ![b.bootOut] = Part(Setup)]
    /\ Fail
    /\ UNCHANGED <<disk, recorded, iso, history>>

\* The export read without its blob table having been needed.
OpenAnything ==
    /\ pc = "open"
    /\ \/ disk' = [disk EXCEPT ![w.out] = Part(export[w.out].of)] /\ Goto("write")
       \/ Fail /\ UNCHANGED disk
    /\ UNCHANGED <<export, recorded, iso, history>>

\* The export is reopened: its blob table and XML data, which end a WIM, must
\* be there, then every stage runs, and only then the output is created.
Open ==
    /\ pc = "open"
    /\ \/ /\ export[w.out].state = "whole" /\ Goto("write")
          /\ disk' = [disk EXCEPT ![w.out] = Part(export[w.out].of)]
       \/ Fail /\ UNCHANGED disk
    /\ UNCHANGED <<export, recorded, iso, history>>

\* An error of WriteTo is logged and the run goes on.
WriteWarns ==
    /\ pc = "write"
    /\ \/ disk' = [disk EXCEPT ![w.out] = Whole(export[w.out].of)]
       \/ UNCHANGED disk
    /\ Goto("iso")
    /\ UNCHANGED <<export, recorded, iso, history>>

\* WriteTo; the export stays for a later run.
Write ==
    /\ pc = "write"
    /\ WriteOutput(w.out, export[w.out].of, "iso")
    /\ UNCHANGED <<export, recorded, iso, reused, asked>>

-----------------------------------------------------------------------------
(* -iso-dir: buildISO. *)

\* The flag that overrides what this run wrote looked at last.
IsoWimOverridden == IF w.image \in Image THEN w.out ELSE i.isoWim

\* The WIMs to place: a flag, or what this run wrote (main.go:307-312).
IsoWim == IF i.isoWim # No THEN i.isoWim ELSE IF w.image \in Image THEN w.out ELSE No
IsoBoot == IF i.isoBoot # No THEN i.isoBoot ELSE b.bootOut

Iso ==
    /\ pc = "iso"
    /\ IF ~i.iso THEN Exit ELSE IF ~i.isoOut THEN Fail ELSE Goto("placeWim")
    /\ UNCHANGED <<files, history>>

\* copyFileInto: a missing source is an error, a file onto itself nothing; an
\* interrupted copy leaves a truncated file in the tree.
CopyFileInto(from, to, next) ==
    \/ from \in {No, to} /\ Goto(next) /\ UNCHANGED disk
    \/ from \notin {No, to} /\ disk[from].state # "none"
       /\ \/ disk' = [disk EXCEPT ![to] = disk[from]] /\ Goto(next)
          \/ disk' = [disk EXCEPT ![to] = Part(disk[from].of)] /\ Fail
    \/ from # No /\ Fail /\ UNCHANGED disk

PlaceWim ==
    /\ pc = "placeWim"
    /\ CopyFileInto(IsoWim, "treeWim", "placeBoot")
    /\ UNCHANGED <<export, recorded, iso, history>>

PlaceBoot ==
    /\ pc = "placeBoot"
    /\ CopyFileInto(IsoBoot, "treeBoot", "clean")
    /\ UNCHANGED <<export, recorded, iso, history>>

\* cleanISORoot: what lies at the tree's root and is not on the keep list goes,
\* one entry after the other.
Clean ==
    /\ pc = "clean"
    /\ \E all \in BOOLEAN :
         /\ export' = [export EXCEPT !["rootOut"] = IF all THEN NoFile ELSE @]
         /\ IF all THEN Goto("author") ELSE Fail
    /\ disk' = [disk EXCEPT !["rootOut"] = NoFile]
    /\ UNCHANGED <<recorded, iso, history>>

\* The boot images are staged and AddTree reads the tree; then os.Create
\* truncates the ISO.
Author ==
    /\ pc = "author"
    /\ \/ /\ recorded' = [wim |-> disk["treeWim"], boot |-> disk["treeBoot"],
                          exports |-> {p \in {"rootOut", "treeWim", "treeBoot"} : export[p] # NoFile}]
          /\ iso' = "part" /\ Goto("writeIso")
       \/ Fail /\ UNCHANGED <<recorded, iso>>
    /\ UNCHANGED <<disk, export, history>>

\* WriteTo and Close, whose errors are both reported.
WriteIso ==
    /\ pc = "writeIso"
    /\ \/ iso' = "whole" /\ Exit
       \/ Fail /\ UNCHANGED iso
    /\ UNCHANGED <<disk, export, recorded, history>>

-----------------------------------------------------------------------------
Step ==
    \/ Boot \/ BootExport \/ BootOpen \/ BootWrite
    \/ Wim \/ Cache \/ Export \/ Open \/ Write
    \/ Iso \/ PlaceWim \/ PlaceBoot \/ Clean \/ Author \/ WriteIso

Next == Start \/ Step \/ Killed \/ KilledExporting

Spec == Init /\ [][Next]_vars

-----------------------------------------------------------------------------
(* Properties. *)

TypeOK ==
    /\ args.wim \in WimArgs /\ args.boot \in BootArgs /\ args.iso \in IsoArgs
    /\ status \in {"none", "running", "ok", "stopped"}
    /\ (status = "running") <=> (pc # "idle")
    /\ runs \in 0..MaxRuns /\ reused \in BOOLEAN
    /\ disk \in [Path -> Files] /\ export \in [Path -> Files]
    /\ recorded.wim \in Files /\ recorded.boot \in Files /\ recorded.exports \subseteq Path
    /\ iso \in {"none", "part", "whole"}
    /\ asked \subseteq Content /\ lost \subseteq {"out", "rootOut", "treeWim", "bootOut", "treeBoot"}

Ok == status = "ok"
Debloated == Ok /\ w.image \in Image
Shrunk == Ok /\ b.boot # No

\* A run that exits normally leaves every output it was asked for complete,
\* whatever earlier runs were killed or failed in the middle of: unless the
\* system reported an error to Close alone, another WIM was to be placed over
\* the output, or the output lay at the root that is trimmed.
SuccessMeansWhole ==
    /\ Debloated /\ w.out \notin lost /\ i.isoWim \in {No, w.out} =>
         disk[w.out].state = "whole" \/ (i.iso /\ w.out = "rootOut")
    /\ Shrunk /\ b.bootOut \notin lost /\ i.isoBoot \in {No, b.bootOut} =>
         disk[b.bootOut] = Whole(Setup)
    /\ Ok /\ i.iso => iso = "whole"

\* A run that made its own export debloats the image that was at the index
\* it was asked for, also when the source is a WIM that an earlier run placed.
FreshRunGivesAskedImage ==
    Debloated /\ ~reused /\ w.out \notin lost /\ i.isoWim \in {No, w.out} =>
      (IF i.iso THEN recorded.wim ELSE disk[w.out]).of \in asked

\* The -image flag: "1-based image index to debloat".  Stated of every run.
OutputIsAskedImage ==
    Debloated /\ ~i.iso => disk[w.out].of \in asked

\* An ISO carries the WIMs the command line names, or else those this run
\* produced, complete, although the tree is edited in place, may hold a
\* truncated copy from an interrupted run, and may be where the outputs lie.
IsoHoldsThisRunsWims ==
    Ok /\ i.iso =>
      /\ i.isoWim # No => recorded.wim = disk[i.isoWim]
      /\ i.isoBoot # No => recorded.boot = disk[i.isoBoot]
      /\ Debloated /\ i.isoWim \in {No, w.out} /\ w.out \notin lost =>
           recorded.wim.state = "whole" /\ (w.out # "rootOut" => recorded.wim = disk[w.out])
      /\ Shrunk /\ i.isoBoot \in {No, b.bootOut} /\ b.bootOut \notin lost =>
           recorded.boot = Whole(Setup)

\* Exports of several GB that earlier runs left: the boot stage cleans its own up,
\* one that a stopped run left included, and the only ones recorded into an
\* ISO lie beside one of the tree's own WIMs, never the boot stage's.
ExportsCleaned ==
    /\ Shrunk => export[b.bootOut] = NoFile
    /\ Ok /\ i.iso => recorded.exports \subseteq
         {"treeWim"} \cup (IF Shrunk /\ b.bootOut = "treeBoot" THEN {} ELSE {"treeBoot"})

\* Beside an output outside the tree's sources, or at the tree's root, stands
\* the whole export it was made from, even when the output itself is damaged:
\* the next run with the same -out can make it again (main.go:331-345, 541),
\* and no output comes from the part a failed or killed run exported.
OutputsHaveExports ==
    \A p \in {"out", "rootOut"} : disk[p].state # "none" => export[p] = Whole(disk[p].of)

\* "Wrote debloated single-image WIM to %s" (main.go:558), of every run that
\* goes on past it.
WroteMeansWritten ==
    pc = "iso" /\ w.image \in Image => disk[w.out].state = "whole"

=============================================================================
