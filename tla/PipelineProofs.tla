--------------------------- MODULE PipelineProofs ---------------------------
(***************************************************************************)
(* Pipeline's invariants, and which files a run may change, for any number *)
(* of images and of runs.                                                  *)
(***************************************************************************)
EXTENDS Pipeline, TLAPS

\* What is behind the run that is going on, or that ended well.
BootBehind == pc \in {"wim", "cache", "export", "open", "write", "iso", "placeWim",
                      "placeBoot", "clean", "author", "writeIso"} \/ Ok
WimBehind == pc \in {"iso", "placeWim", "placeBoot", "clean", "author", "writeIso"} \/ Ok
WimPlaced == pc \in {"placeBoot", "clean", "author", "writeIso"} \/ (Ok /\ i.iso)
BootPlaced == pc \in {"clean", "author", "writeIso"} \/ (Ok /\ i.iso)
Cleaned == pc \in {"author", "writeIso"} \/ (Ok /\ i.iso)
Recorded == pc = "writeIso" \/ (Ok /\ i.iso)

\* The output of this run stands for what its ISO is to carry.
BootCounts == b.boot # No /\ b.bootOut \notin lost /\ i.isoBoot \in {No, b.bootOut}
WimCounts == w.image \in Image /\ w.out \notin lost /\ i.isoWim \in {No, w.out}

\* A whole WIM, of the image asked for if the export is this run's own.
Good(file) == file.state = "whole" /\ (~reused => file.of \in asked)

BootStage ==
    /\ pc \in {"bootExport", "bootOpen", "bootWrite"} => b.boot # No /\ b.bootOut # No
    /\ BootBehind /\ b.boot # No => b.bootOut # No /\ export[b.bootOut] = NoFile
    /\ BootBehind /\ BootCounts => disk[b.bootOut] = Whole(Setup)

WimStage ==
    /\ pc \in {"cache", "export", "open", "write"} => w.image \in Image /\ w.out # No
    /\ pc = "export" => ~reused
    /\ pc \in {"open", "write"} /\ ~reused => export[w.out].of \in asked
    /\ pc = "write" => export[w.out].state = "whole"
    /\ WimBehind /\ w.image \in Image => w.out # No
    /\ WimBehind /\ WimCounts => Good(disk[w.out]) \/ (Cleaned /\ i.iso /\ w.out = "rootOut")

IsoStage ==
    /\ pc \in {"placeWim", "placeBoot", "clean", "author", "writeIso"} => i.iso
    /\ WimPlaced => /\ i.isoWim # No => disk["treeWim"] = disk[i.isoWim]
                    /\ WimCounts => Good(disk["treeWim"])
                    /\ WimCounts /\ w.out # "rootOut" => disk["treeWim"] = disk[w.out]
    /\ BootPlaced => /\ i.isoBoot # No => disk["treeBoot"] = disk[i.isoBoot]
                     /\ BootCounts => disk["treeBoot"] = Whole(Setup)
    /\ Cleaned => export["rootOut"] = NoFile
    /\ Recorded => /\ recorded.wim = disk["treeWim"] /\ recorded.boot = disk["treeBoot"]
                   /\ recorded.exports =
                        {p \in {"rootOut", "treeWim", "treeBoot"} : export[p] # NoFile}
    /\ Ok /\ i.iso => iso = "whole"

IInv == TypeOK /\ BootStage /\ WimStage /\ IsoStage


-----------------------------------------------------------------------------
(* The values a command line can have, and the contents of a WIM. *)

LEMMA ArgsFacts ==
    ASSUME TypeOK
    PROVE  /\ w.image \in Image \cup {List, NoWim}
           /\ w.wim \in {"src", "treeWim"}
           /\ w.out \in {No, "out", "rootOut", "treeWim"}
           /\ b.boot \in {No, "bootSrc", "treeBoot"}
           /\ b.bootOut \in {No, "bootOut", "treeBoot"}
           /\ i.iso \in BOOLEAN
           /\ i.isoWim \in {No, "out"} /\ i.isoBoot \in {No, "bootOut"}
  <1>1. w \in WimArgs /\ b \in BootArgs /\ i \in IsoArgs
    BY DEF TypeOK, w, b, i
  <1>2. 1 \in Image
    BY PipelineAssumption DEF Image
  <1>3. /\ w.image \in Image \cup {List, NoWim} /\ w.wim \in {"src", "treeWim"}
        /\ w.out \in {No, "out", "rootOut", "treeWim"}
    BY <1>1, <1>2, PipelineAssumption DEF WimArgs, No
  <1>4. b.boot \in {No, "bootSrc", "treeBoot"} /\ b.bootOut \in {No, "bootOut", "treeBoot"}
    BY <1>1 DEF BootArgs
  <1>5. i.iso \in BOOLEAN /\ i.isoWim \in {No, "out"} /\ i.isoBoot \in {No, "bootOut"}
    BY <1>1 DEF IsoArgs
  <1>6. QED
    BY <1>3, <1>4, <1>5

LEMMA FileFacts ==
    /\ NoFile \in Files /\ NoFile.state = "none"
    /\ \A x \in Content : /\ Part(x) \in Files /\ Part(x).state = "part" /\ Part(x).of = x
                          /\ Whole(x) \in Files /\ Whole(x).state = "whole" /\ Whole(x).of = x
    /\ \A f \in Files : f.of \in Content
    /\ Image \subseteq Content /\ Media \in Content /\ Setup \in Content
  BY DEF NoFile, Part, Whole, Files, Content

LEMMA ImageAtIsContent ==
    ASSUME NEW f \in Files, NEW n \in Image
    PROVE  ImageAt(f, n) \subseteq Content
  BY FileFacts DEF ImageAt, Content

\* A run that did not end well leaves nothing for the stages to keep.
LEMMA StoppedInv ==
    ASSUME TypeOK, Fail, export' \in [Path -> Files], disk' \in [Path -> Files],
           UNCHANGED <<recorded, iso, reused, asked, lost>>
    PROVE  IInv'
  <1>1. TypeOK'
    BY DEF Fail, End, TypeOK
  <1>2. pc' = "idle" /\ ~Ok'
    BY DEF Fail, End, Ok
  <1>3. (BootStage /\ WimStage /\ IsoStage)'
    BY <1>2 DEF BootStage, WimStage, IsoStage, BootBehind, WimBehind, WimPlaced, BootPlaced,
                Cleaned, Recorded
  <1>4. QED
    BY <1>1, <1>3 DEF IInv

\* A step that goes on keeps the command line.
LEMMA GoesOn ==
    ASSUME TypeOK, NEW step, pc # "idle", step # "idle", Goto(step),
           disk' \in [Path -> Files], export' \in [Path -> Files],
           recorded'.wim \in Files, recorded'.boot \in Files, recorded'.exports \subseteq Path,
           iso' \in {"none", "part", "whole"}, reused' \in BOOLEAN, asked' \subseteq Content,
           lost' \subseteq {"out", "rootOut", "treeWim", "bootOut", "treeBoot"}
    PROVE  TypeOK' /\ pc' = step /\ w' = w /\ b' = b /\ i' = i /\ ~Ok /\ ~Ok'
  BY DEF TypeOK, Goto, Ok, w, b, i

LEMMA InitInv == Init => IInv
  <1> SUFFICES ASSUME Init PROVE IInv
    OBVIOUS
  <1>1. pc = "idle" /\ ~Ok
    BY DEF Init, Ok
  <1>2. args.wim \in WimArgs /\ args.boot \in BootArgs /\ args.iso \in IsoArgs
    BY DEF Init, WimArgs, BootArgs, IsoArgs
  <1>3. TypeOK
    <2>1. disk \in [Path -> Files] /\ export \in [Path -> Files]
      BY FileFacts DEF Init
    <2>2. runs \in 0..MaxRuns
      BY PipelineAssumption DEF Init
    <2>3. recorded.wim \in Files /\ recorded.boot \in Files /\ recorded.exports \subseteq Path
      BY FileFacts DEF Init, NothingRecorded
    <2>4. QED
      BY <1>2, <2>1, <2>2, <2>3 DEF Init, TypeOK
  <1>4. QED
    BY <1>1, <1>3 DEF IInv, BootStage, WimStage, IsoStage, BootBehind, WimBehind, WimPlaced,
                     BootPlaced, Cleaned, Recorded

LEMMA StartInv == TypeOK /\ Start => IInv'
  <1> SUFFICES ASSUME TypeOK, Start PROVE IInv'
    OBVIOUS
  <1>1. pc' = "boot" /\ ~Ok'
    BY DEF Start, Ok
  <1>2. args'.wim \in WimArgs /\ args'.boot \in BootArgs /\ args'.iso \in IsoArgs
    BY DEF Start
  <1>3. runs' \in 0..MaxRuns
    BY PipelineAssumption DEF Start, TypeOK
  <1>4. TypeOK'
    BY <1>2, <1>3, FileFacts DEF Start, TypeOK, NothingRecorded
  <1>5. (BootStage /\ WimStage /\ IsoStage)'
    BY <1>1 DEF BootStage, WimStage, IsoStage, BootBehind, WimBehind, WimPlaced, BootPlaced, Cleaned, Recorded
  <1>6. QED
    BY <1>4, <1>5 DEF IInv

LEMMA KilledInv == TypeOK /\ (Killed \/ KilledExporting) => IInv'
  <1> SUFFICES ASSUME TypeOK PROVE Killed \/ KilledExporting => IInv'
    OBVIOUS
  <1>1. CASE Killed
    BY <1>1, StoppedInv DEF Killed, files, history, TypeOK
  <1>2. CASE KilledExporting
    <2>1. export' \in [Path -> Files]
      <3>1. CASE pc = "export" /\ \E x \in asked : export' = [export EXCEPT ![w.out] = Part(x)]
        <4>1. PICK x \in asked : export' = [export EXCEPT ![w.out] = Part(x)]
          BY <3>1
        <4>2. QED
          BY <4>1, FileFacts DEF TypeOK
      <3>2. CASE pc = "bootExport" /\ export' = [export EXCEPT ![b.bootOut] = Part(Setup)]
        BY <3>2, FileFacts DEF TypeOK
      <3>3. QED
        BY <1>2, <3>1, <3>2 DEF KilledExporting
    <2>2. QED
      BY <1>2, <2>1, StoppedInv DEF KilledExporting, history, TypeOK
  <1>3. QED
    BY <1>1, <1>2

-----------------------------------------------------------------------------
(* The boot stage. *)

LEMMA BootInv == IInv /\ Boot => IInv'
  <1> SUFFICES ASSUME IInv, Boot PROVE IInv'
    OBVIOUS
  <1>0. TypeOK /\ pc = "boot" /\ UNCHANGED <<disk, export, recorded, iso, reused, asked, lost>>
    BY DEF IInv, Boot, files, history
  <1>1. CASE Fail
    BY <1>0, <1>1, StoppedInv DEF TypeOK
  <1>2. CASE b.boot # No /\ b.bootOut # No /\ Goto("bootExport")
    <2>1. TypeOK' /\ pc' = "bootExport" /\ b' = b /\ ~Ok'
      BY <1>0, <1>2, GoesOn DEF TypeOK
    <2>2. QED
      BY <1>2, <2>1 DEF IInv, BootStage, WimStage, IsoStage, BootBehind, WimBehind,
                        WimPlaced, BootPlaced, Cleaned, Recorded
  <1>3. CASE b.boot = No /\ Goto("wim")
    <2>1. TypeOK' /\ pc' = "wim" /\ b' = b /\ ~Ok'
      BY <1>0, <1>3, GoesOn DEF TypeOK
    <2>2. QED
      BY <1>3, <2>1 DEF IInv, BootStage, WimStage, IsoStage, BootBehind, WimBehind,
                        WimPlaced, BootPlaced, Cleaned, Recorded, BootCounts
  <1>4. QED
    BY <1>1, <1>2, <1>3 DEF Boot

LEMMA BootExportInv == IInv /\ BootExport => IInv'
  <1> SUFFICES ASSUME IInv, BootExport PROVE IInv'
    OBVIOUS
  <1>0. /\ TypeOK /\ BootStage /\ pc = "bootExport"
        /\ UNCHANGED <<disk, recorded, iso, reused, asked, lost>>
    BY DEF IInv, BootExport, history
  <1>1. export' \in [Path -> Files]
    BY <1>0, FileFacts DEF BootExport, TypeOK
  <1>2. CASE Fail
    BY <1>0, <1>1, <1>2, StoppedInv DEF TypeOK
  <1>3. CASE Goto("bootOpen")
    <2>1. TypeOK' /\ pc' = "bootOpen" /\ b' = b /\ ~Ok'
      BY <1>0, <1>1, <1>3, GoesOn DEF TypeOK
    <2>2. QED
      BY <1>0, <2>1 DEF IInv, BootStage, WimStage, IsoStage, BootBehind, WimBehind,
                        WimPlaced, BootPlaced, Cleaned, Recorded
  <1>4. QED
    BY <1>2, <1>3 DEF BootExport

LEMMA BootOpenInv == IInv /\ BootOpen => IInv'
  <1> SUFFICES ASSUME IInv, BootOpen PROVE IInv'
    OBVIOUS
  <1>0. /\ TypeOK /\ BootStage /\ pc = "bootOpen"
        /\ UNCHANGED <<recorded, iso, reused, asked, lost>>
    BY DEF IInv, BootOpen, history
  <1>1. export' \in [Path -> Files] /\ disk' \in [Path -> Files]
    BY <1>0, FileFacts DEF BootOpen, TypeOK
  <1>2. CASE Fail
    BY <1>0, <1>1, <1>2, StoppedInv
  <1>3. CASE Goto("bootWrite")
    <2>1. TypeOK' /\ pc' = "bootWrite" /\ b' = b /\ ~Ok'
      BY <1>0, <1>1, <1>3, GoesOn DEF TypeOK
    <2>2. QED
      BY <1>0, <2>1 DEF IInv, BootStage, WimStage, IsoStage, BootBehind, WimBehind,
                        WimPlaced, BootPlaced, Cleaned, Recorded
  <1>4. QED
    BY <1>2, <1>3 DEF BootOpen

\* What a write may do, to an output and content of the right kinds.
LEMMA WriteOutputFacts ==
    ASSUME TypeOK, NEW out, NEW x \in Content, NEW next, WriteOutput(out, x, next),
           out \in {"out", "rootOut", "treeWim", "bootOut", "treeBoot"}
    PROVE  /\ disk' \in [Path -> Files]
           /\ lost' \subseteq {"out", "rootOut", "treeWim", "bootOut", "treeBoot"}
           /\ \/ Fail /\ UNCHANGED lost
              \/ /\ Goto(next) /\ lost \subseteq lost'
                 /\ out \in lost' \/ disk'[out] = Whole(x)
                 /\ \A p \in Path \ {out} : disk'[p] = disk[p]
  <1>1. out \in Path /\ Whole(x) \in Files
    BY FileFacts DEF Path
  <1>2. QED
    BY <1>1 DEF WriteOutput, TypeOK

LEMMA BootWriteInv == IInv /\ BootWrite => IInv'
  <1> SUFFICES ASSUME IInv, BootWrite PROVE IInv'
    OBVIOUS
  <1>0. /\ TypeOK /\ BootStage /\ pc = "bootWrite" /\ b.boot # No
        /\ b.bootOut \in {"bootOut", "treeBoot"}
        /\ UNCHANGED <<recorded, iso, reused, asked>>
    BY ArgsFacts DEF IInv, BootWrite, BootStage
  <1>1. export' \in [Path -> Files] /\ export'[b.bootOut] = NoFile
    BY <1>0, FileFacts DEF BootWrite, TypeOK, Path
  <1>2. /\ disk' \in [Path -> Files]
        /\ lost' \subseteq {"out", "rootOut", "treeWim", "bootOut", "treeBoot"}
        /\ \/ Fail /\ UNCHANGED lost
           \/ /\ Goto("wim") /\ lost \subseteq lost'
              /\ b.bootOut \in lost' \/ disk'[b.bootOut] = Whole(Setup)
    BY <1>0, FileFacts, WriteOutputFacts DEF BootWrite
  <1>3. CASE Fail /\ UNCHANGED lost
    BY <1>0, <1>1, <1>2, <1>3, StoppedInv
  <1>4. CASE Goto("wim") /\ (b.bootOut \in lost' \/ disk'[b.bootOut] = Whole(Setup))
    <2>1. TypeOK' /\ pc' = "wim" /\ b' = b /\ i' = i /\ ~Ok'
      BY <1>0, <1>1, <1>2, <1>4, GoesOn DEF TypeOK
    <2>2. BootStage'
      BY <1>0, <1>1, <1>4, <2>1 DEF BootStage, BootCounts
    <2>3. QED
      BY <2>1, <2>2 DEF IInv, WimStage, IsoStage, WimBehind, WimPlaced, BootPlaced, Cleaned, Recorded
  <1>5. QED
    BY <1>2, <1>3, <1>4

-----------------------------------------------------------------------------
(* The install.wim stage: it touches nothing of the boot stage's. *)

LEMMA BootKept ==
    ASSUME BootStage, BootBehind, TypeOK, BootBehind', b' = b, i' = i, lost \subseteq lost',
           pc' \notin {"bootExport", "bootOpen", "bootWrite"},
           \A p \in {"bootOut", "treeBoot"} : export'[p] = export[p] /\ disk'[p] = disk[p]
    PROVE  BootStage'
  BY ArgsFacts DEF BootStage, BootCounts

LEMMA WimInv == IInv /\ Wim => IInv'
  <1> SUFFICES ASSUME IInv, Wim PROVE IInv'
    OBVIOUS
  <1>0. /\ TypeOK /\ BootStage /\ pc = "wim"
        /\ UNCHANGED <<disk, export, recorded, iso, reused, lost>>
    BY DEF IInv, Wim, files
  <1>1. w.image \in Image \cup {List, NoWim} /\ w.wim \in Path
    BY <1>0, ArgsFacts DEF Path
  <1>2. List \notin Image /\ NoWim \notin Image
    BY PipelineAssumption DEF List, NoWim, Image
  <1>3. CASE Fail /\ UNCHANGED asked
    BY <1>0, <1>3, StoppedInv DEF TypeOK
  <1>4. CASE w.image \notin Image /\ Goto("iso") /\ UNCHANGED asked
    <2>1. TypeOK' /\ pc' = "iso" /\ w' = w /\ b' = b /\ i' = i /\ ~Ok'
      BY <1>0, <1>4, GoesOn DEF TypeOK
    <2>2. BootStage'
      BY <1>0, <2>1, BootKept DEF BootBehind
    <2>3. QED
      BY <1>4, <2>1, <2>2 DEF IInv, WimStage, IsoStage, WimBehind, WimCounts, WimPlaced,
                              BootPlaced, Cleaned, Recorded
  <1>5. CASE /\ w.image \in Image /\ w.out # No
             /\ asked' = ImageAt(disk[w.wim], w.image) /\ Goto("cache")
    <2>1. asked' \subseteq Content
      BY <1>0, <1>1, <1>5, ImageAtIsContent DEF TypeOK
    <2>2. TypeOK' /\ pc' = "cache" /\ w' = w /\ b' = b /\ i' = i /\ ~Ok'
      BY <1>0, <1>5, <2>1, GoesOn DEF TypeOK
    <2>3. BootStage'
      BY <1>0, <2>2, BootKept DEF BootBehind
    <2>4. QED
      BY <1>5, <2>2, <2>3 DEF IInv, WimStage, IsoStage, WimBehind, WimPlaced,
                              BootPlaced, Cleaned, Recorded
  <1>6. QED
    BY <1>1, <1>2, <1>3, <1>4, <1>5 DEF Wim

LEMMA CacheInv == IInv /\ Cache => IInv'
  <1> SUFFICES ASSUME IInv, Cache PROVE IInv'
    OBVIOUS
  <1>0. /\ TypeOK /\ BootStage /\ WimStage /\ pc = "cache"
        /\ UNCHANGED <<disk, export, recorded, iso, asked, lost>> /\ reused' \in BOOLEAN
    BY DEF IInv, Cache, files
  <1>1. PICK next \in {"open", "export"} : Goto(next) /\ (next = "open" <=> reused')
    BY DEF Cache
  <1>2. TypeOK' /\ pc' = next /\ w' = w /\ b' = b /\ i' = i /\ ~Ok'
    BY <1>0, <1>1, GoesOn DEF TypeOK
  <1>3. BootStage'
    BY <1>0, <1>1, <1>2, BootKept DEF BootBehind
  <1>4. WimStage'
    BY <1>0, <1>1, <1>2 DEF WimStage, WimBehind
  <1>5. QED
    BY <1>1, <1>2, <1>3, <1>4 DEF IInv, IsoStage, WimPlaced, BootPlaced, Cleaned, Recorded

LEMMA ExportInv == IInv /\ Export => IInv'
  <1> SUFFICES ASSUME IInv, Export PROVE IInv'
    OBVIOUS
  <1>0. /\ TypeOK /\ BootStage /\ WimStage /\ pc = "export"
        /\ w.image \in Image /\ w.out \in {"out", "rootOut", "treeWim"}
        /\ UNCHANGED <<disk, recorded, iso, reused, asked, lost>>
    BY ArgsFacts DEF IInv, Export, history, WimStage
  <1>1. CASE UNCHANGED export /\ Fail
    BY <1>0, <1>1, StoppedInv DEF TypeOK
  <1>2. ASSUME NEW x \in asked, NEW f \in {Whole(x), Part(x)}, export' = [export EXCEPT ![w.out] = f],
               Goto("open") \/ Fail
        PROVE  IInv'
    <2>1. f \in Files /\ f.of = x
      BY <1>0, FileFacts DEF TypeOK
    <2>2. export' \in [Path -> Files] /\ export'[w.out] = f
      BY <1>0, <1>2, <2>1 DEF TypeOK, Path
    <2>3. CASE Fail
      BY <1>0, <2>2, <2>3, StoppedInv DEF TypeOK
    <2>4. CASE Goto("open")
      <3>1. TypeOK' /\ pc' = "open" /\ w' = w /\ b' = b /\ i' = i /\ ~Ok'
        BY <1>0, <2>2, <2>4, GoesOn DEF TypeOK
      <3>2. BootStage'
        BY <1>0, <1>2, <3>1, BootKept DEF BootBehind, TypeOK, Path
      <3>3. WimStage'
        BY <1>0, <2>1, <2>2, <3>1 DEF WimStage, WimBehind
      <3>4. QED
        BY <3>1, <3>2, <3>3 DEF IInv, IsoStage, WimPlaced, BootPlaced, Cleaned, Recorded
    <2>5. QED
      BY <1>2, <2>3, <2>4
  <1>3. QED
    BY <1>1, <1>2 DEF Export

LEMMA OpenInv == IInv /\ Open => IInv'
  <1> SUFFICES ASSUME IInv, Open PROVE IInv'
    OBVIOUS
  <1>0. /\ TypeOK /\ BootStage /\ WimStage /\ pc = "open"
        /\ w.image \in Image /\ w.out \in {"out", "rootOut", "treeWim"}
        /\ UNCHANGED <<export, recorded, iso, reused, asked, lost>>
    BY ArgsFacts DEF IInv, Open, history, WimStage
  <1>1. CASE Fail /\ UNCHANGED disk
    BY <1>0, <1>1, StoppedInv DEF TypeOK
  <1>2. CASE /\ export[w.out].state = "whole" /\ Goto("write")
             /\ disk' = [disk EXCEPT ![w.out] = Part(export[w.out].of)]
    <2>1. disk' \in [Path -> Files]
      BY <1>0, <1>2, FileFacts DEF TypeOK, Path
    <2>2. TypeOK' /\ pc' = "write" /\ w' = w /\ b' = b /\ i' = i /\ ~Ok'
      BY <1>0, <1>2, <2>1, GoesOn DEF TypeOK
    <2>3. BootStage'
      BY <1>0, <1>2, <2>2, BootKept DEF BootBehind, TypeOK, Path
    <2>4. WimStage'
      BY <1>0, <1>2, <2>2 DEF WimStage, WimBehind
    <2>5. QED
      BY <2>2, <2>3, <2>4 DEF IInv, IsoStage, WimPlaced, BootPlaced, Cleaned, Recorded
  <1>3. QED
    BY <1>1, <1>2 DEF Open

LEMMA WriteInv == IInv /\ Write => IInv'
  <1> SUFFICES ASSUME IInv, Write PROVE IInv'
    OBVIOUS
  <1>0. /\ TypeOK /\ BootStage /\ WimStage /\ pc = "write"
        /\ w.image \in Image /\ w.out \in {"out", "rootOut", "treeWim"}
        /\ export[w.out] \in Files
        /\ UNCHANGED <<export, recorded, iso, reused, asked>>
    BY ArgsFacts DEF IInv, Write, WimStage, TypeOK, Path
  <1>1. /\ disk' \in [Path -> Files]
        /\ lost' \subseteq {"out", "rootOut", "treeWim", "bootOut", "treeBoot"}
        /\ \/ Fail /\ UNCHANGED lost
           \/ /\ Goto("iso") /\ lost \subseteq lost'
              /\ w.out \in lost' \/ disk'[w.out] = Whole(export[w.out].of)
              /\ \A p \in Path \ {w.out} : disk'[p] = disk[p]
    BY <1>0, FileFacts, WriteOutputFacts DEF Write
  <1>2. CASE Fail /\ UNCHANGED lost
    BY <1>0, <1>1, <1>2, StoppedInv DEF TypeOK
  <1>3. CASE /\ Goto("iso") /\ lost \subseteq lost'
             /\ w.out \in lost' \/ disk'[w.out] = Whole(export[w.out].of)
             /\ \A p \in Path \ {w.out} : disk'[p] = disk[p]
    <2>1. TypeOK' /\ pc' = "iso" /\ w' = w /\ b' = b /\ i' = i /\ ~Ok'
      BY <1>0, <1>1, <1>3, GoesOn DEF TypeOK
    <2>2. BootStage'
      BY <1>0, <1>3, <2>1, BootKept DEF BootBehind, Path
    <2>3. WimStage'
      BY <1>0, <1>3, <2>1, FileFacts DEF WimStage, WimBehind, WimCounts, Good
    <2>4. QED
      BY <2>1, <2>2, <2>3 DEF IInv, IsoStage, WimPlaced, BootPlaced, Cleaned, Recorded
  <1>4. QED
    BY <1>1, <1>2, <1>3

-----------------------------------------------------------------------------
(* The ISO stage. *)

LEMMA IsoInv == IInv /\ Iso => IInv'
  <1> SUFFICES ASSUME IInv, Iso PROVE IInv'
    OBVIOUS
  <1>0. /\ TypeOK /\ BootStage /\ WimStage /\ pc = "iso"
        /\ UNCHANGED <<disk, export, recorded, iso, reused, asked, lost>>
    BY DEF IInv, Iso, files, history
  <1>1. CASE Fail
    BY <1>0, <1>1, StoppedInv DEF TypeOK
  <1>2. CASE ~i.iso /\ Exit
    <2>1. TypeOK' /\ pc' = "idle" /\ w' = w /\ b' = b /\ i' = i
      BY <1>0, <1>2 DEF Exit, End, TypeOK, w, b, i
    <2>2. BootStage'
      BY <1>0, <2>1 DEF BootStage, BootBehind, BootCounts
    <2>3. WimStage'
      BY <1>0, <1>2, <2>1 DEF WimStage, WimBehind, WimCounts, Good, Cleaned
    <2>4. QED
      BY <1>2, <2>1, <2>2, <2>3 DEF IInv, IsoStage, WimPlaced, BootPlaced, Cleaned, Recorded
  <1>3. CASE i.iso /\ Goto("placeWim")
    <2>1. TypeOK' /\ pc' = "placeWim" /\ w' = w /\ b' = b /\ i' = i /\ ~Ok /\ ~Ok'
      BY <1>0, <1>3, GoesOn DEF TypeOK
    <2>2. BootStage'
      BY <1>0, <2>1 DEF BootStage, BootBehind, BootCounts
    <2>3. WimStage'
      BY <1>0, <2>1 DEF WimStage, WimBehind, WimCounts, Good, Cleaned
    <2>4. QED
      BY <1>3, <2>1, <2>2, <2>3 DEF IInv, IsoStage, WimPlaced, BootPlaced, Cleaned, Recorded
  <1>4. QED
    BY <1>0, <1>1, <1>2, <1>3, ArgsFacts DEF Iso

\* What a copy into the tree may do: it stops, or the tree has the file.
LEMMA CopyFacts ==
    ASSUME TypeOK, NEW from, NEW to \in {"treeWim", "treeBoot"}, NEW next, CopyFileInto(from, to, next),
           from \in {No} \cup Path
    PROVE  /\ disk' \in [Path -> Files]
           /\ \/ Fail
              \/ /\ Goto(next)
                 /\ \A p \in Path \ {to} : disk'[p] = disk[p]
                 /\ from # No => disk'[to] = disk[from]
                 /\ from = No => disk'[to] = disk[to]
  <1> USE DEF Path
  <1>1. CASE from \in {No, to} /\ Goto(next) /\ UNCHANGED disk
    BY <1>1 DEF TypeOK
  <1>2. CASE from \notin {No, to} /\ disk' = [disk EXCEPT ![to] = disk[from]] /\ Goto(next)
    BY <1>2 DEF TypeOK
  <1>3. CASE from \notin {No, to} /\ disk' = [disk EXCEPT ![to] = Part(disk[from].of)] /\ Fail
    <2>1. Part(disk[from].of) \in Files
      BY <1>3, FileFacts DEF TypeOK
    <2>2. QED
      BY <1>3, <2>1 DEF TypeOK
  <1>4. CASE from # No /\ Fail /\ UNCHANGED disk
    BY <1>4 DEF TypeOK
  <1>5. QED
    BY <1>1, <1>2, <1>3, <1>4 DEF CopyFileInto

LEMMA PlaceWimInv == IInv /\ PlaceWim => IInv'
  <1> SUFFICES ASSUME IInv, PlaceWim PROVE IInv'
    OBVIOUS
  <1>0. /\ TypeOK /\ BootStage /\ WimStage /\ IsoStage /\ pc = "placeWim" /\ i.iso
        /\ CopyFileInto(IsoWim, "treeWim", "placeBoot")
        /\ UNCHANGED <<export, recorded, iso, reused, asked, lost>>
    BY DEF IInv, PlaceWim, history, IsoStage
  <1>1. IsoWim \in {No} \cup Path
    BY <1>0, ArgsFacts DEF IsoWim, Path
  <1>2. /\ disk' \in [Path -> Files]
        /\ \/ Fail
           \/ /\ Goto("placeBoot")
              /\ \A p \in Path \ {"treeWim"} : disk'[p] = disk[p]
              /\ IsoWim # No => disk'["treeWim"] = disk[IsoWim]
              /\ IsoWim = No => disk'["treeWim"] = disk["treeWim"]
    BY <1>0, <1>1, CopyFacts
  <1>3. CASE Fail
    BY <1>0, <1>2, <1>3, StoppedInv DEF TypeOK
  <1>4. CASE /\ Goto("placeBoot")
             /\ \A p \in Path \ {"treeWim"} : disk'[p] = disk[p]
             /\ IsoWim # No => disk'["treeWim"] = disk[IsoWim]
             /\ IsoWim = No => disk'["treeWim"] = disk["treeWim"]
    <2>1. TypeOK' /\ pc' = "placeBoot" /\ w' = w /\ b' = b /\ i' = i /\ ~Ok /\ ~Ok'
      BY <1>0, <1>2, <1>4, GoesOn DEF TypeOK
    <2>2. BootStage'
      BY <1>0, <1>4, <2>1, BootKept DEF BootBehind, Path
    <2>3. WimCounts => /\ IsoWim = w.out /\ w.out \in Path /\ w.out # No
                       /\ Good(disk[w.out]) /\ disk'["treeWim"] = disk[w.out]
                       /\ disk'[w.out] = disk[w.out]
      <3>1. w.out \in {No, "out", "rootOut", "treeWim"} /\ i.isoWim \in {No, "out"}
        BY <1>0, ArgsFacts
      <3>2. WimCounts => IsoWim = w.out /\ w.out # No /\ Good(disk[w.out])
        BY <1>0, <2>1 DEF WimStage, WimCounts, WimBehind, Cleaned, IsoWim
      <3>3. QED
        BY <1>4, <3>1, <3>2 DEF Path
    <2>4. WimCounts' = WimCounts /\ \A p \in Path : Good(disk[p])' <=> Good(disk'[p])
      BY <1>0, <2>1 DEF WimCounts, Good
    <2>5. WimStage'
      BY <1>0, <2>1, <2>3 DEF WimStage, WimBehind, WimCounts, Good, Cleaned
    <2>6. i.isoWim # No => disk'["treeWim"] = disk'[i.isoWim]
      <3>1. i.isoWim \in {No, "out"}
        BY <1>0, ArgsFacts
      <3>2. QED
        BY <1>4, <3>1 DEF IsoWim, Path
    <2>7. IsoStage'
      BY <1>0, <2>1, <2>3, <2>6 DEF IsoStage, WimPlaced, BootPlaced, Cleaned, Recorded, WimCounts, Good
    <2>8. QED
      BY <2>1, <2>2, <2>5, <2>7 DEF IInv
  <1>5. QED
    BY <1>2, <1>3, <1>4

LEMMA PlaceBootInv == IInv /\ PlaceBoot => IInv'
  <1> SUFFICES ASSUME IInv, PlaceBoot PROVE IInv'
    OBVIOUS
  <1>0. /\ TypeOK /\ BootStage /\ WimStage /\ IsoStage /\ pc = "placeBoot" /\ i.iso
        /\ CopyFileInto(IsoBoot, "treeBoot", "clean")
        /\ UNCHANGED <<export, recorded, iso, reused, asked, lost>>
    BY DEF IInv, PlaceBoot, history, IsoStage
  <1>1. IsoBoot \in {No} \cup Path
    BY <1>0, ArgsFacts DEF IsoBoot, Path
  <1>2. /\ disk' \in [Path -> Files]
        /\ \/ Fail
           \/ /\ Goto("clean")
              /\ \A p \in Path \ {"treeBoot"} : disk'[p] = disk[p]
              /\ IsoBoot # No => disk'["treeBoot"] = disk[IsoBoot]
              /\ IsoBoot = No => disk'["treeBoot"] = disk["treeBoot"]
    BY <1>0, <1>1, CopyFacts
  <1>3. CASE Fail
    BY <1>0, <1>2, <1>3, StoppedInv DEF TypeOK
  <1>4. CASE /\ Goto("clean")
             /\ \A p \in Path \ {"treeBoot"} : disk'[p] = disk[p]
             /\ IsoBoot # No => disk'["treeBoot"] = disk[IsoBoot]
             /\ IsoBoot = No => disk'["treeBoot"] = disk["treeBoot"]
    <2>0. /\ w.out \in {No, "out", "rootOut", "treeWim"} /\ b.bootOut \in {No, "bootOut", "treeBoot"}
          /\ i.isoWim \in {No, "out"} /\ i.isoBoot \in {No, "bootOut"}
      BY <1>0, ArgsFacts
    <2>1. TypeOK' /\ pc' = "clean" /\ w' = w /\ b' = b /\ i' = i /\ ~Ok /\ ~Ok'
      BY <1>0, <1>2, <1>4, GoesOn DEF TypeOK
    <2>2. BootCounts => /\ IsoBoot = b.bootOut /\ b.bootOut \in Path /\ b.bootOut # No
                        /\ disk[b.bootOut] = Whole(Setup) /\ disk'["treeBoot"] = Whole(Setup)
                        /\ disk'[b.bootOut] = Whole(Setup)
      <3>1. BootCounts => IsoBoot = b.bootOut /\ b.bootOut # No /\ disk[b.bootOut] = Whole(Setup)
        BY <1>0, <2>0 DEF BootStage, BootCounts, BootBehind, IsoBoot
      <3>2. QED
        BY <1>4, <2>0, <3>1 DEF Path
    <2>3. BootStage'
      BY <1>0, <2>1, <2>2 DEF BootStage, BootBehind, BootCounts
    <2>4. w.out # No => disk'[w.out] = disk[w.out]
      BY <1>4, <2>0 DEF Path
    <2>5. WimStage'
      BY <1>0, <2>1, <2>4 DEF WimStage, WimBehind, WimCounts, Good, Cleaned
    <2>6. i.isoWim # No => disk'[i.isoWim] = disk[i.isoWim]
      BY <1>4, <2>0 DEF Path
    <2>7. i.isoBoot # No => disk'["treeBoot"] = disk'[i.isoBoot]
      BY <1>4, <2>0 DEF IsoBoot, Path
    <2>8. WimCounts => w.out # No
      BY <1>0 DEF WimStage, WimBehind, WimCounts
    <2>9. disk'["treeWim"] = disk["treeWim"]
      BY <1>4 DEF Path
    <2>10. IsoStage'
      BY <1>0, <2>1, <2>2, <2>4, <2>6, <2>7, <2>8, <2>9 DEF IsoStage, WimPlaced, BootPlaced,
            Cleaned, Recorded, WimCounts, BootCounts, Good
    <2>11. QED
      BY <2>1, <2>3, <2>5, <2>10 DEF IInv
  <1>5. QED
    BY <1>2, <1>3, <1>4

LEMMA CleanInv == IInv /\ Clean => IInv'
  <1> SUFFICES ASSUME IInv, Clean PROVE IInv'
    OBVIOUS
  <1>0. /\ TypeOK /\ BootStage /\ WimStage /\ IsoStage /\ pc = "clean" /\ i.iso
        /\ disk' = [disk EXCEPT !["rootOut"] = NoFile]
        /\ UNCHANGED <<recorded, iso, reused, asked, lost>>
    BY DEF IInv, Clean, history, IsoStage
  <1>1. disk' \in [Path -> Files] /\ export' \in [Path -> Files]
    BY <1>0, FileFacts DEF Clean, TypeOK, Path
  <1>2. \A p \in Path \ {"rootOut"} : disk'[p] = disk[p] /\ export'[p] = export[p]
    BY <1>0 DEF Clean, TypeOK, Path
  <1>3. CASE Fail
    BY <1>0, <1>1, <1>3, StoppedInv DEF TypeOK
  <1>4. CASE export' = [export EXCEPT !["rootOut"] = NoFile] /\ Goto("author")
    <2>0. /\ w.out \in {No, "out", "rootOut", "treeWim"} /\ b.bootOut \in {No, "bootOut", "treeBoot"}
          /\ i.isoWim \in {No, "out"} /\ i.isoBoot \in {No, "bootOut"}
      BY <1>0, ArgsFacts
    <2>1. TypeOK' /\ pc' = "author" /\ w' = w /\ b' = b /\ i' = i /\ ~Ok /\ ~Ok'
      BY <1>0, <1>1, <1>4, GoesOn DEF TypeOK
    <2>2. BootStage'
      BY <1>0, <1>2, <2>1, BootKept DEF BootBehind, Path
    <2>3. WimStage'
      BY <1>0, <1>2, <2>0, <2>1 DEF WimStage, WimBehind, WimCounts, Good, Cleaned, Path
    <2>4. export'["rootOut"] = NoFile
      BY <1>0, <1>4 DEF TypeOK, Path
    <2>5. /\ disk'["treeWim"] = disk["treeWim"] /\ disk'["treeBoot"] = disk["treeBoot"]
          /\ i.isoWim # No => disk'[i.isoWim] = disk[i.isoWim]
          /\ i.isoBoot # No => disk'[i.isoBoot] = disk[i.isoBoot]
          /\ w.out \notin {No, "rootOut"} => disk'[w.out] = disk[w.out]
      BY <1>2, <2>0 DEF Path
    <2>6. WimCounts => w.out # No
      BY <1>0 DEF WimStage, WimBehind, WimCounts
    <2>7. IsoStage'
      BY <1>0, <2>1, <2>4, <2>5, <2>6 DEF IsoStage, WimPlaced, BootPlaced, Cleaned, Recorded,
            WimCounts, BootCounts, Good
    <2>8. QED
      BY <2>1, <2>2, <2>3, <2>7 DEF IInv
  <1>5. QED
    BY <1>3, <1>4 DEF Clean

LEMMA AuthorInv == IInv /\ Author => IInv'
  <1> SUFFICES ASSUME IInv, Author PROVE IInv'
    OBVIOUS
  <1>0. /\ TypeOK /\ BootStage /\ WimStage /\ IsoStage /\ pc = "author" /\ i.iso
        /\ UNCHANGED <<disk, export, reused, asked, lost>>
    BY DEF IInv, Author, history, IsoStage
  <1>1. CASE Fail /\ UNCHANGED <<recorded, iso>>
    BY <1>0, <1>1, StoppedInv DEF TypeOK
  <1>2. CASE /\ recorded' = [wim |-> disk["treeWim"], boot |-> disk["treeBoot"],
                  exports |-> {p \in {"rootOut", "treeWim", "treeBoot"} : export[p] # NoFile}]
             /\ iso' = "part" /\ Goto("writeIso")
    <2>1. recorded'.wim \in Files /\ recorded'.boot \in Files /\ recorded'.exports \subseteq Path
      BY <1>0, <1>2 DEF TypeOK, Path
    <2>2. TypeOK' /\ pc' = "writeIso" /\ w' = w /\ b' = b /\ i' = i /\ ~Ok /\ ~Ok'
      BY <1>0, <1>2, <2>1, GoesOn DEF TypeOK
    <2>3. BootStage'
      BY <1>0, <2>2, BootKept DEF BootBehind, Path
    <2>4. WimStage'
      BY <1>0, <2>2 DEF WimStage, WimBehind, WimCounts, Good, Cleaned
    <2>5. IsoStage'
      BY <1>0, <1>2, <2>2 DEF IsoStage, WimPlaced, BootPlaced, Cleaned, Recorded,
            WimCounts, BootCounts, Good
    <2>6. QED
      BY <2>2, <2>3, <2>4, <2>5 DEF IInv
  <1>3. QED
    BY <1>1, <1>2 DEF Author

LEMMA WriteIsoInv == IInv /\ WriteIso => IInv'
  <1> SUFFICES ASSUME IInv, WriteIso PROVE IInv'
    OBVIOUS
  <1>0. /\ TypeOK /\ BootStage /\ WimStage /\ IsoStage /\ pc = "writeIso" /\ i.iso
        /\ UNCHANGED <<disk, export, recorded, reused, asked, lost>>
    BY DEF IInv, WriteIso, history, IsoStage
  <1>1. CASE Fail /\ UNCHANGED iso
    BY <1>0, <1>1, StoppedInv DEF TypeOK
  <1>2. CASE iso' = "whole" /\ Exit
    <2>1. TypeOK' /\ pc' = "idle" /\ w' = w /\ b' = b /\ i' = i
      BY <1>0, <1>2 DEF Exit, End, TypeOK, w, b, i
    <2>2. BootStage'
      BY <1>0, <2>1 DEF BootStage, BootBehind, BootCounts
    <2>3. WimStage'
      BY <1>0, <2>1 DEF WimStage, WimBehind, WimCounts, Good, Cleaned
    <2>4. IsoStage'
      BY <1>0, <1>2, <2>1 DEF IsoStage, WimPlaced, BootPlaced, Cleaned, Recorded,
            WimCounts, BootCounts, Good
    <2>5. QED
      BY <2>1, <2>2, <2>3, <2>4 DEF IInv
  <1>3. QED
    BY <1>1, <1>2 DEF WriteIso

-----------------------------------------------------------------------------
(* The theorems. *)

LEMMA NextInv == IInv /\ [Next]_vars => IInv'
  <1> SUFFICES ASSUME IInv, [Next]_vars PROVE IInv'
    OBVIOUS
  <1>1. CASE UNCHANGED vars
    BY <1>1 DEF vars, IInv, TypeOK, BootStage, WimStage, IsoStage, BootBehind, WimBehind,
            WimPlaced, BootPlaced, Cleaned, Recorded, BootCounts, WimCounts, Good, Ok, w, b, i
  <1>2. CASE Start
    BY <1>2, StartInv DEF IInv
  <1>3. CASE Killed \/ KilledExporting
    BY <1>3, KilledInv DEF IInv
  <1>4. CASE Step
    BY <1>4, BootInv, BootExportInv, BootOpenInv, BootWriteInv, WimInv, CacheInv, ExportInv, OpenInv,
       WriteInv, IsoInv, PlaceWimInv, PlaceBootInv, CleanInv, AuthorInv, WriteIsoInv DEF Step
  <1>5. QED
    BY <1>1, <1>2, <1>3, <1>4 DEF Next

\* The stages keep IInv: each leaves what is behind it as it was, because the
\* paths of the two WIM stages never meet, and the ISO stage edits only the tree.
THEOREM Invariance == Spec => []IInv
  BY InitInv, NextInv, PTL DEF Spec

\* Type correctness (the variables of main, run, shrinkBootWim and buildISO).
THEOREM TypeCorrect == Spec => []TypeOK
  <1>1. IInv => TypeOK
    BY DEF IInv
  <1>2. QED
    BY <1>1, Invariance, PTL

\* A run that exits normally left its outputs whole, after any number of runs
\* that were killed or failed (main.go: run, shrinkBootWim, buildISO).
THEOREM SuccessIsWhole == Spec => []SuccessMeansWhole
  <1>1. IInv => SuccessMeansWhole
    BY DEF IInv, BootStage, WimStage, IsoStage, BootBehind, WimBehind, BootCounts, WimCounts,
           Good, SuccessMeansWhole, Debloated, Shrunk
  <1>2. QED
    BY <1>1, Invariance, PTL

\* A run that made its own export gives the image that -image named when it
\* started (run, exportImage).
THEOREM FreshRunIsRight == Spec => []FreshRunGivesAskedImage
  <1>1. IInv => FreshRunGivesAskedImage
    BY DEF IInv, WimStage, IsoStage, WimBehind, WimPlaced, Recorded, Cleaned, WimCounts,
           Good, FreshRunGivesAskedImage, Debloated
  <1>2. QED
    BY <1>1, Invariance, PTL

\* The ISO holds the WIMs the command line names, or this run's (buildISO,
\* copyFileInto).
THEOREM IsoIsThisRuns == Spec => []IsoHoldsThisRunsWims
  <1>1. IInv => IsoHoldsThisRunsWims
    BY DEF IInv, WimStage, IsoStage, WimBehind, WimPlaced, BootPlaced, Recorded, WimCounts, BootCounts,
           Good, IsoHoldsThisRunsWims, Debloated, Shrunk
  <1>2. QED
    BY <1>1, Invariance, PTL

\* The boot stage's export is gone after a run, and only exports beside the
\* tree's own WIMs reach an ISO (shrinkBootWim's deferred os.Remove, buildISO).
THEOREM ExportsGone == Spec => []ExportsCleaned
  <1>1. IInv => ExportsCleaned
    BY DEF IInv, BootStage, IsoStage, BootBehind, Cleaned, Recorded, ExportsCleaned, Shrunk
  <1>2. QED
    BY <1>1, Invariance, PTL

-----------------------------------------------------------------------------
(* Which files a run changes, and what its outputs were made from.          *)

\* Opening and trimming the boot stage's export needs it whole; it and the
\* export of run() are made only where none is to be reused.
FreshExports ==
    /\ pc = "bootOpen" => export[b.bootOut] \in {Whole(Setup), Part(Setup)}
    /\ pc = "bootWrite" => export[b.bootOut] = Whole(Setup)
    /\ pc = "export" => export[w.out].state = "none"

ExportsInv == FreshExports /\ OutputsHaveExports

\* The paths a step at pc may write, and from what: an output, once its export
\* is known to be whole; with -iso-dir, the tree's two WIMs from a file that is
\* there, and what cleanISORoot takes.
MayWrite(p) ==
    \/ /\ p = b.bootOut /\ b.boot # No /\ pc \in {"bootOpen", "bootWrite"}
       /\ export[p] = Whole(Setup)
    \/ /\ p = w.out /\ w.image \in Image /\ pc \in {"open", "write"}
       /\ export[p].state = "whole"
    \/ /\ i.iso
       /\ \/ p = "treeWim" /\ pc = "placeWim" /\ IsoWim # No /\ disk[IsoWim].state # "none"
          \/ p = "treeBoot" /\ pc = "placeBoot" /\ IsoBoot # No /\ disk[IsoBoot].state # "none"
          \/ p = "rootOut" /\ pc = "clean"

\* No other file is touched at any step.
OnlyOutputsChange == [][\A p \in Path : disk'[p] # disk[p] => MayWrite(p)]_vars

LEMMA WholeFiles ==
    ASSUME NEW f \in Files, f.state = "whole"
    PROVE  f = Whole(f.of)
  BY DEF Files, Whole

\* The boot stage's steps, of which only the opening and the write touch the
\* disk.
LEMMA BootExports ==
    ASSUME IInv, ExportsInv, BootExport \/ BootOpen \/ BootWrite
    PROVE  /\ ExportsInv'
           /\ \A p \in Path : disk'[p] # disk[p] => MayWrite(p)
  <1>0. /\ TypeOK /\ b.boot # No /\ b.bootOut \in {"bootOut", "treeBoot"}
        /\ pc \in {"bootExport", "bootOpen", "bootWrite"}
    BY ArgsFacts DEF IInv, BootStage, BootExport, BootOpen, BootWrite
  <1>1. disk \in [Path -> Files] /\ export \in [Path -> Files] /\ b.bootOut \in Path
    BY <1>0 DEF TypeOK, Path
  <1>2. \A p \in {"out", "rootOut"} : disk'[p] = disk[p] /\ export'[p] = export[p]
    BY <1>0, <1>1 DEF BootExport, BootOpen, BootWrite, WriteOutput, Path
  <1>3. OutputsHaveExports'
    BY <1>2 DEF ExportsInv, OutputsHaveExports
  <1>4. CASE BootExport
    <2>1. /\ pc' # "idle" => /\ pc' = "bootOpen" /\ b' = b
                             /\ export'[b.bootOut] \in {Whole(Setup), Part(Setup)}
          /\ UNCHANGED disk
      BY <1>1, <1>4 DEF BootExport, Goto, Fail, End, b
    <2>2. FreshExports'
      BY <2>1 DEF FreshExports
    <2>3. QED
      BY <1>3, <2>1, <2>2 DEF ExportsInv
  <1>5. CASE BootOpen
    <2>1. export[b.bootOut] \in {Whole(Setup), Part(Setup)}
      BY <1>5 DEF BootOpen, ExportsInv, FreshExports
    <2>2. export[b.bootOut].state = "whole" => export[b.bootOut] = Whole(Setup)
      BY <2>1, FileFacts
    <2>3. /\ pc = "bootOpen"
          /\ pc' # "idle" => pc' = "bootWrite" /\ b' = b /\ export'[b.bootOut] = Whole(Setup)
          /\ \/ export[b.bootOut] = Whole(Setup) /\ disk' = [disk EXCEPT ![b.bootOut] = Part(Setup)]
             \/ UNCHANGED disk
      BY <1>1, <1>5, <2>2 DEF BootOpen, Goto, Fail, End, b
    <2>4. FreshExports'
      BY <2>3 DEF FreshExports
    <2>5. \A p \in Path : disk'[p] # disk[p] => MayWrite(p)
      BY <1>0, <1>1, <2>3 DEF MayWrite
    <2>6. QED
      BY <1>3, <2>4, <2>5 DEF ExportsInv
  <1>6. CASE BootWrite
    <2>1. /\ pc = "bootWrite" /\ pc' \in {"idle", "wim"} /\ export[b.bootOut] = Whole(Setup)
          /\ \/ disk' = [disk EXCEPT ![b.bootOut] = Whole(Setup)]
             \/ UNCHANGED disk
      BY <1>6 DEF BootWrite, WriteOutput, Goto, Fail, End, ExportsInv, FreshExports
    <2>2. FreshExports'
      BY <2>1 DEF FreshExports
    <2>3. \A p \in Path : disk'[p] # disk[p] => MayWrite(p)
      BY <1>0, <1>1, <2>1 DEF MayWrite
    <2>4. QED
      BY <1>3, <2>2, <2>3 DEF ExportsInv
  <1>7. QED
    BY <1>4, <1>5, <1>6

\* run()'s steps: an output is created from a whole export, which stays.
LEMMA WimExports ==
    ASSUME IInv, ExportsInv, Wim \/ Cache \/ Export \/ Open \/ Write
    PROVE  /\ ExportsInv'
           /\ \A p \in Path : disk'[p] # disk[p] => MayWrite(p)
  <1>0. TypeOK /\ disk \in [Path -> Files] /\ export \in [Path -> Files]
    BY DEF IInv, TypeOK
  <1>1. pc # "wim" => w.image \in Image /\ w.out \in {"out", "rootOut", "treeWim"}
    BY <1>0, ArgsFacts DEF IInv, WimStage, Cache, Export, Open, Write, Wim
  <1>2. CASE Wim
    <2>1. UNCHANGED <<disk, export>> /\ pc' \in {"idle", "iso", "cache"}
      BY <1>2 DEF Wim, files, Goto, Fail, End
    <2>2. QED
      BY <2>1 DEF ExportsInv, FreshExports, OutputsHaveExports
  <1>3. CASE Cache
    <2>1. /\ pc = "cache" /\ UNCHANGED <<disk, export>> /\ w' = w /\ pc' \in {"open", "export"}
          /\ pc' = "export" => export[w.out].state = "none"
      BY <1>3 DEF Cache, files, Goto, w
    <2>2. QED
      BY <2>1 DEF ExportsInv, FreshExports, OutputsHaveExports
  <1>4. CASE Export
    <2>1. /\ pc = "export" /\ UNCHANGED disk /\ pc' \in {"open", "idle"}
          /\ export[w.out].state = "none"
          /\ \A p \in Path \ {w.out} : export'[p] = export[p]
      BY <1>0, <1>1, <1>4 DEF Export, Goto, Fail, End, ExportsInv, FreshExports, Path
    <2>2. w.out \in {"out", "rootOut"} => disk[w.out].state = "none"
      BY <2>1, FileFacts DEF ExportsInv, OutputsHaveExports, NoFile, Whole
    <2>3. OutputsHaveExports'
      BY <2>1, <2>2 DEF ExportsInv, OutputsHaveExports, Path
    <2>4. QED
      BY <2>1, <2>3 DEF ExportsInv, FreshExports
  <1>5. CASE Open \/ Write
    <2>0. pc \in {"open", "write"} /\ w.out \in Path
      BY <1>1, <1>5 DEF Open, Write, Path
    <2>1. UNCHANGED disk \/ export[w.out].state = "whole"
      BY <1>5 DEF Open, Write, IInv, WimStage
    <2>2. /\ UNCHANGED export /\ pc' \in {"idle", "write", "iso"}
          /\ \/ UNCHANGED disk
             \/ disk' = [disk EXCEPT ![w.out] = Part(export[w.out].of)]
             \/ disk' = [disk EXCEPT ![w.out] = Whole(export[w.out].of)]
      BY <1>5 DEF Open, Write, WriteOutput, Goto, Fail, End
    <2>3. \A p \in Path : disk'[p] # disk[p] => MayWrite(p)
      BY <1>0, <1>1, <2>0, <2>1, <2>2 DEF MayWrite
    <2>4. disk' # disk => export[w.out] = Whole(export[w.out].of) /\ disk'[w.out].of = export[w.out].of
      BY <1>0, <2>0, <2>1, <2>2, WholeFiles DEF Part, Whole
    <2>5. OutputsHaveExports'
      BY <1>0, <2>0, <2>2, <2>4 DEF ExportsInv, OutputsHaveExports, Path
    <2>6. QED
      BY <2>2, <2>3, <2>5 DEF ExportsInv, FreshExports
  <1>6. QED
    BY <1>2, <1>3, <1>4, <1>5

\* What the ISO stage writes: the tree's two WIMs, and what it trims.
LEMMA IsoExports ==
    ASSUME IInv, ExportsInv, PlaceWim \/ PlaceBoot \/ Clean
    PROVE  /\ ExportsInv'
           /\ \A p \in Path : disk'[p] # disk[p] => MayWrite(p)
  <1>0. /\ TypeOK /\ disk \in [Path -> Files] /\ export \in [Path -> Files] /\ i.iso
    BY DEF IInv, TypeOK, IsoStage, PlaceWim, PlaceBoot, Clean
  <1>1. CASE PlaceWim
    <2>1. /\ pc = "placeWim" /\ UNCHANGED export /\ pc' \in {"idle", "placeBoot"}
          /\ disk' # disk => IsoWim # No /\ disk[IsoWim].state # "none"
          /\ \A p \in Path \ {"treeWim"} : disk'[p] = disk[p]
      BY <1>0, <1>1 DEF PlaceWim, CopyFileInto, Goto, Fail, End
    <2>2. \A p \in Path : disk'[p] # disk[p] => MayWrite(p)
      BY <1>0, <2>1 DEF MayWrite
    <2>3. QED
      BY <2>1, <2>2 DEF ExportsInv, FreshExports, OutputsHaveExports, Path
  <1>2. CASE PlaceBoot
    <2>1. /\ pc = "placeBoot" /\ UNCHANGED export /\ pc' \in {"idle", "clean"}
          /\ disk' # disk => IsoBoot # No /\ disk[IsoBoot].state # "none"
          /\ \A p \in Path \ {"treeBoot"} : disk'[p] = disk[p]
      BY <1>0, <1>2 DEF PlaceBoot, CopyFileInto, Goto, Fail, End
    <2>2. \A p \in Path : disk'[p] # disk[p] => MayWrite(p)
      BY <1>0, <2>1 DEF MayWrite
    <2>3. QED
      BY <2>1, <2>2 DEF ExportsInv, FreshExports, OutputsHaveExports, Path
  <1>3. CASE Clean
    <2>1. /\ pc = "clean" /\ pc' \in {"idle", "author"} /\ disk' = [disk EXCEPT !["rootOut"] = NoFile]
          /\ export'["out"] = export["out"]
      BY <1>0, <1>3 DEF Clean, Goto, Fail, End, Path
    <2>2. \A p \in Path : disk'[p] # disk[p] => MayWrite(p)
      BY <1>0, <2>1 DEF MayWrite
    <2>3. disk'["rootOut"].state = "none" /\ disk'["out"] = disk["out"]
      BY <1>0, <2>1, FileFacts DEF Path
    <2>4. QED
      BY <2>1, <2>2, <2>3 DEF ExportsInv, FreshExports, OutputsHaveExports
  <1>4. QED
    BY <1>1, <1>2, <1>3

\* Being killed leaves the disk alone, but for part of an export being made.
LEMMA KilledExports ==
    ASSUME IInv, ExportsInv, Killed \/ KilledExporting
    PROVE  ExportsInv' /\ UNCHANGED disk
  <1>0. TypeOK /\ export \in [Path -> Files] /\ disk \in [Path -> Files]
    BY DEF IInv, TypeOK
  <1>1. pc' = "idle" /\ UNCHANGED disk
    BY DEF Killed, KilledExporting, Fail, End, files
  <1>2. FreshExports'
    BY <1>1 DEF FreshExports
  <1>3. OutputsHaveExports'
    <2>1. CASE Killed
      BY <2>1 DEF Killed, files, ExportsInv, OutputsHaveExports
    <2>2. CASE KilledExporting /\ pc = "bootExport"
      <3>1. b.bootOut \in {"bootOut", "treeBoot"}
        BY <1>0, <2>2, ArgsFacts DEF IInv, BootStage
      <3>2. \A p \in {"out", "rootOut"} : export'[p] = export[p]
        BY <1>0, <2>2, <3>1 DEF KilledExporting, Path
      <3>3. QED
        BY <1>1, <3>2 DEF ExportsInv, OutputsHaveExports
    <2>3. CASE KilledExporting /\ pc = "export"
      <3>1. export[w.out].state = "none"
        BY <2>3 DEF ExportsInv, FreshExports
      <3>2. w.out \in {"out", "rootOut"} => disk[w.out].state = "none"
        BY <3>1, FileFacts DEF ExportsInv, OutputsHaveExports, NoFile, Whole
      <3>3. \A p \in Path \ {w.out} : export'[p] = export[p]
        BY <1>0, <2>3 DEF KilledExporting
      <3>4. QED
        BY <1>1, <3>2, <3>3 DEF ExportsInv, OutputsHaveExports, Path
    <2>4. QED
      BY <2>1, <2>2, <2>3 DEF KilledExporting
  <1>4. QED
    BY <1>1, <1>2, <1>3 DEF ExportsInv

\* Every step of the program.
LEMMA NextExports ==
    ASSUME IInv, ExportsInv, [Next]_vars
    PROVE  /\ ExportsInv'
           /\ \A p \in Path : disk'[p] # disk[p] => MayWrite(p)
  <1>1. CASE UNCHANGED vars
    BY <1>1 DEF vars, ExportsInv, FreshExports, OutputsHaveExports, w, b
  <1>2. CASE Start
    <2>1. pc' = "boot" /\ UNCHANGED <<disk, export>>
      BY <1>2 DEF Start
    <2>2. QED
      BY <2>1 DEF ExportsInv, FreshExports, OutputsHaveExports
  <1>3. CASE Boot \/ Iso \/ Author \/ WriteIso
    <2>1. /\ UNCHANGED <<disk, export>>
          /\ pc' \in {"idle", "bootExport", "wim", "placeWim", "writeIso"}
      BY <1>3 DEF Boot, Iso, Author, WriteIso, files, Goto, Fail, Exit, End
    <2>2. QED
      BY <2>1 DEF ExportsInv, FreshExports, OutputsHaveExports
  <1>4. CASE Killed \/ KilledExporting
    BY <1>4, KilledExports
  <1>5. QED
    BY <1>1, <1>2, <1>3, <1>4, BootExports, WimExports, IsoExports DEF Next, Step

LEMMA InitExports == Init => ExportsInv
  <1> SUFFICES ASSUME Init PROVE ExportsInv
    OBVIOUS
  <1>1. pc = "idle" /\ disk["out"] = NoFile /\ disk["rootOut"] = NoFile
    BY DEF Init, Path
  <1>2. QED
    BY <1>1, FileFacts DEF ExportsInv, FreshExports, OutputsHaveExports

\* A damaged output never costs the image: however runs fail, are killed or
\* lose a Close, the whole export it was made from stands beside it, which is
\* also why a later run that names another image is given the same one.
THEOREM OutputsAlwaysHaveExports == Spec => []OutputsHaveExports
  <1>1. ExportsInv => OutputsHaveExports
    BY DEF ExportsInv
  <1>2. QED
    BY <1>1, Invariance, InitExports, NextExports, PTL DEF Spec

\* No step writes a file but an output of this run, from a whole export, or,
\* with -iso-dir, one of the tree's WIMs or what is trimmed at its root (run,
\* shrinkBootWim, copyFileInto, cleanISORoot).  A WIM that is only read stays
\* what it was.
THEOREM NothingElseChanges == Spec => OnlyOutputsChange
  <1>1. IInv /\ ExportsInv /\ [Next]_vars => [\A p \in Path : disk'[p] # disk[p] => MayWrite(p)]_vars
    BY NextExports
  <1>2. QED
    BY <1>1, Invariance, InitExports, NextExports, PTL DEF Spec, OnlyOutputsChange

=============================================================================
