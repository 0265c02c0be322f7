------------------------------ MODULE BuildIso ------------------------------
(***************************************************************************)
(* buildISO (isoimage.go, isobloat.go): an extracted media tree is edited  *)
(* in place and a bootable ISO is authored from it.  The same tree serves  *)
(* run after run with different flags, and a run may stop at any step, so  *)
(* what a run finds is what all earlier runs left.  Placing the two WIMs   *)
(* is modelled in Pipeline.                                                *)
(***************************************************************************)
EXTENDS Integers

CONSTANTS MaxRuns    \* bound: runs on one tree

ASSUME BuildIsoAssumption == MaxRuns \in Nat

\* One file for each way the stage treats files; Top is its entry at the root.
File == {"chunk", "stray", "answer", "setup", "credits", "cjkfont", "font",
         "etfsboot", "efisys", "grubEFI", "grubBIOS"}

Top == [f \in File |->
          CASE f = "chunk" -> "__chunk_data" [] f = "stray" -> "autorun.inf"
            [] f = "answer" -> "autounattend.xml" [] f = "setup" -> "setup.exe"
            [] f = "credits" -> "sources" [] f = "efisys" -> "efi"
            [] OTHER -> "boot"]

\* The keep list without the boot directory.
isoRootKeepListNoBoot == {"efi", "sources", "bootmgr", "bootmgr.efi", "setup.exe",
                          "autounattend.xml"}

isoRootKeepList == {"boot", "efi", "sources", "bootmgr", "bootmgr.efi", "setup.exe",
                    "autounattend.xml"}

Extras == {"credits", "cjkfont"}

\* Content: none, what the media had, nano11's embedded file, one of two
\* GRUB builds, or a truncated write.
None == "none"
Grub == {"menu", "silent"}
Content == {None, "media", "nano11", "truncated"} \cup Grub
Trees == [File -> Content]

\* grubEFI and eltorito name the GRUB image given, None if the flag is not.
Args == [skipAutounattend : BOOLEAN, keepExtras : BOOLEAN,
         grubEFI : Grub \cup {None}, hybrid : BOOLEAN, eltorito : Grub \cup {None}]

VARIABLES
    args, pc, status, runs,
    tree,     \* the files under -iso-dir
    todo,     \* entries or files a removal loop has still to visit
    uefi,     \* the tree file that becomes the UEFI boot entry
    bios,     \* the tree file that becomes the BIOS boot entry
    mbr,      \* the hybrid MBR gets GRUB's legacy boot code
    iso       \* the file at -iso-out

local == <<todo, uefi, bios, mbr>>
vars == <<args, pc, status, runs, tree, todo, uefi, bios, mbr, iso>>

NoIso == [state |-> "none"]
Authored == [state : {"whole"}, tree : Trees, uefi : File,
             bios : [image : File, table : BOOLEAN, sectors : Nat], mbr : BOOLEAN]

\* Media as it was extracted: it may lack a boot image (ARM media have no
\* etfsboot.com), and may come with an answer file of its own.
Init ==
    /\ args = [skipAutounattend |-> FALSE, keepExtras |-> FALSE, grubEFI |-> None,
               hybrid |-> FALSE, eltorito |-> None]
    /\ pc = "idle" /\ status = "none" /\ runs = 0
    /\ \E lacks \in SUBSET {"answer", "etfsboot", "efisys"} :
         tree = [f \in File |-> IF f \in lacks \cup {"grubEFI", "grubBIOS"} THEN None ELSE "media"]
    /\ todo = {} /\ uefi = "efisys" /\ bios = "etfsboot" /\ mbr = FALSE
    /\ iso = NoIso

Goto(step) == pc' = step /\ UNCHANGED <<args, status, runs>>

\* buildISO's error not passed on to log.Fatal.
EndUnnoticed(how) == pc' = "idle" /\ UNCHANGED <<status, args, runs>>

End(how) == pc' = "idle" /\ status' = how /\ UNCHANGED <<args, runs>>

Start ==
    /\ pc = "idle" /\ runs < MaxRuns
    /\ args' \in Args
    /\ runs' = runs + 1 /\ status' = "running" /\ pc' = "chunk"
    /\ todo' = {} /\ uefi' = "efisys" /\ bios' = "etfsboot" /\ mbr' = FALSE
    /\ UNCHANGED <<tree, iso>>

\* Any system call may fail, and the process may be killed, between steps.
Stop ==
    /\ pc # "idle"
    /\ End("failed")
    /\ UNCHANGED <<tree, local, iso>>

\* os.WriteFile of content c to file f, going on to step; stopping in the
\* middle leaves a truncated file.
WriteFile(f, c, step) ==
    \/ tree' = [tree EXCEPT ![f] = c] /\ Goto(step)
    \/ tree' = [tree EXCEPT ![f] = "truncated"] /\ End("failed")

-----------------------------------------------------------------------------
RemoveChunk ==
    /\ pc = "chunk"
    /\ tree' = [tree EXCEPT !["chunk"] = None]
    /\ Goto("answer")
    /\ UNCHANGED <<local, iso>>

Answer ==
    /\ pc = "answer"
    /\ IF args.skipAutounattend THEN tree' = tree /\ Goto("list")
       ELSE WriteFile("answer", "nano11", "list")
    /\ UNCHANGED <<local, iso>>

\* cleanISORoot: one snapshot of the root's entries...
ListRoot ==
    /\ pc = "list"
    /\ todo' = {Top[f] : f \in {g \in File : tree[g] # None}} \ isoRootKeepList
    /\ Goto("clean")
    /\ UNCHANGED <<tree, uefi, bios, mbr, iso>>

\* ... then os.RemoveAll of every entry that is not kept.
CleanRoot ==
    /\ pc = "clean"
    /\ \E e \in todo :
         /\ tree' = [f \in File |-> IF Top[f] = e THEN None ELSE tree[f]]
         /\ todo' = todo \ {e}
    /\ UNCHANGED <<args, pc, status, runs, uefi, bios, mbr, iso>>

\* The tree is clean; the extras to remove are globbed unless kept.
CleanDone ==
    /\ pc = "clean" /\ todo = {}
    /\ todo' = IF args.keepExtras THEN {} ELSE {f \in Extras : tree[f] # None}
    /\ Goto("extras")
    /\ UNCHANGED <<tree, uefi, bios, mbr, iso>>

RemoveExtra ==
    /\ pc = "extras"
    /\ \E f \in todo :
         /\ tree' = [tree EXCEPT ![f] = None]
         /\ todo' = todo \ {f}
    /\ UNCHANGED <<args, pc, status, runs, uefi, bios, mbr, iso>>

\* The UEFI boot image: Windows' own, or a FAT image around the GRUB given.
StageUEFI ==
    /\ pc = "extras" /\ todo = {}
    /\ IF args.grubEFI = None THEN UNCHANGED <<tree, uefi>> /\ Goto("bios")
       ELSE WriteFile("grubEFI", args.grubEFI, "bios") /\ uefi' = "grubEFI"
    /\ UNCHANGED <<todo, bios, mbr, iso>>

\* The BIOS boot image staged without the check that both halves were given.
StageBIOSUnchecked ==
    /\ pc = "bios"
    /\ IF args.eltorito # None
       THEN WriteFile("grubBIOS", args.eltorito, "author") /\ bios' = "grubBIOS" /\ mbr' = args.hybrid
       ELSE UNCHANGED <<tree, bios>> /\ mbr' = args.hybrid /\ Goto("author")
    /\ UNCHANGED <<todo, uefi, iso>>

\* The staged GRUB image not made the boot entry.
StageBIOSKeepsEntry ==
    /\ pc = "bios"
    /\ IF args.hybrid # (args.eltorito # None)
       THEN UNCHANGED <<tree, mbr>> /\ End("failed")
       ELSE IF args.hybrid
       THEN WriteFile("grubBIOS", args.eltorito, "author") /\ mbr' = TRUE
       ELSE UNCHANGED <<tree, mbr>> /\ Goto("author")
    /\ UNCHANGED <<bios, todo, uefi, iso>>

\* The BIOS boot image, after the check that both of its halves were given.
StageBIOS ==
    /\ pc = "bios"
    /\ IF args.hybrid # (args.eltorito # None)
       THEN UNCHANGED <<tree, bios, mbr>> /\ End("failed")
       ELSE IF args.hybrid
       THEN WriteFile("grubBIOS", args.eltorito, "author") /\ bios' = "grubBIOS" /\ mbr' = TRUE
       ELSE UNCHANGED <<tree, bios, mbr>> /\ Goto("author")
    /\ UNCHANGED <<todo, uefi, iso>>

\* biosBootEntry: a boot information table for either image; of Windows' own
\* eight sectors are loaded, of GRUB's all (0).
BiosBootEntry(img) ==
    [image |-> img, table |-> TRUE, sectors |-> IF img = "etfsboot" THEN 8 ELSE 0]

\* AddTree reads the tree; os.Create truncates the ISO.
Author ==
    /\ pc = "author"
    /\ iso' = [state |-> "truncated"]
    /\ Goto("write")
    /\ UNCHANGED <<tree, local>>

\* WriteTo records the tree and both boot entries, whose images must exist.
WriteTo ==
    /\ pc = "write"
    /\ IF tree[uefi] # None /\ tree[bios] # None
       THEN /\ iso' = [state |-> "whole", tree |-> tree, uefi |-> uefi,
                       bios |-> BiosBootEntry(bios), mbr |-> mbr]
            /\ End("ok")
       ELSE UNCHANGED iso /\ End("failed")
    /\ UNCHANGED <<tree, local>>

Step == \/ RemoveChunk \/ Answer \/ ListRoot \/ CleanRoot \/ CleanDone \/ RemoveExtra
        \/ StageUEFI \/ StageBIOS \/ Author \/ WriteTo

Next == Start \/ Step \/ Stop

Spec == Init /\ [][Next]_vars

-----------------------------------------------------------------------------
(* Properties. *)

TypeOK ==
    /\ args \in Args /\ runs \in 0..MaxRuns /\ status \in {"none", "running", "ok", "failed"}
    /\ (status = "running") <=> (pc # "idle")
    /\ tree \in Trees /\ uefi \in File /\ bios \in File /\ mbr \in BOOLEAN
    /\ todo \subseteq {Top[f] : f \in File} \cup File
    /\ iso \in {NoIso, [state |-> "truncated"]} \cup Authored

\* The ISO's root holds only what the keep list names, and the extras are
\* gone unless kept, although an earlier run stopped in the middle of either
\* loop; the fonts and the setup program the media needs are all there; and
\* the answer file, unless it was skipped, is the embedded one, whatever copy,
\* truncated ones included, the tree held before.
RootTrimmed ==
    status = "ok" =>
      /\ \A f \in File : iso.tree[f] # None => Top[f] \in isoRootKeepList
      /\ ~args.keepExtras => \A f \in Extras : iso.tree[f] = None
      /\ iso.tree["font"] = "media" /\ iso.tree["setup"] = "media"
      /\ ~args.skipAutounattend => iso.tree["answer"] = "nano11"

\* How a run's flags, and a whole ISO, have the media boot: the GRUB builds,
\* how much of the BIOS image is loaded, and whether a USB stick boots it too.
Wanted == [uefi |-> IF args.grubEFI = None THEN "media" ELSE args.grubEFI,
           bios |-> IF args.eltorito = None THEN "media" ELSE args.eltorito,
           all |-> args.eltorito # None, mbr |-> args.eltorito # None]

Boots == [uefi |-> iso.tree[iso.uefi], bios |-> iso.tree[iso.bios.image],
          all |-> iso.bios.table /\ iso.bios.sectors = 0, mbr |-> iso.mbr]

\* Of a file that is no whole ISO.
BootsNot(why) == [uefi |-> why, bios |-> why, all |-> FALSE, mbr |-> FALSE]

Output == INSTANCE IsoOutput WITH
    Boot <- [uefi : Grub \cup {"media"}, bios : Grub \cup {"media"},
             all : BOOLEAN, mbr : BOOLEAN],
    NoFile <- BootsNot("none"), Damaged <- BootsNot("truncated"),
    wanted <- Wanted,
    output <- IF iso.state = "whole" THEN Boots ELSE BootsNot(iso.state)

\* The file at -iso-out is never anything but the earlier one, damaged, or one
\* that boots as the flags of the run that wrote it say, from this run's GRUB
\* build or Windows' own image, never one an earlier run staged or truncated.
ImplementsOutput == Output!IsoSpec

\* The file at -iso-out is not touched before the run's flags were accepted and
\* the tree is edited as they ask: the root clean and the extras gone, whatever
\* stopped runs left, the answer file and the GRUB images given whole.  It says
\* nothing of Windows' own boot images: whether the tree has them is found out
\* by WriteTo, with the earlier ISO already truncated.
TreePreparedFirst ==
    [][iso' # iso =>
         /\ args.hybrid = (args.eltorito # None)
         /\ \A f \in File : tree[f] # None => Top[f] \in isoRootKeepList
         /\ ~args.keepExtras => \A f \in Extras : tree[f] = None
         /\ ~args.skipAutounattend => tree["answer"] = "nano11"
         /\ args.grubEFI # None => tree["grubEFI"] = args.grubEFI
         /\ args.eltorito # None => tree["grubBIOS"] = args.eltorito]_vars

=============================================================================
