--------------------------- MODULE BuildIsoProofs ---------------------------
(***************************************************************************)
(* BuildIso's invariants, its action property and that it implements       *)
(* IsoOutput, for any number of runs on one tree.                          *)
(***************************************************************************)
EXTENDS BuildIso, TLAPS

PastAnswer == pc \in {"list", "clean", "extras", "bios", "author", "write"} \/ status = "ok"
PastClean == pc \in {"extras", "bios", "author", "write"} \/ status = "ok"
PastExtras == pc \in {"bios", "author", "write"} \/ status = "ok"
PastStaging == pc \in {"author", "write"} \/ status = "ok"

\* What no run removes, and what stays as the media had it.
Media ==
    /\ tree["font"] = "media" /\ tree["setup"] = "media"
    /\ tree["efisys"] \in {None, "media"} /\ tree["etfsboot"] \in {None, "media"}

\* What the steps behind a run have brought about.
Trimmed ==
    /\ PastAnswer /\ ~args.skipAutounattend => tree["answer"] = "nano11"
    /\ pc = "clean" => /\ todo \cap isoRootKeepList = {}
                       /\ \A f \in File : tree[f] # None => Top[f] \in isoRootKeepList \cup todo
    /\ PastClean => \A f \in File : tree[f] # None => Top[f] \in isoRootKeepList
    /\ pc = "extras" => /\ todo \subseteq Extras
                        /\ ~args.keepExtras => \A f \in Extras : tree[f] # None => f \in todo
    /\ PastExtras /\ ~args.keepExtras => \A f \in Extras : tree[f] = None

\* The boot entries, and the images this run staged for them.
Staged ==
    /\ pc \in {"chunk", "answer", "list", "clean", "extras"} => uefi = "efisys"
    /\ pc \in {"chunk", "answer", "list", "clean", "extras", "bios"} => bios = "etfsboot" /\ ~mbr
    /\ PastExtras => /\ uefi = IF args.grubEFI = None THEN "efisys" ELSE "grubEFI"
                     /\ args.grubEFI # None => tree["grubEFI"] = args.grubEFI
    /\ PastStaging => /\ args.hybrid = (args.eltorito # None) /\ mbr = args.hybrid
                      /\ bios = IF args.hybrid THEN "grubBIOS" ELSE "etfsboot"
                      /\ args.hybrid => tree["grubBIOS"] = args.eltorito

\* The file at -iso-out.
Iso ==
    /\ pc = "write" => iso.state = "truncated"
    /\ status = "ok" => iso.state = "whole" /\ iso.tree = tree

IInv == TypeOK /\ Media /\ Trimmed /\ Staged /\ Iso


-----------------------------------------------------------------------------

LEMMA TopFacts ==
    /\ Top["font"] = "boot" /\ Top["etfsboot"] = "boot" /\ Top["grubEFI"] = "boot" /\ Top["grubBIOS"] = "boot"
    /\ Top["setup"] = "setup.exe" /\ Top["efisys"] = "efi"
    /\ {"boot", "setup.exe", "efi"} \subseteq isoRootKeepList
    /\ {Top["answer"]} \subseteq isoRootKeepList
  BY DEF Top, File, isoRootKeepList

\* A run that did not end well leaves nothing that is behind it.
LEMMA StoppedInv ==
    ASSUME TypeOK, pc # "idle", End("failed"), tree' \in Trees, Media', uefi' \in File, bios' \in File,
           mbr' \in BOOLEAN, UNCHANGED <<todo, iso>>
    PROVE  IInv'
  <1>1. TypeOK'
    BY DEF TypeOK, End
  <1>2. pc' = "idle" /\ status' = "failed"
    BY DEF End
  <1>3. (Trimmed /\ Staged /\ Iso)'
    BY <1>2 DEF Trimmed, Staged, Iso, PastAnswer, PastClean, PastExtras, PastStaging
  <1>4. QED
    BY <1>1, <1>3 DEF IInv

\* A step that goes on keeps the flags.
LEMMA GoesOn ==
    ASSUME TypeOK, pc # "idle", NEW step, step # "idle", Goto(step), tree' \in Trees, uefi' \in File,
           bios' \in File, mbr' \in BOOLEAN, todo' \subseteq {Top[f] : f \in File} \cup File,
           iso' \in {NoIso, [state |-> "truncated"]} \cup Authored
    PROVE  /\ TypeOK' /\ pc' = step /\ args' = args
           /\ status = "running" /\ status' = "running"
  BY DEF TypeOK, Goto

\* What os.WriteFile may do.
LEMMA WriteFacts ==
    ASSUME TypeOK, NEW f \in File, NEW c \in Content, NEW step, WriteFile(f, c, step)
    PROVE  /\ tree' \in Trees /\ \A g \in File \ {f} : tree'[g] = tree[g]
           /\ End("failed") \/ (Goto(step) /\ tree'[f] = c)
  <1>1. "truncated" \in Content
    BY DEF Content
  <1>2. QED
    BY <1>1 DEF WriteFile, TypeOK, Trees

LEMMA InitInv == Init => IInv
  <1> SUFFICES ASSUME Init PROVE IInv
    OBVIOUS
  <1>1. PICK lacks \in SUBSET {"answer", "etfsboot", "efisys"} :
          tree = [f \in File |-> IF f \in lacks \cup {"grubEFI", "grubBIOS"} THEN None ELSE "media"]
    BY DEF Init
  <1>2. tree \in Trees
    BY <1>1 DEF Trees, Content
  <1>3. Media
    BY <1>1 DEF Media, File
  <1>4. TypeOK
    <2>1. args \in Args
      BY DEF Init, Args
    <2>2. runs \in 0..MaxRuns /\ uefi \in File /\ bios \in File
      BY BuildIsoAssumption DEF Init, File
    <2>3. QED
      BY <1>2, <2>1, <2>2 DEF Init, TypeOK
  <1>5. Trimmed /\ Staged /\ Iso
    BY DEF Init, Trimmed, Staged, Iso, PastAnswer, PastClean, PastExtras, PastStaging
  <1>6. QED
    BY <1>3, <1>4, <1>5 DEF IInv

LEMMA StartInv == IInv /\ Start => IInv'
  <1> SUFFICES ASSUME IInv, Start PROVE IInv'
    OBVIOUS
  <1>0. TypeOK /\ Media
    BY DEF IInv
  <1>1. TypeOK'
    <2>1. runs' \in 0..MaxRuns
      BY <1>0, BuildIsoAssumption DEF Start, TypeOK
    <2>2. uefi' \in File /\ bios' \in File
      BY DEF Start, File
    <2>3. QED
      BY <1>0, <2>1, <2>2 DEF Start, TypeOK
  <1>2. (Media /\ Trimmed /\ Staged /\ Iso)'
    BY <1>0 DEF Start, Media, Trimmed, Staged, Iso, PastAnswer, PastClean, PastExtras, PastStaging
  <1>3. QED
    BY <1>1, <1>2 DEF IInv

LEMMA RemoveChunkInv == IInv /\ RemoveChunk => IInv'
  <1> SUFFICES ASSUME IInv, RemoveChunk PROVE IInv'
    OBVIOUS
  <1>0. TypeOK /\ Media /\ Staged /\ pc = "chunk"
    BY DEF IInv, RemoveChunk
  <1>1. tree' \in Trees /\ \A f \in File \ {"chunk"} : tree'[f] = tree[f]
    BY <1>0 DEF RemoveChunk, TypeOK, Trees, Content
  <1>2. TypeOK' /\ pc' = "answer" /\ args' = args /\ status' = "running"
    BY <1>0, <1>1, GoesOn DEF RemoveChunk, local, TypeOK
  <1>3. Media'
    BY <1>0, <1>1 DEF Media, File
  <1>4. (Trimmed /\ Staged /\ Iso)'
    BY <1>0, <1>2 DEF RemoveChunk, local, Trimmed, Staged, Iso, PastAnswer, PastClean, PastExtras, PastStaging
  <1>5. QED
    BY <1>2, <1>3, <1>4 DEF IInv

LEMMA AnswerInv == IInv /\ Answer => IInv'
  <1> SUFFICES ASSUME IInv, Answer PROVE IInv'
    OBVIOUS
  <1>0. TypeOK /\ Media /\ Staged /\ pc = "answer" /\ UNCHANGED <<todo, uefi, bios, mbr, iso>>
    BY DEF IInv, Answer, local
  <1>1. /\ tree' \in Trees /\ \A f \in File \ {"answer"} : tree'[f] = tree[f]
        /\ \/ End("failed")
           \/ Goto("list") /\ (args.skipAutounattend \/ tree'["answer"] = "nano11")
    <2>1. CASE args.skipAutounattend
      BY <1>0, <2>1 DEF Answer, TypeOK
    <2>2. CASE ~args.skipAutounattend
      <3>1. "answer" \in File /\ "nano11" \in Content /\ WriteFile("answer", "nano11", "list")
        BY <2>2 DEF Answer, File, Content
      <3>2. QED
        BY <1>0, <3>1, WriteFacts
    <2>3. QED
      BY <2>1, <2>2
  <1>2. Media'
    BY <1>0, <1>1 DEF Media, File
  <1>3. CASE End("failed")
    BY <1>0, <1>1, <1>2, <1>3, StoppedInv DEF TypeOK
  <1>4. CASE Goto("list") /\ (args.skipAutounattend \/ tree'["answer"] = "nano11")
    <2>1. TypeOK' /\ pc' = "list" /\ args' = args /\ status' = "running"
      BY <1>0, <1>1, <1>4, GoesOn DEF TypeOK
    <2>2. (Trimmed /\ Staged /\ Iso)'
      BY <1>0, <1>4, <2>1 DEF Trimmed, Staged, Iso, PastAnswer, PastClean, PastExtras, PastStaging
    <2>3. QED
      BY <1>2, <2>1, <2>2 DEF IInv
  <1>5. QED
    BY <1>1, <1>3, <1>4

LEMMA ListRootInv == IInv /\ ListRoot => IInv'
  <1> SUFFICES ASSUME IInv, ListRoot PROVE IInv'
    OBVIOUS
  <1>0. /\ TypeOK /\ Media /\ Trimmed /\ Staged /\ pc = "list"
        /\ UNCHANGED <<tree, uefi, bios, mbr, iso>>
    BY DEF IInv, ListRoot
  <1>1. todo' = {Top[f] : f \in {g \in File : tree[g] # None}} \ isoRootKeepList
    BY DEF ListRoot
  <1>2. TypeOK' /\ pc' = "clean" /\ args' = args /\ status = "running" /\ status' = "running"
    <2>1. todo' \subseteq {Top[f] : f \in File} \cup File
      BY <1>1
    <2>2. QED
      BY <1>0, <2>1, GoesOn DEF ListRoot, TypeOK
  <1>3. (Media /\ Trimmed /\ Staged /\ Iso)'
    BY <1>0, <1>1, <1>2 DEF Media, Trimmed, Staged, Iso, PastAnswer, PastClean, PastExtras, PastStaging
  <1>4. QED
    BY <1>2, <1>3 DEF IInv

LEMMA CleanRootInv == IInv /\ CleanRoot => IInv'
  <1> SUFFICES ASSUME IInv, CleanRoot PROVE IInv'
    OBVIOUS
  <1>0. /\ TypeOK /\ Media /\ Trimmed /\ Staged /\ pc = "clean" /\ status = "running"
        /\ UNCHANGED <<args, pc, status, runs, uefi, bios, mbr, iso>>
    BY DEF IInv, CleanRoot, TypeOK
  <1>1. PICK e \in todo : /\ tree' = [f \in File |-> IF Top[f] = e THEN None ELSE tree[f]]
                          /\ todo' = todo \ {e}
    BY DEF CleanRoot
  <1>2. e \notin isoRootKeepList
    BY <1>0 DEF Trimmed
  <1>3. \A f \in File : tree'[f] = IF Top[f] = e THEN None ELSE tree[f]
    BY <1>1
  <1>4. tree' \in Trees
    BY <1>0, <1>1 DEF TypeOK, Trees, Content
  <1>5. TypeOK'
    BY <1>0, <1>1, <1>4 DEF TypeOK
  <1>6. \A f \in {"font", "setup", "efisys", "etfsboot", "answer"} : tree'[f] = tree[f]
    BY <1>2, <1>3, TopFacts DEF File
  <1>7. Media'
    BY <1>0, <1>6 DEF Media
  <1>8. (Trimmed /\ Staged /\ Iso)'
    BY <1>0, <1>1, <1>3, <1>6 DEF Trimmed, Staged, Iso, PastAnswer, PastClean, PastExtras, PastStaging
  <1>9. QED
    BY <1>5, <1>7, <1>8 DEF IInv

LEMMA CleanDoneInv == IInv /\ CleanDone => IInv'
  <1> SUFFICES ASSUME IInv, CleanDone PROVE IInv'
    OBVIOUS
  <1>0. /\ TypeOK /\ Media /\ Trimmed /\ Staged /\ pc = "clean" /\ todo = {}
        /\ UNCHANGED <<tree, uefi, bios, mbr, iso>>
        /\ todo' = IF args.keepExtras THEN {} ELSE {f \in Extras : tree[f] # None}
    BY DEF IInv, CleanDone
  <1>1. todo' \subseteq Extras /\ Extras \subseteq File
    BY <1>0 DEF Extras, File
  <1>2. TypeOK' /\ pc' = "extras" /\ args' = args /\ status = "running" /\ status' = "running"
    BY <1>0, <1>1, GoesOn DEF CleanDone, TypeOK
  <1>3. (Media /\ Trimmed /\ Staged /\ Iso)'
    BY <1>0, <1>1, <1>2 DEF Media, Trimmed, Staged, Iso, PastAnswer, PastClean, PastExtras, PastStaging
  <1>4. QED
    BY <1>2, <1>3 DEF IInv

LEMMA RemoveExtraInv == IInv /\ RemoveExtra => IInv'
  <1> SUFFICES ASSUME IInv, RemoveExtra PROVE IInv'
    OBVIOUS
  <1>0. /\ TypeOK /\ Media /\ Trimmed /\ Staged /\ pc = "extras" /\ status = "running"
        /\ UNCHANGED <<args, pc, status, runs, uefi, bios, mbr, iso>>
    BY DEF IInv, RemoveExtra, TypeOK
  <1>1. PICK f \in todo : tree' = [tree EXCEPT ![f] = None] /\ todo' = todo \ {f}
    BY DEF RemoveExtra
  <1>2. f \in Extras /\ Extras = {"credits", "cjkfont"} /\ Extras \subseteq File
    BY <1>0 DEF Trimmed, Extras, File
  <1>3. tree' \in Trees /\ \A g \in File : tree'[g] = IF g = f THEN None ELSE tree[g]
    BY <1>0, <1>1, <1>2 DEF TypeOK, Trees, Content
  <1>4. TypeOK'
    BY <1>0, <1>1, <1>3 DEF TypeOK
  <1>5. \A g \in {"font", "setup", "efisys", "etfsboot", "answer"} : tree'[g] = tree[g]
    BY <1>2, <1>3 DEF File
  <1>6. Media'
    BY <1>0, <1>5 DEF Media
  <1>7. Trimmed'
    BY <1>0, <1>1, <1>2, <1>3, <1>5 DEF Trimmed, PastAnswer, PastClean, PastExtras
  <1>8. (Staged /\ Iso)'
    BY <1>0 DEF Staged, Iso, PastExtras, PastStaging
  <1>9. QED
    BY <1>4, <1>6, <1>7, <1>8 DEF IInv

LEMMA StageUEFIInv == IInv /\ StageUEFI => IInv'
  <1> SUFFICES ASSUME IInv, StageUEFI PROVE IInv'
    OBVIOUS
  <1>0. /\ TypeOK /\ Media /\ Trimmed /\ Staged /\ pc = "extras" /\ todo = {}
        /\ UNCHANGED <<todo, bios, mbr, iso>>
        /\ args.grubEFI \in Grub \cup {None} /\ uefi = "efisys"
    BY DEF IInv, StageUEFI, TypeOK, Args, Staged
  <1>1. /\ tree' \in Trees /\ \A f \in File \ {"grubEFI"} : tree'[f] = tree[f]
        /\ uefi' = IF args.grubEFI = None THEN "efisys" ELSE "grubEFI"
        /\ args.grubEFI = None => tree' = tree
        /\ \/ End("failed")
           \/ Goto("bios") /\ (args.grubEFI # None => tree'["grubEFI"] = args.grubEFI)
    <2>1. CASE args.grubEFI = None
      BY <1>0, <2>1 DEF StageUEFI, TypeOK
    <2>2. CASE args.grubEFI # None
      <3>1. /\ "grubEFI" \in File /\ args.grubEFI \in Content
            /\ WriteFile("grubEFI", args.grubEFI, "bios") /\ uefi' = "grubEFI"
        BY <1>0, <2>2 DEF StageUEFI, File, Content
      <3>2. QED
        BY <1>0, <2>2, <3>1, WriteFacts
    <2>3. QED
      BY <2>1, <2>2
  <1>2. uefi' \in File
    BY <1>1 DEF File
  <1>3. Media'
    BY <1>0, <1>1 DEF Media, File
  <1>4. CASE End("failed")
    BY <1>0, <1>1, <1>2, <1>3, <1>4, StoppedInv DEF TypeOK
  <1>5. CASE Goto("bios") /\ (args.grubEFI # None => tree'["grubEFI"] = args.grubEFI)
    <2>1. TypeOK' /\ pc' = "bios" /\ args' = args /\ status = "running" /\ status' = "running"
      BY <1>0, <1>1, <1>2, <1>5, GoesOn DEF TypeOK
    <2>2. Trimmed'
      <3>1. \A f \in File : tree'[f] # None => tree[f] # None \/ f = "grubEFI"
        BY <1>1
      <3>2. \A f \in {"answer", "credits", "cjkfont"} : tree'[f] = tree[f]
        BY <1>1 DEF File
      <3>3. Extras = {"credits", "cjkfont"} /\ Extras \subseteq File
        BY DEF Extras, File
      <3>4. QED
        BY <1>0, <2>1, <3>1, <3>2, <3>3, TopFacts DEF Trimmed, PastAnswer, PastClean, PastExtras
    <2>3. Staged'
      BY <1>0, <1>1, <1>5, <2>1 DEF Staged, PastExtras, PastStaging
    <2>4. QED
      BY <1>3, <2>1, <2>2, <2>3 DEF IInv, Iso
  <1>6. QED
    BY <1>1, <1>4, <1>5

LEMMA StageBIOSInv == IInv /\ StageBIOS => IInv'
  <1> SUFFICES ASSUME IInv, StageBIOS PROVE IInv'
    OBVIOUS
  <1>0. /\ TypeOK /\ Media /\ Trimmed /\ Staged /\ pc = "bios"
        /\ UNCHANGED <<todo, uefi, iso>>
        /\ args.eltorito \in Grub \cup {None} /\ args.hybrid \in BOOLEAN
        /\ bios = "etfsboot" /\ mbr = FALSE
    BY DEF IInv, StageBIOS, TypeOK, Args, Staged
  <1>1. CASE args.hybrid # (args.eltorito # None)
    BY <1>0, <1>1, StoppedInv DEF StageBIOS, Media, TypeOK
  <1>2. CASE args.hybrid = (args.eltorito # None)
    <2>1. /\ tree' \in Trees /\ \A f \in File \ {"grubBIOS"} : tree'[f] = tree[f]
          /\ bios' = IF args.hybrid THEN "grubBIOS" ELSE "etfsboot"
          /\ mbr' = args.hybrid
          /\ \/ End("failed")
             \/ Goto("author") /\ (args.hybrid => tree'["grubBIOS"] = args.eltorito)
      <3>1. CASE ~args.hybrid
        BY <1>0, <1>2, <3>1 DEF StageBIOS, TypeOK
      <3>2. CASE args.hybrid
        <4>1. /\ "grubBIOS" \in File /\ args.eltorito \in Content
              /\ WriteFile("grubBIOS", args.eltorito, "author") /\ bios' = "grubBIOS" /\ mbr' = TRUE
          BY <1>0, <1>2, <3>2 DEF StageBIOS, File, Content
        <4>2. QED
          BY <1>0, <3>2, <4>1, WriteFacts
      <3>3. QED
        BY <1>0, <3>1, <3>2
    <2>2. bios' \in File /\ mbr' \in BOOLEAN
      BY <1>0, <2>1 DEF File
    <2>3. Media'
      BY <1>0, <2>1 DEF Media, File
    <2>4. CASE End("failed")
      BY <1>0, <2>1, <2>2, <2>3, <2>4, StoppedInv DEF TypeOK
    <2>5. CASE Goto("author") /\ (args.hybrid => tree'["grubBIOS"] = args.eltorito)
      <3>1. TypeOK' /\ pc' = "author" /\ args' = args /\ status = "running" /\ status' = "running"
        BY <1>0, <2>1, <2>2, <2>5, GoesOn DEF TypeOK
      <3>2. Trimmed'
        <4>1. \A f \in File : tree'[f] # None => tree[f] # None \/ f = "grubBIOS"
          BY <2>1
        <4>2. \A f \in {"answer", "credits", "cjkfont"} : tree'[f] = tree[f]
          BY <2>1 DEF File
        <4>3. Extras = {"credits", "cjkfont"} /\ Extras \subseteq File
          BY DEF Extras, File
        <4>4. QED
          BY <1>0, <3>1, <4>1, <4>2, <4>3, TopFacts DEF Trimmed, PastAnswer, PastClean, PastExtras
      <3>3. tree'["grubEFI"] = tree["grubEFI"]
        BY <2>1 DEF File
      <3>4. Staged'
        BY <1>0, <1>2, <2>1, <2>5, <3>1, <3>3 DEF Staged, PastExtras, PastStaging
      <3>5. QED
        BY <2>3, <3>1, <3>2, <3>4 DEF IInv, Iso
    <2>6. QED
      BY <2>1, <2>4, <2>5
  <1>3. QED
    BY <1>1, <1>2

LEMMA AuthorInv == IInv /\ Author => IInv'
  <1> SUFFICES ASSUME IInv, Author PROVE IInv'
    OBVIOUS
  <1>0. /\ TypeOK /\ Media /\ Trimmed /\ Staged /\ pc = "author"
        /\ UNCHANGED <<tree, todo, uefi, bios, mbr>>
        /\ iso' = [state |-> "truncated"]
    BY DEF IInv, Author, local
  <1>1. TypeOK' /\ pc' = "write" /\ args' = args /\ status = "running" /\ status' = "running"
    BY <1>0, GoesOn DEF Author, TypeOK
  <1>2. (Media /\ Trimmed /\ Staged /\ Iso)'
    BY <1>0, <1>1 DEF Media, Trimmed, Staged, Iso, PastAnswer, PastClean, PastExtras, PastStaging
  <1>3. QED
    BY <1>1, <1>2 DEF IInv

LEMMA WriteToInv == IInv /\ WriteTo => IInv'
  <1> SUFFICES ASSUME IInv, WriteTo PROVE IInv'
    OBVIOUS
  <1>0. /\ TypeOK /\ Media /\ Trimmed /\ Staged /\ pc = "write"
        /\ UNCHANGED <<tree, todo, uefi, bios, mbr>>
    BY DEF IInv, WriteTo, local
  <1>1. CASE End("failed") /\ UNCHANGED iso
    BY <1>0, <1>1, StoppedInv DEF Media, TypeOK
  <1>2. CASE /\ iso' = [state |-> "whole", tree |-> tree, uefi |-> uefi,
                        bios |-> BiosBootEntry(bios), mbr |-> mbr]
             /\ End("ok")
    <2>1. iso' \in Authored
      BY <1>0, <1>2 DEF TypeOK, Authored, BiosBootEntry
    <2>2. TypeOK' /\ pc' = "idle" /\ status' = "ok" /\ args' = args
      BY <1>0, <1>2, <2>1 DEF End, TypeOK
    <2>3. (Media /\ Trimmed /\ Staged /\ Iso)'
      BY <1>0, <1>2, <2>2 DEF Media, Trimmed, Staged, Iso, PastAnswer, PastClean, PastExtras, PastStaging
    <2>4. QED
      BY <2>2, <2>3 DEF IInv
  <1>3. QED
    BY <1>1, <1>2 DEF WriteTo

LEMMA NextInv == IInv /\ [Next]_vars => IInv'
  <1> SUFFICES ASSUME IInv, [Next]_vars PROVE IInv'
    OBVIOUS
  <1>1. CASE UNCHANGED vars
    BY <1>1 DEF vars, IInv, TypeOK, Media, Trimmed, Staged, Iso, PastAnswer, PastClean, PastExtras,
                PastStaging
  <1>2. CASE Stop
    BY <1>2, StoppedInv DEF Stop, IInv, Media, TypeOK, local
  <1>3. QED
    BY <1>1, <1>2, StartInv, RemoveChunkInv, AnswerInv, ListRootInv, CleanRootInv, CleanDoneInv,
       RemoveExtraInv, StageUEFIInv, StageBIOSInv, AuthorInv, WriteToInv DEF Next, Step

-----------------------------------------------------------------------------
(* The theorems. *)

\* The runs keep IInv: what a run has not done itself it finds undone or
\* redoes, so nothing earlier runs left counts.
THEOREM Invariance == Spec => []IInv
  BY InitInv, NextInv, PTL DEF Spec

\* Type correctness (buildISO's variables).
THEOREM TypeCorrect == Spec => []TypeOK
  <1>1. IInv => TypeOK
    BY DEF IInv
  <1>2. QED
    BY <1>1, Invariance, PTL

\* Whatever runs stopped where before, the ISO holds the trimmed tree
\* (cleanISORoot, the removal of extras, the answer file).
THEOREM IsoIsTrimmed == Spec => []RootTrimmed
  <1>1. IInv => RootTrimmed
    BY DEF IInv, Media, Trimmed, Iso, PastAnswer, PastClean, PastExtras, RootTrimmed
  <1>2. QED
    BY <1>1, Invariance, PTL

\* Only Author and WriteTo touch the ISO.
LEMMA IsoChanges ==
    ASSUME Next, iso' # iso
    PROVE  Author \/ WriteTo
  BY DEF Next, Start, Stop, Step, RemoveChunk, Answer, ListRoot, CleanRoot, CleanDone, RemoveExtra,
         StageUEFI, StageBIOS

\* The ISO is touched only once the tree is edited as the run's flags ask
\* (buildISO, cleanISORoot, removeISOExtras).
THEOREM IsoAfterTheTree == Spec => TreePreparedFirst
  <1> DEFINE A == iso' # iso =>
                    /\ args.hybrid = (args.eltorito # None)
                    /\ \A f \in File : tree[f] # None => Top[f] \in isoRootKeepList
                    /\ ~args.keepExtras => \A f \in Extras : tree[f] = None
                    /\ ~args.skipAutounattend => tree["answer"] = "nano11"
                    /\ args.grubEFI # None => tree["grubEFI"] = args.grubEFI
                    /\ args.eltorito # None => tree["grubBIOS"] = args.eltorito
  <1>1. IInv /\ [Next]_vars => [A]_vars
    <2> SUFFICES ASSUME IInv, Next, iso' # iso PROVE A
      OBVIOUS
    <2>1. pc \in {"author", "write"}
      BY IsoChanges DEF Author, WriteTo
    <2>2. QED
      BY <2>1 DEF IInv, Trimmed, Staged, PastAnswer, PastClean, PastExtras, PastStaging
  <1>2. QED
    BY <1>1, Invariance, PTL DEF Spec, TreePreparedFirst

-----------------------------------------------------------------------------
(* The refinement. *)

MappedOutput == IF iso.state = "whole" THEN Boots ELSE BootsNot(iso.state)

LEMMA WantedType ==
    ASSUME TypeOK
    PROVE  Wanted \in [uefi : Grub \cup {"media"}, bios : Grub \cup {"media"},
                       all : BOOLEAN, mbr : BOOLEAN]
  BY DEF TypeOK, Args, Wanted

\* Every step of the authoring is a step of IsoOutput, or leaves it as it is.
LEMMA StepRefines ==
    IInv /\ IInv' /\ [Next]_vars =>
      [Output!Ask \/ Output!Damage \/ Output!Publish]_(Output!isoVars)
  <1> SUFFICES ASSUME IInv, IInv', [Next]_vars
               PROVE  [Output!Ask \/ Output!Damage \/ Output!Publish]_(Output!isoVars)
    OBVIOUS
  <1>1. ASSUME iso' = iso PROVE MappedOutput' = MappedOutput
    BY <1>1 DEF MappedOutput, Boots, BootsNot
  <1>2. ASSUME args' = args PROVE Wanted' = Wanted
    BY <1>2 DEF Wanted
  <1>3. CASE Start
    <2>1. Wanted' \in [uefi : Grub \cup {"media"}, bios : Grub \cup {"media"},
                       all : BOOLEAN, mbr : BOOLEAN]
      BY WantedType DEF IInv, TypeOK, Args, Wanted
    <2>2. iso' = iso
      BY <1>3 DEF Start
    <2>3. QED
      BY <1>1, <2>1, <2>2 DEF Output!Ask, MappedOutput
  <1>4. CASE Author
    <2>1. iso'.state = "truncated" /\ args' = args
      BY <1>4 DEF Author, Goto
    <2>2. MappedOutput' = BootsNot("truncated")
      BY <2>1 DEF MappedOutput, BootsNot
    <2>3. QED
      BY <1>2, <2>1, <2>2 DEF Output!Damage, MappedOutput
  <1>5. CASE WriteTo /\ iso' # iso
    <2>1. /\ iso' = [state |-> "whole", tree |-> tree, uefi |-> uefi,
                     bios |-> BiosBootEntry(bios), mbr |-> mbr]
          /\ args' = args /\ pc = "write"
          /\ tree[uefi] # None /\ tree[bios] # None
      BY <1>5 DEF WriteTo, End
    <2>2. iso.state = "truncated"
      BY <2>1 DEF IInv, Iso
    <2>3. MappedOutput = BootsNot("truncated")
      BY <2>2 DEF MappedOutput
    <2>4. /\ tree[uefi] = Wanted.uefi
          /\ tree[bios] = Wanted.bios
          /\ args.hybrid = (args.eltorito # None) /\ mbr = args.hybrid
          /\ bios = IF args.hybrid THEN "grubBIOS" ELSE "etfsboot"
      BY <2>1 DEF IInv, Media, Staged, PastExtras, PastStaging, Wanted
    <2>5. MappedOutput' = [uefi |-> tree[uefi], bios |-> tree[bios],
                           all |-> BiosBootEntry(bios).table /\ BiosBootEntry(bios).sectors = 0,
                           mbr |-> mbr]
      BY <2>1 DEF MappedOutput, Boots, BiosBootEntry
    <2>6. (BiosBootEntry(bios).table /\ BiosBootEntry(bios).sectors = 0) = (args.eltorito # None)
      <3>1. /\ BiosBootEntry(bios).table = TRUE
            /\ BiosBootEntry(bios).sectors = IF bios = "etfsboot" THEN 8 ELSE 0
        BY DEF BiosBootEntry
      <3>2. bios = IF args.eltorito # None THEN "grubBIOS" ELSE "etfsboot"
        BY <2>4
      <3>3. QED
        BY <3>1, <3>2
    <2>7. MappedOutput' = Wanted
      BY <2>4, <2>5, <2>6 DEF Wanted
    <2>8. QED
      BY <1>2, <2>1, <2>3, <2>7 DEF Output!Publish, MappedOutput
  <1>6. ASSUME iso' = iso, args' = args PROVE UNCHANGED Output!isoVars
    BY <1>1, <1>2, <1>6 DEF Output!isoVars, MappedOutput
  <1>7. ASSUME [Next]_vars, ~Start, ~Author, iso' = iso PROVE args' = args
    BY <1>7 DEF vars, Next, Step, Stop, End, Goto, RemoveChunk, Answer, WriteFile, ListRoot, CleanRoot,
         CleanDone, RemoveExtra, StageUEFI, StageBIOS, WriteTo
  <1>8. iso' = iso \/ Author \/ WriteTo
    BY IsoChanges DEF vars
  <1>9. QED
    BY <1>3, <1>4, <1>5, <1>6, <1>7, <1>8

\* The file at -iso-out is the earlier one, damaged, or boots as the flags of
\* the run that wrote it say, whatever the tree went through (buildISO).
THEOREM Refinement == Spec => ImplementsOutput
  <1>1. Init => Output!IsoInit
    <2> SUFFICES ASSUME Init PROVE Output!IsoInit
      OBVIOUS
    <2>1. TypeOK
      BY InitInv DEF IInv
    <2>2. iso.state = "none"
      BY DEF Init, NoIso
    <2>3. QED
      BY <2>1, <2>2, WantedType DEF Output!IsoInit
  <1>2. QED
    BY <1>1, StepRefines, Invariance, PTL DEF Spec, ImplementsOutput, Output!IsoSpec

-----------------------------------------------------------------------------
(* What a run may do to the tree it edits in place.                          *)

\* A run told to keep the extras has none to visit.
ExtrasKept == pc = "extras" /\ args.keepExtras => todo = {}

\* A step that takes file f: the chunk data, what the keep list does not name,
\* or an extra, by a run that is not to keep them.
MayTake(f) ==
    \/ f = "chunk" /\ pc = "chunk"
    \/ Top[f] \notin isoRootKeepList /\ pc = "clean"
    \/ f \in Extras /\ pc = "extras" /\ ~args.keepExtras

\* A step that writes file f: the answer file, or a GRUB image given.
MayPut(f) ==
    \/ /\ f = "answer" /\ pc = "answer" /\ ~args.skipAutounattend
       /\ tree'[f] \in {"nano11", "truncated"}
    \/ /\ f = "grubEFI" /\ pc = "extras" /\ args.grubEFI # None
       /\ tree'[f] \in {args.grubEFI, "truncated"}
    \/ /\ f = "grubBIOS" /\ pc = "bios" /\ args.hybrid /\ args.eltorito # None
       /\ tree'[f] \in {args.eltorito, "truncated"}

\* No other file of the tree changes at any step.
TreeEdits ==
    [][\A f \in File : tree'[f] # tree[f] =>
         IF tree'[f] = None THEN MayTake(f) ELSE MayPut(f)]_vars

LEMMA ExtrasKeptInv == IInv /\ ExtrasKept /\ [Next]_vars => ExtrasKept'
  <1> SUFFICES ASSUME IInv, ExtrasKept, [Next]_vars, pc' = "extras", args'.keepExtras
               PROVE  todo' = {}
    BY DEF ExtrasKept
  <1>1. CASE pc = "extras"
    <2>1. args' = args
      BY <1>1 DEF vars, Next, Step, Start, Stop, End, Goto, RemoveChunk, Answer, WriteFile, ListRoot,
           CleanRoot, CleanDone, RemoveExtra, StageUEFI, StageBIOS, Author, WriteTo
    <2>2. todo = {}
      BY <1>1, <2>1 DEF ExtrasKept
    <2>3. QED
      BY <1>1, <2>2 DEF vars, Next, Step, Start, Stop, local, RemoveChunk, Answer, ListRoot,
           CleanRoot, CleanDone, RemoveExtra, StageUEFI, StageBIOS, Author, WriteTo
  <1>2. CASE pc # "extras"
    <2>1. CleanDone
      BY <1>2 DEF vars, Next, Step, Start, Stop, End, Goto, RemoveChunk, Answer, WriteFile, ListRoot,
           CleanRoot, RemoveExtra, StageUEFI, StageBIOS, Author, WriteTo
    <2>2. QED
      BY <2>1 DEF CleanDone, Goto
  <1>3. QED
    BY <1>1, <1>2

\* What a write may leave at a file, and that it leaves the others.
LEMMA WriteEdits ==
    ASSUME tree \in Trees, NEW f \in File, NEW c, NEW step, WriteFile(f, c, step)
    PROVE  /\ tree'[f] \in {c, "truncated"}
           /\ \A g \in File \ {f} : tree'[g] = tree[g]
  BY DEF WriteFile, Trees

LEMMA StepEdits ==
    ASSUME IInv, ExtrasKept, Next, NEW f \in File, tree'[f] # tree[f]
    PROVE  IF tree'[f] = None THEN MayTake(f) ELSE MayPut(f)
  <1>0. tree \in Trees /\ args \in Args
    BY DEF IInv, TypeOK
  <1>1. Grub \cap {None} = {} /\ None \notin {"nano11", "truncated"}
    BY DEF Grub, None
  <1>2. CASE RemoveChunk
    <2>1. tree' = [tree EXCEPT !["chunk"] = None] /\ pc = "chunk"
      BY <1>2 DEF RemoveChunk
    <2>2. f = "chunk" /\ tree'[f] = None
      BY <1>0, <2>1 DEF Trees
    <2>3. QED
      BY <2>1, <2>2 DEF MayTake
  <1>3. CASE Answer
    <2>1. ~args.skipAutounattend /\ WriteFile("answer", "nano11", "list") /\ pc = "answer"
      BY <1>3 DEF Answer
    <2>2. f = "answer" /\ tree'[f] \in {"nano11", "truncated"}
      BY <1>0, <2>1, WriteEdits DEF File
    <2>3. QED
      BY <1>1, <2>1, <2>2 DEF MayPut
  <1>4. CASE CleanRoot
    <2>1. PICK e \in todo : tree' = [g \in File |-> IF Top[g] = e THEN None ELSE tree[g]]
      BY <1>4 DEF CleanRoot
    <2>2. pc = "clean" /\ todo \cap isoRootKeepList = {}
      BY <1>4 DEF CleanRoot, IInv, Trimmed
    <2>3. Top[f] = e /\ tree'[f] = None
      BY <2>1
    <2>4. QED
      BY <2>1, <2>2, <2>3 DEF MayTake
  <1>5. CASE RemoveExtra
    <2>1. PICK e \in todo : tree' = [tree EXCEPT ![e] = None]
      BY <1>5 DEF RemoveExtra
    <2>2. pc = "extras" /\ todo \subseteq Extras /\ ~args.keepExtras
      BY <1>0, <1>5 DEF RemoveExtra, IInv, Trimmed, ExtrasKept, Args
    <2>3. f = e /\ tree'[f] = None
      BY <1>0, <2>1 DEF Trees
    <2>4. QED
      BY <2>1, <2>2, <2>3 DEF MayTake
  <1>6. CASE StageUEFI
    <2>1. args.grubEFI # None /\ WriteFile("grubEFI", args.grubEFI, "bios") /\ pc = "extras"
      BY <1>6 DEF StageUEFI
    <2>2. f = "grubEFI" /\ tree'[f] \in {args.grubEFI, "truncated"}
      BY <1>0, <2>1, WriteEdits DEF File
    <2>3. QED
      BY <1>1, <2>1, <2>2 DEF MayPut
  <1>7. CASE StageBIOS
    <2>1. args.hybrid /\ args.eltorito # None /\ WriteFile("grubBIOS", args.eltorito, "author")
          /\ pc = "bios"
      BY <1>7 DEF StageBIOS
    <2>2. f = "grubBIOS" /\ tree'[f] \in {args.eltorito, "truncated"}
      BY <1>0, <2>1, WriteEdits DEF File
    <2>3. QED
      BY <1>1, <2>1, <2>2 DEF MayPut
  <1>8. QED
    BY <1>2, <1>3, <1>4, <1>5, <1>6, <1>7 DEF Next, Start, Stop, Step, ListRoot, CleanDone, Author, WriteTo

\* Whatever runs stopped where before, no step of a run takes from the tree or
\* overwrites what its own flags do not say: of what the keep list names only
\* extras go, and none by a run with -keep-iso-extras (buildISO, cleanISORoot).
THEOREM TreeEditedAsAsked == Spec => TreeEdits
  <1>1. Init => ExtrasKept
    BY DEF Init, ExtrasKept
  <1>2. IInv /\ ExtrasKept /\ [Next]_vars =>
          [\A f \in File : tree'[f] # tree[f] =>
             IF tree'[f] = None THEN MayTake(f) ELSE MayPut(f)]_vars
    BY StepEdits
  <1>3. QED
    BY <1>1, <1>2, ExtrasKeptInv, Invariance, PTL DEF Spec, TreeEdits

=============================================================================
