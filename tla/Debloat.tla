------------------------------ MODULE Debloat ------------------------------
(***************************************************************************)
(* What run() does to one install image, stage by stage (main.go:405-517   *)
(* and the stages it calls): which provisioned apps, services, WinSxS      *)
(* entries and recovery image come out, for every combination of flags and *)
(* images an earlier run or another tool may have been at.  How the edits  *)
(* keep the blob table right, and how the image is written, is WimImage.   *)
(***************************************************************************)
EXTENDS Integers, FiniteSets

CONSTANTS
    Bloat, Store, Framework,   \* app families, by the keyword tier they match
    Other,                     \* those of the provisioning list no keyword matches
    Needs,                     \* Needs[a]: the frameworks app a cannot run without
    Services                   \* of servicesToRemove, those the tweaks leave alone

ASSUME DebloatAssumption ==
    /\ Bloat \cap Store = {} /\ Framework \cap (Bloat \cup Store) = {}
    /\ Other \cap (Bloat \cup Store \cup Framework) = {}
    /\ Needs \in [Bloat \cup Store \cup Other -> SUBSET Framework]

Families == Bloat \cup Store \cup Framework \cup Other

\* The services applyRegistryTweaks turns off and removeBloatServices deletes.
Update == {"wuauserv", "UsoSvc", "WaaSMedicSvc"}
servicesToRemove == Services \cup Update

\* Entries of WinSxS: one the keep list names for the architecture, Edge
\* WebView's component, any other.
Sxs == {"servicingstack", "webview", "other"}

Arch == {"x64", "arm64", "x86"}     \* what ArchitectureName() says

\* The architecture a component's directory name starts with.
Prefix(arch) == IF arch = "x64" THEN "amd64" ELSE arch

\* Recovery images: a real one, a stub grafted from one, a file without the
\* Boot directory a stub needs (an empty one, say), or none.
WinRE == {"none", "full", "stub", "hollow"}

\* winRE: keep it, stub it from the image's own, or from a file that has or
\* lacks what a stub needs.
Flags == [skipAppx : BOOLEAN, skipFileCleanup : BOOLEAN, skipWinSxSWipe : BOOLEAN,
          skipRegTweaks : BOOLEAN, skipServices : BOOLEAN,
          removeStoreApps : BOOLEAN, removeUWPFrameworks : BOOLEAN,
          winRE : {"keep", "auto", "full", "hollow"}]

VARIABLES
    flags, arch, pc,
    apps,       \* provisioned app families
    todo,       \* families the AppX loop has still to visit
    warned,     \* families appx.Remove failed for
    sxs,        \* entries of WinSxS
    unswept,    \* those of them a sweep could not remove and warned of
    donor,      \* temporary donor file: its content, "none" when there is none
    had,        \* the recovery image at the start
    winre,      \* the recovery image
    running,    \* services that are there and enabled
    disabled    \* services that are there with Start = 4

image == <<apps, sxs, unswept, winre, running, disabled>>
vars == <<flags, arch, pc, apps, todo, warned, sxs, unswept, donor, had, winre,
          running, disabled>>

Init ==
    /\ flags \in Flags /\ arch \in Arch /\ pc = "appx"
    /\ apps = Families /\ todo = {} /\ warned = {}
    /\ sxs = Sxs /\ unswept = {} /\ donor = "none"
    /\ had \in WinRE /\ winre = had
    /\ running \in {servicesToRemove, {}} /\ disabled = {}

\* A stage left with an error; what run() deferred is done.
Fail ==
    /\ pc' = "failed" /\ donor' = "none"
    /\ UNCHANGED <<flags, arch, todo, warned, had, image>>

\* Any stage may meet an image it cannot read or parse.
Abort == pc \notin {"done", "failed"} /\ Fail

Fixed == UNCHANGED <<flags, arch, had>>

Skip(flag, from, to) ==
    /\ pc = from /\ flag
    /\ pc' = to
    /\ UNCHANGED <<todo, warned, donor, image>> /\ Fixed

-----------------------------------------------------------------------------
(* Provisioned apps: removeBloatAppx. *)

\* The tiers taken from the flags as they are.
KeywordsNotImplied ==
    Bloat \cup (IF flags.removeStoreApps THEN Store ELSE {})
          \cup (IF flags.removeUWPFrameworks THEN Framework ELSE {})

\* The families that isBloatFamily finds, by tier.
Keywords ==
    Bloat \cup (IF flags.removeStoreApps \/ flags.removeUWPFrameworks THEN Store ELSE {})
          \cup (IF flags.removeUWPFrameworks THEN Framework ELSE {})

Appx ==
    /\ pc = "appx" /\ ~flags.skipAppx
    /\ todo' = Keywords \cap apps
    /\ pc' = "families"
    /\ UNCHANGED <<warned, donor, image>> /\ Fixed

\* A family visited again after its removal.
RemoveFamilyAgain(f) ==
    /\ pc = "families" /\ f \in todo
    /\ apps' = apps \ {f}
    /\ UNCHANGED <<pc, todo, warned, donor, sxs, unswept, winre, running, disabled>> /\ Fixed

\* appx.Remove of the next family, in the order of their names: frameworks
\* are not held back.
RemoveFamily(f) ==
    /\ pc = "families" /\ f \in todo
    /\ todo' = todo \ {f}
    /\ apps' = apps \ {f}
    /\ UNCHANGED <<pc, warned, donor, sxs, unswept, winre, running, disabled>> /\ Fixed

\* appx.Remove fails: a warning, and on to the next family.
WarnFamily(f) ==
    /\ pc = "families" /\ f \in todo
    /\ todo' = todo \ {f}
    /\ warned' = warned \cup {f}
    /\ UNCHANGED <<pc, donor, image>> /\ Fixed

\* AppxProvisioning.xml is written from the list that is left.
AppxDone ==
    /\ pc = "families" /\ todo = {}
    /\ pc' = "donor"
    /\ UNCHANGED <<todo, warned, donor, image>> /\ Fixed

-----------------------------------------------------------------------------
(* File cleanup, with the recovery image's donor read before it is replaced. *)

\* extractWinREDonorToTemp, when the donor is the image's own winre.wim.
Donor ==
    /\ pc = "donor" /\ ~flags.skipFileCleanup
    /\ donor' = IF flags.winRE = "auto" THEN winre ELSE "none"
    /\ pc' = "files"
    /\ UNCHANGED <<todo, warned, image>> /\ Fixed

\* The file the stub is grafted from: "none" leaves winre.wim as it is.
DonorContent == CASE flags.winRE = "keep" -> "none"
                  [] flags.winRE = "auto" -> donor
                  [] OTHER                -> flags.winRE

\* A donor without Windows\Boot grafted all the same.
StubUnchecked(from) == IF from = "hollow" THEN "hollow" ELSE "stub"

\* winREStubFromDonor: reading the donor, or finding Windows\Boot in it, fails
\* for a hollow one; a stub serves as a donor again.
Stub(from) == IF from \in {"full", "stub"} THEN "stub" ELSE "error"

\* The pattern for Edge WebView's component names the architecture as
\* ArchitectureName() does, the component's directory as Windows does.
WebView == IF arch = Prefix(arch) THEN {"webview"} ELSE {}

\* A sweep of WinSxS that is to remove the entries of found: those whose
\* removal fails stay, each with a warning, and the sweep goes on.
SweepSxs(found) ==
    \E stuck \in SUBSET (sxs \cap found) :
        /\ sxs' = sxs \ (found \ stuck)
        /\ unswept' = (unswept \cap sxs') \cup stuck

\* runAggressiveFileCleanup up to the recovery image.
Files ==
    /\ pc = "files"
    /\ SweepSxs(WebView)
    /\ pc' = "winre"
    /\ UNCHANGED <<todo, warned, donor, apps, winre, running, disabled>> /\ Fixed

\* The recovery image and what follows; the donor file is removed when run()
\* returns.
Recovery ==
    /\ pc = "winre"
    /\ IF DonorContent = "none" THEN winre' = winre /\ pc' = "sxs" /\ donor' = donor
       ELSE IF Stub(DonorContent) # "error"
            THEN winre' = Stub(DonorContent) /\ pc' = "sxs" /\ donor' = donor
            ELSE winre' = winre /\ pc' = "failed" /\ donor' = "none"
    /\ UNCHANGED <<todo, warned, apps, sxs, unswept, running, disabled>> /\ Fixed

\* The name ArchitectureName() gives looked up without the remap.
KeepListNoRemap == IF arch \in {"amd64", "arm64"} THEN {"servicingstack"} ELSE Sxs

\* What wipeWinSxS keeps: it has no list for x86 and leaves that alone.
KeepList == IF Prefix(arch) \in {"amd64", "arm64"} THEN {"servicingstack"} ELSE Sxs

Wipe ==
    /\ pc = "sxs" /\ ~flags.skipWinSxSWipe
    /\ SweepSxs(Sxs \ KeepList)
    /\ pc' = "tweaks"
    /\ UNCHANGED <<todo, warned, donor, apps, winre, running, disabled>> /\ Fixed

-----------------------------------------------------------------------------
(* The SYSTEM hive's services. *)

\* applyRegistryTweaks: wuauserv's key is made if need be, with Start = 4, the
\* keys of the two others are deleted.
Tweaks ==
    /\ pc = "tweaks" /\ ~flags.skipRegTweaks
    /\ disabled' = (disabled \cup {"wuauserv"}) \ {"UsoSvc", "WaaSMedicSvc"}
    /\ running' = running \ Update
    /\ pc' = "services"
    /\ UNCHANGED <<todo, warned, donor, apps, sxs, unswept, winre>> /\ Fixed

\* Services the tweaks have disabled taken for deleted.
RemoveRunningServices ==
    /\ pc = "services" /\ ~flags.skipServices
    /\ running' = running \ servicesToRemove
    /\ pc' = "save"
    /\ UNCHANGED <<todo, warned, donor, apps, sxs, unswept, winre, disabled>> /\ Fixed

\* removeBloatServices: a service that is not there is no error.
RemoveServices ==
    /\ pc = "services" /\ ~flags.skipServices
    /\ running' = running \ servicesToRemove
    /\ disabled' = disabled \ servicesToRemove
    /\ pc' = "save"
    /\ UNCHANGED <<todo, warned, donor, apps, sxs, unswept, winre>> /\ Fixed

\* The hives are saved and the image written.
Save ==
    /\ pc = "save"
    /\ pc' = "done" /\ donor' = "none"
    /\ UNCHANGED <<todo, warned, image>> /\ Fixed

Next ==
    \/ Skip(flags.skipAppx, "appx", "donor")
    \/ Appx \/ (\E f \in Families : RemoveFamily(f) \/ WarnFamily(f)) \/ AppxDone
    \/ Skip(flags.skipFileCleanup, "donor", "sxs")
    \/ Donor \/ Files \/ Recovery
    \/ Skip(flags.skipWinSxSWipe, "sxs", "tweaks")
    \/ Wipe
    \/ Skip(flags.skipRegTweaks, "tweaks", "services")
    \/ Tweaks
    \/ Skip(flags.skipServices, "services", "save")
    \/ RemoveServices \/ Save \/ Abort

Spec == Init /\ [][Next]_vars

-----------------------------------------------------------------------------
(* Properties. *)

TypeOK ==
    /\ flags \in Flags /\ arch \in Arch
    /\ pc \in {"appx", "families", "donor", "files", "winre", "sxs", "tweaks", "services",
               "save", "done", "failed"}
    /\ apps \subseteq Families /\ todo \subseteq apps
    /\ warned \subseteq apps \ todo
    /\ sxs \subseteq Sxs /\ unswept \subseteq sxs
    /\ donor \in WinRE /\ had \in WinRE /\ winre \in WinRE
    /\ running \subseteq servicesToRemove /\ disabled \subseteq servicesToRemove
    /\ running \cap disabled = {}

Stranded == {a \in apps \cap DOMAIN Needs : ~(Needs[a] \subseteq apps)}

\* -remove-uwp-frameworks "Implies removeStoreApps (removing frameworks while
\* apps still need them would break those apps)": without the flag every app
\* keeps the frameworks it needs; with it an app is left short of one only when
\* its own removal failed and was warned of, or when it is none of the apps the
\* keywords know, which no warning tells of.
NoAppStranded ==
    pc = "done" =>
      /\ ~flags.removeUWPFrameworks => Stranded = {}
      /\ Stranded \subseteq warned \cup Other

\* The tweaks make a wuauserv key and the service removal comes after them:
\* whichever of the two stages runs, no update service is left enabled, and
\* after the removal none of its services is left at all.
UpdateIsOff ==
    pc = "done" =>
      /\ ~flags.skipRegTweaks \/ ~flags.skipServices => running \cap Update = {}
      /\ ~flags.skipServices => (running \cup disabled) \cap servicesToRemove = {}

\* An image whose recovery image Setup could use still has one: deleting or
\* hollowing it makes Setup's SafeOS phase fail (filecleanup.go:739-776).
RecoveryUsable ==
    pc = "done" /\ had \in {"full", "stub"} => winre \in {had, "stub"}

\* The wipe leaves nothing but the keep list, and what it warned it could not
\* remove, on the architectures it knows; and nothing ever takes what the keep
\* list names.
WinSxSWiped ==
    pc = "done" =>
      /\ "servicingstack" \in sxs
      /\ ~flags.skipWinSxSWipe /\ arch \in {"x64", "arm64"} => sxs \ unswept = {"servicingstack"}

\* "Removing Edge WebView WinSxS component..." (filecleanup.go:733), the wipe
\* skipped or not, unless a warning says it could not be removed.
WebViewRemoved ==
    pc = "done" /\ ~flags.skipFileCleanup => "webview" \notin sxs \ unswept

=============================================================================
