---------------------------- MODULE StagesProofs ----------------------------
(***************************************************************************)
(* The invariants of the two models of the stages an install image goes    *)
(* through: Debloat's, for any app families, any dependencies between them *)
(* and any services; Cleanup's, for any files an image may lack and any    *)
(* number of removals that end in a warning.                               *)
(***************************************************************************)
EXTENDS Debloat, Cleanup, TLAPS

AfterApps == {"donor", "files", "winre", "sxs", "tweaks", "services", "save", "done"}
AfterWipe == {"tweaks", "services", "save", "done"}
AfterTweaks == {"services", "save", "done"}
AfterServices == {"save", "done"}

\* Exactly the families of the keywords leave, but those whose removal failed,
\* and those still to be visited are still there.
AppsLeft ==
    /\ pc = "appx" => apps = Families /\ todo = {} /\ warned = {}
    /\ pc = "families" =>
         /\ ~flags.skipAppx /\ todo \cup warned \subseteq Keywords
         /\ apps = (Families \ Keywords) \cup todo \cup warned
    /\ pc \in AfterApps =>
         /\ todo = {} /\ warned \subseteq Keywords
         /\ apps = IF flags.skipAppx THEN Families ELSE (Families \ Keywords) \cup warned

SxsLeft ==
    /\ "servicingstack" \in sxs \ unswept
    /\ pc \in AfterWipe /\ ~flags.skipWinSxSWipe /\ arch \in {"x64", "arm64"} =>
         sxs \ unswept = {"servicingstack"}

ServicesLeft ==
    /\ pc \in AfterTweaks /\ ~flags.skipRegTweaks => running \cap Update = {}
    /\ pc \in AfterServices /\ ~flags.skipServices => (running \cup disabled) \cap servicesToRemove = {}

RecoveryLeft ==
    /\ winre \in {had, "stub"}
    /\ pc \in {"appx", "families", "donor", "files", "winre"} => winre = had
    /\ pc \in {"files", "winre"} => donor = IF flags.winRE = "auto" THEN winre ELSE "none"

IInv == TypeOK /\ AppsLeft /\ SxsLeft /\ ServicesLeft /\ RecoveryLeft

-----------------------------------------------------------------------------

LEMMA InitInv == Init => IInv
  <1> SUFFICES ASSUME Init PROVE IInv
    OBVIOUS
  <1>1. TypeOK
    BY DEF Init, TypeOK, WinRE
  <1>2. AppsLeft /\ SxsLeft /\ ServicesLeft /\ RecoveryLeft
    BY DEF Init, AppsLeft, SxsLeft, ServicesLeft, RecoveryLeft, Sxs, AfterApps, AfterWipe, AfterTweaks,
           AfterServices
  <1>3. QED
    BY <1>1, <1>2 DEF IInv

LEMMA FailInv == IInv /\ Fail => IInv'
  <1> SUFFICES ASSUME IInv, Fail PROVE IInv'
    OBVIOUS
  <1>1. TypeOK'
    BY DEF IInv, TypeOK, Fail, image, WinRE
  <1>2. (AppsLeft /\ SxsLeft /\ ServicesLeft /\ RecoveryLeft)'
    BY DEF IInv, Fail, image, AppsLeft, SxsLeft, ServicesLeft, RecoveryLeft, AfterApps, AfterWipe,
           AfterTweaks, AfterServices
  <1>3. QED
    BY <1>1, <1>2 DEF IInv

\* Leaving a stage out, or ending one without an edit.
LEMMA SkipInv ==
    IInv /\ (\/ Skip(flags.skipAppx, "appx", "donor")
             \/ Skip(flags.skipFileCleanup, "donor", "sxs")
             \/ Skip(flags.skipWinSxSWipe, "sxs", "tweaks")
             \/ Skip(flags.skipRegTweaks, "tweaks", "services")
             \/ Skip(flags.skipServices, "services", "save")) => IInv'
  <1> SUFFICES ASSUME IInv,
                      NEW flag, NEW from, NEW to, Skip(flag, from, to),
                      \/ flag = flags.skipAppx /\ from = "appx" /\ to = "donor"
                      \/ flag = flags.skipFileCleanup /\ from = "donor" /\ to = "sxs"
                      \/ flag = flags.skipWinSxSWipe /\ from = "sxs" /\ to = "tweaks"
                      \/ flag = flags.skipRegTweaks /\ from = "tweaks" /\ to = "services"
                      \/ flag = flags.skipServices /\ from = "services" /\ to = "save"
               PROVE  IInv'
    OBVIOUS
  <1>1. TypeOK'
    BY DEF IInv, TypeOK, Skip, Fixed, image
  <1>2. AppsLeft'
    BY DEF IInv, Skip, Fixed, image, AppsLeft, AfterApps, Keywords
  <1>3. SxsLeft' /\ ServicesLeft' /\ RecoveryLeft'
    BY DEF IInv, Skip, Fixed, image, SxsLeft, ServicesLeft, RecoveryLeft, AfterWipe, AfterTweaks,
           AfterServices
  <1>4. QED
    BY <1>1, <1>2, <1>3 DEF IInv

LEMMA AppsInv ==
    IInv /\ (Appx \/ (\E f \in Families : RemoveFamily(f) \/ WarnFamily(f)) \/ AppxDone) => IInv'
  <1> SUFFICES ASSUME IInv PROVE
        Appx \/ (\E f \in Families : RemoveFamily(f) \/ WarnFamily(f)) \/ AppxDone => IInv'
    OBVIOUS
  <1>0. TypeOK /\ AppsLeft /\ SxsLeft /\ ServicesLeft /\ RecoveryLeft
    BY DEF IInv
  <1>1. ASSUME Fixed, UNCHANGED <<donor, sxs, unswept, winre, running, disabled>>, Keywords' = Keywords,
               \/ pc = "appx" /\ pc' = "families"
               \/ pc = "families" /\ pc' = "families"
               \/ pc = "families" /\ pc' = "donor"
        PROVE  SxsLeft' /\ ServicesLeft' /\ RecoveryLeft'
    BY <1>0, <1>1 DEF Fixed, SxsLeft, ServicesLeft, RecoveryLeft, AfterWipe, AfterTweaks, AfterServices
  <1>2. ASSUME Fixed PROVE Keywords' = Keywords
    BY <1>2 DEF Fixed, Keywords
  <1>3. Keywords \subseteq Families
    BY DEF Keywords, Families
  <1>4. CASE Appx
    <2>1. TypeOK'
      BY <1>0, <1>4 DEF Appx, TypeOK, AppsLeft, Fixed, image
    <2>2. AppsLeft'
      BY <1>0, <1>2, <1>3, <1>4 DEF Appx, AppsLeft, Fixed, image, AfterApps
    <2>3. QED
      BY <1>1, <1>2, <1>4, <2>1, <2>2 DEF Appx, IInv, image
  <1>5. ASSUME NEW f \in Families, RemoveFamily(f) PROVE IInv'
    <2>1. TypeOK'
      BY <1>0, <1>5 DEF RemoveFamily, TypeOK, Fixed
    <2>2. f \in Keywords /\ f \notin warned
      BY <1>0, <1>5 DEF RemoveFamily, AppsLeft, TypeOK
    <2>3. AppsLeft'
      BY <1>0, <1>2, <1>5, <2>2 DEF RemoveFamily, AppsLeft, Fixed, AfterApps
    <2>4. QED
      BY <1>1, <1>2, <1>5, <2>1, <2>3 DEF RemoveFamily, IInv
  <1>6. ASSUME NEW f \in Families, WarnFamily(f) PROVE IInv'
    <2>1. TypeOK'
      BY <1>0, <1>6 DEF WarnFamily, TypeOK, Fixed, image
    <2>2. AppsLeft'
      BY <1>0, <1>2, <1>6 DEF WarnFamily, AppsLeft, Fixed, image, AfterApps
    <2>3. QED
      BY <1>1, <1>2, <1>6, <2>1, <2>2 DEF WarnFamily, IInv, image
  <1>7. CASE AppxDone
    <2>1. TypeOK'
      BY <1>0, <1>7 DEF AppxDone, TypeOK, Fixed, image
    <2>2. AppsLeft'
      BY <1>0, <1>2, <1>7 DEF AppxDone, AppsLeft, Fixed, image, AfterApps
    <2>3. QED
      BY <1>1, <1>2, <1>7, <2>1, <2>2 DEF AppxDone, IInv, image
  <1>8. QED
    BY <1>4, <1>5, <1>6, <1>7

LEMMA FilesInv == IInv /\ (Donor \/ Files \/ Recovery) => IInv'
  <1> SUFFICES ASSUME IInv PROVE Donor \/ Files \/ Recovery => IInv'
    OBVIOUS
  <1>0. TypeOK /\ AppsLeft /\ SxsLeft /\ ServicesLeft /\ RecoveryLeft
    BY DEF IInv
  <1>1. ASSUME Fixed, UNCHANGED <<apps, todo, warned, running, disabled>>,
               pc \in {"donor", "files", "winre"}, pc' \in {"files", "winre", "sxs", "failed"}
        PROVE  AppsLeft' /\ ServicesLeft'
    BY <1>0, <1>1 DEF Fixed, AppsLeft, ServicesLeft, AfterApps, AfterTweaks, AfterServices, Keywords
  <1>2. CASE Donor
    <2>1. TypeOK' /\ SxsLeft' /\ RecoveryLeft'
      BY <1>0, <1>2 DEF Donor, TypeOK, Fixed, image, SxsLeft, RecoveryLeft, AfterWipe, WinRE
    <2>2. QED
      BY <1>1, <1>2, <2>1 DEF Donor, IInv, image
  <1>3. CASE Files
    <2>1. "servicingstack" \notin WebView
      BY DEF WebView
    <2>2. PICK stuck \in SUBSET (sxs \cap WebView) :
            /\ sxs' = sxs \ (WebView \ stuck)
            /\ unswept' = (unswept \cap sxs') \cup stuck
      BY <1>3 DEF Files, SweepSxs
    <2>3. TypeOK' /\ SxsLeft' /\ RecoveryLeft'
      BY <1>0, <1>3, <2>1, <2>2 DEF Files, TypeOK, Fixed, SxsLeft, RecoveryLeft, AfterWipe
    <2>4. QED
      BY <1>1, <1>3, <2>3 DEF Files, IInv
  <1>4. CASE Recovery
    <2>1. /\ pc = "winre" /\ pc' \in {"sxs", "failed"}
          /\ winre' \in {winre, "stub"} /\ donor' \in {donor, "none"}
          /\ UNCHANGED <<todo, warned, apps, sxs, unswept, running, disabled>> /\ Fixed
      BY <1>4 DEF Recovery, Stub
    <2>2. TypeOK' /\ SxsLeft' /\ RecoveryLeft'
      BY <1>0, <2>1 DEF TypeOK, Fixed, SxsLeft, RecoveryLeft, AfterWipe, WinRE
    <2>3. QED
      BY <1>1, <2>1, <2>2 DEF IInv
  <1>5. QED
    BY <1>2, <1>3, <1>4

LEMMA WipeInv == IInv /\ Wipe => IInv'
  <1> SUFFICES ASSUME IInv, Wipe PROVE IInv'
    OBVIOUS
  <1>0. TypeOK /\ AppsLeft /\ SxsLeft /\ ServicesLeft /\ RecoveryLeft
    BY DEF IInv
  <1>1. PICK stuck \in SUBSET (sxs \cap (Sxs \ KeepList)) :
          /\ sxs' = sxs \ ((Sxs \ KeepList) \ stuck)
          /\ unswept' = (unswept \cap sxs') \cup stuck
    BY DEF Wipe, SweepSxs
  <1>2. TypeOK' /\ AppsLeft' /\ ServicesLeft' /\ RecoveryLeft'
    BY <1>0, <1>1 DEF Wipe, Fixed, TypeOK, AppsLeft, ServicesLeft, RecoveryLeft, AfterApps,
                      AfterTweaks, AfterServices, Keywords
  <1>3. /\ "servicingstack" \in KeepList
        /\ arch \in {"x64", "arm64"} => KeepList = {"servicingstack"}
    BY DEF KeepList, Prefix, Sxs
  <1>4. SxsLeft'
    BY <1>0, <1>1, <1>3 DEF Wipe, Fixed, SxsLeft, TypeOK
  <1>5. QED
    BY <1>2, <1>4 DEF IInv

LEMMA ServicesInv == IInv /\ (Tweaks \/ RemoveServices \/ Save) => IInv'
  <1> SUFFICES ASSUME IInv PROVE Tweaks \/ RemoveServices \/ Save => IInv'
    OBVIOUS
  <1>0. TypeOK /\ AppsLeft /\ SxsLeft /\ ServicesLeft /\ RecoveryLeft
    BY DEF IInv
  <1>1. ASSUME Fixed, UNCHANGED <<apps, todo, warned, sxs, unswept>>,
               pc \in {"tweaks", "services", "save"}, pc' \in {"services", "save", "done"}
        PROVE  AppsLeft' /\ SxsLeft'
    BY <1>0, <1>1 DEF Fixed, AppsLeft, SxsLeft, AfterApps, AfterWipe, Keywords
  <1>2. CASE Tweaks
    <2>1. TypeOK'
      BY <1>0, <1>2 DEF Tweaks, TypeOK, Fixed, servicesToRemove, Update
    <2>2. ServicesLeft' /\ RecoveryLeft'
      BY <1>0, <1>2 DEF Tweaks, Fixed, ServicesLeft, RecoveryLeft, AfterServices
    <2>3. QED
      BY <1>1, <1>2, <2>1, <2>2 DEF Tweaks, IInv
  <1>3. CASE RemoveServices
    <2>1. TypeOK'
      BY <1>0, <1>3 DEF RemoveServices, TypeOK, Fixed
    <2>2. ServicesLeft' /\ RecoveryLeft'
      BY <1>0, <1>3 DEF RemoveServices, Fixed, ServicesLeft, RecoveryLeft, AfterTweaks
    <2>3. QED
      BY <1>1, <1>3, <2>1, <2>2 DEF RemoveServices, IInv
  <1>4. CASE Save
    <2>1. TypeOK'
      BY <1>0, <1>4 DEF Save, TypeOK, Fixed, image, WinRE
    <2>2. ServicesLeft' /\ RecoveryLeft'
      BY <1>0, <1>4 DEF Save, Fixed, image, ServicesLeft, RecoveryLeft, AfterTweaks, AfterServices
    <2>3. QED
      BY <1>1, <1>4, <2>1, <2>2 DEF Save, IInv, image
  <1>5. QED
    BY <1>2, <1>3, <1>4

LEMMA NextInv == IInv /\ [Next]_vars => IInv'
  <1> SUFFICES ASSUME IInv, [Next]_vars PROVE IInv'
    OBVIOUS
  <1>1. CASE UNCHANGED vars
    BY <1>1 DEF vars, IInv, TypeOK, AppsLeft, SxsLeft, ServicesLeft, RecoveryLeft, Keywords
  <1>2. CASE Abort
    BY <1>2, FailInv DEF Abort
  <1>3. QED
    BY <1>1, <1>2, SkipInv, AppsInv, FilesInv, WipeInv, ServicesInv DEF Next

-----------------------------------------------------------------------------
(* Debloat's theorems. *)

\* Each stage keeps what the stages before it brought about.
THEOREM Invariance == Spec => []IInv
  BY InitInv, NextInv, PTL DEF Spec

\* Type correctness, and that no service is both enabled and disabled.
THEOREM TypeCorrect == Spec => []TypeOK
  <1>1. IInv => TypeOK
    BY DEF IInv
  <1>2. QED
    BY <1>1, Invariance, PTL

\* Whatever apps need which frameworks, none is left without one it needs but
\* under -remove-uwp-frameworks, and then only an app whose own removal failed
\* or one no keyword matches (removeBloatAppx, the keyword tiers).
THEOREM NoneStranded == Spec => []NoAppStranded
  <1>1. IInv => NoAppStranded
    <2>1. SUFFICES ASSUME IInv, pc = "done" PROVE NoAppStranded
      BY DEF NoAppStranded
    <2>2. apps = IF flags.skipAppx THEN Families ELSE (Families \ Keywords) \cup warned
      BY <2>1 DEF IInv, AppsLeft, AfterApps
    <2>3. \A a \in DOMAIN Needs : a \in Bloat \cup Store \cup Other /\ Needs[a] \subseteq Framework
      BY DebloatAssumption
    <2>4. ~flags.removeUWPFrameworks => Framework \subseteq apps
      BY <2>2, DebloatAssumption DEF Keywords, Families
    <2>5. flags.skipAppx => Framework \subseteq apps
      BY <2>2 DEF Families
    <2>6. ~flags.skipAppx /\ flags.removeUWPFrameworks => apps \subseteq warned \cup Other
      BY <2>2 DEF Keywords, Families
    <2>7. QED
      BY <2>3, <2>4, <2>5, <2>6 DEF NoAppStranded, Stranded
  <1>2. QED
    BY <1>1, Invariance, PTL

\* No update service is left enabled, whichever of the two stages runs
\* (applyRegistryTweaks, removeBloatServices).
THEOREM UpdateStaysOff == Spec => []UpdateIsOff
  <1>1. IInv => UpdateIsOff
    BY DEF IInv, ServicesLeft, AfterTweaks, AfterServices, UpdateIsOff, servicesToRemove
  <1>2. QED
    BY <1>1, Invariance, PTL

\* A usable recovery image is never lost (winREStubFromDonor).
THEOREM RecoveryStaysUsable == Spec => []RecoveryUsable
  <1>1. IInv => RecoveryUsable
    BY DEF IInv, RecoveryLeft, RecoveryUsable
  <1>2. QED
    BY <1>1, Invariance, PTL

\* WinSxS keeps what its keep list names and, once wiped, nothing else but
\* the entries a warning was logged for (wipeWinSxS).
THEOREM WinSxSIsWiped == Spec => []WinSxSWiped
  <1>1. IInv => WinSxSWiped
    BY DEF IInv, SxsLeft, AfterWipe, WinSxSWiped
  <1>2. QED
    BY <1>1, Invariance, PTL

-----------------------------------------------------------------------------
(* Cleanup: what is gone by each stage of runAggressiveFileCleanup, and what *)
(* stayed behind with a warning.                                             *)

\* The positions at which every sweep is over but Edge's, whose files no
\* removal names.
AfterFonts == {"must", "engines", "edgehtml", "ai", "foundation", "edge"}

\* What stayed behind was found by a sweep that is over: two sweeps have no
\* file in common, the fonts' apart, and the removals name none of theirs.
LeftSwept ==
    /\ left \subseteq NativeImages \cup Driver \cup BootFont \cup Font \cup Edge
    /\ at \in {"start", "native"} => left = {}
    /\ at = "drivers" => left \subseteq NativeImages
    /\ at = "nics" => left \subseteq NativeImages \cup driverStoreRemovePatterns
    /\ at = "boot fonts" => left \subseteq NativeImages \cup Driver
    /\ at = "fonts" => left \subseteq NativeImages \cup Driver \cup BootFont
    /\ at \in {"more fonts"} \cup AfterFonts =>
         left \subseteq NativeImages \cup Driver \cup BootFont \cup Font

CleanupIInv == CleanupTypeOK /\ EssentialsStay /\ LeftSwept

\* A list that names nothing the image must keep under these flags.
Spared(list) ==
    /\ "edgehtml" \in list => stages.removeWebEngines
    /\ "CoreAI" \in list => stages.removeAI
    /\ "nettcpip.inf" \notin list
    /\ stages.keepNICDrivers => "vendornic.inf" \notin list
    /\ stages.keepDrivers => Driver \cap list = {}
    /\ {"segoeui", "SegoeIcons", "seguisym", "arial"} \cap list = {}

-----------------------------------------------------------------------------

LEMMA CleanupInitInv == CleanupInit => CleanupIInv
  <1> SUFFICES ASSUME CleanupInit PROVE CleanupIInv
    OBVIOUS
  <1>1. initial \subseteq File
    BY DEF CleanupInit
  <1>2. CleanupTypeOK
    BY <1>1 DEF CleanupInit, CleanupTypeOK
  <1>3. EssentialsStay /\ LeftSwept
    BY DEF CleanupInit, EssentialsStay, Kept, LeftSwept, AfterFonts
  <1>4. QED
    BY <1>2, <1>3 DEF CleanupIInv

\* A stage that takes the files of a list, but for those that stay behind,
\* keeps what the image must keep when the list spares it.
LEMMA CutKeeps ==
    ASSUME CleanupIInv, NEW list, NEW stuck, Spared(list),
           files' = files \ (list \ stuck), UNCHANGED <<stages, initial>>
    PROVE  EssentialsStay'
  <1>1. EssentialsStay
    BY DEF CleanupIInv
  <1>2. ASSUME NEW S, Kept(S), S \cap list = {} PROVE Kept(S)'
    BY <1>2 DEF Kept
  <1>3. (~stages.removeWebEngines => Kept({"edgehtml"}))'
    <2>1. ~stages.removeWebEngines => {"edgehtml"} \cap list = {}
      BY DEF Spared
    <2>2. QED
      BY <1>1, <2>1 DEF EssentialsStay, Kept
  <1>4. (~stages.removeAI => Kept({"CoreAI"}))'
    <2>1. ~stages.removeAI => {"CoreAI"} \cap list = {}
      BY DEF Spared
    <2>2. QED
      BY <1>1, <2>1 DEF EssentialsStay, Kept
  <1>5. (Kept({"nettcpip.inf"}))'
    BY <1>1 DEF EssentialsStay, Kept, Spared
  <1>6. (stages.keepNICDrivers => Kept({"vendornic.inf"}))'
    BY <1>1 DEF EssentialsStay, Kept, Spared
  <1>7. (stages.keepDrivers => Kept(Driver))'
    <2>1. stages.keepDrivers => Kept(Driver) /\ Driver \cap list = {}
      BY <1>1 DEF EssentialsStay, Spared
    <2>2. QED
      BY <2>1 DEF Kept
  <1>8. (Kept({"segoeui", "SegoeIcons", "seguisym", "arial"}))'
    <2>1. Kept({"segoeui", "SegoeIcons", "seguisym", "arial"})
      BY <1>1 DEF EssentialsStay
    <2>2. {"segoeui", "SegoeIcons", "seguisym", "arial"} \cap list = {}
      BY DEF Spared
    <2>3. QED
      BY <2>1, <2>2 DEF Kept
  <1>9. QED
    BY <1>3, <1>4, <1>5, <1>6, <1>7, <1>8 DEF EssentialsStay

Positions == {"start", "native", "drivers", "nics", "boot fonts", "fonts", "more fonts",
              "must", "engines", "edgehtml", "ai", "foundation", "edge", "tasks",
              "done", "failed"}

\* The whole invariant after such a stage.
LEMMA CutInv ==
    ASSUME CleanupIInv, NEW list, NEW stuck \in SUBSET (files \cap list), Spared(list),
           files' = files \ (list \ stuck), left' = left \cup stuck,
           UNCHANGED <<stages, initial>>,
           at \in Positions \ {"start", "done", "failed"},
           at' \in Positions \ {"start", "failed"},
           left \cap list \subseteq fontsExtraRemove \cup stuck,
           LeftSwept'
    PROVE  CleanupIInv'
  <1>1. EssentialsStay'
    BY CutKeeps
  <1>2. CleanupTypeOK'
    <2>1. files' \subseteq initial' /\ initial' \subseteq File
      BY DEF CleanupIInv, CleanupTypeOK
    <2>2. left' \subseteq files' \cup fontsExtraRemove'
      <3>1. left \subseteq files \cup fontsExtraRemove
        BY DEF CleanupIInv, CleanupTypeOK
      <3>2. fontsExtraRemove' = fontsExtraRemove
        BY DEF fontsExtraRemove
      <3>3. QED
        BY <3>1, <3>2
    <2>3. QED
      BY <2>1, <2>2 DEF CleanupIInv, CleanupTypeOK, Positions
  <1>3. QED
    BY <1>1, <1>2 DEF CleanupIInv

\* A sweep: what it finds is spared, and what stayed behind before is none of
\* it, but for fonts.
LEMMA SweepInv ==
    ASSUME CleanupIInv, NEW from, NEW cond, NEW found, NEW to, Sweep(from, cond, found, to),
           cond \in BOOLEAN, cond => Spared(found),
           from \in Positions \ {"start", "done", "failed"},
           to \in Positions \ {"start", "failed"},
           left \cap found \subseteq fontsExtraRemove,
           left' \subseteq left \cup found => LeftSwept'
    PROVE  CleanupIInv'
  <1>1. PICK stuck \in {{}} \cup {{x} : x \in files \cap found} :
          /\ ~cond => stuck = {}
          /\ files' = IF cond THEN files \ (found \ stuck) ELSE files
          /\ left' = left \cup stuck
    BY Zenon DEF Sweep
  <1>2. at = from /\ at' = to /\ UNCHANGED <<stages, initial>>
    BY DEF Sweep
  <1>3. stuck \subseteq files \cap found
    BY <1>1
  <1>4. LeftSwept'
    BY <1>1, <1>3
  <1>5. CASE cond
    <2>1. files' = files \ (found \ stuck)
      BY <1>1, <1>5
    <2>2. QED
      BY <1>1, <1>2, <1>3, <1>4, <1>5, <2>1, CutInv
  <1>6. CASE ~cond
    <2>1. Spared({}) /\ stuck \subseteq files \cap {} /\ files' = files \ ({} \ stuck)
      BY <1>1, <1>6 DEF Spared
    <2>2. left \cap {} \subseteq fontsExtraRemove \cup stuck
      OBVIOUS
    <2>3. QED
      BY <1>1, <1>2, <1>4, <2>1, <2>2, CutInv
  <1>7. QED
    BY <1>5, <1>6

\* The removal of a list.
LEMMA RemoveInv ==
    ASSUME CleanupIInv, NEW from, NEW cond, NEW list, NEW to, Remove(from, cond, list, to),
           cond \in BOOLEAN, cond => Spared(list),
           from \in Positions \ {"start", "done", "failed"},
           to \in Positions \ {"start", "failed"},
           left \cap list = {},
           LeftSwept'
    PROVE  CleanupIInv'
  <1> DEFINE gone == IF cond THEN list ELSE {}
  <1>1. Spared(gone)
    BY DEF Spared
  <1>2. /\ files' = files \ (gone \ {}) /\ left' = left \cup {}
        /\ at = from /\ at' = to /\ UNCHANGED <<stages, initial>>
    BY DEF Remove
  <1>3. left \cap gone \subseteq fontsExtraRemove \cup {}
    OBVIOUS
  <1> HIDE DEF gone
  <1>4. {} \in SUBSET (files \cap gone)
    OBVIOUS
  <1>5. QED
    BY <1>1, <1>2, <1>3, <1>4, CutInv

\* Entering the function, leaving it out, and failing in it: no file changes.
LEMMA NoEditInv == CleanupIInv /\ (Start \/ StageFails) => CleanupIInv'
  <1> SUFFICES ASSUME CleanupIInv, Start \/ StageFails PROVE CleanupIInv'
    OBVIOUS
  <1>1. /\ UNCHANGED <<stages, initial, files, left>>
        /\ at' = "failed" \/ (at = "start" /\ at' \in {"done", "native"})
    BY DEF Start, StageFails
  <1>2. CleanupTypeOK'
    <2>1. fontsExtraRemove' = fontsExtraRemove
      BY DEF fontsExtraRemove
    <2>2. QED
      BY <1>1, <2>1 DEF CleanupIInv, CleanupTypeOK
  <1>3. EssentialsStay'
    BY <1>1 DEF CleanupIInv, EssentialsStay, Kept
  <1>4. LeftSwept'
    BY <1>1 DEF CleanupIInv, LeftSwept, AfterFonts
  <1>5. QED
    BY <1>2, <1>3, <1>4 DEF CleanupIInv

\* The sweeps before the fonts: each finds files of its own.
LEMMA DriverSweepsInv ==
    CleanupIInv /\ (\/ Sweep("native", TRUE, NativeImages, "drivers")
                    \/ Sweep("drivers", ~stages.keepDrivers, driverStoreRemovePatterns, "nics")
                    \/ Sweep("nics", ~KeepNICDrivers, vendorNICRemovePatterns, "boot fonts"))
      => CleanupIInv'
  <1> SUFFICES ASSUME CleanupIInv,
                      \/ Sweep("native", TRUE, NativeImages, "drivers")
                      \/ Sweep("drivers", ~stages.keepDrivers, driverStoreRemovePatterns, "nics")
                      \/ Sweep("nics", ~KeepNICDrivers, vendorNICRemovePatterns, "boot fonts")
               PROVE  CleanupIInv'
    OBVIOUS
  <1>0. LeftSwept
    BY DEF CleanupIInv
  <1>1. CASE Sweep("native", TRUE, NativeImages, "drivers")
    <2>1. at = "native" /\ at' = "drivers"
      BY <1>1 DEF Sweep
    <2>2. Spared(NativeImages)
      BY DEF Spared, NativeImages, Driver
    <2>3. left \cap NativeImages \subseteq fontsExtraRemove
      BY <1>0, <2>1 DEF LeftSwept
    <2>4. left' \subseteq left \cup NativeImages => LeftSwept'
      BY <1>0, <2>1 DEF LeftSwept, AfterFonts, NativeImages
    <2>5. QED
      BY <1>1, <2>2, <2>3, <2>4, SweepInv DEF Positions
  <1>2. CASE Sweep("drivers", ~stages.keepDrivers, driverStoreRemovePatterns, "nics")
    <2>1. at = "drivers" /\ at' = "nics"
      BY <1>2 DEF Sweep
    <2>2. ~stages.keepDrivers => Spared(driverStoreRemovePatterns)
      BY DEF Spared, driverStoreRemovePatterns
    <2>3. left \cap driverStoreRemovePatterns \subseteq fontsExtraRemove
      BY <1>0, <2>1 DEF LeftSwept, driverStoreRemovePatterns, NativeImages
    <2>4. left' \subseteq left \cup driverStoreRemovePatterns => LeftSwept'
      BY <1>0, <2>1 DEF LeftSwept, AfterFonts, driverStoreRemovePatterns, NativeImages, Driver
    <2>5. (~stages.keepDrivers) \in BOOLEAN
      OBVIOUS
    <2>6. QED
      BY <1>2, <2>2, <2>3, <2>4, <2>5, SweepInv DEF Positions
  <1>3. CASE Sweep("nics", ~KeepNICDrivers, vendorNICRemovePatterns, "boot fonts")
    <2>1. at = "nics" /\ at' = "boot fonts"
      BY <1>3 DEF Sweep
    <2>2. ~KeepNICDrivers => Spared(vendorNICRemovePatterns)
      BY DEF Spared, vendorNICRemovePatterns, KeepNICDrivers
    <2>3. left \cap vendorNICRemovePatterns \subseteq fontsExtraRemove
      BY <1>0, <2>1 DEF LeftSwept, vendorNICRemovePatterns, driverStoreRemovePatterns, NativeImages
    <2>4. left' \subseteq left \cup vendorNICRemovePatterns => LeftSwept'
      BY <1>0, <2>1 DEF LeftSwept, AfterFonts, vendorNICRemovePatterns, driverStoreRemovePatterns,
                        NativeImages, Driver
    <2>5. (~KeepNICDrivers) \in BOOLEAN
      OBVIOUS
    <2>6. QED
      BY <1>3, <2>2, <2>3, <2>4, <2>5, SweepInv DEF Positions
  <1>4. QED
    BY <1>1, <1>2, <1>3

\* The sweeps of fonts, of which the last may find what the one before left.
LEMMA FontSweepsInv ==
    CleanupIInv /\ (Sweep("boot fonts", TRUE, bootFontRemovePatterns, "fonts") \/ Fonts)
      => CleanupIInv'
  <1> SUFFICES ASSUME CleanupIInv PROVE
        Sweep("boot fonts", TRUE, bootFontRemovePatterns, "fonts") \/ Fonts => CleanupIInv'
    OBVIOUS
  <1>0. LeftSwept
    BY DEF CleanupIInv
  <1>1. CASE Sweep("boot fonts", TRUE, bootFontRemovePatterns, "fonts")
    <2>1. at = "boot fonts" /\ at' = "fonts"
      BY <1>1 DEF Sweep
    <2>2. Spared(bootFontRemovePatterns)
      BY DEF Spared, bootFontRemovePatterns, Driver
    <2>3. left \cap bootFontRemovePatterns \subseteq fontsExtraRemove
      BY <1>0, <2>1 DEF LeftSwept, bootFontRemovePatterns, NativeImages, Driver
    <2>4. left' \subseteq left \cup bootFontRemovePatterns => LeftSwept'
      BY <1>0, <2>1 DEF LeftSwept, AfterFonts, bootFontRemovePatterns, BootFont
    <2>5. QED
      BY <1>1, <2>2, <2>3, <2>4, SweepInv DEF Positions
  <1>2. CASE Sweep("fonts", TRUE, Font \ fontsKeepPatterns, "more fonts")
    <2> DEFINE found == Font \ fontsKeepPatterns
    <2>0. found = {"msyh", "other"}
      BY DEF Font, fontsKeepPatterns
    <2>1. at = "fonts" /\ at' = "more fonts"
      BY <1>2 DEF Sweep
    <2>2. Spared(found)
      BY <2>0 DEF Spared, Driver
    <2>3. left \cap found \subseteq fontsExtraRemove
      BY <1>0, <2>0, <2>1 DEF LeftSwept, NativeImages, Driver, BootFont
    <2>4. left' \subseteq left \cup found => LeftSwept'
      <3>1. found \subseteq Font
        OBVIOUS
      <3>2. QED
        BY <1>0, <2>1, <3>1 DEF LeftSwept, AfterFonts
    <2>5. QED
      BY <1>2, <2>2, <2>3, <2>4, SweepInv DEF Positions
  <1>3. CASE Sweep("more fonts", TRUE, fontsExtraRemove, "must")
    <2>1. at = "more fonts" /\ at' = "must"
      BY <1>3 DEF Sweep
    <2>2. Spared(fontsExtraRemove)
      BY DEF Spared, fontsExtraRemove, Driver
    <2>3. left' \subseteq left \cup fontsExtraRemove => LeftSwept'
      <3>1. fontsExtraRemove \subseteq Font
        BY DEF fontsExtraRemove, Font
      <3>2. QED
        BY <1>0, <2>1, <3>1 DEF LeftSwept, AfterFonts
    <2>4. QED
      BY <1>3, <2>2, <2>3, SweepInv DEF Positions
  <1>4. QED
    BY <1>1, <1>2, <1>3 DEF Fonts

\* The removals: none names a file a sweep may have left, nor one that must
\* stay under the flags.
LEMMA RemovalsInv ==
    CleanupIInv /\ (\/ Remove("must", TRUE, mustRemove(stages), "engines")
                    \/ Remove("engines", TRUE, nonEssential, "edgehtml")
                    \/ Remove("edgehtml", stages.removeWebEngines, {"edgehtml"}, "ai")
                    \/ Remove("ai", RemoveAI, {"CoreAI"}, "foundation")
                    \/ Remove("foundation", stages.removeAIFoundation, aiFoundation, "edge"))
      => CleanupIInv'
  <1> SUFFICES ASSUME CleanupIInv,
                      \/ Remove("must", TRUE, mustRemove(stages), "engines")
                      \/ Remove("engines", TRUE, nonEssential, "edgehtml")
                      \/ Remove("edgehtml", stages.removeWebEngines, {"edgehtml"}, "ai")
                      \/ Remove("ai", RemoveAI, {"CoreAI"}, "foundation")
                      \/ Remove("foundation", stages.removeAIFoundation, aiFoundation, "edge")
               PROVE  CleanupIInv'
    OBVIOUS
  <1>0. LeftSwept /\ stages \in stageFlags
    BY DEF CleanupIInv, CleanupTypeOK
  <1>1. stages.removeWebEngines \in BOOLEAN /\ RemoveAI \in BOOLEAN /\ stages.removeAIFoundation \in BOOLEAN
    BY <1>0 DEF stageFlags, RemoveAI
  <1> DEFINE kinds == NativeImages \cup Driver \cup BootFont \cup Font
  <1>2. ASSUME at \in AfterFonts, at' \in AfterFonts, left' = left
        PROVE  left \subseteq kinds /\ LeftSwept'
    <2>1. left \subseteq kinds
      BY <1>0, <1>2 DEF LeftSwept
    <2>2. QED
      BY <1>2, <2>1 DEF LeftSwept, AfterFonts
  <1>3. CASE Remove("must", TRUE, mustRemove(stages), "engines")
    <2>1. mustRemove(stages) \subseteq mustRemove([removeIME |-> TRUE])
      BY DEF mustRemove
    <2>2. kinds \cap mustRemove([removeIME |-> TRUE]) = {}
      BY DEF mustRemove, NativeImages, Driver, BootFont, Font
    <2>3. Spared(mustRemove([removeIME |-> TRUE]))
      BY DEF Spared, mustRemove, Driver
    <2>4. Spared(mustRemove(stages))
      BY <2>1, <2>3 DEF Spared
    <2>5. at = "must" /\ at' = "engines" /\ left' = left
      BY <1>3 DEF Remove
    <2>6. left \subseteq kinds /\ LeftSwept'
      BY <1>2, <2>5 DEF AfterFonts
    <2>7. left \cap mustRemove(stages) = {}
      BY <2>1, <2>2, <2>6
    <2>8. QED
      BY <1>3, <2>4, <2>6, <2>7, RemoveInv DEF Positions
  <1>4. CASE Remove("engines", TRUE, nonEssential, "edgehtml")
    <2>1. kinds \cap nonEssential = {}
      BY DEF nonEssential, NativeImages, Driver, BootFont, Font
    <2>2. Spared(nonEssential)
      BY DEF Spared, nonEssential, Driver
    <2>3. at = "engines" /\ at' = "edgehtml" /\ left' = left
      BY <1>4 DEF Remove
    <2>4. left \subseteq kinds /\ LeftSwept'
      BY <1>2, <2>3 DEF AfterFonts
    <2>5. left \cap nonEssential = {}
      BY <2>1, <2>4
    <2>6. QED
      BY <1>4, <2>2, <2>4, <2>5, RemoveInv DEF Positions
  <1>5. CASE Remove("edgehtml", stages.removeWebEngines, {"edgehtml"}, "ai")
    <2>1. kinds \cap {"edgehtml"} = {}
      BY DEF NativeImages, Driver, BootFont, Font
    <2>2. stages.removeWebEngines => Spared({"edgehtml"})
      BY DEF Spared, Driver
    <2>3. at = "edgehtml" /\ at' = "ai" /\ left' = left
      BY <1>5 DEF Remove
    <2>4. left \subseteq kinds /\ LeftSwept'
      BY <1>2, <2>3 DEF AfterFonts
    <2>5. left \cap {"edgehtml"} = {}
      BY <2>1, <2>4
    <2>6. QED
      BY <1>1, <1>5, <2>2, <2>4, <2>5, RemoveInv DEF Positions
  <1>6. CASE Remove("ai", RemoveAI, {"CoreAI"}, "foundation")
    <2>1. kinds \cap {"CoreAI"} = {}
      BY DEF NativeImages, Driver, BootFont, Font
    <2>2. RemoveAI => Spared({"CoreAI"})
      BY DEF Spared, RemoveAI, Driver
    <2>3. at = "ai" /\ at' = "foundation" /\ left' = left
      BY <1>6 DEF Remove
    <2>4. left \subseteq kinds /\ LeftSwept'
      BY <1>2, <2>3 DEF AfterFonts
    <2>5. left \cap {"CoreAI"} = {}
      BY <2>1, <2>4
    <2>6. QED
      BY <1>1, <1>6, <2>2, <2>4, <2>5, RemoveInv DEF Positions
  <1>7. CASE Remove("foundation", stages.removeAIFoundation, aiFoundation, "edge")
    <2>1. kinds \cap aiFoundation = {}
      BY DEF aiFoundation, NativeImages, Driver, BootFont, Font
    <2>2. Spared(aiFoundation)
      BY DEF Spared, aiFoundation, Driver
    <2>3. at = "foundation" /\ at' = "edge" /\ left' = left
      BY <1>7 DEF Remove
    <2>4. left \subseteq kinds /\ LeftSwept'
      BY <1>2, <2>3 DEF AfterFonts
    <2>5. left \cap aiFoundation = {}
      BY <2>1, <2>4
    <2>6. QED
      BY <1>1, <1>7, <2>2, <2>4, <2>5, RemoveInv DEF Positions
  <1>8. QED
    BY <1>3, <1>4, <1>5, <1>6, <1>7

\* Edge's sweep, and the removal of the scheduled tasks after it.
LEMMA LastStagesInv ==
    CleanupIInv /\ (Sweep("edge", TRUE, Edge, "tasks") \/ Remove("tasks", TRUE, taskFiles, "done"))
      => CleanupIInv'
  <1> SUFFICES ASSUME CleanupIInv,
                      Sweep("edge", TRUE, Edge, "tasks") \/ Remove("tasks", TRUE, taskFiles, "done")
               PROVE  CleanupIInv'
    OBVIOUS
  <1>0. LeftSwept
    BY DEF CleanupIInv
  <1> DEFINE kinds == NativeImages \cup Driver \cup BootFont \cup Font
  <1>1. CASE Sweep("edge", TRUE, Edge, "tasks")
    <2>1. at = "edge" /\ at' = "tasks"
      BY <1>1 DEF Sweep
    <2>2. Spared(Edge)
      BY DEF Spared, Edge, Driver
    <2>3. kinds \cap Edge = {}
      BY DEF Edge, NativeImages, Driver, BootFont, Font
    <2>4. left \subseteq kinds
      BY <1>0, <2>1 DEF LeftSwept, AfterFonts
    <2>5. left \cap Edge \subseteq fontsExtraRemove
      BY <2>3, <2>4
    <2>6. left' \subseteq left \cup Edge => LeftSwept'
      BY <2>1, <2>4 DEF LeftSwept, AfterFonts
    <2>7. QED
      BY <1>1, <2>2, <2>5, <2>6, SweepInv DEF Positions
  <1>2. CASE Remove("tasks", TRUE, taskFiles, "done")
    <2>1. at = "tasks" /\ at' = "done" /\ left' = left
      BY <1>2 DEF Remove
    <2>2. Spared(taskFiles)
      BY DEF Spared, taskFiles, Driver
    <2>3. (kinds \cup Edge) \cap taskFiles = {}
      BY DEF taskFiles, Edge, NativeImages, Driver, BootFont, Font
    <2>4. left \cap taskFiles = {}
      BY <1>0, <2>3 DEF LeftSwept
    <2>5. LeftSwept'
      BY <1>0, <2>1 DEF LeftSwept, AfterFonts
    <2>6. QED
      BY <1>2, <2>2, <2>4, <2>5, RemoveInv DEF Positions
  <1>3. QED
    BY <1>1, <1>2

LEMMA CleanupNextInv == CleanupIInv /\ [CleanupNext]_cleanupVars => CleanupIInv'
  <1> SUFFICES ASSUME CleanupIInv, [CleanupNext]_cleanupVars PROVE CleanupIInv'
    OBVIOUS
  <1>1. CASE UNCHANGED cleanupVars
    <2>1. fontsExtraRemove' = fontsExtraRemove
      BY DEF fontsExtraRemove
    <2>2. CleanupTypeOK'
      BY <1>1, <2>1 DEF cleanupVars, CleanupIInv, CleanupTypeOK
    <2>3. EssentialsStay'
      BY <1>1 DEF cleanupVars, CleanupIInv, EssentialsStay, Kept
    <2>4. LeftSwept'
      BY <1>1 DEF cleanupVars, CleanupIInv, LeftSwept
    <2>5. QED
      BY <2>2, <2>3, <2>4 DEF CleanupIInv
  <1>2. CASE Step
    BY <1>2, DriverSweepsInv, FontSweepsInv, RemovalsInv, LastStagesInv DEF Step
  <1>3. QED
    BY <1>1, <1>2, NoEditInv DEF CleanupNext

-----------------------------------------------------------------------------
(* Cleanup's theorems. *)

\* Each stage of runAggressiveFileCleanup keeps what the flags protect, and
\* what it leaves behind with a warning no later stage takes unseen.
THEOREM CleanupInvariance == CleanupSpec => []CleanupIInv
  BY CleanupInitInv, CleanupNextInv, PTL DEF CleanupSpec

\* Type correctness, and that a file that could not be removed stays, unless
\* the second sweep of fonts takes it.
THEOREM CleanupTypeCorrect == CleanupSpec => []CleanupTypeOK
  <1>1. CleanupIInv => CleanupTypeOK
    BY DEF CleanupIInv
  <1>2. QED
    BY <1>1, CleanupInvariance, PTL

\* Under every combination of flags, whatever the image lacks and however many
\* removals fail, no essential file goes but by its own flag
\* (runAggressiveFileCleanup).
THEOREM EssentialsAlwaysStay == CleanupSpec => []EssentialsStay
  <1>1. CleanupIInv => EssentialsStay
    BY DEF CleanupIInv
  <1>2. QED
    BY <1>1, CleanupInvariance, PTL

=============================================================================
