------------------------------ MODULE Cleanup ------------------------------
(***************************************************************************)
(* Which files runAggressiveFileCleanup takes out of the install image     *)
(* (filecleanup.go).  A file stands for all that the same patterns and     *)
(* flags decide about.  The recovery image and Edge WebView's component,   *)
(* which the same function deals with, are in Debloat; how a removal keeps *)
(* the blob table right is in BlobTable.                                   *)
(* The flags are the stages of run(), of type stageFlags; the names differ *)
(* from those of Debloat, so that one module can extend both.              *)
(***************************************************************************)
EXTENDS FiniteSets, Naturals

CONSTANTS
    Missing,    \* files an image may lack from the start
    MaxLeft     \* bound: removals that fail with a warning

ASSUME CleanupAssumption == IsFiniteSet(Missing) /\ MaxLeft \in Nat

VARIABLES
    stages, at,
    initial,    \* files of the image
    files,      \* files still there
    left        \* files whose removal failed with no more than a warning

cleanupVars == <<stages, at, initial, files, left>>

-----------------------------------------------------------------------------
(* What the patterns and lists find. *)

Driver == {"printer.inf", "helloface.inf", "vendornic.inf", "nettcpip.inf"}
driverStoreRemovePatterns == {"printer.inf", "helloface.inf"}

\* A pattern among them that finds printers too.
WideNICs == {"vendornic.inf", "printer.inf"}

\* The glob net*, which finds the network stack too.
EveryNet == {"vendornic.inf", "nettcpip.inf"}
vendorNICRemovePatterns == {"vendornic.inf"}

BootFont == {"cjk_boot", "latin_boot"}
bootFontRemovePatterns == {"cjk_boot"}

Font == {"segoeui", "SegoeIcons", "seguisym", "seguiemj", "seguihis", "arial", "msyh", "other"}
fontsKeepPatterns == Font \ {"msyh", "other"}
fontsExtraRemove == {"seguiemj", "seguihis", "msyh"}

mustRemove(f) ==
    {"speech engines", "SecureBoot bucket data", "Media", "wmploc.mun", "ieframe.mun",
     "Windows Defender", "Temp", "Microsoft-Edge-Webview", "OneDriveSetup", "IME\\JP"}
      \cup (IF f.removeIME THEN {"IME\\SHARED", "SKB"} ELSE {})

nonEssential == {"mshtml", "directml.mun", "WUModels"}
aiFoundation == {"AppRuntime.vNext", "directml.dll"}
Edge == {"Program Files\\Edge"}
NativeImages == {"NativeImages"}
taskFiles == {"CEIP tasks"}

\* What none of them names.
Rest == {"sapi", "imageres.mun", "kbd", "AppRuntime.CBS"}

File == Driver \cup BootFont \cup Font \cup nonEssential \cup aiFoundation \cup Edge
          \cup NativeImages \cup taskFiles \cup Rest \cup {"edgehtml", "CoreAI"}
          \cup mustRemove([removeIME |-> TRUE])

stageFlags ==
    [skipFileCleanup : BOOLEAN, keepDrivers : BOOLEAN, keepNICDrivers : BOOLEAN,
     removeIME : BOOLEAN, removeWebEngines : BOOLEAN, removeAI : BOOLEAN,
     removeAIFoundation : BOOLEAN]

CleanupInit ==
    /\ stages \in stageFlags /\ at = "start"
    /\ initial \in {File \ m : m \in SUBSET Missing}
    /\ files = initial /\ left = {}

\* A removal fails in a way that is no warning: run() returns with the error.
StageFails ==
    /\ at \notin {"done", "failed"}
    /\ at' = "failed"
    /\ UNCHANGED <<stages, initial, files, left>>

\* -skip-filecleanup leaves the whole function out.
Start ==
    /\ at = "start"
    /\ at' = IF stages.skipFileCleanup THEN "done" ELSE "native"
    /\ UNCHANGED <<stages, initial, files, left>>

\* removeIfExists for each of a list: what is not there is no error.
Remove(from, cond, list, to) ==
    /\ at = from
    /\ files' = IF cond THEN files \ list ELSE files
    /\ at' = to
    /\ UNCHANGED <<stages, initial, left>>

\* removeMatchingChildren: the names it found are removed one by one, and one
\* that cannot be removed is left with a warning.
Sweep(from, cond, found, to) ==
    /\ at = from
    /\ \E stuck \in {{}} \cup {{x} : x \in files \cap found} :
         /\ Cardinality(left \cup stuck) <= MaxLeft /\ (~cond => stuck = {})
         /\ files' = IF cond THEN files \ (found \ stuck) ELSE files
         /\ left' = left \cup stuck
    /\ at' = to
    /\ UNCHANGED <<stages, initial>>

\* stages.keepNICDrivers, as main() leaves it.
KeepNICDrivers == stages.keepDrivers \/ stages.keepNICDrivers

RemoveAI == stages.removeAI

\* keepOnlyMatchingChildren of fontsKeepPatterns, then fontsExtraRemove.
Fonts ==
    \/ Sweep("fonts", TRUE, Font \ fontsKeepPatterns, "more fonts")
    \/ Sweep("more fonts", TRUE, fontsExtraRemove, "must")

\* The order of runAggressiveFileCleanup.
Step ==
    \/ Sweep("native", TRUE, NativeImages, "drivers")
    \/ Sweep("drivers", ~stages.keepDrivers, driverStoreRemovePatterns, "nics")
    \/ Sweep("nics", ~KeepNICDrivers, vendorNICRemovePatterns, "boot fonts")
    \/ Sweep("boot fonts", TRUE, bootFontRemovePatterns, "fonts")
    \/ Fonts
    \/ Remove("must", TRUE, mustRemove(stages), "engines")
    \/ Remove("engines", TRUE, nonEssential, "edgehtml")
    \/ Remove("edgehtml", stages.removeWebEngines, {"edgehtml"}, "ai")
    \/ Remove("ai", RemoveAI, {"CoreAI"}, "foundation")
    \/ Remove("foundation", stages.removeAIFoundation, aiFoundation, "edge")
    \/ Sweep("edge", TRUE, Edge, "tasks")
    \/ Remove("tasks", TRUE, taskFiles, "done")

CleanupNext == Start \/ Step \/ StageFails

CleanupSpec == CleanupInit /\ [][CleanupNext]_cleanupVars

-----------------------------------------------------------------------------
(* Properties. *)

\* The variables have their types; a file that could not be removed stays:
\* only fonts are found by two sweeps.
CleanupTypeOK ==
    /\ stages \in stageFlags
    /\ at \in {"start", "native", "drivers", "nics", "boot fonts", "fonts", "more fonts",
               "must", "engines", "edgehtml", "ai", "foundation", "edge", "tasks",
               "done", "failed"}
    /\ files \subseteq initial /\ initial \subseteq File
    /\ left \subseteq files \cup fontsExtraRemove

Kept(S) == initial \cap S \subseteq files

\* What OOBE, the network and the shell need is not gone at any time under any
\* combination of flags and failures: of the two "ESSENTIAL pieces" each goes by
\* its own flag alone, -remove-ai-foundation leaving CoreAI (filecleanup.go:651,
\* 709); the network stack outlives the sweep of the vendors' drivers, and they
\* -keep-nic-drivers or -keep-drivers, which implies it; two font sweeps in a
\* row, whose patterns overlap, leave the fonts the shell draws with.
EssentialsStay ==
    /\ ~stages.removeWebEngines => Kept({"edgehtml"})
    /\ ~stages.removeAI => Kept({"CoreAI"})
    /\ Kept({"nettcpip.inf"})
    /\ stages.keepNICDrivers => Kept({"vendornic.inf"})
    /\ stages.keepDrivers => Kept(Driver)
    /\ Kept({"segoeui", "SegoeIcons", "seguisym", "arial"})

=============================================================================
