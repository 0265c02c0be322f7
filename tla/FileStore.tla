----------------------------- MODULE FileStore -----------------------------
(***************************************************************************)
(* What editing a WIM image promises, with hashes, blob tables, reference  *)
(* counts and registry hives out of sight: a store of files that is        *)
(* edited in place, and an output that is either not yet touched, damaged  *)
(* (created and not completely written), or exactly the files as they      *)
(* stood when the output was published.                                    *)
(***************************************************************************)
EXTENDS Integers

CONSTANTS
    File,       \* file names
    Content,    \* what a file may hold, "no file" included
    Untouched,  \* the output has not been opened
    Damaged     \* the output was truncated and is not complete

VARIABLES files, published

fsVars == <<files, published>>

FSInit ==
    /\ files \in [File -> Content]
    /\ published = Untouched

\* Some files change: one is written, or a subtree is deleted.
Edit ==
    /\ published = Untouched
    /\ files' \in [File -> Content]
    /\ UNCHANGED published

Truncate ==
    /\ published = Untouched
    /\ published' = Damaged
    /\ UNCHANGED files

Publish ==
    /\ published = Damaged
    /\ published' = files
    /\ UNCHANGED files

FSNext == Edit \/ Truncate \/ Publish

FSSpec == FSInit /\ [][FSNext]_fsVars

=============================================================================
