----------------------------- MODULE IsoOutput -----------------------------
(***************************************************************************)
(* What authoring promises of the file at -iso-out: it is as it was, it is *)
(* damaged by a write that did not end, or it boots exactly as the flags   *)
(* of the run that wrote it say.  Nothing is said of the tree it is made   *)
(* from, of the steps, or of what earlier runs left.                       *)
(***************************************************************************)
CONSTANTS
    Boot,       \* how an ISO may boot
    NoFile, Damaged

VARIABLES
    wanted,     \* how the current flags want it to boot
    output      \* the file

isoVars == <<wanted, output>>

IsoInit == wanted \in Boot /\ output = NoFile

Ask == wanted' \in Boot /\ UNCHANGED output

Damage == output' = Damaged /\ UNCHANGED wanted

Publish == output = Damaged /\ output' = wanted /\ UNCHANGED wanted

IsoSpec == IsoInit /\ [][Ask \/ Damage \/ Publish]_isoVars

=============================================================================
