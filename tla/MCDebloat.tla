------------------------------ MODULE MCDebloat ------------------------------
(* One default-tier app, one Store app, one app no keyword matches and one  *)
(* framework all need: every combination of flags, architectures, recovery  *)
(* images and failing removals.                                             *)
EXTENDS Debloat, TLC

CONSTANTS b, s, f, o

MCBloat == {b}
MCStore == {s}
MCFramework == {f}
MCOther == {o}
MCNeeds == b :> {f} @@ s :> {f} @@ o :> {f}
MCServices == {"Spooler"}
=============================================================================
