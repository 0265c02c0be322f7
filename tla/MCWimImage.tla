----------------------------- MODULE MCWimImage -----------------------------
(* An image of three files and one hive: a directory d holding a and b, one *)
(* file f outside it.  Two hashes are enough for sharing and replacement.   *)
EXTENDS WimImage, TLC

CONSTANTS a, b, f, hv, d, h1, h2

MCPath == {a, b, f, hv}
MCHash == {h1, h2}
MCHivePath == {hv}
MCSubtree == [e \in {d, a, f} |-> IF e = d THEN {a, b} ELSE {e}]

=============================================================================
