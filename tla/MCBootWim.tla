------------------------------ MODULE MCBootWim ------------------------------
(* WinSxS\p\n\e\b, an engine directory s with a language directory l that    *)
(* holds g, a file a elsewhere, a font, a storage driver and one hive.  Any  *)
(* directory but s may be named after a language, and with two hashes any    *)
(* two files may be hard links of one another.                               *)
EXTENDS BootWim, TLC

CONSTANTS e, p, n, s, l, a, b, g, k, v, hv, h1, h2

MCDir == {e, p, n, s, l}
MCPath == {a, b, g, k, v, hv}
MCInside == p :> {n, e, b} @@ n :> {e, b} @@ e :> {b} @@ s :> {l, g} @@ l :> {g}
MCSxsDir == {p}
MCHivePath == {hv}
MCEngines == {s}
MCFonts == {k}
MCStorage == {v}
MCHash == {h1, h2}
Symmetry == Permutations(MCHash)
=============================================================================
