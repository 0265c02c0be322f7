----------------------------- MODULE MCCleanup -----------------------------
(* Every combination of the seven flags; images that lack one or both of an  *)
(* essential and a vendor file; up to two removals that fail.               *)
EXTENDS Cleanup

MCMissing == {"CoreAI", "vendornic.inf"}
=============================================================================
