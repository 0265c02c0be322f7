----------------------------- MODULE MCBuildIso -----------------------------
(* Two runs on one tree: every combination of the first run's flags and of  *)
(* where it stopped, followed by every combination of the second's.         *)
EXTENDS BuildIso
=============================================================================
