----------------------------- MODULE MCPipeline -----------------------------
(* Two images and two runs: one to leave something behind, one to trip over *)
(* it.  -out is not given, outside the media tree, at the tree's root, from *)
(* where it is deleted, or the tree's own install.wim.                      *)
EXTENDS Pipeline

MCOuts == {"none", "out", "rootOut", "treeWim"}
MCOut == {"none", "out"}
=============================================================================
