---------------------------- MODULE MCMeshGossip -----------------------------
(* Instances of MeshGossip for TLC. *)
EXTENDS MeshGossip

CONSTANTS a, b

\* Two nodes connected both ways.
PairLinks == {<<a, b>>, <<b, a>>}
==============================================================================
