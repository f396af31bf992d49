---------------------------- MODULE MCHandshake ----------------------------
(* Instances of Handshake for TLC. *)
EXTENDS Handshake

\* Two peers that authenticate with each other.
MCSessions == {s \in Peers \X Peers : s[1] # s[2]}
==============================================================================
