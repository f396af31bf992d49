--------------------------- MODULE MCRoomStateSync ---------------------------
(* Instances of RoomStateSync for TLC. *)
EXTENDS RoomStateSync, TLC

\* One agent per node; nodes are numbered like their agents.
MCHome == [a \in Agents |-> a]

\* Nothing tells one key from another.
KeySymmetry == Permutations(Keys)
==============================================================================
