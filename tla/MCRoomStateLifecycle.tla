------------------------- MODULE MCRoomStateLifecycle ------------------------
(* Instances of RoomStateLifecycle for TLC. *)
EXTENDS RoomStateLifecycle

\* One agent per node; nodes are numbered like their agents.
MCHome == [a \in Agents |-> a]
==============================================================================
