---------------------------- MODULE MCMatchmaking ----------------------------
(* Instances of Matchmaking for TLC. *)
EXTENDS Matchmaking

CONSTANTS a, b, golf

\* Skills that overlap or touch, windows that overlap, touch or are apart.
MCBodies ==
  {[agent |-> a, game |-> golf, skill |-> [min |-> 1, max |-> 2], window |-> [start |-> 0, end |-> 2]],
   [agent |-> b, game |-> golf, skill |-> [min |-> 2, max |-> 3], window |-> [start |-> 1, end |-> 3]],
   [agent |-> b, game |-> golf, skill |-> [min |-> 3, max |-> 3], window |-> [start |-> 0, end |-> 1]],
   [agent |-> b, game |-> golf, skill |-> [min |-> 2, max |-> 2], window |-> [start |-> 2, end |-> 3]]}
==============================================================================
