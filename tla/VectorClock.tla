----------------------------- MODULE VectorClock -----------------------------
(***************************************************************************)
(* The vector clocks of p2p/src/room_state.rs.  The source keeps a map     *)
(* from agent ids to u64 and reads a missing id as 0; here a clock is a    *)
(* total function, 0 standing for "absent" as well (the source never tells *)
(* the two apart: partial_cmp_clock reads both sides through get).         *)
(*                                                                         *)
(* Agents are natural numbers because the code also compares agent ids     *)
(* with `>` (the secondary tiebreaker of RoomState::apply_entry).          *)
(***************************************************************************)
EXTENDS Naturals

CONSTANT Agents

ASSUME AgentsAssumption == Agents \subseteq Nat

Clock == [Agents -> Nat]

\* VectorClock::default(): the empty map.
ZeroClock == [a \in Agents |-> 0]

\* VectorClock::tick.
Tick(c, agent) == [c EXCEPT ![agent] = @ + 1]

\* VectorClock::merge, entry by entry the larger of the two.
Merge(c, d) == [a \in Agents |-> IF c[a] < d[a] THEN d[a] ELSE c[a]]

\* self_leq of VectorClock::partial_cmp_clock.
Leq(c, d) == \A a \in Agents : c[a] <= d[a]

\* VectorClock::partial_cmp_clock, c being `self` and d `other`.
PartialCmpClock(c, d) ==
  CASE Leq(c, d)  /\ Leq(d, c)  -> "Equal"
    [] Leq(c, d)  /\ ~Leq(d, c) -> "Before"
    [] ~Leq(c, d) /\ Leq(d, c)  -> "After"
    [] ~Leq(c, d) /\ ~Leq(d, c) -> "Concurrent"
==============================================================================
