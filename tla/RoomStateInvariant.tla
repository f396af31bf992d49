-------------------------- MODULE RoomStateInvariant -------------------------
(***************************************************************************)
(* The inductive invariant behind the properties of RoomStateSync.  None   *)
(* of them is inductive on its own: what a node may skip (build_delta      *)
(* leaves out what the receiver's clock covers) is only right because      *)
(* clocks are causally closed, because an agent's node is always ahead in  *)
(* the agent's own component, and because a message under way still        *)
(* carries, or its receiver already holds, all that its sender had.        *)
(***************************************************************************)
EXTENDS RoomStateSync

\* Entries come from calls of set.
Recorded ==
  /\ \A n \in Nodes : entries[n] \subseteq written /\ applying[n] \subseteq written
  /\ \A m \in net : m.entries \subseteq written

\* Nothing anywhere is ahead of an agent's own node in the agent's component.
HomeLeads ==
  \A a \in Agents :
    LET top == clock[Home[a]][a]
    IN  /\ \A e \in written : e.clock[a] <= top
        /\ \A n \in Nodes : heard[n][a] <= top
        /\ \A m \in net : m.asOf[a] <= top

\* How the clocks of entries, rooms, pulls and messages bound one another.
ClocksNested ==
  /\ ClockCoversEntries
  /\ \A n \in Nodes : Leq(clock[n], heard[n])
  /\ \A n \in Nodes : \A e \in applying[n] : Leq(e.clock, heard[n])
  /\ \A m \in net : \A e \in m.entries : Leq(e.clock, m.asOf)
  /\ \A m \in net : Leq(m.since, heard[m.to])
  /\ \A q \in pulls : Leq(q.since, heard[q.to])

\* Every write ticked its author's component.
Ticked == \A e \in written : e.clock[e.author] > 0

\* A clock that covers a write covers the writes that one had seen.
Closed(c) == \A e \in written : Covers(c, e) => Leq(e.clock, c)

CausallyClosed ==
  /\ \A f \in written : Closed(f.clock)
  /\ \A n \in Nodes : Closed(clock[n]) /\ Closed(heard[n])
  /\ \A m \in net : Closed(m.asOf)

\* f is as good as e: a write of the same key that is not older.
Supersedes(f, e) == f.key = e.key /\ e.updated_at <= f.updated_at

\* Timestamps are unique and agree with causality (exact clocks only).
TimesAgree ==
  /\ \A e \in written : e.updated_at < now
  /\ \A e, f \in written : e.updated_at = f.updated_at => e = f
  /\ \A e, f \in written : Leq(e.clock, f.clock) => e.updated_at <= f.updated_at

\* NoLostWrite in the middle of a delta: the loop still has what is missing.
NodesComplete ==
  \A n \in Nodes : \A e \in written : Covers(heard[n], e) =>
    \E f \in entries[n] \cup applying[n] : Supersedes(f, e)

\* What the sender's clock covered is in the message or was with the receiver.
MessagesComplete ==
  \A m \in net : \A e \in written : Covers(m.asOf, e) =>
    \/ \E f \in m.entries : Supersedes(f, e)
    \/ \E f \in written : Supersedes(f, e) /\ Leq(f.clock, m.since)

\* Holds whatever the clocks of the nodes read.
CausalInv ==
  /\ TypeOK /\ Recorded /\ HomeLeads /\ ClocksNested /\ Ticked
  /\ CausallyClosed /\ UniqueTick

\* Holds when they read real time.
CompleteInv == TimesAgree /\ NodesComplete /\ MessagesComplete
==============================================================================
