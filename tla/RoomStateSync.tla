---------------------------- MODULE RoomStateSync ----------------------------
(***************************************************************************)
(* Shared room state: p2p/src/room_state.rs.                               *)
(*                                                                         *)
(* Every node of the mesh runs one RoomStateSync store.  Rooms never       *)
(* interact inside it, so one room is modelled.  A node's store holds, for *)
(* the room, a map from keys to entries and an aggregate vector clock.     *)
(* Nodes exchange deltas (build_delta against the clock the receiver       *)
(* reported with room_clock, then apply_delta) and snapshots (snapshot,    *)
(* then restore_snapshot) over a transport that may lose, duplicate, delay *)
(* and reorder everything.                                                 *)
(*                                                                         *)
(* A value is opaque to the code and is left out: an entry is identified   *)
(* by its author and the author's own tick in its clock.                   *)
(*                                                                         *)
(* apply_delta and restore_snapshot hold the store's write lock while they *)
(* apply entries one at a time in an unspecified order (a snapshot's map   *)
(* order; the order of a delta's vector is that of another map).           *)
(* applying[n] is the set of entries the loop has still to apply; it is    *)
(* empty exactly when the lock of node n is free.                          *)
(***************************************************************************)
EXTENDS VectorClock, FiniteSets

CONSTANTS
  Nodes,        \* the stores that replicate the room
  Keys,         \* state keys
  Home,         \* Home[a]: the node through which agent a calls set
  Skew,         \* how far a reading of Utc::now() may be from real time
  MaxWrites,    \* bound on the number of calls of set
  MaxPulls,     \* bound on the pulls under way
  MaxMessages   \* bound on the deltas and snapshots under way

ASSUME HomeAssumption  == Home \in [Agents -> Nodes]
ASSUME SkewAssumption  == Skew \in Nat
ASSUME BoundAssumption == {MaxWrites, MaxPulls, MaxMessages} \subseteq Nat

VARIABLES
  present,   \* nodes whose `rooms` map has the room
  entries,   \* RoomState.entries, as the set of its values
  clock,     \* RoomState.clock
  applying,  \* entries left in the loop of apply_delta / restore_snapshot
  pulls,     \* clocks sent to peers to ask for a delta
  net,       \* deltas and snapshots under way
  now,       \* real time
  written,   \* history: every entry set ever made
  heard      \* history: merge of the room clocks of every state a node's
             \* own state has been built from

replica == <<present, entries, clock, applying>>
vars == <<present, entries, clock, applying, pulls, net, now, written, heard>>

\* StateEntry.
Entry == [key : Keys, author : Agents, clock : Clock, updated_at : Nat]

\* A delta or a snapshot on its way.  The code's messages carry the entries;
\* `to` and `since` are those of the pull a delta answers (a snapshot answers
\* the empty clock) and `asOf` is the sender's room clock, a history field
\* for a delta and StateSnapshot.clock for a snapshot.
Message == [kind : {"delta", "snapshot"}, to : Nodes, since : Clock,
            entries : SUBSET Entry, asOf : Clock]

Pull == [to : Nodes, since : Clock]

Init ==
  /\ present = {}
  /\ entries = [n \in Nodes |-> {}]
  /\ clock = [n \in Nodes |-> ZeroClock]
  /\ applying = [n \in Nodes |-> {}]
  /\ pulls = {} /\ net = {}
  /\ now = Skew
  /\ written = {}
  /\ heard = [n \in Nodes |-> ZeroClock]

------------------------------------------------------------------------------
(* RoomState::apply_entry *)

\* Mutants: arrival order decides; the older of two concurrent writes wins.
WinsAlwaysWhenConcurrent(e, x) ==
  PartialCmpClock(e.clock, x.clock) \in {"After", "Concurrent"}

WinsIfOlder(e, x) ==
  \/ PartialCmpClock(e.clock, x.clock) = "After"
  \/ /\ PartialCmpClock(e.clock, x.clock) = "Concurrent"
     /\ e.updated_at < x.updated_at

\* The incoming e replaces the existing entry x of its key.
Wins(e, x) ==
  \/ PartialCmpClock(e.clock, x.clock) = "After"
  \/ /\ PartialCmpClock(e.clock, x.clock) = "Concurrent"
     /\ \/ e.updated_at > x.updated_at
        \/ e.updated_at = x.updated_at /\ e.author > x.author

\* self.entries.get(&key): empty or a singleton.
Existing(n, key) == {x \in entries[n] : x.key = key}

Accepts(n, e) == \A x \in Existing(n, e.key) : Wins(e, x)

\* Mutant: the clock is only merged for a new key.
MergesClockForNewKey(n, e) == Existing(n, e.key) = {}

\* The clock is merged for a new key, a winner, and a concurrent loser.
MergesClock(n, e) ==
  \A x \in Existing(n, e.key) :
    PartialCmpClock(e.clock, x.clock) \in {"After", "Concurrent"}

\* Mutant: the old entry of the key is left behind.
InsertBeside(s, e) == s \cup {e}

\* HashMap::insert.
Insert(s, e) == {x \in s : x.key # e.key} \cup {e}

ApplyEntry(n, e) ==
  /\ entries' = [entries EXCEPT ![n] =
                   IF Accepts(n, e) THEN Insert(@, e) ELSE @]
  /\ clock' = [clock EXCEPT ![n] =
                 IF MergesClock(n, e) THEN Merge(@, e.clock) ELSE @]

Unlocked(n) == applying[n] = {}

------------------------------------------------------------------------------
(* Operations of RoomStateSync *)

InitRoom(n) ==
  /\ Unlocked(n)
  /\ n \notin present
  /\ present' = present \cup {n}
  /\ UNCHANGED <<entries, clock, applying, pulls, net, now, written, heard>>

\* Mutant: the agent's own component is not incremented.
NoTick(n, a) == clock[n]

\* The clock of a new entry of agent a.
EntryClock(n, a) == Tick(clock[n], a)

\* set(room, a, k, _), the clock of node Home[a] reading t.
SetKey(a, k, t) ==
  LET n == Home[a]
      e == [key |-> k, author |-> a, clock |-> EntryClock(n, a), updated_at |-> t]
  IN  /\ Cardinality(written) < MaxWrites
      /\ Unlocked(n)
      /\ n \in present
      /\ ApplyEntry(n, e)
      /\ written' = written \cup {e}
      /\ now' = now + 1
      /\ heard' = [heard EXCEPT ![n] = Merge(@, e.clock)]
      /\ UNCHANGED <<present, applying, pulls, net>>

\* A node reads room_clock and sends it to its peers.
RequestDelta(n) ==
  /\ Cardinality(pulls) < MaxPulls
  /\ Unlocked(n)
  /\ n \in present
  /\ pulls' = pulls \cup {[to |-> n, since |-> clock[n]]}
  /\ UNCHANGED <<present, entries, clock, applying, net, now, written, heard>>

\* Mutant: concurrent entries are not sent.
OnlyDominating(p, since) ==
  {e \in entries[p] : PartialCmpClock(e.clock, since) = "After"}

\* The filter of build_delta.
DeltaEntries(p, since) ==
  {e \in entries[p] : PartialCmpClock(e.clock, since) \in {"After", "Concurrent"}}

\* Node p answers a pull with build_delta.
BuildDelta(p, q) ==
  /\ Cardinality(net) < MaxMessages
  /\ Unlocked(p)
  /\ p \in present
  /\ net' = net \cup {[kind |-> "delta", to |-> q.to, since |-> q.since,
                       entries |-> DeltaEntries(p, q.since), asOf |-> clock[p]]}
  /\ UNCHANGED <<present, entries, clock, applying, pulls, now, written, heard>>

\* Node p takes a snapshot for node n.
Snapshot(p, n) ==
  /\ Cardinality(net) < MaxMessages
  /\ Unlocked(p)
  /\ p \in present
  /\ net' = net \cup {[kind |-> "snapshot", to |-> n, since |-> ZeroClock,
                       entries |-> entries[p], asOf |-> clock[p]]}
  /\ UNCHANGED <<present, entries, clock, applying, pulls, now, written, heard>>

\* apply_delta takes the write lock; it fails if the room does not exist.
ApplyDelta(m) ==
  /\ m.kind = "delta"
  /\ Unlocked(m.to)
  /\ m.to \in present
  /\ applying' = [applying EXCEPT ![m.to] = m.entries]
  /\ heard' = [heard EXCEPT ![m.to] = Merge(@, m.asOf)]
  /\ UNCHANGED <<present, entries, clock, pulls, net, now, written>>

\* restore_snapshot takes the write lock and creates the room if need be.
RestoreSnapshot(m) ==
  /\ m.kind = "snapshot"
  /\ Unlocked(m.to)
  /\ present' = present \cup {m.to}
  /\ applying' = [applying EXCEPT ![m.to] = m.entries]
  /\ heard' = [heard EXCEPT ![m.to] = Merge(@, m.asOf)]
  /\ UNCHANGED <<entries, clock, pulls, net, now, written>>

\* One turn of the loop of apply_delta and restore_snapshot.
ApplyNext(n, e) ==
  /\ ApplyEntry(n, e)
  /\ applying' = [applying EXCEPT ![n] = @ \ {e}]
  /\ UNCHANGED <<present, pulls, net, now, written, heard>>

\* The transport drops a pull or a message.  What is not dropped may be
\* delivered again, and later than what was sent after it.
LosePull(q) ==
  /\ pulls' = pulls \ {q}
  /\ UNCHANGED <<replica, net, now, written, heard>>

LoseMessage(m) ==
  /\ net' = net \ {m}
  /\ UNCHANGED <<replica, pulls, now, written, heard>>

Sync ==
  \/ \E n \in Nodes : InitRoom(n) \/ RequestDelta(n)
  \/ \E q \in pulls : \E p \in Nodes \ {q.to} : BuildDelta(p, q)
  \/ \E n \in Nodes : \E p \in Nodes \ {n} : Snapshot(p, n)
  \/ \E m \in net : ApplyDelta(m) \/ RestoreSnapshot(m) \/ LoseMessage(m)
  \/ \E n \in Nodes : \E e \in applying[n] : ApplyNext(n, e)
  \/ \E q \in pulls : LosePull(q)

Write ==
  \E a \in Agents, k \in Keys : \E t \in (now - Skew) .. (now + Skew) :
    SetKey(a, k, t)

Next == Write \/ Sync

Spec == Init /\ [][Next]_vars

------------------------------------------------------------------------------
(* Properties *)

\* Types, and a node's entries are a map: at most one entry per key.  The
\* room of a node that does not have it is empty.
TypeOK ==
  /\ present \subseteq Nodes
  /\ entries \in [Nodes -> SUBSET Entry]
  /\ clock \in [Nodes -> Clock]
  /\ applying \in [Nodes -> SUBSET Entry]
  /\ pulls \subseteq Pull
  /\ net \subseteq Message
  /\ now \in Nat /\ now >= Skew
  /\ written \subseteq Entry
  /\ heard \in [Nodes -> Clock]
  /\ \A n \in Nodes : \A e, f \in entries[n] : e.key = f.key => e = f

\* The writes a clock claims to cover.
Covers(c, e) == e.clock[e.author] <= c[e.author]

\* Delta and snapshot transfer lose nothing, however messages are delayed,
\* repeated and reordered: whatever write is covered by the clock of a node,
\* or of a state it was once brought up to date with, that node holds, or it
\* holds a newer write of the same key.  (A write that a clock covers and the
\* node does not hold is never sent again: build_delta leaves it out.)
NoLostWrite ==
  \A n \in Nodes : Unlocked(n) =>
    \A e \in written : Covers(clock[n], e) \/ Covers(heard[n], e) =>
      \E f \in entries[n] : f.key = e.key /\ e.updated_at <= f.updated_at

\* Strong convergence: two nodes with the same clock, or that have heard of
\* the same writes, hold the same entries, whatever the order and the means
\* by which the writes reached them.
Convergence ==
  \A m, n \in Nodes :
    /\ Unlocked(m) /\ Unlocked(n)
    /\ clock[m] = clock[n] \/ heard[m] = heard[n]
    => entries[m] = entries[n]

\* No two writes of an agent carry the same tick, so that a clock can tell
\* them apart: what `set` relies on when it ticks a copy of the room clock.
UniqueTick ==
  \A e, f \in written :
    e.author = f.author /\ e.clock[e.author] = f.clock[f.author] => e = f

\* A room clock is at least the merge of the clocks of the room's entries
\* (the comment on RoomState.clock), in the middle of a delta too.
ClockCoversEntries ==
  \A n \in Nodes : \A e \in entries[n] : Leq(e.clock, clock[n])

\* Last-writer-wins: the store implements the abstract replicated map in
\* which an entry only ever gives way to a newer one of its key.
Abstract == INSTANCE LWWMap WITH log <- written, store <- entries

LastWriterWins == Abstract!Spec
==============================================================================
