--------------------------- MODULE RoomStateProofs ---------------------------
(***************************************************************************)
(* Proofs about RoomStateSync, for every set of nodes, agents and keys and *)
(* every bound: the properties of RoomStateSync follow from the invariant  *)
(* of RoomStateInvariant, which every action preserves.  At the end, what  *)
(* RoomStateLifecycle leaves true.                                         *)
(***************************************************************************)
EXTENDS RoomStateInvariant, RoomStateLifecycle, TLAPS

------------------------------------------------------------------------------
(* Vector clocks: VectorClock::merge, tick and partial_cmp_clock. *)

\* The pointwise order of clocks is reflexive and transitive, which
\* partial_cmp_clock needs to be an order on entries at all.
LEMMA LeqOrder ==
  /\ \A c \in Clock : Leq(c, c)
  /\ \A c, d, x \in Clock : Leq(c, d) /\ Leq(d, x) => Leq(c, x)
BY DEF Leq, Clock

\* merge yields the least clock above both of its arguments, and takes every
\* component from one of them.
LEMMA MergeIsJoin ==
  ASSUME NEW c \in Clock, NEW d \in Clock
  PROVE  /\ Merge(c, d) \in Clock
         /\ Leq(c, Merge(c, d)) /\ Leq(d, Merge(c, d))
         /\ \A x \in Clock : Leq(c, x) /\ Leq(d, x) => Leq(Merge(c, d), x)
         /\ \A a \in Agents : Merge(c, d)[a] \in {c[a], d[a]}
         /\ \A a \in Agents : c[a] <= Merge(c, d)[a] /\ d[a] <= Merge(c, d)[a]
BY DEF Leq, Clock, Merge

\* tick raises the agent's own component by one and leaves the others alone.
LEMMA TickRaises ==
  ASSUME NEW c \in Clock, NEW a \in Agents
  PROVE  /\ Tick(c, a) \in Clock
         /\ Leq(c, Tick(c, a))
         /\ Tick(c, a)[a] = c[a] + 1
         /\ \A b \in Agents \ {a} : Tick(c, a)[b] = c[b]
BY DEF Leq, Clock, Tick

\* The four outcomes of partial_cmp_clock in terms of the pointwise order.
LEMMA CmpOutcomes ==
  ASSUME NEW c, NEW d
  PROVE  /\ PartialCmpClock(c, d) = "After" <=> ~Leq(c, d) /\ Leq(d, c)
         /\ PartialCmpClock(c, d) = "Concurrent" <=> ~Leq(c, d) /\ ~Leq(d, c)
         /\ PartialCmpClock(c, d) \in {"After", "Concurrent"} <=> ~Leq(c, d)
<1>1. CASE Leq(c, d) /\ Leq(d, c)
  <2>1. PartialCmpClock(c, d) = "Equal" BY <1>1 DEF PartialCmpClock
  <2>2. QED BY <1>1, <2>1
<1>2. CASE Leq(c, d) /\ ~Leq(d, c)
  <2>1. PartialCmpClock(c, d) = "Before" BY <1>2 DEF PartialCmpClock
  <2>2. QED BY <1>2, <2>1
<1>3. CASE ~Leq(c, d) /\ Leq(d, c)
  <2>1. PartialCmpClock(c, d) = "After" BY <1>3 DEF PartialCmpClock
  <2>2. QED BY <1>3, <2>1
<1>4. CASE ~Leq(c, d) /\ ~Leq(d, c)
  <2>1. PartialCmpClock(c, d) = "Concurrent" BY <1>4 DEF PartialCmpClock
  <2>2. QED BY <1>4, <2>1
<1>5. QED BY <1>1, <1>2, <1>3, <1>4

------------------------------------------------------------------------------
(* RoomState::apply_entry *)

\* What applying an entry does to a replica whatever its timestamps say: it
\* stays a map, the entries stay below the room clock, the clock only grows,
\* and only by the clock of the entry.
LEMMA ApplyEntryEffect ==
  ASSUME TypeOK, ClockCoversEntries,
         NEW n \in Nodes, NEW e \in Entry, ApplyEntry(n, e)
  PROVE  /\ entries' \in [Nodes -> SUBSET Entry]
         /\ clock' \in [Nodes -> Clock]
         /\ \A m \in Nodes \ {n} : entries'[m] = entries[m] /\ clock'[m] = clock[m]
         /\ entries'[n] \subseteq entries[n] \cup {e}
         /\ \A x, y \in entries'[n] : x.key = y.key => x = y
         /\ clock'[n] \in {clock[n], Merge(clock[n], e.clock)}
         /\ Leq(clock[n], clock'[n])
         /\ Leq(e.clock, clock'[n])
         /\ \A x \in entries'[n] : Leq(x.clock, clock'[n])
<1> DEFINE old == entries[n]
<1>0. /\ old \subseteq Entry /\ clock[n] \in Clock /\ e.clock \in Clock
      /\ \A x \in old : x.clock \in Clock
      /\ \A x, y \in old : x.key = y.key => x = y
      /\ entries \in [Nodes -> SUBSET Entry] /\ clock \in [Nodes -> Clock]
  BY DEF TypeOK, Entry
<1>1. entries'[n] = (IF Accepts(n, e) THEN Insert(old, e) ELSE old)
  BY <1>0 DEF ApplyEntry
<1>2. clock'[n] = (IF MergesClock(n, e) THEN Merge(clock[n], e.clock) ELSE clock[n])
  BY <1>0 DEF ApplyEntry
<1>3. Insert(old, e) \subseteq old \cup {e} /\ e \in Insert(old, e)
  BY DEF Insert
<1>4. \A x, y \in Insert(old, e) : x.key = y.key => x = y
  BY <1>0 DEF Insert
<1>5. Merge(clock[n], e.clock) \in Clock
      /\ Leq(clock[n], Merge(clock[n], e.clock))
      /\ Leq(e.clock, Merge(clock[n], e.clock))
      /\ Leq(clock[n], clock[n])
  BY <1>0, MergeIsJoin, LeqOrder
<1>6. clock'[n] \in Clock /\ Leq(clock[n], clock'[n])
      /\ clock'[n] \in {clock[n], Merge(clock[n], e.clock)}
  BY <1>0, <1>2, <1>5
<1>7. Leq(e.clock, clock'[n])
  <2>1. CASE MergesClock(n, e)
    BY <2>1, <1>2, <1>5
  <2>2. CASE ~MergesClock(n, e)
    <3>1. PICK x \in old : ~(PartialCmpClock(e.clock, x.clock) \in {"After", "Concurrent"})
      BY <2>2 DEF MergesClock, Existing
    <3>2. Leq(e.clock, x.clock)
      BY <3>1, CmpOutcomes
    <3>3. Leq(x.clock, clock[n])
      BY DEF ClockCoversEntries
    <3>4. Leq(e.clock, clock[n])
      BY <3>2, <3>3, <1>0, LeqOrder
    <3>5. QED BY <3>4, <2>2, <1>2
  <2>3. QED BY <2>1, <2>2
<1>8. \A x \in old : Leq(x.clock, clock'[n])
  <2>1. SUFFICES ASSUME NEW x \in old PROVE Leq(x.clock, clock'[n])
    OBVIOUS
  <2>2. Leq(x.clock, clock[n]) BY DEF ClockCoversEntries
  <2>3. QED BY <2>2, <1>6, <1>0, LeqOrder
<1>9. entries'[n] \subseteq old \cup {e}
      /\ \A x, y \in entries'[n] : x.key = y.key => x = y
  BY <1>0, <1>1, <1>3, <1>4
<1>10. \A x \in entries'[n] : Leq(x.clock, clock'[n])
  BY <1>7, <1>8, <1>9
<1>11. \A m \in Nodes \ {n} : entries'[m] = entries[m] /\ clock'[m] = clock[m]
  BY <1>0 DEF ApplyEntry
<1>12. entries' \in [Nodes -> SUBSET Entry]
  <2>1. Insert(old, e) \in SUBSET Entry BY <1>0, <1>3
  <2>2. QED BY <2>1, <1>0 DEF ApplyEntry
<1>13. clock' \in [Nodes -> Clock]
  BY <1>0, <1>5 DEF ApplyEntry
<1>14. QED BY <1>6, <1>7, <1>9, <1>10, <1>11, <1>12, <1>13

------------------------------------------------------------------------------
(* The causal invariant: every action but set and the apply loop. *)

\* The room-state part of the invariant mentions these variables only.
LEMMA InitRoomCausal ==
  ASSUME CausalInv, NEW n \in Nodes, InitRoom(n)
  PROVE  CausalInv'
<1>1. TypeOK' BY DEF CausalInv, TypeOK, InitRoom
<1>2. Recorded' /\ HomeLeads' /\ Ticked' /\ UniqueTick'
  BY DEF CausalInv, InitRoom, Recorded, HomeLeads, Ticked, UniqueTick
<1>3. ClocksNested'
  BY DEF CausalInv, InitRoom, ClocksNested, ClockCoversEntries
<1>4. CausallyClosed'
  BY DEF CausalInv, InitRoom, CausallyClosed, Closed, Covers
<1>5. QED BY <1>1, <1>2, <1>3, <1>4 DEF CausalInv

\* Asking for a delta adds a pull that reports the clock the node really has.
LEMMA RequestDeltaCausal ==
  ASSUME CausalInv, NEW n \in Nodes, RequestDelta(n)
  PROVE  CausalInv'
<1>1. TypeOK' BY DEF CausalInv, TypeOK, RequestDelta, Pull
<1>2. Recorded' /\ HomeLeads' /\ Ticked' /\ UniqueTick'
  BY DEF CausalInv, RequestDelta, Recorded, HomeLeads, Ticked, UniqueTick
<1>3. ClocksNested'
  BY DEF CausalInv, RequestDelta, ClocksNested, ClockCoversEntries
<1>4. CausallyClosed'
  BY DEF CausalInv, RequestDelta, CausallyClosed, Closed, Covers
<1>5. QED BY <1>1, <1>2, <1>3, <1>4 DEF CausalInv

\* A message m joins net: what m must satisfy for the invariant to hold on.
LEMMA SendCausal ==
  ASSUME CausalInv, NEW m \in Message, net' = net \cup {m},
         UNCHANGED <<present, entries, clock, applying, pulls, now, written, heard>>,
         NEW p \in Nodes, m.asOf = clock[p], m.entries \subseteq entries[p],
         Leq(m.since, heard[m.to])
  PROVE  CausalInv'
<1>1. TypeOK' BY DEF CausalInv, TypeOK
<1>2. Recorded' /\ Ticked' /\ UniqueTick'
  BY DEF CausalInv, Recorded, Ticked, UniqueTick
<1>3. HomeLeads'
  <2>1. \A a \in Agents : clock[p][a] <= clock[Home[a]][a]
    <3>1. SUFFICES ASSUME NEW a \in Agents PROVE clock[p][a] <= clock[Home[a]][a]
      OBVIOUS
    <3>2. clock[p][a] <= heard[p][a] BY DEF CausalInv, ClocksNested, Leq
    <3>3. heard[p][a] <= clock[Home[a]][a] BY DEF CausalInv, HomeLeads
    <3>4. clock[p] \in Clock /\ heard[p] \in Clock /\ clock[Home[a]] \in Clock
      BY HomeAssumption DEF CausalInv, TypeOK
    <3>5. QED BY <3>2, <3>3, <3>4 DEF Clock
  <2>2. QED BY <2>1 DEF CausalInv, HomeLeads
<1>4. ClocksNested'
  BY DEF CausalInv, ClocksNested, ClockCoversEntries
<1>5. CausallyClosed'
  BY DEF CausalInv, CausallyClosed, Closed, Covers
<1>6. QED BY <1>1, <1>2, <1>3, <1>4, <1>5 DEF CausalInv

\* A delta carries written entries its sender holds: the causal facts survive.
LEMMA BuildDeltaCausal ==
  ASSUME CausalInv, NEW p \in Nodes, NEW q \in pulls, BuildDelta(p, q)
  PROVE  CausalInv'
<1> DEFINE m == [kind |-> "delta", to |-> q.to, since |-> q.since,
                 entries |-> DeltaEntries(p, q.since), asOf |-> clock[p]]
<1>1. m.entries \subseteq entries[p] BY DEF DeltaEntries
<1>2. m \in Message
  BY <1>1 DEF CausalInv, TypeOK, Message, Pull
<1>3. Leq(m.since, heard[m.to]) BY DEF CausalInv, ClocksNested
<1>4. QED BY <1>1, <1>2, <1>3, SendCausal DEF BuildDelta

\* The empty clock is below every clock.
LEMMA ZeroLeast == ZeroClock \in Clock /\ \A c \in Clock : Leq(ZeroClock, c)
BY DEF ZeroClock, Clock, Leq

\* A snapshot carries its sender's whole map: the causal facts survive.
LEMMA SnapshotCausal ==
  ASSUME CausalInv, NEW p \in Nodes, NEW n \in Nodes, Snapshot(p, n)
  PROVE  CausalInv'
<1> DEFINE m == [kind |-> "snapshot", to |-> n, since |-> ZeroClock,
                 entries |-> entries[p], asOf |-> clock[p]]
<1>1. m \in Message
  BY ZeroLeast DEF CausalInv, TypeOK, Message
<1>2. Leq(m.since, heard[m.to]) BY ZeroLeast DEF CausalInv, TypeOK
<1>3. QED BY <1>1, <1>2, SendCausal DEF Snapshot

\* Losing a pull or a message cannot break the causal facts.
LEMMA LoseCausal ==
  ASSUME CausalInv, UNCHANGED <<replica, now, written, heard>>,
         net' \subseteq net, pulls' \subseteq pulls
  PROVE  CausalInv'
<1>1. TypeOK' BY DEF CausalInv, TypeOK, replica
<1>2. Recorded' /\ HomeLeads' /\ Ticked' /\ UniqueTick'
  BY DEF CausalInv, replica, Recorded, HomeLeads, Ticked, UniqueTick
<1>3. ClocksNested'
  BY DEF CausalInv, replica, ClocksNested, ClockCoversEntries
<1>4. CausallyClosed'
  BY DEF CausalInv, replica, CausallyClosed, Closed, Covers
<1>5. QED BY <1>1, <1>2, <1>3, <1>4 DEF CausalInv

\* Causal closure survives merge: a write covered by the merge of two clocks
\* is covered by one of them.
LEMMA MergeClosed ==
  ASSUME TypeOK, NEW c \in Clock, NEW d \in Clock, Closed(c), Closed(d)
  PROVE  Closed(Merge(c, d))
<1>1. SUFFICES ASSUME NEW e \in written, Covers(Merge(c, d), e)
               PROVE  Leq(e.clock, Merge(c, d))
  BY DEF Closed
<1>2. e.author \in Agents /\ e.clock \in Clock BY DEF TypeOK, Entry
<1>3. Covers(c, e) \/ Covers(d, e) BY <1>1, <1>2, MergeIsJoin DEF Covers
<1>4. Leq(e.clock, c) \/ Leq(e.clock, d) BY <1>3 DEF Closed
<1>5. QED BY <1>2, <1>4, MergeIsJoin, LeqOrder

\* apply_delta and restore_snapshot take the lock.
LEMMA StartApplyCausal ==
  ASSUME CausalInv, NEW m \in net, Unlocked(m.to),
         present' \subseteq Nodes,
         applying' = [applying EXCEPT ![m.to] = m.entries],
         heard' = [heard EXCEPT ![m.to] = Merge(@, m.asOf)],
         UNCHANGED <<entries, clock, pulls, net, now, written>>
  PROVE  CausalInv'
<1> DEFINE n == m.to
<1>0. /\ TypeOK /\ n \in Nodes /\ m.asOf \in Clock /\ heard[n] \in Clock
      /\ clock[n] \in Clock /\ m.entries \in SUBSET Entry
      /\ heard \in [Nodes -> Clock] /\ applying \in [Nodes -> SUBSET Entry]
  BY DEF CausalInv, TypeOK, Message
<1>1. /\ heard'[n] = Merge(heard[n], m.asOf)
      /\ heard'[n] \in Clock
      /\ Leq(heard[n], heard'[n]) /\ Leq(m.asOf, heard'[n])
      /\ \A k \in Nodes \ {n} : heard'[k] = heard[k]
  BY <1>0, MergeIsJoin
<1>2. applying'[n] = m.entries /\ \A k \in Nodes \ {n} : applying'[k] = applying[k]
  BY <1>0
<1>3. TypeOK'
  <2>1. applying' \in [Nodes -> SUBSET Entry] BY <1>0
  <2>2. heard' \in [Nodes -> Clock] BY <1>0, MergeIsJoin
  <2>3. QED BY <1>0, <2>1, <2>2 DEF TypeOK
<1>4. Recorded' BY <1>2 DEF CausalInv, Recorded
<1>5. Ticked' /\ UniqueTick' BY DEF CausalInv, Ticked, UniqueTick
<1>6. HomeLeads'
  <2>1. SUFFICES ASSUME NEW a \in Agents PROVE heard'[n][a] <= clock[Home[a]][a]
    BY <1>1 DEF CausalInv, HomeLeads
  <2>2. heard'[n][a] \in {heard[n][a], m.asOf[a]} BY <1>0, <1>1, MergeIsJoin
  <2>3. heard[n][a] <= clock[Home[a]][a] /\ m.asOf[a] <= clock[Home[a]][a]
    BY <1>0 DEF CausalInv, HomeLeads
  <2>4. QED BY <2>2, <2>3
<1>7. \A c \in Clock, k \in Nodes : Leq(c, heard[k]) => Leq(c, heard'[k])
  BY <1>0, <1>1, LeqOrder
<1>8. ClocksNested'
  <2>1. ClockCoversEntries'
    BY DEF CausalInv, ClocksNested, ClockCoversEntries
  <2>2. \A k \in Nodes : Leq(clock'[k], heard'[k])
    BY <1>0, <1>7 DEF CausalInv, ClocksNested, TypeOK
  <2>3. \A k \in Nodes : \A e \in applying'[k] : Leq(e.clock, heard'[k])
    <3>1. SUFFICES ASSUME NEW k \in Nodes, NEW e \in applying'[k]
                   PROVE  Leq(e.clock, heard'[k])
      OBVIOUS
    <3>2. CASE k = n
      <4>1. e \in m.entries /\ e.clock \in Clock BY <3>2, <1>2, <1>0 DEF Entry
      <4>2. Leq(e.clock, m.asOf) BY <4>1 DEF CausalInv, ClocksNested
      <4>3. QED BY <4>1, <4>2, <3>2, <1>0, <1>1, LeqOrder
    <3>3. CASE k # n
      BY <3>3, <1>1, <1>2 DEF CausalInv, ClocksNested
    <3>4. QED BY <3>2, <3>3
  <2>4. \A x \in net' : \A e \in x.entries : Leq(e.clock, x.asOf)
    BY DEF CausalInv, ClocksNested
  <2>5. \A x \in net' : Leq(x.since, heard'[x.to])
    BY <1>0, <1>7 DEF CausalInv, ClocksNested, TypeOK, Message
  <2>6. \A q \in pulls' : Leq(q.since, heard'[q.to])
    BY <1>0, <1>7 DEF CausalInv, ClocksNested, TypeOK, Pull
  <2>7. QED BY <2>1, <2>2, <2>3, <2>4, <2>5, <2>6 DEF ClocksNested
<1>9. CausallyClosed'
  <2>1. Closed(heard'[n])
    BY <1>0, <1>1, MergeClosed DEF CausalInv, CausallyClosed
  <2>2. \A k \in Nodes : Closed(heard'[k])
    BY <2>1, <1>1 DEF CausalInv, CausallyClosed
  <2>3. QED BY <2>2 DEF CausalInv, CausallyClosed, Closed, Covers
<1>10. QED BY <1>3, <1>4, <1>5, <1>6, <1>8, <1>9 DEF CausalInv

\* One turn of the loop.
LEMMA ApplyNextCausal ==
  ASSUME CausalInv, NEW n \in Nodes, NEW e \in applying[n], ApplyNext(n, e)
  PROVE  CausalInv'
<1>0. /\ TypeOK /\ ClockCoversEntries /\ e \in Entry /\ e \in written
      /\ e.clock \in Clock /\ clock[n] \in Clock /\ heard[n] \in Clock
      /\ applying \in [Nodes -> SUBSET Entry]
  BY DEF CausalInv, TypeOK, ClocksNested, Recorded, Entry
<1>1. ApplyEntry(n, e) /\ applying' = [applying EXCEPT ![n] = @ \ {e}]
      /\ UNCHANGED <<present, pulls, net, now, written, heard>>
  BY DEF ApplyNext
<1>2. /\ entries' \in [Nodes -> SUBSET Entry]
      /\ clock' \in [Nodes -> Clock]
      /\ \A k \in Nodes \ {n} : entries'[k] = entries[k] /\ clock'[k] = clock[k]
      /\ entries'[n] \subseteq entries[n] \cup {e}
      /\ \A x, y \in entries'[n] : x.key = y.key => x = y
      /\ clock'[n] \in {clock[n], Merge(clock[n], e.clock)}
      /\ Leq(clock[n], clock'[n])
      /\ \A x \in entries'[n] : Leq(x.clock, clock'[n])
  BY <1>0, <1>1, ApplyEntryEffect
<1>3. applying' \in [Nodes -> SUBSET Entry]
      /\ \A k \in Nodes : applying'[k] \subseteq applying[k]
  BY <1>0, <1>1
<1>4. TypeOK'
  <2>1. \A k \in Nodes : \A x, y \in entries'[k] : x.key = y.key => x = y
    BY <1>0, <1>2 DEF TypeOK
  <2>2. QED BY <1>0, <1>1, <1>2, <1>3, <2>1 DEF TypeOK
<1>5. Recorded'
  <2>1. \A k \in Nodes : entries'[k] \subseteq written
    BY <1>0, <1>2 DEF CausalInv, Recorded
  <2>2. QED BY <1>1, <1>3, <2>1 DEF CausalInv, Recorded
<1>6. \A a \in Agents : clock[Home[a]][a] <= clock'[Home[a]][a]
  <2>1. SUFFICES ASSUME NEW a \in Agents
                 PROVE  clock[Home[a]][a] <= clock'[Home[a]][a]
    OBVIOUS
  <2>2. CASE Home[a] = n BY <2>2, <1>2 DEF Leq
  <2>3. CASE Home[a] # n
    BY <2>3, <1>0, <1>2, HomeAssumption DEF TypeOK, Clock
  <2>4. QED BY <2>2, <2>3
<1>7. HomeLeads'
  <2>1. SUFFICES ASSUME NEW a \in Agents
                 PROVE /\ \A x \in written : x.clock[a] <= clock'[Home[a]][a]
                       /\ \A k \in Nodes : heard[k][a] <= clock'[Home[a]][a]
                       /\ \A x \in net : x.asOf[a] <= clock'[Home[a]][a]
    BY <1>1 DEF HomeLeads
  <2>2. clock[Home[a]][a] \in Nat /\ clock'[Home[a]][a] \in Nat
    BY <1>0, <1>2, HomeAssumption DEF TypeOK, Clock
  <2>3. /\ \A x \in written : x.clock[a] \in Nat
        /\ \A k \in Nodes : heard[k][a] \in Nat
        /\ \A x \in net : x.asOf[a] \in Nat
    BY <1>0 DEF TypeOK, Clock, Entry, Message
  <2>4. QED BY <1>6, <2>2, <2>3 DEF CausalInv, HomeLeads
<1>8. ClocksNested'
  <2>1. ClockCoversEntries'
    BY <1>0, <1>2 DEF ClockCoversEntries
  <2>2. Leq(e.clock, heard[n]) /\ Leq(clock[n], heard[n])
    BY DEF CausalInv, ClocksNested
  <2>3. Leq(clock'[n], heard[n])
    BY <1>0, <1>2, <2>2, MergeIsJoin
  <2>4. \A k \in Nodes : Leq(clock'[k], heard'[k])
    BY <1>1, <1>2, <2>3 DEF CausalInv, ClocksNested
  <2>5. QED BY <1>1, <1>3, <2>1, <2>4 DEF CausalInv, ClocksNested
<1>9. CausallyClosed'
  <2>1. Closed(e.clock) /\ Closed(clock[n])
    BY <1>0 DEF CausalInv, CausallyClosed
  <2>2. Closed(clock'[n])
    BY <1>0, <1>2, <2>1, MergeClosed
  <2>3. \A k \in Nodes : Closed(clock'[k])
    BY <1>2, <2>2 DEF CausalInv, CausallyClosed
  <2>4. QED BY <1>1, <2>3 DEF CausalInv, CausallyClosed, Closed, Covers
<1>10. Ticked' /\ UniqueTick' BY <1>1 DEF CausalInv, Ticked, UniqueTick
<1>11. QED BY <1>4, <1>5, <1>7, <1>8, <1>9, <1>10 DEF CausalInv

------------------------------------------------------------------------------
(* set *)

\* The entry a call of set makes.
NewEntry(a, k, t) ==
  [key |-> k, author |-> a, clock |-> EntryClock(Home[a], a), updated_at |-> t]

\* The tick of a new entry is larger than any tick of its author anywhere, so
\* set always replaces the key's entry and no existing clock covers the write.
LEMMA SetKeyEffect ==
  ASSUME CausalInv, NEW a \in Agents, NEW k \in Keys, NEW t \in Nat, SetKey(a, k, t)
  PROVE  LET n == Home[a]
             e == NewEntry(a, k, t)
         IN  /\ n \in Nodes /\ e \in Entry /\ e \notin written
             /\ ApplyEntry(n, e) /\ written' = written \cup {e}
             /\ heard' = [heard EXCEPT ![n] = Merge(@, e.clock)]
             /\ now' = now + 1
             /\ UNCHANGED <<present, applying, pulls, net>>
             /\ Leq(clock[n], e.clock)
             /\ e.clock[a] = clock[n][a] + 1
             /\ \A b \in Agents \ {a} : e.clock[b] = clock[n][b]
             /\ \A x \in written : x.clock[a] < e.clock[a]
             /\ \A x \in entries[n] : ~Leq(e.clock, x.clock) /\ Leq(x.clock, e.clock)
             /\ entries'[n] = Insert(entries[n], e)
<1> DEFINE n == Home[a]
           e == NewEntry(a, k, t)
<1>1. n \in Nodes /\ clock[n] \in Clock
  BY HomeAssumption DEF CausalInv, TypeOK
<1>2. e.clock = Tick(clock[n], a) /\ e.key = k /\ e.author = a
  BY DEF NewEntry, EntryClock
<1>3. /\ e.clock \in Clock /\ Leq(clock[n], e.clock)
      /\ e.clock[a] = clock[n][a] + 1
      /\ \A b \in Agents \ {a} : e.clock[b] = clock[n][b]
  BY <1>1, <1>2, TickRaises
<1>4. e \in Entry BY <1>3 DEF NewEntry, EntryClock, Entry
<1>5. ApplyEntry(n, e) /\ written' = written \cup {e}
      /\ heard' = [heard EXCEPT ![n] = Merge(@, e.clock)]
      /\ now' = now + 1 /\ UNCHANGED <<present, applying, pulls, net>>
  BY DEF SetKey, NewEntry
<1>6. \A x \in written : x.clock[a] < e.clock[a]
  <2>1. \A x \in written : x.clock[a] <= clock[n][a] /\ x.clock[a] \in Nat
    BY DEF CausalInv, HomeLeads, TypeOK, Entry, Clock
  <2>2. clock[n][a] \in Nat BY <1>1 DEF Clock
  <2>3. QED BY <1>3, <2>1, <2>2
<1>7. e \notin written
  <2>1. e.clock[a] \in Nat BY <1>3 DEF Clock
  <2>2. QED BY <1>6, <2>1
<1>8. \A x \in entries[n] : ~Leq(e.clock, x.clock) /\ Leq(x.clock, e.clock)
  <2>1. SUFFICES ASSUME NEW x \in entries[n]
                 PROVE  ~Leq(e.clock, x.clock) /\ Leq(x.clock, e.clock)
    OBVIOUS
  <2>2. x \in written /\ x.clock \in Clock /\ Leq(x.clock, clock[n])
    BY <1>1 DEF CausalInv, Recorded, ClocksNested, ClockCoversEntries, TypeOK, Entry
  <2>3. Leq(x.clock, e.clock) BY <1>1, <1>3, <2>2, LeqOrder
  <2>4. x.clock[a] < e.clock[a] /\ x.clock[a] \in Nat /\ e.clock[a] \in Nat
    BY <1>3, <1>6, <2>2 DEF Clock
  <2>5. QED BY <2>3, <2>4 DEF Leq
<1>9. Accepts(n, e)
  <2>1. \A x \in entries[n] : PartialCmpClock(e.clock, x.clock) = "After"
    BY <1>8, CmpOutcomes
  <2>2. QED BY <2>1 DEF Accepts, Existing, Wins
<1>10. entries'[n] = Insert(entries[n], e)
  BY <1>1, <1>5, <1>9 DEF ApplyEntry, CausalInv, TypeOK
<1>11. QED BY <1>1, <1>3, <1>4, <1>5, <1>6, <1>7, <1>8, <1>10

\* A call of set makes a fresh tick its home node covers.
LEMMA SetKeyCausal ==
  ASSUME CausalInv, NEW a \in Agents, NEW k \in Keys, NEW t \in Nat, SetKey(a, k, t)
  PROVE  CausalInv'
<1> DEFINE n == Home[a]
           e == NewEntry(a, k, t)
<1>1. /\ n \in Nodes /\ e \in Entry /\ e.author = a
      /\ ApplyEntry(n, e) /\ written' = written \cup {e}
      /\ heard' = [heard EXCEPT ![n] = Merge(@, e.clock)]
      /\ now' = now + 1
      /\ UNCHANGED <<present, applying, pulls, net>>
      /\ Leq(clock[n], e.clock)
      /\ e.clock[a] = clock[n][a] + 1
      /\ \A b \in Agents \ {a} : e.clock[b] = clock[n][b]
      /\ \A x \in written : x.clock[a] < e.clock[a]
  <2>1. e.author = a BY DEF NewEntry
  <2>2. QED BY <2>1, SetKeyEffect
<1> HIDE DEF e
<1>2. /\ TypeOK /\ ClockCoversEntries /\ e.clock \in Clock
      /\ clock[n] \in Clock /\ heard[n] \in Clock /\ heard \in [Nodes -> Clock]
  BY <1>1 DEF CausalInv, TypeOK, ClocksNested, Entry
<1>3. /\ entries' \in [Nodes -> SUBSET Entry]
      /\ clock' \in [Nodes -> Clock]
      /\ \A j \in Nodes \ {n} : entries'[j] = entries[j] /\ clock'[j] = clock[j]
      /\ entries'[n] \subseteq entries[n] \cup {e}
      /\ \A x, y \in entries'[n] : x.key = y.key => x = y
      /\ clock'[n] \in {clock[n], Merge(clock[n], e.clock)}
      /\ Leq(clock[n], clock'[n])
      /\ Leq(e.clock, clock'[n])
      /\ \A x \in entries'[n] : Leq(x.clock, clock'[n])
  BY <1>1, <1>2, ApplyEntryEffect
<1>4. /\ heard'[n] = Merge(heard[n], e.clock) /\ heard'[n] \in Clock
      /\ Leq(heard[n], heard'[n]) /\ Leq(e.clock, heard'[n])
      /\ \A j \in Nodes \ {n} : heard'[j] = heard[j]
  BY <1>1, <1>2, MergeIsJoin
<1>5. TypeOK'
  <2>1. \A j \in Nodes : \A x, y \in entries'[j] : x.key = y.key => x = y
    BY <1>2, <1>3 DEF TypeOK
  <2>2. heard' \in [Nodes -> Clock] BY <1>1, <1>2, MergeIsJoin
  <2>3. now' \in Nat /\ now' >= Skew BY <1>1, <1>2, SkewAssumption DEF TypeOK
  <2>4. written' \subseteq Entry BY <1>1, <1>2 DEF TypeOK
  <2>5. QED BY <1>1, <1>2, <1>3, <2>1, <2>2, <2>3, <2>4 DEF TypeOK
<1>6. Recorded'
  <2>1. \A j \in Nodes : entries'[j] \subseteq written \cup {e}
    BY <1>3 DEF CausalInv, Recorded
  <2>2. QED BY <1>1, <2>1 DEF CausalInv, Recorded
<1>7. \A b \in Agents :
        /\ clock[Home[b]][b] <= clock'[Home[b]][b]
        /\ e.clock[b] <= clock'[Home[b]][b]
        /\ clock[Home[b]][b] \in Nat /\ clock'[Home[b]][b] \in Nat
  <2>1. SUFFICES ASSUME NEW b \in Agents
                 PROVE  /\ clock[Home[b]][b] <= clock'[Home[b]][b]
                        /\ e.clock[b] <= clock'[Home[b]][b]
                        /\ clock[Home[b]][b] \in Nat /\ clock'[Home[b]][b] \in Nat
    OBVIOUS
  <2>2. Home[b] \in Nodes BY HomeAssumption
  <2>3. clock[Home[b]][b] \in Nat /\ clock'[Home[b]][b] \in Nat /\ e.clock[b] \in Nat
    BY <1>2, <1>3, <2>2 DEF TypeOK, Clock
  <2>4. clock[Home[b]][b] <= clock'[Home[b]][b]
    <3>1. CASE Home[b] = n BY <3>1, <1>3 DEF Leq
    <3>2. CASE Home[b] # n BY <3>2, <1>3, <2>2, <2>3
    <3>3. QED BY <3>1, <3>2
  <2>5. e.clock[b] <= clock'[Home[b]][b]
    <3>1. CASE b = a BY <3>1, <1>3 DEF Leq
    <3>2. CASE b # a
      <4>1. e.clock[b] = clock[n][b] BY <3>2, <1>1
      <4>2. clock[n][b] <= heard[n][b] /\ heard[n][b] <= clock[Home[b]][b]
        BY <1>1 DEF CausalInv, ClocksNested, HomeLeads, Leq
      <4>3. heard[n][b] \in Nat BY <1>2 DEF Clock
      <4>4. QED BY <4>1, <4>2, <4>3, <2>3, <2>4
    <3>3. QED BY <3>1, <3>2
  <2>6. QED BY <2>3, <2>4, <2>5
<1>8. HomeLeads'
  <2>1. SUFFICES ASSUME NEW b \in Agents
                 PROVE /\ \A x \in written' : x.clock[b] <= clock'[Home[b]][b]
                       /\ \A j \in Nodes : heard'[j][b] <= clock'[Home[b]][b]
                       /\ \A x \in net : x.asOf[b] <= clock'[Home[b]][b]
    BY <1>1 DEF HomeLeads
  <2>2. /\ \A x \in written : x.clock[b] \in Nat
        /\ \A j \in Nodes : heard[j][b] \in Nat
        /\ \A x \in net : x.asOf[b] \in Nat
    BY <1>2 DEF TypeOK, Clock, Entry, Message
  <2>3. /\ \A x \in written : x.clock[b] <= clock'[Home[b]][b]
        /\ \A j \in Nodes : heard[j][b] <= clock'[Home[b]][b]
        /\ \A x \in net : x.asOf[b] <= clock'[Home[b]][b]
    BY <1>7, <2>2 DEF CausalInv, HomeLeads
  <2>4. heard'[n][b] \in {heard[n][b], e.clock[b]} BY <1>2, <1>4, MergeIsJoin
  <2>5. \A j \in Nodes : heard'[j][b] <= clock'[Home[b]][b]
    BY <1>1, <1>4, <1>7, <2>3, <2>4
  <2>6. QED BY <1>1, <1>7, <2>3, <2>5
<1>9. \A c \in Clock, j \in Nodes : Leq(c, heard[j]) => Leq(c, heard'[j])
  BY <1>2, <1>4, LeqOrder
<1>10. ClocksNested'
  <2>1. ClockCoversEntries' BY <1>2, <1>3 DEF ClockCoversEntries
  <2>2. \A j \in Nodes : Leq(clock'[j], heard'[j])
    <3>1. Leq(clock[n], heard'[n])
      BY <1>1, <1>2, <1>9 DEF CausalInv, ClocksNested
    <3>2. Leq(clock'[n], heard'[n]) BY <1>2, <1>3, <1>4, <3>1, MergeIsJoin
    <3>3. QED BY <1>3, <1>4, <3>2 DEF CausalInv, ClocksNested
  <2>3. \A j \in Nodes : \A x \in applying'[j] : Leq(x.clock, heard'[j])
    BY <1>1, <1>2, <1>9 DEF CausalInv, ClocksNested, TypeOK, Entry
  <2>4. \A m \in net' : Leq(m.since, heard'[m.to])
    BY <1>1, <1>2, <1>9 DEF CausalInv, ClocksNested, TypeOK, Message
  <2>5. \A q \in pulls' : Leq(q.since, heard'[q.to])
    BY <1>1, <1>2, <1>9 DEF CausalInv, ClocksNested, TypeOK, Pull
  <2>6. QED BY <1>1, <2>1, <2>2, <2>3, <2>4, <2>5 DEF CausalInv, ClocksNested
<1>11. Ticked' /\ UniqueTick'
  <2>1. e.clock[a] > 0 BY <1>1, <1>2 DEF Clock
  <2>2. Ticked' BY <1>1, <2>1 DEF CausalInv, Ticked
  <2>3. \A x \in written : x.author = a => x.clock[a] # e.clock[a]
    BY <1>1, <1>2 DEF TypeOK, Entry, Clock
  <2>4. UniqueTick' BY <1>1, <2>3 DEF CausalInv, UniqueTick
  <2>5. QED BY <2>2, <2>4
<1>12. CausallyClosed'
  <2>1. Closed(e.clock)
    <3>1. SUFFICES ASSUME NEW x \in written, Covers(e.clock, x)
                   PROVE  Leq(x.clock, e.clock)
      BY DEF Closed
    <3>2. x.author \in Agents /\ x.clock \in Clock BY <1>2 DEF TypeOK, Entry
    <3>3. Covers(clock[n], x)
      <4>1. CASE x.author = a
        BY <4>1 DEF CausalInv, HomeLeads, Covers
      <4>2. CASE x.author # a
        BY <4>2, <3>1, <3>2, <1>1 DEF Covers
      <4>3. QED BY <4>1, <4>2
    <3>4. Leq(x.clock, clock[n]) BY <1>1, <3>3 DEF CausalInv, CausallyClosed, Closed
    <3>5. QED BY <1>1, <1>2, <3>2, <3>4, LeqOrder
  <2>2. Closed(clock[n]) /\ Closed(heard[n])
    BY <1>1 DEF CausalInv, CausallyClosed
  <2>3. Closed(clock'[n]) /\ Closed(heard'[n])
    BY <1>2, <1>3, <1>4, <2>1, <2>2, MergeClosed
  <2>4. \* Against the writes there were, every clock is still closed.
        /\ \A x \in written' : Closed(x.clock)
        /\ \A j \in Nodes : Closed(clock'[j]) /\ Closed(heard'[j])
        /\ \A m \in net' : Closed(m.asOf)
    BY <1>1, <1>3, <1>4, <2>1, <2>3 DEF CausalInv, CausallyClosed
  <2>5. \* The new write is covered by the clocks that took it in, only.
        /\ \A x \in written : ~Covers(x.clock, e)
        /\ \A j \in Nodes : ~Covers(clock[j], e) /\ ~Covers(heard[j], e)
        /\ \A m \in net : ~Covers(m.asOf, e)
    <3>1. clock[n][a] \in Nat BY <1>1, <1>2 DEF Clock
    <3>2. \A x \in written : ~Covers(x.clock, e)
      BY <1>1, <1>2, <3>1 DEF Covers, CausalInv, HomeLeads, TypeOK, Entry, Clock
    <3>3. \A j \in Nodes : heard[j][a] <= clock[n][a]
      BY DEF CausalInv, HomeLeads
    <3>4. \A j \in Nodes : clock[j][a] <= heard[j][a]
      BY <1>1 DEF CausalInv, ClocksNested, Leq
    <3>5. \A j \in Nodes : clock[j][a] \in Nat /\ heard[j][a] \in Nat
      BY <1>2 DEF TypeOK, Clock
    <3>6. \A j \in Nodes : ~Covers(clock[j], e) /\ ~Covers(heard[j], e)
      BY <1>1, <3>1, <3>3, <3>4, <3>5 DEF Covers
    <3>7. \A m \in net : m.asOf[a] <= clock[n][a] /\ m.asOf[a] \in Nat
      BY <1>2 DEF CausalInv, HomeLeads, TypeOK, Message, Clock
    <3>8. QED BY <1>1, <3>1, <3>2, <3>6, <3>7 DEF Covers
  <2>6. Leq(e.clock, e.clock) BY <1>2, LeqOrder
  <2>7. \A x \in written' : Closed(x.clock)'
    BY <1>1, <2>4, <2>5, <2>6 DEF Closed, Covers
  <2>8. \A j \in Nodes : Closed(clock[j])' /\ Closed(heard[j])'
    BY <1>1, <1>3, <1>4, <2>4, <2>5 DEF Closed, Covers
  <2>9. \A m \in net' : Closed(m.asOf)'
    BY <1>1, <2>4, <2>5 DEF Closed, Covers
  <2>10. QED BY <2>7, <2>8, <2>9 DEF CausallyClosed
<1>13. QED BY <1>5, <1>6, <1>8, <1>10, <1>11, <1>12 DEF CausalInv

------------------------------------------------------------------------------
(* The causal invariant holds whatever wall clocks read. *)

\* A reading of a skewed clock is a natural number.
LEMMA ReadingIsNat ==
  ASSUME TypeOK, NEW t \in (now - Skew) .. (now + Skew)
  PROVE  t \in Nat
BY SkewAssumption DEF TypeOK

\* The causal facts hold of the empty store.
LEMMA CausalInit == Init => CausalInv
<1> SUFFICES ASSUME Init PROVE CausalInv OBVIOUS
<1>1. TypeOK BY ZeroLeast, SkewAssumption DEF Init, TypeOK
<1>2. Recorded /\ Ticked /\ UniqueTick
  BY DEF Init, Recorded, Ticked, UniqueTick
<1>3. HomeLeads BY HomeAssumption DEF Init, HomeLeads, ZeroClock
<1>4. ClocksNested
  BY ZeroLeast DEF Init, ClocksNested, ClockCoversEntries
<1>5. CausallyClosed BY DEF Init, CausallyClosed, Closed
<1>6. QED BY <1>1, <1>2, <1>3, <1>4, <1>5 DEF CausalInv

\* Every step of the store keeps the causal facts, one case per action.
LEMMA CausalStep == CausalInv /\ [Next]_vars => CausalInv'
<1> SUFFICES ASSUME CausalInv, [Next]_vars PROVE CausalInv' OBVIOUS
<1>1. CASE Write
  <2>1. PICK a \in Agents, k \in Keys, t \in (now - Skew) .. (now + Skew) :
          SetKey(a, k, t)
    BY <1>1 DEF Write
  <2>2. t \in Nat BY ReadingIsNat DEF CausalInv
  <2>3. QED BY <2>1, <2>2, SetKeyCausal
<1>2. ASSUME NEW n \in Nodes, InitRoom(n) PROVE CausalInv'
  BY <1>2, InitRoomCausal
<1>3. ASSUME NEW n \in Nodes, RequestDelta(n) PROVE CausalInv'
  BY <1>3, RequestDeltaCausal
<1>4. ASSUME NEW p \in Nodes, NEW q \in pulls, BuildDelta(p, q) PROVE CausalInv'
  BY <1>4, BuildDeltaCausal
<1>5. ASSUME NEW p \in Nodes, NEW n \in Nodes, Snapshot(p, n) PROVE CausalInv'
  BY <1>5, SnapshotCausal
<1>6. ASSUME NEW m \in net, ApplyDelta(m) PROVE CausalInv'
  <2>1. present' \subseteq Nodes BY <1>6 DEF ApplyDelta, CausalInv, TypeOK
  <2>2. QED BY <1>6, <2>1, StartApplyCausal DEF ApplyDelta
<1>7. ASSUME NEW m \in net, RestoreSnapshot(m) PROVE CausalInv'
  <2>1. present' \subseteq Nodes
    BY <1>7 DEF RestoreSnapshot, CausalInv, TypeOK, Message
  <2>2. QED BY <1>7, <2>1, StartApplyCausal DEF RestoreSnapshot
<1>8. ASSUME NEW m \in net, LoseMessage(m) PROVE CausalInv'
  BY <1>8, LoseCausal DEF LoseMessage
<1>9. ASSUME NEW n \in Nodes, NEW e \in applying[n], ApplyNext(n, e) PROVE CausalInv'
  BY <1>9, ApplyNextCausal
<1>10. ASSUME NEW q \in pulls, LosePull(q) PROVE CausalInv'
  BY <1>10, LoseCausal DEF LosePull
<1>11. CASE UNCHANGED vars
  BY <1>11, LoseCausal DEF vars, replica
<1>12. QED
  BY <1>1, <1>2, <1>3, <1>4, <1>5, <1>6, <1>7, <1>8, <1>9, <1>10, <1>11 DEF Next, Sync

\* The causal invariant of RoomStateInvariant holds in every reachable state of
\* the store, for any skew: the basis of all that follows.
THEOREM CausalInvariant == Spec => []CausalInv
BY CausalInit, CausalStep, PTL DEF Spec

\* Whatever interleaving, loss, duplication and clock skew: the store is well
\* typed and stays a map, one entry per key (RoomState.entries).
THEOREM TypeCorrect == Spec => []TypeOK
<1>1. CausalInv => TypeOK BY DEF CausalInv
<1>2. QED BY <1>1, CausalInvariant, PTL

\* No two calls of set by an agent produce the same tick, and the room clock
\* is never behind an entry of the room, with any skew between wall clocks.
THEOREM TicksAndClocks == Spec => [](UniqueTick /\ ClockCoversEntries)
<1>1. CausalInv => UniqueTick /\ ClockCoversEntries
  BY DEF CausalInv, ClocksNested
<1>2. QED BY <1>1, CausalInvariant, PTL

------------------------------------------------------------------------------
(* Exact wall clocks: last-writer-wins, completeness, convergence. *)

\* With timestamps that are unique and agree with causality, apply_entry's
\* mixture of clock order and tiebreakers is plain last-writer-wins.
LEMMA WinsIsNewer ==
  ASSUME TypeOK, TimesAgree, NEW e \in written, NEW x \in written
  PROVE  Wins(e, x) <=> x.updated_at < e.updated_at
<1>1. e.updated_at \in Nat /\ x.updated_at \in Nat /\ e.clock \in Clock /\ x.clock \in Clock
  BY DEF TypeOK, Entry
<1>2. CASE Leq(e.clock, x.clock)
  <2>1. e.updated_at <= x.updated_at BY <1>2 DEF TimesAgree
  <2>2. ~Wins(e, x) BY <1>2, CmpOutcomes DEF Wins
  <2>3. QED BY <1>1, <2>1, <2>2
<1>3. CASE ~Leq(e.clock, x.clock)
  <2>1. e # x BY <1>1, <1>3, LeqOrder
  <2>2. e.updated_at # x.updated_at BY <2>1 DEF TimesAgree
  <2>3. CASE Leq(x.clock, e.clock)
    <3>1. x.updated_at <= e.updated_at BY <2>3 DEF TimesAgree
    <3>2. Wins(e, x) BY <1>3, <2>3, CmpOutcomes DEF Wins
    <3>3. QED BY <1>1, <2>2, <3>1, <3>2
  <2>4. CASE ~Leq(x.clock, e.clock)
    <3>1. Wins(e, x) <=> e.updated_at > x.updated_at
      BY <1>1, <1>3, <2>2, <2>4, CmpOutcomes DEF Wins
    <3>2. QED BY <1>1, <3>1
  <2>5. QED BY <2>3, <2>4
<1>4. QED BY <1>2, <1>3

\* Supersedes is transitive on writes.
LEMMA SupersedesTrans ==
  ASSUME TypeOK, NEW e \in written, NEW f \in written, NEW g \in written,
         Supersedes(f, e), Supersedes(g, f)
  PROVE  Supersedes(g, e)
BY DEF Supersedes, TypeOK, Entry

\* Applying an entry loses nothing: what the replica held, and the entry, are
\* each superseded by something the replica holds afterwards.
LEMMA ApplyKeepsNewest ==
  ASSUME TypeOK, TimesAgree, NEW n \in Nodes, NEW e \in written,
         entries[n] \subseteq written, ApplyEntry(n, e)
  PROVE  \A y \in entries[n] \cup {e} : \E f \in entries'[n] : Supersedes(f, y)
<1>1. entries'[n] = (IF Accepts(n, e) THEN Insert(entries[n], e) ELSE entries[n])
  BY DEF ApplyEntry, TypeOK
<1>2. \A y \in entries[n] \cup {e} : y.updated_at \in Nat /\ Supersedes(y, y)
  BY DEF TypeOK, Entry, Supersedes
<1>3. CASE Accepts(n, e)
  <2>1. SUFFICES ASSUME NEW y \in entries[n] \cup {e}
                 PROVE  \E f \in entries'[n] : Supersedes(f, y)
    OBVIOUS
  <2>2. e \in entries'[n] BY <1>1, <1>3 DEF Insert
  <2>3. CASE y = e BY <2>2, <2>3, <1>2
  <2>4. CASE y # e /\ y.key # e.key
    <3>1. y \in entries'[n] BY <2>4, <1>1, <1>3 DEF Insert
    <3>2. QED BY <3>1, <1>2
  <2>5. CASE y # e /\ y.key = e.key
    <3>1. Wins(e, y) BY <2>5, <1>3 DEF Accepts, Existing
    <3>2. y.updated_at < e.updated_at BY <2>5, <3>1, WinsIsNewer
    <3>3. Supersedes(e, y) BY <1>2, <2>5, <3>2 DEF Supersedes
    <3>4. QED BY <2>2, <3>3
  <2>6. QED BY <2>3, <2>4, <2>5
<1>4. CASE ~Accepts(n, e)
  <2>1. PICK x \in entries[n] : x.key = e.key /\ ~Wins(e, x)
    BY <1>4 DEF Accepts, Existing
  <2>2. ~(x.updated_at < e.updated_at) BY <2>1, WinsIsNewer
  <2>3. Supersedes(x, e) BY <1>2, <2>1, <2>2 DEF Supersedes
  <2>4. QED BY <1>1, <1>2, <1>4, <2>3
<1>5. QED BY <1>3, <1>4

\* A message m joins net: what m must satisfy for completeness to hold on.
LEMMA SendComplete ==
  ASSUME CausalInv, CompleteInv, NEW m \in Message, net' = net \cup {m},
         UNCHANGED <<present, entries, clock, applying, pulls, now, written, heard>>,
         NEW p \in Nodes, Unlocked(p), m.asOf = clock[p],
         \A f \in entries[p] : f \in m.entries \/ Leq(f.clock, m.since)
  PROVE  CompleteInv'
<1>1. TimesAgree' BY DEF CompleteInv, TimesAgree
<1>2. NodesComplete'
  BY DEF CompleteInv, NodesComplete, Covers, Supersedes
<1>3. ASSUME NEW e \in written, Covers(m.asOf, e)
      PROVE  \/ \E f \in m.entries : Supersedes(f, e)
             \/ \E f \in written : Supersedes(f, e) /\ Leq(f.clock, m.since)
  <2>1. /\ e.author \in Agents /\ e.clock \in Clock
        /\ clock[p] \in Clock /\ heard[p] \in Clock
    BY DEF CausalInv, TypeOK, Entry
  <2>2. Leq(clock[p], heard[p]) BY DEF CausalInv, ClocksNested
  <2>3. Covers(heard[p], e) BY <1>3, <2>1, <2>2 DEF Covers, Leq, Clock
  <2>4. PICK f \in entries[p] : Supersedes(f, e)
    BY <2>3 DEF CompleteInv, NodesComplete, Unlocked
  <2>5. f \in written BY DEF CausalInv, Recorded
  <2>6. QED BY <2>4, <2>5
<1>4. MessagesComplete'
  BY <1>3 DEF CompleteInv, MessagesComplete, Covers, Supersedes
<1>5. QED BY <1>1, <1>2, <1>4 DEF CompleteInv

\* build_delta leaves out only what the clock it answers covers.
LEMMA BuildDeltaComplete ==
  ASSUME CausalInv, CompleteInv, NEW p \in Nodes, NEW q \in pulls, BuildDelta(p, q)
  PROVE  CompleteInv'
<1> DEFINE m == [kind |-> "delta", to |-> q.to, since |-> q.since,
                 entries |-> DeltaEntries(p, q.since), asOf |-> clock[p]]
<1>1. m \in Message
  BY DEF CausalInv, TypeOK, Message, Pull, DeltaEntries
<1>2. \A f \in entries[p] : f \in m.entries \/ Leq(f.clock, m.since)
  BY CmpOutcomes DEF DeltaEntries
<1>3. QED BY <1>1, <1>2, SendComplete DEF BuildDelta

\* A snapshot leaves nothing out.
LEMMA SnapshotComplete ==
  ASSUME CausalInv, CompleteInv, NEW p \in Nodes, NEW n \in Nodes, Snapshot(p, n)
  PROVE  CompleteInv'
<1> DEFINE m == [kind |-> "snapshot", to |-> n, since |-> ZeroClock,
                 entries |-> entries[p], asOf |-> clock[p]]
<1>1. m \in Message BY ZeroLeast DEF CausalInv, TypeOK, Message
<1>2. QED BY <1>1, SendComplete DEF Snapshot

\* A message completes its receiver: what it leaves out, the receiver had.
LEMMA StartApplyComplete ==
  ASSUME CausalInv, CompleteInv, NEW m \in net, Unlocked(m.to),
         applying' = [applying EXCEPT ![m.to] = m.entries],
         heard' = [heard EXCEPT ![m.to] = Merge(@, m.asOf)],
         UNCHANGED <<entries, clock, pulls, net, now, written>>
  PROVE  CompleteInv'
<1> DEFINE n == m.to
<1>0. /\ TypeOK /\ n \in Nodes /\ m.asOf \in Clock /\ m.since \in Clock
      /\ heard[n] \in Clock /\ heard \in [Nodes -> Clock]
      /\ applying \in [Nodes -> SUBSET Entry]
  BY DEF CausalInv, TypeOK, Message
<1>1. heard'[n] = Merge(heard[n], m.asOf) /\ applying'[n] = m.entries /\ applying[n] = {}
  BY <1>0 DEF Unlocked
<1>2. ASSUME NEW e \in written, Covers(heard[n], e)
      PROVE  \E f \in entries[n] : Supersedes(f, e)
  BY <1>0, <1>1, <1>2 DEF CompleteInv, NodesComplete
<1>3. ASSUME NEW e \in written, Covers(m.asOf, e)
      PROVE  \E f \in entries[n] \cup m.entries : Supersedes(f, e)
  <2>1. CASE \E f \in m.entries : Supersedes(f, e) BY <2>1
  <2>2. ASSUME NEW f \in written, Supersedes(f, e), Leq(f.clock, m.since)
        PROVE  \E g \in entries[n] : Supersedes(g, e)
    <3>1. f.author \in Agents /\ f.clock \in Clock BY <1>0 DEF TypeOK, Entry
    <3>2. Leq(m.since, heard[n]) BY DEF CausalInv, ClocksNested
    <3>3. Leq(f.clock, heard[n]) BY <1>0, <2>2, <3>1, <3>2, LeqOrder
    <3>4. Covers(heard[n], f) BY <3>1, <3>3 DEF Covers, Leq
    <3>5. PICK g \in entries[n] : Supersedes(g, f) BY <1>2, <3>4
    <3>6. g \in written BY <1>0 DEF CausalInv, Recorded
    <3>7. QED BY <1>0, <2>2, <3>5, <3>6, SupersedesTrans
  <2>3. QED BY <1>3, <2>1, <2>2 DEF CompleteInv, MessagesComplete
<1>4. NodesComplete'
  <2>1. SUFFICES ASSUME NEW j \in Nodes, NEW e \in written, Covers(heard'[j], e)
                 PROVE  \E f \in entries[j] \cup applying'[j] : Supersedes(f, e)
    BY DEF NodesComplete, Covers, Supersedes
  <2>2. CASE j = n
    <3>1. e.author \in Agents /\ e.clock \in Clock BY <1>0 DEF TypeOK, Entry
    <3>2. Covers(heard[n], e) \/ Covers(m.asOf, e)
      BY <1>0, <1>1, <2>1, <2>2, <3>1, MergeIsJoin DEF Covers
    <3>3. QED BY <1>1, <1>2, <1>3, <2>2, <3>2
  <2>3. CASE j # n
    BY <1>0, <2>1, <2>3 DEF CompleteInv, NodesComplete
  <2>4. QED BY <2>2, <2>3
<1>5. TimesAgree' BY DEF CompleteInv, TimesAgree
<1>6. MessagesComplete'
  BY DEF CompleteInv, MessagesComplete, Covers, Supersedes
<1>7. QED BY <1>4, <1>5, <1>6 DEF CompleteInv

\* A turn of the loop moves an entry from what is left to what is held.
LEMMA ApplyNextComplete ==
  ASSUME CausalInv, CompleteInv, NEW n \in Nodes, NEW e \in applying[n], ApplyNext(n, e)
  PROVE  CompleteInv'
<1>0. /\ TypeOK /\ TimesAgree /\ e \in written /\ entries[n] \subseteq written
      /\ ClockCoversEntries /\ e \in Entry /\ applying \in [Nodes -> SUBSET Entry]
  BY DEF CausalInv, CompleteInv, Recorded, ClocksNested, TypeOK
<1>1. ApplyEntry(n, e) /\ applying' = [applying EXCEPT ![n] = @ \ {e}]
      /\ UNCHANGED <<present, pulls, net, now, written, heard>>
  BY DEF ApplyNext
<1>2. \A y \in entries[n] \cup {e} : \E f \in entries'[n] : Supersedes(f, y)
  BY <1>0, <1>1, ApplyKeepsNewest
<1>3. \A j \in Nodes \ {n} : entries'[j] = entries[j] /\ applying'[j] = applying[j]
  BY <1>0, <1>1, ApplyEntryEffect
<1>4. applying'[n] = applying[n] \ {e} BY <1>0, <1>1
<1>5. entries'[n] \subseteq written
  BY <1>0, <1>1, ApplyEntryEffect
<1>6. NodesComplete'
  <2>1. SUFFICES ASSUME NEW j \in Nodes, NEW x \in written, Covers(heard[j], x)
                 PROVE  \E f \in entries'[j] \cup applying'[j] : Supersedes(f, x)
    BY <1>1 DEF NodesComplete, Covers, Supersedes
  <2>2. PICK y \in entries[j] \cup applying[j] : Supersedes(y, x)
    BY <2>1 DEF CompleteInv, NodesComplete
  <2>3. CASE j # n BY <1>3, <2>2, <2>3
  <2>4. CASE j = n /\ y \in entries[n] \cup {e}
    <3>1. PICK f \in entries'[n] : Supersedes(f, y) BY <1>2, <2>4
    <3>2. f \in written /\ y \in written BY <1>0, <1>5, <2>4
    <3>3. Supersedes(f, x) BY <1>0, <2>2, <3>1, <3>2, SupersedesTrans
    <3>4. QED BY <2>4, <3>1, <3>3
  <2>5. CASE j = n /\ y \in applying[n] \ {e} BY <1>4, <2>2, <2>5
  <2>6. QED BY <2>2, <2>3, <2>4, <2>5
<1>7. TimesAgree' BY <1>1 DEF CompleteInv, TimesAgree
<1>8. MessagesComplete'
  BY <1>1 DEF CompleteInv, MessagesComplete, Covers, Supersedes
<1>9. QED BY <1>6, <1>7, <1>8 DEF CompleteInv

\* A write supersedes the entry it replaces and is covered where it was made.
LEMMA SetKeyComplete ==
  ASSUME CausalInv, CompleteInv, NEW a \in Agents, NEW k \in Keys, SetKey(a, k, now)
  PROVE  CompleteInv'
<1> DEFINE n == Home[a]
           e == NewEntry(a, k, now)
<1>0. TypeOK /\ TimesAgree /\ now \in Nat /\ ClockCoversEntries
  BY DEF CausalInv, CompleteInv, TypeOK, ClocksNested
<1>1. /\ n \in Nodes /\ e \in Entry /\ e \notin written
      /\ ApplyEntry(n, e) /\ written' = written \cup {e}
      /\ heard' = [heard EXCEPT ![n] = Merge(@, e.clock)]
      /\ now' = now + 1
      /\ UNCHANGED <<present, applying, pulls, net>>
      /\ e.clock[a] = clock[n][a] + 1
      /\ \A b \in Agents \ {a} : e.clock[b] = clock[n][b]
      /\ \A x \in written : x.clock[a] < e.clock[a]
      /\ entries'[n] = Insert(entries[n], e)
  BY <1>0, SetKeyEffect
<1>2. e.updated_at = now /\ e.author = a BY DEF NewEntry
<1>3. applying[n] = {} BY DEF SetKey, Unlocked
<1> HIDE DEF e
<1>4. /\ e.clock \in Clock /\ clock[n] \in Clock /\ heard[n] \in Clock
      /\ heard \in [Nodes -> Clock] /\ clock[n][a] \in Nat /\ e.clock[a] \in Nat
  BY <1>0, <1>1 DEF TypeOK, Entry, Clock
<1>5. \A j \in Nodes \ {n} : entries'[j] = entries[j] /\ heard'[j] = heard[j]
  BY <1>0, <1>1, <1>4, ApplyEntryEffect
<1>6. TimesAgree'
  <2>1. \A x \in written : x.updated_at < now /\ x.updated_at \in Nat
    BY <1>0 DEF TimesAgree, TypeOK, Entry
  <2>2. \A x \in written : ~Leq(e.clock, x.clock)
    BY <1>0, <1>1, <1>4 DEF Leq, TypeOK, Entry, Clock
  <2>3. \A x \in written' : x.updated_at < now' BY <1>0, <1>1, <1>2, <2>1
  <2>4. \A x, y \in written' : x.updated_at = y.updated_at => x = y
    BY <1>0, <1>1, <1>2, <2>1 DEF TimesAgree
  <2>5. \A x, y \in written' : Leq(x.clock, y.clock) => x.updated_at <= y.updated_at
    BY <1>0, <1>1, <1>2, <2>1, <2>2 DEF TimesAgree
  <2>6. QED BY <2>3, <2>4, <2>5 DEF TimesAgree
<1>7. \* What the replica held of other keys it keeps; e is the newest of its key.
      \A y \in entries[n] \cup {e} : \E f \in entries'[n] : Supersedes(f, y)
  <2>1. SUFFICES ASSUME NEW y \in entries[n] \cup {e}
                 PROVE  \E f \in entries'[n] : Supersedes(f, y)
    OBVIOUS
  <2>2. y.updated_at \in Nat /\ y.updated_at <= now
    BY <1>0, <1>1, <1>2 DEF CausalInv, Recorded, TimesAgree, TypeOK, Entry
  <2>3. e \in entries'[n] BY <1>1 DEF Insert
  <2>4. CASE y.key = e.key BY <1>2, <2>2, <2>3, <2>4 DEF Supersedes
  <2>5. CASE y.key # e.key
    <3>1. y \in entries'[n] BY <1>1, <2>5 DEF Insert
    <3>2. QED BY <2>2, <3>1 DEF Supersedes
  <2>6. QED BY <2>4, <2>5
<1>8. NodesComplete'
  <2>1. SUFFICES ASSUME NEW j \in Nodes, NEW x \in written', Covers(heard'[j], x)
                 PROVE  \E f \in entries'[j] \cup applying[j] : Supersedes(f, x)
    BY <1>1 DEF NodesComplete, Covers, Supersedes
  <2>2. heard[j][a] <= clock[n][a] /\ heard[j][a] \in Nat
    BY <1>0 DEF CausalInv, HomeLeads, TypeOK, Clock
  <2>3. CASE j # n
    <3>1. heard'[j] = heard[j] /\ entries'[j] = entries[j] BY <1>5, <2>3
    <3>2. x # e BY <1>1, <1>2, <1>4, <2>1, <2>2, <3>1 DEF Covers
    <3>3. x \in written BY <1>1, <3>2
    <3>4. QED BY <2>1, <3>1, <3>3 DEF CompleteInv, NodesComplete
  <2>4. CASE j = n /\ x = e BY <1>7, <2>4
  <2>5. CASE j = n /\ x # e
    <3>1. x \in written BY <1>1, <2>5
    <3>2. x.author \in Agents /\ x.clock \in Clock /\ x.clock[x.author] \in Nat
      BY <1>0, <3>1 DEF TypeOK, Entry, Clock
    <3>3. Covers(heard[n], x)
      <4>1. heard'[n] = Merge(heard[n], e.clock) BY <1>1, <1>4
      <4>2. \A b \in Agents : clock[n][b] <= heard[n][b]
        BY <1>1 DEF CausalInv, ClocksNested, Leq
      <4>3. \A b \in Agents : clock[n][b] \in Nat /\ heard[n][b] \in Nat
        BY <1>4 DEF Clock
      <4>4. CASE x.author = a
        <5>1. x.clock[a] <= clock[n][a] BY <3>1 DEF CausalInv, HomeLeads
        <5>2. QED BY <3>2, <4>2, <4>3, <4>4, <5>1 DEF Covers
      <4>5. CASE x.author # a
        <5>1. heard'[n][x.author] \in {heard[n][x.author], clock[n][x.author]}
          BY <1>1, <1>4, <3>2, <4>1, <4>5, MergeIsJoin
        <5>2. x.clock[x.author] <= heard'[n][x.author]
          BY <2>1, <2>5 DEF Covers
        <5>3. QED BY <3>2, <4>2, <4>3, <5>1, <5>2 DEF Covers
      <4>6. QED BY <4>4, <4>5
    <3>4. PICK y \in entries[n] : Supersedes(y, x)
      BY <1>1, <1>3, <3>1, <3>3 DEF CompleteInv, NodesComplete
    <3>5. PICK f \in entries'[n] : Supersedes(f, y) BY <1>7
    <3>6. x.updated_at \in Nat /\ y.updated_at \in Nat /\ f.updated_at \in Nat
      BY <1>0, <1>1, <3>1 DEF TypeOK, Entry, Insert
    <3>7. Supersedes(f, x) BY <3>4, <3>5, <3>6 DEF Supersedes
    <3>8. QED BY <2>5, <3>7
  <2>6. QED BY <2>3, <2>4, <2>5
<1>9. MessagesComplete'
  <2>1. SUFFICES ASSUME NEW m \in net, NEW x \in written', Covers(m.asOf, x)
                 PROVE  \/ \E f \in m.entries : Supersedes(f, x)
                        \/ \E f \in written' : Supersedes(f, x) /\ Leq(f.clock, m.since)
    BY <1>1 DEF MessagesComplete, Covers, Supersedes
  <2>2. m.asOf[a] <= clock[n][a] /\ m.asOf[a] \in Nat
    BY <1>0 DEF CausalInv, HomeLeads, TypeOK, Message, Clock
  <2>3. x # e BY <1>1, <1>2, <1>4, <2>1, <2>2 DEF Covers
  <2>4. x \in written BY <1>1, <2>3
  <2>5. QED BY <1>1, <2>1, <2>4 DEF CompleteInv, MessagesComplete
<1>10. QED BY <1>6, <1>8, <1>9 DEF CompleteInv

\* Completeness depends on the store, the messages and the histories only.
LEMMA FrameComplete ==
  ASSUME CompleteInv, UNCHANGED <<entries, applying, now, written, heard>>,
         net' \subseteq net
  PROVE  CompleteInv'
BY DEF CompleteInv, TimesAgree, NodesComplete, MessagesComplete, Covers, Supersedes

\* The empty store is complete.
LEMMA CompleteInit == Init => CompleteInv
BY DEF Init, CompleteInv, TimesAgree, NodesComplete, MessagesComplete

\* With Skew = 0 the only reading of the clock is the time.
LEMMA CompleteStep ==
  ASSUME Skew = 0
  PROVE  CausalInv /\ CompleteInv /\ [Next]_vars => CompleteInv'
<1> SUFFICES ASSUME CausalInv, CompleteInv, [Next]_vars PROVE CompleteInv' OBVIOUS
<1>1. CASE Write
  <2>1. PICK a \in Agents, k \in Keys, t \in (now - Skew) .. (now + Skew) :
          SetKey(a, k, t)
    BY <1>1 DEF Write
  <2>2. t = now BY <2>1 DEF CausalInv, TypeOK
  <2>3. QED BY <2>1, <2>2, SetKeyComplete
<1>2. ASSUME NEW n \in Nodes, InitRoom(n) PROVE CompleteInv'
  BY <1>2, FrameComplete DEF InitRoom
<1>3. ASSUME NEW n \in Nodes, RequestDelta(n) PROVE CompleteInv'
  BY <1>3, FrameComplete DEF RequestDelta
<1>4. ASSUME NEW p \in Nodes, NEW q \in pulls, BuildDelta(p, q) PROVE CompleteInv'
  BY <1>4, BuildDeltaComplete
<1>5. ASSUME NEW p \in Nodes, NEW n \in Nodes, Snapshot(p, n) PROVE CompleteInv'
  BY <1>5, SnapshotComplete
<1>6. ASSUME NEW m \in net, ApplyDelta(m) PROVE CompleteInv'
  BY <1>6, StartApplyComplete DEF ApplyDelta
<1>7. ASSUME NEW m \in net, RestoreSnapshot(m) PROVE CompleteInv'
  BY <1>7, StartApplyComplete DEF RestoreSnapshot
<1>8. ASSUME NEW m \in net, LoseMessage(m) PROVE CompleteInv'
  BY <1>8, FrameComplete DEF LoseMessage, replica
<1>9. ASSUME NEW n \in Nodes, NEW e \in applying[n], ApplyNext(n, e) PROVE CompleteInv'
  BY <1>9, ApplyNextComplete
<1>10. ASSUME NEW q \in pulls, LosePull(q) PROVE CompleteInv'
  BY <1>10, FrameComplete DEF LosePull, replica
<1>11. CASE UNCHANGED vars
  BY <1>11, FrameComplete DEF vars
<1>12. QED
  BY <1>1, <1>2, <1>3, <1>4, <1>5, <1>6, <1>7, <1>8, <1>9, <1>10, <1>11 DEF Next, Sync

\* With exact wall clocks no node is ever missing a write it claims to cover.
LEMMA CompleteInvariant ==
  ASSUME Skew = 0
  PROVE  Spec => [](CausalInv /\ CompleteInv)
<1>1. CausalInv /\ CompleteInv /\ [Next]_vars => CausalInv' /\ CompleteInv'
  BY CausalStep, CompleteStep
<1>2. QED BY <1>1, CausalInit, CompleteInit, PTL DEF Spec

\* Pulls and snapshots lose no write: proved of the sets of nodes, agents and
\* keys in general, when wall clocks are exact (RoomStateSkewedConvergence.cfg
\* shows what a skew does).
THEOREM NothingLost ==
  ASSUME Skew = 0
  PROVE  Spec => []NoLostWrite
<1>1. CausalInv /\ CompleteInv => NoLostWrite
  <2> SUFFICES ASSUME CausalInv, CompleteInv,
                      NEW n \in Nodes, Unlocked(n), NEW e \in written,
                      Covers(clock[n], e) \/ Covers(heard[n], e)
               PROVE  \E f \in entries[n] : f.key = e.key /\ e.updated_at <= f.updated_at
    BY DEF NoLostWrite
  <2>1. /\ e.author \in Agents /\ e.clock \in Clock
        /\ clock[n] \in Clock /\ heard[n] \in Clock
    BY DEF CausalInv, TypeOK, Entry
  <2>2. Leq(clock[n], heard[n]) BY DEF CausalInv, ClocksNested
  <2>3. Covers(heard[n], e) BY <2>1, <2>2 DEF Covers, Leq, Clock
  <2>4. QED BY <2>3 DEF CompleteInv, NodesComplete, Unlocked, Supersedes
<1>2. QED BY <1>1, CompleteInvariant, PTL

\* Half of convergence: what node m holds, node n holds too, if n has heard of
\* all that m's clock covers.
LEMMA HoldsToo ==
  ASSUME CausalInv, CompleteInv, NEW m \in Nodes, NEW n \in Nodes,
         Unlocked(m), Unlocked(n), Leq(clock[m], heard[n]), Leq(clock[n], heard[m])
  PROVE  entries[m] \subseteq entries[n]
<1> SUFFICES ASSUME NEW e \in entries[m] PROVE e \in entries[n] OBVIOUS
<1>1. /\ entries[m] \subseteq written /\ entries[n] \subseteq written
      /\ \A x \in written : x \in Entry /\ x.author \in Agents /\ x.clock \in Clock
                            /\ x.updated_at \in Nat
      /\ \A j \in Nodes : clock[j] \in Clock /\ heard[j] \in Clock
      /\ \A x, y \in entries[m] : x.key = y.key => x = y
      /\ \A j \in Nodes : \A x \in entries[j] : Leq(x.clock, clock[j])
  BY DEF CausalInv, Recorded, TypeOK, Entry, ClocksNested, ClockCoversEntries
<1>2. Leq(e.clock, heard[n]) BY <1>1, LeqOrder
<1>3. Covers(heard[n], e) BY <1>1, <1>2 DEF Covers, Leq
<1>4. PICK f \in entries[n] : Supersedes(f, e)
  BY <1>1, <1>3 DEF CompleteInv, NodesComplete, Unlocked
<1>5. Leq(f.clock, heard[m]) BY <1>1, LeqOrder
<1>6. Covers(heard[m], f) BY <1>1, <1>5 DEF Covers, Leq
<1>7. PICK g \in entries[m] : Supersedes(g, f)
  BY <1>1, <1>6 DEF CompleteInv, NodesComplete, Unlocked
<1>8. g.key = e.key BY <1>4, <1>7 DEF Supersedes
<1>9. g = e BY <1>1, <1>8
<1>10. f.updated_at = e.updated_at BY <1>1, <1>4, <1>7, <1>9 DEF Supersedes
<1>11. f = e BY <1>1, <1>10 DEF CompleteInv, TimesAgree
<1>12. QED BY <1>11

\* Nodes with equal clocks, or that have heard of the same writes, agree on
\* the room's state: strong convergence of the store with exact wall clocks.
THEOREM ReplicasConverge ==
  ASSUME Skew = 0
  PROVE  Spec => []Convergence
<1>1. CausalInv /\ CompleteInv => Convergence
  <2> SUFFICES ASSUME CausalInv, CompleteInv, NEW m \in Nodes, NEW n \in Nodes,
                      Unlocked(m), Unlocked(n),
                      clock[m] = clock[n] \/ heard[m] = heard[n]
               PROVE  entries[m] = entries[n]
    BY DEF Convergence
  <2>1. Leq(clock[m], heard[m]) /\ Leq(clock[n], heard[n])
    BY DEF CausalInv, ClocksNested
  <2>2. Leq(clock[m], heard[n]) /\ Leq(clock[n], heard[m]) BY <2>1
  <2>3. entries[m] \subseteq entries[n] /\ entries[n] \subseteq entries[m]
    BY <2>2, HoldsToo
  <2>4. QED BY <2>3
<1>2. QED BY <1>1, CompleteInvariant, PTL

------------------------------------------------------------------------------
(* Refinement *)

\* A call of set is a write of the abstract map.
LEMMA SetKeyWrites ==
  ASSUME CausalInv, CompleteInv, NEW a \in Agents, NEW k \in Keys, SetKey(a, k, now)
  PROVE  Abstract!Next
<1> DEFINE n == Home[a]
           e == NewEntry(a, k, now)
<1>1. TypeOK /\ now \in Nat BY DEF CausalInv, TypeOK
<1>2. /\ n \in Nodes /\ e \notin written
      /\ ApplyEntry(n, e) /\ written' = written \cup {e}
      /\ entries'[n] = Insert(entries[n], e)
      /\ \A x \in entries[n] : ~Leq(e.clock, x.clock) /\ Leq(x.clock, e.clock)
  BY <1>1, SetKeyEffect
<1>3. e.updated_at = now /\ e.key = k BY DEF NewEntry
<1> HIDE DEF e
<1>4. Accepts(n, e)
  <2>1. \A x \in entries[n] : PartialCmpClock(e.clock, x.clock) = "After"
    BY <1>2, CmpOutcomes
  <2>2. QED BY <2>1 DEF Accepts, Existing, Wins
<1>5. entries' = [entries EXCEPT ![n] = {x \in @ : x.key # e.key} \cup {e}]
  BY <1>2, <1>4 DEF ApplyEntry, Insert
<1>6. \A x \in written : x.updated_at < e.updated_at
  BY <1>3 DEF CompleteInv, TimesAgree
<1>7. Abstract!Write(n, e)
  BY <1>2, <1>5, <1>6 DEF Abstract!Write, Abstract!Put
<1>8. e \in written' \ written BY <1>2
<1>9. QED BY <1>2, <1>3, <1>7, <1>8 DEF Abstract!Next

\* Applying an entry of a delta or snapshot adopts a newer write or nothing.
LEMMA ApplyNextAdopts ==
  ASSUME CausalInv, CompleteInv, NEW n \in Nodes, NEW e \in applying[n], ApplyNext(n, e)
  PROVE  Abstract!Next \/ UNCHANGED <<written, entries>>
<1>1. e \in written /\ entries[n] \subseteq written /\ TypeOK /\ TimesAgree
  BY DEF CausalInv, CompleteInv, Recorded
<1>2. ApplyEntry(n, e) /\ written' = written BY DEF ApplyNext
<1>3. CASE Accepts(n, e)
  <2>1. entries' = [entries EXCEPT ![n] = {x \in @ : x.key # e.key} \cup {e}]
    BY <1>2, <1>3 DEF ApplyEntry, Insert
  <2>2. \A x \in entries[n] : x.key = e.key => x.updated_at < e.updated_at
    BY <1>1, <1>3, WinsIsNewer DEF Accepts, Existing
  <2>3. Abstract!Adopt(n, e)
    BY <1>2, <2>1, <2>2 DEF Abstract!Adopt, Abstract!Put
  <2>4. QED BY <1>1, <2>3 DEF Abstract!Next
<1>4. CASE ~Accepts(n, e)
  <2>1. entries' = entries BY <1>1, <1>2, <1>4 DEF ApplyEntry, TypeOK
  <2>2. QED BY <1>2, <2>1
<1>5. QED BY <1>3, <1>4

\* With exact wall clocks the store implements the abstract map: an entry only
\* gives way to a newer write of its key.
THEOREM ImplementsLWW ==
  ASSUME Skew = 0
  PROVE  Spec => LastWriterWins
<1>1. Init => Abstract!Init BY DEF Init, Abstract!Init
<1>2. CausalInv /\ CompleteInv /\ [Next]_vars => [Abstract!Next]_(Abstract!lwwVars)
  <2> SUFFICES ASSUME CausalInv, CompleteInv, [Next]_vars
               PROVE  Abstract!Next \/ UNCHANGED <<written, entries>>
    BY DEF Abstract!lwwVars
  <2>1. CASE Write
    <3>1. PICK a \in Agents, k \in Keys, t \in (now - Skew) .. (now + Skew) :
            SetKey(a, k, t)
      BY <2>1 DEF Write
    <3>2. t = now BY <3>1 DEF CausalInv, TypeOK
    <3>3. QED BY <3>1, <3>2, SetKeyWrites
  <2>2. ASSUME NEW n \in Nodes, NEW e \in applying[n], ApplyNext(n, e)
        PROVE  Abstract!Next \/ UNCHANGED <<written, entries>>
    BY <2>2, ApplyNextAdopts
  <2>3. CASE Sync /\ ~(\E n \in Nodes : \E e \in applying[n] : ApplyNext(n, e))
    BY <2>3 DEF Sync, InitRoom, RequestDelta, BuildDelta, Snapshot, ApplyDelta,
                RestoreSnapshot, LoseMessage, LosePull, replica
  <2>4. CASE UNCHANGED vars BY <2>4 DEF vars
  <2>5. QED BY <2>1, <2>2, <2>3, <2>4 DEF Next
<1>3. QED BY <1>1, <1>2, CompleteInvariant, PTL DEF Spec, LastWriterWins, Abstract!Spec

------------------------------------------------------------------------------
(* What broadcasting single entries, dropping rooms and rejoining leave    *)
(* true, whatever they lose (RoomStateLifecycle).                          *)

\* A replica is a map that its room clock covers.  This much is inductive on
\* its own: apply_entry needs no more of a replica than that.
StoreInv == TypeOK /\ ClockCoversEntries

\* A step of apply_entry at one node, with the other variables well typed.
LEMMA ApplyEntryKeeps ==
  ASSUME StoreInv, NEW n \in Nodes, NEW e \in Entry, ApplyEntry(n, e),
         present' \subseteq Nodes, applying' \in [Nodes -> SUBSET Entry],
         pulls' \subseteq Pull, net' \subseteq Message, now' \in Nat, now' >= Skew,
         written' \subseteq Entry, heard' \in [Nodes -> Clock]
  PROVE  StoreInv'
<1>1. /\ entries' \in [Nodes -> SUBSET Entry] /\ clock' \in [Nodes -> Clock]
      /\ \A m \in Nodes \ {n} : entries'[m] = entries[m] /\ clock'[m] = clock[m]
      /\ \A x, y \in entries'[n] : x.key = y.key => x = y
      /\ \A x \in entries'[n] : Leq(x.clock, clock'[n])
  BY ApplyEntryEffect DEF StoreInv
<1>2. \A m \in Nodes : \A x, y \in entries'[m] : x.key = y.key => x = y
  BY <1>1 DEF StoreInv, TypeOK
<1>3. TypeOK' BY <1>1, <1>2 DEF TypeOK
<1>4. ClockCoversEntries' BY <1>1 DEF StoreInv, ClockCoversEntries
<1>5. QED BY <1>3, <1>4 DEF StoreInv

\* A step that leaves the replicas' entries and clocks alone.
LEMMA FrameKeeps ==
  ASSUME StoreInv, UNCHANGED <<entries, clock, now, written>>,
         present' \subseteq Nodes, applying' \in [Nodes -> SUBSET Entry],
         pulls' \subseteq Pull, net' \subseteq Message, heard' \in [Nodes -> Clock]
  PROVE  StoreInv'
<1>1. TypeOK' BY DEF StoreInv, TypeOK
<1>2. ClockCoversEntries' BY DEF StoreInv, ClockCoversEntries
<1>3. QED BY <1>1, <1>2 DEF StoreInv

\* A step after which node n has an empty room and the others what they had.
LEMMA ForgetKeeps ==
  ASSUME StoreInv, NEW n \in Nodes, Forget(n), UNCHANGED <<pulls, net, now, written>>,
         present' \subseteq Nodes, applying' \in [Nodes -> SUBSET Entry],
         heard' \in [Nodes -> Clock]
  PROVE  StoreInv'
<1>1. /\ entries' = [entries EXCEPT ![n] = {}]
      /\ clock' = [clock EXCEPT ![n] = ZeroClock]
  BY DEF Forget
<1>2. /\ entries' \in [Nodes -> SUBSET Entry] /\ clock' \in [Nodes -> Clock]
      /\ entries'[n] = {}
      /\ \A m \in Nodes \ {n} : entries'[m] = entries[m] /\ clock'[m] = clock[m]
  BY <1>1, ZeroLeast DEF StoreInv, TypeOK
<1>3. TypeOK' BY <1>2 DEF StoreInv, TypeOK
<1>4. ClockCoversEntries' BY <1>2 DEF StoreInv, ClockCoversEntries
<1>5. QED BY <1>3, <1>4 DEF StoreInv

------------------------------------------------------------------------------
\* The actions of the pull protocol keep the replicas covered.
LEMMA PullsKeep == ASSUME StoreInv, Next PROVE StoreInv'
<1>0. TypeOK BY DEF StoreInv
<1>1. CASE Write
  <2>1. PICK a \in Agents, k \in Keys, t \in (now - Skew) .. (now + Skew) : SetKey(a, k, t)
    BY <1>1 DEF Write
  <2> DEFINE n == Home[a]
             e == NewEntry(a, k, t)
  <2>2. n \in Nodes /\ t \in Nat /\ clock[n] \in Clock /\ heard[n] \in Clock
    BY <1>0, HomeAssumption, ReadingIsNat DEF TypeOK
  <2>3. e.clock \in Clock /\ e \in Entry
    BY <2>2, TickRaises DEF NewEntry, EntryClock, Entry
  <2>4. Merge(heard[n], e.clock) \in Clock BY <2>2, <2>3, MergeIsJoin
  <2>5. /\ ApplyEntry(n, e) /\ written' = written \cup {e} /\ now' = now + 1
        /\ heard' = [heard EXCEPT ![n] = Merge(@, e.clock)]
        /\ UNCHANGED <<present, applying, pulls, net>>
    BY <2>1 DEF SetKey, NewEntry
  <2>6. heard' \in [Nodes -> Clock] BY <1>0, <2>4, <2>5 DEF TypeOK
  <2>7. now' \in Nat /\ now' >= Skew BY <1>0, <2>5, SkewAssumption DEF TypeOK
  <2>8. written' \subseteq Entry BY <1>0, <2>3, <2>5 DEF TypeOK
  <2>9. QED BY <1>0, <2>2, <2>3, <2>5, <2>6, <2>7, <2>8, ApplyEntryKeeps DEF TypeOK
<1>2. ASSUME NEW n \in Nodes, InitRoom(n) PROVE StoreInv'
  BY <1>0, <1>2, FrameKeeps DEF InitRoom, TypeOK
<1>3. ASSUME NEW n \in Nodes, RequestDelta(n) PROVE StoreInv'
  BY <1>0, <1>3, FrameKeeps DEF RequestDelta, TypeOK, Pull
<1>4. ASSUME NEW q \in pulls, NEW p \in Nodes, BuildDelta(p, q) PROVE StoreInv'
  <2>1. DeltaEntries(p, q.since) \subseteq Entry BY <1>0 DEF DeltaEntries, TypeOK
  <2>2. [kind |-> "delta", to |-> q.to, since |-> q.since,
         entries |-> DeltaEntries(p, q.since), asOf |-> clock[p]] \in Message
    BY <1>0, <2>1 DEF TypeOK, Pull, Message
  <2>3. QED BY <1>0, <1>4, <2>2, FrameKeeps DEF BuildDelta, TypeOK
<1>5. ASSUME NEW n \in Nodes, NEW p \in Nodes, Snapshot(p, n) PROVE StoreInv'
  <2>1. [kind |-> "snapshot", to |-> n, since |-> ZeroClock,
         entries |-> entries[p], asOf |-> clock[p]] \in Message
    BY <1>0, ZeroLeast DEF TypeOK, Message
  <2>2. QED BY <1>0, <1>5, <2>1, FrameKeeps DEF Snapshot, TypeOK
<1>6. ASSUME NEW m \in net, ApplyDelta(m) \/ RestoreSnapshot(m) PROVE StoreInv'
  <2>1. m.to \in Nodes /\ m.entries \subseteq Entry /\ m.asOf \in Clock
    BY <1>0 DEF TypeOK, Message
  <2>2. Merge(heard[m.to], m.asOf) \in Clock BY <1>0, <2>1, MergeIsJoin DEF TypeOK
  <2>3. /\ applying' = [applying EXCEPT ![m.to] = m.entries]
        /\ heard' = [heard EXCEPT ![m.to] = Merge(@, m.asOf)]
        /\ present' \subseteq present \cup {m.to}
        /\ UNCHANGED <<entries, clock, pulls, net, now, written>>
    BY <1>6 DEF ApplyDelta, RestoreSnapshot
  <2>4. applying' \in [Nodes -> SUBSET Entry] /\ heard' \in [Nodes -> Clock]
    BY <1>0, <2>1, <2>2, <2>3 DEF TypeOK
  <2>5. QED BY <1>0, <2>1, <2>3, <2>4, FrameKeeps DEF TypeOK
<1>7. ASSUME NEW m \in net, LoseMessage(m) PROVE StoreInv'
  BY <1>0, <1>7, FrameKeeps DEF LoseMessage, replica, TypeOK
<1>8. ASSUME NEW n \in Nodes, NEW e \in applying[n], ApplyNext(n, e) PROVE StoreInv'
  <2>1. e \in Entry /\ applying[n] \ {e} \subseteq Entry BY <1>0 DEF TypeOK
  <2>2. applying' \in [Nodes -> SUBSET Entry] BY <1>0, <1>8, <2>1 DEF ApplyNext, TypeOK
  <2>3. QED BY <1>0, <1>8, <2>1, <2>2, ApplyEntryKeeps DEF ApplyNext, TypeOK
<1>9. ASSUME NEW q \in pulls, LosePull(q) PROVE StoreInv'
  BY <1>0, <1>9, FrameKeeps DEF LosePull, replica, TypeOK
<1>10. CASE Sync
  BY <1>2, <1>3, <1>4, <1>5, <1>6, <1>7, <1>8, <1>9, <1>10 DEF Sync
<1>11. QED BY <1>1, <1>10 DEF Next

\* So do broadcasts of a single entry, removals and rejoins.
LEMMA LifecycleKeeps ==
  ASSUME StoreInv, Broadcasts \/ Removals \/ Rejoins PROVE StoreInv'
<1>0. TypeOK BY DEF StoreInv
<1>1. CASE Broadcasts
  <2>1. PICK e \in written, n \in Nodes : Broadcast(e, n) BY <1>1 DEF Broadcasts
  <2>2. [kind |-> "delta", to |-> n, since |-> ZeroClock,
         entries |-> {e}, asOf |-> ZeroClock] \in Message
    BY <1>0, ZeroLeast DEF TypeOK, Message
  <2>3. QED BY <1>0, <2>1, <2>2, FrameKeeps DEF Broadcast, replica, TypeOK
<1>2. CASE Removals
  <2>1. PICK n \in Nodes : RemoveRoom(n) BY <1>2 DEF Removals
  <2>2. heard' \in [Nodes -> Clock] BY <1>0, <2>1, ZeroLeast DEF RemoveRoom, TypeOK
  <2>3. QED BY <1>0, <2>1, <2>2, ForgetKeeps DEF RemoveRoom, TypeOK
<1>3. CASE Rejoins
  <2>1. PICK n \in Nodes, p \in Nodes : Rejoin(n, p) BY <1>3 DEF Rejoins
  <2>2. applying' \in [Nodes -> SUBSET Entry] /\ heard' \in [Nodes -> Clock]
    BY <1>0, <2>1 DEF Rejoin, TypeOK
  <2>3. QED BY <1>0, <2>1, <2>2, ForgetKeeps DEF Rejoin, TypeOK
<1>4. QED BY <1>1, <1>2, <1>3

\* Whatever is broadcast, dropped and rejoined, with messages from before
\* still under way and any skew between wall clocks: a room stays a map, and
\* its clock covers its entries, in the middle of a delta too.
THEOREM LifecycleCovered == LifecycleSpec => [](TypeOK /\ ClockCoversEntries)
<1>1. Init => StoreInv
  BY CausalInit DEF CausalInv, ClocksNested, StoreInv
<1>2. StoreInv /\ [Next \/ Broadcasts \/ Removals \/ Rejoins]_vars => StoreInv'
  <2>1. CASE Next BY <2>1, PullsKeep
  <2>2. CASE Broadcasts \/ Removals \/ Rejoins BY <2>2, LifecycleKeeps
  <2>3. CASE UNCHANGED vars
    BY <2>3 DEF vars, StoreInv, TypeOK, ClockCoversEntries
  <2>4. QED BY <2>1, <2>2, <2>3
<1>3. QED BY <1>1, <1>2, PTL DEF LifecycleSpec, StoreInv
==============================================================================
