-------------------------- MODULE RoomStateLifecycle -------------------------
(***************************************************************************)
(* Three more ways in which the API of p2p/src/room_state.rs is used, on   *)
(* top of the pull protocol of RoomStateSync:                              *)
(*   - the entry `set` returns is broadcast as a delta of its own, as the  *)
(*     comment on `set` suggests;                                          *)
(*   - remove_room drops a node's replica at any time;                     *)
(*   - a node drops its replica and rejoins from a snapshot of a peer that *)
(*     is up to date with it.                                              *)
(***************************************************************************)
EXTENDS RoomStateSync

\* Some node n is sent the entry a call of set returned, alone.  Its sender
\* promises nothing about other entries: asOf is the empty clock.
Broadcast(e, n) ==
  /\ Cardinality(net) < MaxMessages
  /\ net' = net \cup {[kind |-> "delta", to |-> n, since |-> ZeroClock,
                       entries |-> {e}, asOf |-> ZeroClock]}
  /\ UNCHANGED <<replica, pulls, now, written, heard>>

\* RoomState::new, in place of what node n had.
Forget(n) ==
  /\ entries' = [entries EXCEPT ![n] = {}]
  /\ clock' = [clock EXCEPT ![n] = ZeroClock]

RemoveRoom(n) ==
  /\ Unlocked(n)
  /\ n \in present
  /\ present' = present \ {n}
  /\ Forget(n)
  /\ heard' = [heard EXCEPT ![n] = ZeroClock]
  /\ UNCHANGED <<applying, pulls, net, now, written>>

\* remove_room on n, then restore_snapshot of a snapshot p takes there and
\* then; p's clock covers all that n had.  The entries are applied by
\* ApplyNext as for any snapshot.
Rejoin(n, p) ==
  /\ n # p /\ {n, p} \subseteq present
  /\ Unlocked(n) /\ Unlocked(p)
  /\ Leq(clock[n], clock[p])
  /\ Forget(n)
  /\ applying' = [applying EXCEPT ![n] = entries[p]]
  /\ heard' = [heard EXCEPT ![n] = clock[p]]
  /\ UNCHANGED <<present, pulls, net, now, written>>

------------------------------------------------------------------------------
Broadcasts == \E e \in written, n \in Nodes : Broadcast(e, n)
Removals == \E n \in Nodes : RemoveRoom(n)
Rejoins == \E n, p \in Nodes : Rejoin(n, p)

\* One of them at a time, for the question what it alone does to the store.
BroadcastSpec == Init /\ [][Next \/ Broadcasts]_vars
RejoinSpec == Init /\ [][Next \/ Rejoins]_vars

LifecycleSpec == Init /\ [][Next \/ Broadcasts \/ Removals \/ Rejoins]_vars
==============================================================================
