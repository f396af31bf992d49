------------------------------- MODULE LWWMap --------------------------------
(***************************************************************************)
(* What room-state synchronisation promises, without vector clocks,        *)
(* messages or locks: every replica is a map from keys to writes in which  *)
(* a key's write is only ever replaced by a newer write of that key.       *)
(*                                                                         *)
(* `log` is every write ever made; `store[n]` the writes replica n holds,  *)
(* at most one per key.  A write carries the wall-clock time it was made.  *)
(***************************************************************************)
EXTENDS Naturals

CONSTANTS Nodes, Keys

VARIABLES log, store

lwwVars == <<log, store>>

Init == log = {} /\ store = [n \in Nodes |-> {}]

\* e replaces whatever store[n] holds for its key.
Put(n, e) ==
  store' = [store EXCEPT ![n] = {x \in @ : x.key # e.key} \cup {e}]

\* A new write, newer than every write there is, made at replica n.
Write(n, e) ==
  /\ e \notin log
  /\ \A x \in log : x.updated_at < e.updated_at
  /\ log' = log \cup {e}
  /\ Put(n, e)

\* Replica n learns of an existing write that is newer than what it holds.
Adopt(n, e) ==
  /\ \A x \in store[n] : x.key = e.key => x.updated_at < e.updated_at
  /\ UNCHANGED log
  /\ Put(n, e)

Next ==
  \E n \in Nodes :
    \/ \E e \in log' \ log : e.key \in Keys /\ Write(n, e)
    \/ \E e \in log : Adopt(n, e)

Spec == Init /\ [][Next]_lwwVars
==============================================================================
