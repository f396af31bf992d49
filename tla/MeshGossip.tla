----------------------------- MODULE MeshGossip ------------------------------
(***************************************************************************)
(* Peer discovery by gossip: MeshRegistry (p2p/src/discovery.rs) and       *)
(* GossipRouter (p2p/src/gossip.rs).                                       *)
(*                                                                         *)
(* Every node has a registry of agents and a router.  A router holds one   *)
(* bounded channel to each connected node; the node at the other end runs  *)
(* a loop that receives from the channel and calls handle_message          *)
(* (external: the receiver add_peer returns is handed to the peer, whose   *)
(* loop moves from the receiver it had to the new one).  A background task *)
(* initiates rounds of pulls; sending waits for room in the channel with   *)
(* the read lock on the router's peers held, and fails once the receiver   *)
(* is dropped.                                                             *)
(*                                                                         *)
(* Of a registry entry only last_seen matters to gossip: a registry is a   *)
(* function from agents to last_seen, 0 meaning no entry.  Digests and     *)
(* pushes are such functions too.                                          *)
(***************************************************************************)
EXTENDS Naturals, Sequences, FiniteSets

CONSTANTS
  Nodes,
  Agents,
  Links,     \* <<n, m>>: n is to connect to m (add_peer)
  Pullers,   \* nodes that run spawn_periodic_gossip
  Buffer,    \* capacity of a channel
  MaxTime,   \* bound on the number of announcements
  MaxChanges \* bound on the calls of either remove_peer, the receivers that are
             \* dropped, and the calls of add_peer for a link that works

ASSUME LinksAssumption == Links \subseteq Nodes \X Nodes /\ Pullers \subseteq Nodes
ASSUME SizeAssumption  == Buffer \in Nat \ {0} /\ {MaxTime, MaxChanges} \subseteq Nat

VARIABLES
  table,       \* MeshRegistry.peers of each node
  announcing,  \* calls of handle_announce that have read the time: <<agent, time>>
  now,         \* Utc::now()
  connected,   \* the links whose channel is in the router's peers map
  chan,        \* the channel of each link
  round,       \* peers the background task has still to pull in this round
  pulling,     \* the pull it has built or is sending: a set of at most one
  serving,     \* the pull the loop at the end of each link is answering
  writing,     \* the call of add_peer or remove_peer that waits for the write lock
               \* on peers: a set of at most one
  closed,      \* the connected links whose receiver was dropped
  changes      \* what MaxChanges bounds, so far

registries == <<table, announcing, now>>
routers == <<connected, chan, round, pulling, serving, writing, closed>>
vars == <<registries, routers, changes>>

LastSeen == [Agents -> Nat]
Message == [type : {"Pull", "Push"}, body : LastSeen]
Idle == [stage |-> "idle"]
Serving == {Idle} \cup [stage : {"lookup", "send"}, push : LastSeen]
Pull == [stage : {"lookup", "send"}, to : Nodes, digest : LastSeen]
Writer == [op : {"add", "remove"}, peer : Nodes]

Peers(n) == {m \in Nodes : <<n, m>> \in connected}

Init ==
  /\ table = [n \in Nodes |-> [p \in Agents |-> 0]]
  /\ announcing = [n \in Nodes |-> {}]
  /\ now = 1
  /\ connected = {}
  /\ chan = [l \in Links |-> <<>>]
  /\ round = [n \in Nodes |-> {}]
  /\ pulling = [n \in Nodes |-> {}]
  /\ serving = [l \in Links |-> Idle]
  /\ writing = [n \in Nodes |-> {}]
  /\ closed = {}
  /\ changes = 0

------------------------------------------------------------------------------
(* MeshRegistry *)

\* handle_announce reads the time first and takes the write lock afterwards.
ReadTime(n, p) ==
  /\ now <= MaxTime
  /\ announcing' = [announcing EXCEPT ![n] = @ \cup {<<p, now>>}]
  /\ now' = now + 1
  /\ UNCHANGED <<table, routers, changes>>

HandleAnnounce(n, call) ==
  /\ table' = [table EXCEPT ![n][call[1]] = call[2]]
  /\ announcing' = [announcing EXCEPT ![n] = @ \ {call}]
  /\ UNCHANGED <<now, routers, changes>>

\* MeshRegistry::remove_peer.
RemoveAgent(n, p) ==
  /\ changes < MaxChanges
  /\ table[n][p] # 0
  /\ table' = [table EXCEPT ![n][p] = 0]
  /\ changes' = changes + 1
  /\ UNCHANGED <<announcing, now, routers>>

\* Mutant: only agents missing from the digest are sent.
PushMissing(mine, digest) ==
  [p \in Agents |-> IF digest[p] = 0 THEN mine[p] ELSE 0]

\* handle_gossip_pull: the entries the digest lacks or has stale.
HandleGossipPull(mine, digest) ==
  [p \in Agents |-> IF mine[p] > digest[p] THEN mine[p] ELSE 0]

\* Mutant: what is pushed is taken, newer or not.
MergeOverwrites(mine, push) ==
  [p \in Agents |-> IF push[p] # 0 THEN push[p] ELSE mine[p]]

\* merge_gossip_push, under the write lock.
MergeGossipPush(mine, push) ==
  [p \in Agents |-> IF push[p] > mine[p] THEN push[p] ELSE mine[p]]

------------------------------------------------------------------------------
(* GossipRouter *)

\* Nobody holds the read lock on n's peers: neither the ticker nor a receive
\* loop of n is waiting to send.
NoReader(n) ==
  /\ \A pull \in pulling[n] : pull.stage # "send"
  /\ \A l \in Links : l[2] = n => serving[l].stage # "send"

\* A waiting writer keeps new readers out (tokio's RwLock is fair).
CanRead(n) == writing[n] = {}

\* Mutant: off by one.
HasRoomForOneMore(l) == Len(chan[l]) <= Buffer

HasRoom(l) == Len(chan[l]) < Buffer

\* add_peer asks for the write lock: to connect, or to connect again although
\* the link works.
CallAddPeer(n, m) ==
  /\ <<n, m>> \in Links
  /\ CanRead(n)
  /\ IF <<n, m>> \in connected \ closed
     THEN changes < MaxChanges /\ changes' = changes + 1
     ELSE UNCHANGED changes
  /\ writing' = [writing EXCEPT ![n] = {[op |-> "add", peer |-> m]}]
  /\ UNCHANGED <<registries, connected, chan, round, pulling, serving, closed>>

CallRemovePeer(n, m) ==
  /\ <<n, m>> \in Links
  /\ CanRead(n)
  /\ changes < MaxChanges /\ changes' = changes + 1
  /\ writing' = [writing EXCEPT ![n] = {[op |-> "remove", peer |-> m]}]
  /\ UNCHANGED <<registries, connected, chan, round, pulling, serving, closed>>

\* A new channel takes the place of the one there was, if any; what is left in
\* that one is lost.
AddPeer(n, m) ==
  /\ [op |-> "add", peer |-> m] \in writing[n]
  /\ NoReader(n)
  /\ connected' = connected \cup {<<n, m>>}
  /\ chan' = [chan EXCEPT ![<<n, m>>] = <<>>]
  /\ closed' = closed \ {<<n, m>>}
  /\ writing' = [writing EXCEPT ![n] = {}]
  /\ UNCHANGED <<registries, round, pulling, serving, changes>>

\* What was sent can still be received.
RemovePeer(n, m) ==
  /\ [op |-> "remove", peer |-> m] \in writing[n]
  /\ NoReader(n)
  /\ connected' = connected \ {<<n, m>>}
  /\ closed' = closed \ {<<n, m>>}
  /\ writing' = [writing EXCEPT ![n] = {}]
  /\ UNCHANGED <<registries, chan, round, pulling, serving, changes>>

\* The loop at the end of the link ends, whatever it is doing, and drops the
\* receiver.
CloseReceiver(l) ==
  /\ l \in connected \ closed
  /\ changes < MaxChanges /\ changes' = changes + 1
  /\ closed' = closed \cup {l}
  /\ chan' = [chan EXCEPT ![l] = <<>>]
  /\ serving' = [serving EXCEPT ![l] = Idle]
  /\ UNCHANGED <<registries, connected, round, pulling, writing>>

\* The ticker fires and initiate_pull_all lists the connected peers.
StartRound(n) ==
  /\ n \in Pullers
  /\ round[n] = {} /\ pulling[n] = {}
  /\ CanRead(n)
  /\ round' = [round EXCEPT ![n] = Peers(n)]
  /\ UNCHANGED <<registries, connected, chan, pulling, serving, writing, closed, changes>>

\* initiate_pull builds the digest before it asks for the lock on the peers.
InitiatePull(n, m) ==
  /\ m \in round[n] /\ pulling[n] = {}
  /\ round' = [round EXCEPT ![n] = @ \ {m}]
  /\ pulling' = [pulling EXCEPT ![n] =
                   {[stage |-> "lookup", to |-> m, digest |-> table[n]]}]
  /\ UNCHANGED <<registries, connected, chan, serving, writing, closed, changes>>

\* An unknown peer is an error, logged, and the round goes on.
LookUpTarget(n, pull) ==
  /\ pull.stage = "lookup"
  /\ CanRead(n)
  /\ pulling' = [pulling EXCEPT ![n] =
                   IF pull.to \in Peers(n) THEN {[pull EXCEPT !.stage = "send"]} ELSE {}]
  /\ UNCHANGED <<registries, connected, chan, round, serving, writing, closed, changes>>

\* A send over link l completes once the channel has room, or fails because
\* the receiver is gone.
Send(l, msg) ==
  \/ l \in closed /\ UNCHANGED chan
  \/ l \notin closed /\ HasRoom(l) /\ chan' = [chan EXCEPT ![l] = Append(@, msg)]

\* A pull that fails is logged, and the round goes on.
SendPull(n, pull) ==
  /\ pull.stage = "send"
  /\ Send(<<n, pull.to>>, [type |-> "Pull", body |-> pull.digest])
  /\ pulling' = [pulling EXCEPT ![n] = {}]
  /\ UNCHANGED <<registries, connected, round, serving, writing, closed, changes>>

\* The loop at m, the end of link l = <<n, m>>, receives a pull: handle_message
\* computes the push, then looks up the way back to n.
ReceivePull(l) ==
  /\ serving[l] = Idle
  /\ chan[l] # <<>> /\ Head(chan[l]).type = "Pull"
  /\ chan' = [chan EXCEPT ![l] = Tail(@)]
  /\ serving' = [serving EXCEPT ![l] =
       [stage |-> "lookup", push |-> HandleGossipPull(table[l[2]], Head(chan[l]).body)]]
  /\ UNCHANGED <<registries, connected, round, pulling, writing, closed, changes>>

\* Not connected to n: handle_message fails and the push is lost.
LookUpPeer(l) ==
  /\ serving[l].stage = "lookup"
  /\ CanRead(l[2])
  /\ serving' = [serving EXCEPT ![l] =
       IF l[1] \in Peers(l[2]) THEN [@ EXCEPT !.stage = "send"] ELSE Idle]
  /\ UNCHANGED <<registries, connected, chan, round, pulling, writing, closed, changes>>

\* Mutant: the loop never gets back to receiving.
SendPushAgain(l) ==
  /\ serving[l].stage = "send"
  /\ Send(<<l[2], l[1]>>, [type |-> "Push", body |-> serving[l].push])
  /\ UNCHANGED <<registries, connected, round, pulling, serving, writing, closed, changes>>

\* A push that cannot be sent is lost.
SendPush(l) ==
  /\ serving[l].stage = "send"
  /\ Send(<<l[2], l[1]>>, [type |-> "Push", body |-> serving[l].push])
  /\ serving' = [serving EXCEPT ![l] = Idle]
  /\ UNCHANGED <<registries, connected, round, pulling, writing, closed, changes>>

ReceivePush(l) ==
  /\ serving[l] = Idle
  /\ chan[l] # <<>> /\ Head(chan[l]).type = "Push"
  /\ chan' = [chan EXCEPT ![l] = Tail(@)]
  /\ table' = [table EXCEPT ![l[2]] = MergeGossipPush(@, Head(chan[l]).body)]
  /\ UNCHANGED <<announcing, now, connected, round, pulling, serving, writing, closed, changes>>

------------------------------------------------------------------------------
Announcements ==
  \E n \in Nodes :
    \/ \E p \in Agents : ReadTime(n, p)
    \/ \E call \in announcing[n] : HandleAnnounce(n, call)

Ticker(n) ==
  \/ StartRound(n)
  \/ \E m \in Nodes : InitiatePull(n, m)
  \/ \E pull \in pulling[n] : LookUpTarget(n, pull) \/ SendPull(n, pull)

ReceiveLoop(l) == ReceivePull(l) \/ LookUpPeer(l) \/ SendPush(l) \/ ReceivePush(l)

Connections ==
  \/ \E l \in Links :
       CallAddPeer(l[1], l[2]) \/ CallRemovePeer(l[1], l[2]) \/ CloseReceiver(l)
  \/ \E n \in Nodes, m \in Nodes : AddPeer(n, m) \/ RemovePeer(n, m)

Next ==
  \/ Announcements \/ Connections
  \/ \E n \in Nodes, p \in Agents : RemoveAgent(n, p)
  \/ \E n \in Nodes : Ticker(n)
  \/ \E l \in Links : ReceiveLoop(l)

\* A link that is not there, or whose receiver is gone, is made again.
Reconnect(l) == l \notin connected \ closed /\ CallAddPeer(l[1], l[2])

\* Tokio runs every task that can run: the ticker of each puller, each receive
\* loop, the calls that connect again, and the calls of handle_announce,
\* add_peer and remove_peer that have begun.  Nothing is asked yet of the order
\* in which locks and channels serve those who wait.
Fairness ==
  /\ \A n \in Pullers : WF_vars(Ticker(n))
  /\ \A l \in Links : WF_vars(ReceiveLoop(l)) /\ WF_vars(Reconnect(l))
  /\ \A n \in Nodes : WF_vars(\E call \in announcing[n] : HandleAnnounce(n, call))
  /\ \A n \in Nodes : WF_vars(\E m \in Nodes : AddPeer(n, m) \/ RemovePeer(n, m))

Spec == Init /\ [][Next]_vars /\ Fairness

\* Tokio's locks and channels serve waiting tasks in the order they came, so
\* that one that waits for either gets it if it becomes free again and again.
QueueFairness ==
  /\ \A n \in Pullers : SF_vars(Ticker(n))
  /\ \A l \in Links : SF_vars(ReceiveLoop(l))

FairSpec == Spec /\ QueueFairness

------------------------------------------------------------------------------
(* Properties *)

\* Types; a channel never holds more than its capacity; nothing is dated in
\* the future.
TypeOK ==
  /\ table \in [Nodes -> [Agents -> 0 .. now - 1]]
  /\ \A n \in Nodes : announcing[n] \subseteq Agents \X (1 .. now - 1)
  /\ now \in 1 .. MaxTime + 1
  /\ connected \subseteq Links
  /\ chan \in [Links -> Seq(Message)] /\ \A l \in Links : Len(chan[l]) <= Buffer
  /\ round \in [Nodes -> SUBSET Nodes]
  /\ \A n \in Nodes : /\ pulling[n] \subseteq Pull /\ Cardinality(pulling[n]) <= 1
                      /\ \A pull \in pulling[n] : pull.stage = "send" => pull.to \in Peers(n)
  /\ serving \in [Links -> Serving]
  /\ writing \in [Nodes -> SUBSET Writer]
  /\ closed \subseteq connected
  /\ changes \in 0 .. MaxChanges

\* Gossip never takes a registry back in time, however late and out of date
\* the pushes that arrive: last_seen of an agent only drops when the agent is
\* removed, or when a call of handle_announce inserts the time it had read
\* before a newer entry came in.
GossipNeverRegresses ==
  [][\A n \in Nodes, p \in Agents :
       table'[n][p] < table[n][p] =>
         table'[n][p] = 0 \/ <<p, table'[n][p]>> \in announcing[n]]_vars

\* Every pull goes out, or fails: no round of the background task is stuck for
\* good.  Holds when pulls go one way along the links.
RoundsGoOn == \A n \in Pullers : pulling[n] # {} ~> pulling[n] = {}

\* Discovery: once announcements and removals have stopped, and whatever pulls
\* and pushes were lost with a connection that was removed, replaced or closed, a node that pulls knows of every
\* agent its peers know of, at least as recently, and this stays so.
PullersCatchUp ==
  \A l \in Links : l[1] \in Pullers =>
    <>[](\A p \in Agents : table[l[2]][p] <= table[l[1]][p])

\* add_peer and remove_peer return: a writer is not locked out by sends that
\* wait for room.
WritersFinish == \A n \in Nodes : writing[n] # {} ~> writing[n] = {}
==============================================================================
