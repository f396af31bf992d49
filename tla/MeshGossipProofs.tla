-------------------------- MODULE MeshGossipProofs ---------------------------
(***************************************************************************)
(* Gossip keeps its channels within their capacity and never takes a       *)
(* registry back in time (MeshGossip), for any network of nodes, any       *)
(* number of agents and any capacity.  A push may be answered from an old  *)
(* table and arrive late, so the proof follows the dates of what is under  *)
(* way; and a task that waits to send keeps the link it sends over, which  *)
(* is why add_peer and remove_peer have to wait for it.                    *)
(***************************************************************************)
EXTENDS MeshGossip, FiniteSetTheorems, SequenceTheorems, TLAPS

\* What is known of agents is not from the future.
Past(f) == \A p \in Agents : f[p] < now

Dates ==
  /\ now \in 1 .. MaxTime + 1
  /\ table \in [Nodes -> LastSeen] /\ \A n \in Nodes : Past(table[n])
  /\ announcing \in [Nodes -> SUBSET (Agents \X Nat)]
  /\ \A n \in Nodes : \A call \in announcing[n] : 1 <= call[2] /\ call[2] < now

Connected ==
  /\ connected \subseteq Links
  /\ closed \subseteq connected
  /\ round \in [Nodes -> SUBSET Nodes]
  /\ writing \in [Nodes -> SUBSET Writer]
  /\ \A n \in Nodes : \A w \in writing[n] : <<n, w.peer>> \in Links
  /\ changes \in 0 .. MaxChanges

Channels ==
  /\ chan \in [Links -> Seq(Message)]
  /\ \A l \in Links :
       /\ Len(chan[l]) <= Buffer
       /\ \A i \in 1 .. Len(chan[l]) : chan[l][i].type = "Push" => Past(chan[l][i].body)

\* Whoever waits to send does so over a link that is connected.
Pulls ==
  /\ pulling \in [Nodes -> SUBSET Pull]
  /\ \A n \in Nodes : /\ Cardinality(pulling[n]) <= 1
                      /\ \A pull \in pulling[n] :
                           pull.stage = "send" => <<n, pull.to>> \in connected

Loops ==
  /\ serving \in [Links -> Serving]
  /\ \A l \in Links : /\ serving[l].stage # "idle" => Past(serving[l].push)
                      /\ serving[l].stage = "send" => <<l[2], l[1]>> \in connected

GossipInv == Dates /\ Connected /\ Channels /\ Pulls /\ Loops

------------------------------------------------------------------------------
\* A link has two ends.
LEMMA LinkEnds ==
  ASSUME NEW l \in Links
  PROVE  l[1] \in Nodes /\ l[2] \in Nodes /\ l = <<l[1], l[2]>>
BY LinksAssumption

\* A loop that is not idle has a push, of which the stage may change.
LEMMA ServingShape ==
  /\ Idle \in Serving /\ Idle.stage = "idle"
  /\ \A s \in Serving : s = Idle \/ s \in [stage : {"lookup", "send"}, push : LastSeen]
  /\ \A s \in Serving : s.stage # "idle" =>
       s \in [stage : {"lookup", "send"}, push : LastSeen] /\ s.push \in LastSeen
<1>1. Idle \in Serving /\ Idle.stage = "idle" BY DEF Serving, Idle
<1>2. \A s \in Serving : s = Idle \/ s \in [stage : {"lookup", "send"}, push : LastSeen]
  BY DEF Serving
<1>3. QED BY <1>1, <1>2

\* handle_gossip_pull answers with entries of the registry.
LEMMA PushFromTable ==
  ASSUME NEW mine \in LastSeen, NEW digest \in LastSeen, now \in Nat, 1 <= now, Past(mine)
  PROVE  HandleGossipPull(mine, digest) \in LastSeen /\ Past(HandleGossipPull(mine, digest))
BY DEF LastSeen, HandleGossipPull, Past

\* merge_gossip_push only takes what is newer.
LEMMA MergeRaises ==
  ASSUME NEW mine \in LastSeen, NEW push \in LastSeen
  PROVE  /\ MergeGossipPush(mine, push) \in LastSeen
         /\ \A p \in Agents : mine[p] <= MergeGossipPush(mine, push)[p]
         /\ Past(mine) /\ Past(push) => Past(MergeGossipPush(mine, push))
BY DEF LastSeen, MergeGossipPush, Past

\* A message is put on a channel that has room.
LEMMA SendKeeps ==
  ASSUME Channels, NEW l \in Links, HasRoom(l), NEW msg \in Message,
         msg.type = "Push" => Past(msg.body),
         chan' = [chan EXCEPT ![l] = Append(chan[l], msg)], UNCHANGED now
  PROVE  Channels'
<1>1. chan[l] \in Seq(Message) /\ Len(chan[l]) \in Nat /\ Buffer \in Nat /\ Len(chan[l]) < Buffer
  <2>1. chan[l] \in Seq(Message) BY DEF Channels
  <2>2. QED BY <2>1, LenProperties, SizeAssumption DEF HasRoom
<1>2. /\ Append(chan[l], msg) \in Seq(Message)
      /\ Len(Append(chan[l], msg)) = Len(chan[l]) + 1
      /\ \A i \in 1 .. Len(chan[l]) : Append(chan[l], msg)[i] = chan[l][i]
      /\ Append(chan[l], msg)[Len(chan[l]) + 1] = msg
  BY <1>1, AppendProperties
<1>3. /\ chan' \in [Links -> Seq(Message)] /\ chan'[l] = Append(chan[l], msg)
      /\ \A k \in Links \ {l} : chan'[k] = chan[k]
  BY <1>2 DEF Channels
<1>4. Len(chan'[l]) <= Buffer BY <1>1, <1>2, <1>3
<1>5. ASSUME NEW i \in 1 .. Len(chan'[l]), chan'[l][i].type = "Push"
      PROVE  Past(chan'[l][i].body)
  <2>1. i \in 1 .. Len(chan[l]) \/ i = Len(chan[l]) + 1 BY <1>1, <1>2, <1>3
  <2>2. QED BY <1>2, <1>3, <1>5, <2>1 DEF Channels
<1>6. \A f : Past(f)' <=> Past(f) BY DEF Past
<1>7. QED BY <1>3, <1>4, <1>5, <1>6 DEF Channels, Past

\* A message is taken from a channel.
LEMMA ReceiveKeeps ==
  ASSUME Channels, NEW l \in Links, chan[l] # <<>>,
         chan' = [chan EXCEPT ![l] = Tail(chan[l])], UNCHANGED now
  PROVE  /\ Channels'
         /\ Head(chan[l]) \in Message
         /\ Head(chan[l]).type = "Push" => Past(Head(chan[l]).body)
<1>1. chan[l] \in Seq(Message) BY DEF Channels
<1>2. Len(chan[l]) \in Nat /\ Buffer \in Nat /\ Len(chan[l]) <= Buffer
  BY <1>1, LenProperties, SizeAssumption DEF Channels
<1>3. /\ Head(chan[l]) \in Message /\ Tail(chan[l]) \in Seq(Message)
      /\ Len(Tail(chan[l])) = Len(chan[l]) - 1
      /\ \A i \in 1 .. Len(Tail(chan[l])) : Tail(chan[l])[i] = chan[l][i + 1]
  BY <1>1, HeadTailProperties
<1>4. Head(chan[l]) = chan[l][1] /\ 1 \in 1 .. Len(chan[l])
  <2>1. Len(chan[l]) # 0 BY <1>1, EmptySeq
  <2>2. QED BY <1>1, <1>2, <2>1
<1>5. /\ chan' \in [Links -> Seq(Message)] /\ chan'[l] = Tail(chan[l])
      /\ \A k \in Links \ {l} : chan'[k] = chan[k]
  BY <1>3 DEF Channels
<1>6. Len(chan'[l]) <= Buffer BY <1>2, <1>3, <1>5
<1>7. ASSUME NEW i \in 1 .. Len(chan'[l]), chan'[l][i].type = "Push"
      PROVE  Past(chan'[l][i].body)
  <2>1. i + 1 \in 1 .. Len(chan[l]) /\ chan'[l][i] = chan[l][i + 1]
    BY <1>2, <1>3, <1>5
  <2>2. QED BY <1>7, <2>1 DEF Channels
<1>8. \A f : Past(f)' <=> Past(f) BY DEF Past
<1>9. Channels' BY <1>5, <1>6, <1>7, <1>8 DEF Channels, Past
<1>10. QED BY <1>3, <1>4, <1>9 DEF Channels

\* A channel is replaced by a new one, or loses its receiver.
LEMMA EmptyKeeps ==
  ASSUME Channels, NEW l \in Links, chan' = [chan EXCEPT ![l] = <<>>], UNCHANGED now
  PROVE  Channels'
<1>1. <<>> \in Seq(Message) /\ Len(<<>>) = 0 BY EmptySeq
<1>2. /\ chan' \in [Links -> Seq(Message)] /\ chan'[l] = <<>>
      /\ \A k \in Links \ {l} : chan'[k] = chan[k]
  BY <1>1 DEF Channels
<1>3. Len(chan'[l]) <= Buffer /\ 1 .. Len(chan'[l]) = {} BY <1>1, <1>2, SizeAssumption
<1>4. \A f : Past(f)' <=> Past(f) BY DEF Past
<1>5. QED BY <1>2, <1>3, <1>4 DEF Channels, Past

\* A send over a link puts a message on its channel or fails.
LEMMA SendEither ==
  ASSUME Channels, NEW l \in Links, NEW msg \in Message,
         msg.type = "Push" => Past(msg.body), Send(l, msg), UNCHANGED now
  PROVE  Channels'
<1>1. CASE UNCHANGED chan BY <1>1 DEF Channels, Past
<1>2. CASE HasRoom(l) /\ chan' = [chan EXCEPT ![l] = Append(chan[l], msg)] BY <1>2, SendKeeps
<1>3. QED BY <1>1, <1>2 DEF Send

------------------------------------------------------------------------------
(* The registries *)

\* No node knows of anyone.
LEMMA GossipInit == Init => GossipInv
<1> SUFFICES ASSUME Init PROVE GossipInv OBVIOUS
<1>1. Dates BY SizeAssumption DEF Init, Dates, LastSeen, Past
<1>2. Connected BY SizeAssumption DEF Init, Connected
<1>3. Channels
  <2>1. <<>> \in Seq(Message) /\ Len(<<>>) = 0 BY EmptySeq
  <2>2. QED BY <2>1, SizeAssumption DEF Init, Channels
<1>4. Pulls BY FS_EmptySet DEF Init, Pulls
<1>5. Loops BY DEF Init, Loops, Serving, Idle
<1>6. QED BY <1>1, <1>2, <1>3, <1>4, <1>5 DEF GossipInv

\* handle_announce reads the time, and time goes on.
LEMMA ReadTimeKeeps ==
  ASSUME GossipInv, NEW n \in Nodes, NEW p \in Agents, ReadTime(n, p)
  PROVE  GossipInv'
<1> USE DEF GossipInv
<1>1. /\ now' = now + 1 /\ now <= MaxTime
      /\ announcing' = [announcing EXCEPT ![n] = announcing[n] \cup {<<p, now>>}]
      /\ UNCHANGED <<table, connected, chan, round, pulling, serving, writing, closed, changes>>
  BY DEF ReadTime, routers
<1>2. now \in Nat /\ 1 <= now /\ now' \in 1 .. MaxTime + 1
  BY <1>1, SizeAssumption DEF Dates
<1>3. ASSUME NEW f \in LastSeen, Past(f) PROVE Past(f)'
  <2>1. \A q \in Agents : f[q] \in Nat BY DEF LastSeen
  <2>2. QED BY <1>1, <1>2, <1>3, <2>1 DEF Past
<1>4. Dates'
  <2>1. announcing' \in [Nodes -> SUBSET (Agents \X Nat)] BY <1>1, <1>2 DEF Dates
  <2>2. ASSUME NEW m \in Nodes, NEW call \in announcing'[m]
        PROVE  1 <= call[2] /\ call[2] < now'
    <3>1. call \in announcing[m] \/ call = <<p, now>> BY <1>1 DEF Dates
    <3>2. CASE call = <<p, now>> BY <1>1, <1>2, <3>2
    <3>3. CASE call \in announcing[m]
      <4>1. call[2] \in Nat /\ 1 <= call[2] /\ call[2] < now BY <3>3 DEF Dates
      <4>2. QED BY <1>1, <1>2, <4>1
    <3>4. QED BY <3>1, <3>2, <3>3
  <2>3. \A m \in Nodes : table'[m] \in LastSeen /\ Past(table[m])' BY <1>1, <1>3 DEF Dates
  <2>4. QED BY <1>1, <1>2, <2>1, <2>2, <2>3 DEF Dates
<1>5. Channels'
  <2>1. ASSUME NEW l \in Links, NEW i \in 1 .. Len(chan[l]), chan[l][i].type = "Push"
        PROVE  Past(chan[l][i].body)'
    <3>1. chan[l][i] \in Message BY ElementOfSeq DEF Channels
    <3>2. chan[l][i].body \in LastSeen /\ Past(chan[l][i].body)
      BY <2>1, <3>1 DEF Channels, Message
    <3>3. PICK f : f = chan[l][i].body OBVIOUS
    <3>4. Past(f)' BY <1>3, <3>2, <3>3
    <3>5. QED BY <1>1, <3>3, <3>4 DEF Past
  <2>2. QED BY <1>1, <2>1 DEF Channels
<1>6. Loops'
  <2>1. ASSUME NEW l \in Links, serving[l].stage # "idle" PROVE Past(serving[l].push)'
    <3>1. serving[l].push \in LastSeen /\ Past(serving[l].push)
      BY <2>1, ServingShape DEF Loops
    <3>2. PICK f : f = serving[l].push OBVIOUS
    <3>3. Past(f)' BY <1>3, <3>1, <3>2
    <3>4. QED BY <1>1, <3>2, <3>3 DEF Past
  <2>2. QED BY <1>1, <2>1 DEF Loops
<1>7. Connected' /\ Pulls' BY <1>1 DEF Connected, Pulls
<1>8. QED BY <1>4, <1>5, <1>6, <1>7

\* Nothing but a registry, and the calls that write to it, changes.
LEMMA RoutersStay ==
  ASSUME GossipInv, UNCHANGED <<now, connected, chan, round, pulling, serving, writing, closed>>
  PROVE  Channels' /\ Pulls' /\ Loops'
BY DEF GossipInv, Channels, Pulls, Loops, Past

\* An entry of a registry is written by handle_announce or remove_peer.
LEMMA EntryKeeps ==
  ASSUME GossipInv, NEW n \in Nodes, NEW p \in Agents, NEW time \in Nat, time < now,
         table' = [table EXCEPT ![n] = [table[n] EXCEPT ![p] = time]],
         announcing' \in [Nodes -> SUBSET (Agents \X Nat)],
         \A m \in Nodes : announcing'[m] \subseteq announcing[m], UNCHANGED now
  PROVE  Dates'
<1>1. table \in [Nodes -> LastSeen] /\ table[n] \in LastSeen /\ Past(table[n])
  BY DEF GossipInv, Dates
<1>2. PICK f : f = [table[n] EXCEPT ![p] = time] OBVIOUS
<1>3. f \in LastSeen /\ Past(f) BY <1>1, <1>2 DEF LastSeen, Past
<1>4. /\ table' \in [Nodes -> LastSeen] /\ table'[n] = f
      /\ \A m \in Nodes \ {n} : table'[m] = table[m]
  BY <1>1, <1>2, <1>3
<1>5. \A m \in Nodes : Past(table'[m]) BY <1>3, <1>4 DEF GossipInv, Dates
<1>6. QED BY <1>4, <1>5 DEF GossipInv, Dates, Past

\* handle_announce writes the time it has read.
LEMMA HandleAnnounceKeeps ==
  ASSUME GossipInv, NEW n \in Nodes, NEW call \in announcing[n], HandleAnnounce(n, call)
  PROVE  GossipInv'
<1>1. /\ call[1] \in Agents /\ call[2] \in Nat /\ call[2] < now
      /\ announcing \in [Nodes -> SUBSET (Agents \X Nat)]
  BY DEF GossipInv, Dates
<1>2. /\ table' = [table EXCEPT ![n] = [table[n] EXCEPT ![call[1]] = call[2]]]
      /\ announcing' = [announcing EXCEPT ![n] = announcing[n] \ {call}]
      /\ UNCHANGED <<now, connected, chan, round, pulling, serving, writing, closed, changes>>
  BY DEF HandleAnnounce, routers
<1>3. /\ announcing' \in [Nodes -> SUBSET (Agents \X Nat)]
      /\ \A m \in Nodes : announcing'[m] \subseteq announcing[m]
  BY <1>1, <1>2
<1>4. Dates' BY <1>1, <1>2, <1>3, EntryKeeps
<1>5. Channels' /\ Pulls' /\ Loops' BY <1>2, RoutersStay
<1>6. Connected' BY <1>2 DEF GossipInv, Connected
<1>7. QED BY <1>4, <1>5, <1>6 DEF GossipInv

\* An agent is removed from a registry.
LEMMA RemoveAgentKeeps ==
  ASSUME GossipInv, NEW n \in Nodes, NEW p \in Agents, RemoveAgent(n, p)
  PROVE  GossipInv'
<1>1. /\ table' = [table EXCEPT ![n] = [table[n] EXCEPT ![p] = 0]]
      /\ changes < MaxChanges /\ changes' = changes + 1
      /\ UNCHANGED <<announcing, now, connected, chan, round, pulling, serving, writing, closed>>
  BY DEF RemoveAgent, routers
<1>2. announcing' \in [Nodes -> SUBSET (Agents \X Nat)] /\ 0 < now
  BY <1>1 DEF GossipInv, Dates
<1>3. Dates' BY <1>1, <1>2, EntryKeeps
<1>4. Channels' /\ Pulls' /\ Loops' BY <1>1, RoutersStay
<1>5. Connected' BY <1>1, SizeAssumption DEF GossipInv, Connected
<1>6. QED BY <1>3, <1>4, <1>5 DEF GossipInv

------------------------------------------------------------------------------
(* The routers *)

\* The registries, when nothing touches them.
LEMMA DatesStay == Dates /\ UNCHANGED registries => Dates'
BY DEF Dates, Past, registries

\* The channels, when nothing touches them.
LEMMA ChannelsStay == Channels /\ UNCHANGED <<chan, now>> => Channels'
BY DEF Channels, Past

\* Those who wait to send, when no link goes away.
LEMMA SendersStay ==
  ASSUME Pulls, Loops, connected \subseteq connected', UNCHANGED <<pulling, serving, now>>
  PROVE  Pulls' /\ Loops'
<1>1. Pulls' BY DEF Pulls
<1>2. Loops' BY DEF Loops, Past
<1>3. QED BY <1>1, <1>2

\* add_peer and remove_peer ask for the lock.
LEMMA CallWriterKeeps ==
  ASSUME GossipInv, NEW n \in Nodes, NEW m \in Nodes,
         CallAddPeer(n, m) \/ CallRemovePeer(n, m)
  PROVE  GossipInv'
<1>1. PICK w \in Writer : w.peer = m /\ writing' = [writing EXCEPT ![n] = {w}]
  <2>1. CASE CallAddPeer(n, m)
    <3>1. [op |-> "add", peer |-> m] \in Writer BY DEF Writer
    <3>2. QED BY <2>1, <3>1 DEF CallAddPeer
  <2>2. CASE CallRemovePeer(n, m)
    <3>1. [op |-> "remove", peer |-> m] \in Writer BY DEF Writer
    <3>2. QED BY <2>2, <3>1 DEF CallRemovePeer
  <2>3. QED BY <2>1, <2>2
<1>2. /\ <<n, m>> \in Links
      /\ changes' = changes \/ (changes < MaxChanges /\ changes' = changes + 1)
      /\ UNCHANGED registries /\ UNCHANGED <<chan, now>>
      /\ UNCHANGED <<pulling, serving, now>> /\ UNCHANGED <<round, connected, closed>>
  BY DEF CallAddPeer, CallRemovePeer, registries
<1>3. Connected'
  <2>1. changes' \in 0 .. MaxChanges BY <1>2, SizeAssumption DEF GossipInv, Connected
  <2>2. writing' \in [Nodes -> SUBSET Writer] BY <1>1 DEF GossipInv, Connected
  <2>3. \A k \in Nodes : \A v \in writing'[k] : <<k, v.peer>> \in Links
    BY <1>1, <1>2 DEF GossipInv, Connected
  <2>4. QED BY <1>2, <2>1, <2>2, <2>3 DEF GossipInv, Connected
<1>4. Pulls' /\ Loops' BY <1>2, SendersStay DEF GossipInv
<1>5. QED BY <1>2, <1>3, <1>4, DatesStay, ChannelsStay DEF GossipInv

\* A writer that has the lock is done.
LEMMA WriterDone ==
  ASSUME Connected, NEW n \in Nodes, writing' = [writing EXCEPT ![n] = {}],
         connected' \subseteq Links, closed' \subseteq connected', UNCHANGED <<round, changes>>
  PROVE  Connected'
<1>1. writing' \in [Nodes -> SUBSET Writer] BY DEF Connected
<1>2. \A k \in Nodes : writing'[k] \subseteq writing[k] BY DEF Connected
<1>3. QED BY <1>1, <1>2 DEF Connected

\* add_peer makes a link, with a channel of its own.
LEMMA AddPeerKeeps ==
  ASSUME GossipInv, NEW n \in Nodes, NEW m \in Nodes, AddPeer(n, m)
  PROVE  GossipInv'
<1>1. /\ connected' = connected \cup {<<n, m>>}
      /\ chan' = [chan EXCEPT ![<<n, m>>] = <<>>]
      /\ closed' = closed \ {<<n, m>>} /\ writing' = [writing EXCEPT ![n] = {}]
      /\ UNCHANGED registries /\ UNCHANGED now
      /\ UNCHANGED <<pulling, serving, now>> /\ UNCHANGED <<round, changes>>
  BY DEF AddPeer, registries
<1>2. <<n, m>> \in Links
  <2>1. PICK w \in writing[n] : w.peer = m BY DEF AddPeer
  <2>2. QED BY <2>1 DEF GossipInv, Connected
<1>3. Connected'
  <2>1. connected' \subseteq Links /\ closed' \subseteq connected'
    BY <1>1, <1>2 DEF GossipInv, Connected
  <2>2. QED BY <1>1, <2>1, WriterDone DEF GossipInv
<1>4. Pulls' /\ Loops' BY <1>1, SendersStay DEF GossipInv
<1>5. Channels' BY <1>1, <1>2, EmptyKeeps DEF GossipInv
<1>6. QED BY <1>1, <1>3, <1>4, <1>5, DatesStay DEF GossipInv

\* remove_peer takes a link away when nobody is sending over any link of n.
LEMMA RemovePeerKeeps ==
  ASSUME GossipInv, NEW n \in Nodes, NEW m \in Nodes, RemovePeer(n, m)
  PROVE  GossipInv'
<1>1. /\ connected' = connected \ {<<n, m>>} /\ NoReader(n)
      /\ closed' = closed \ {<<n, m>>} /\ writing' = [writing EXCEPT ![n] = {}]
      /\ UNCHANGED registries /\ UNCHANGED <<chan, now>>
      /\ UNCHANGED <<pulling, serving>> /\ UNCHANGED <<round, changes>>
  BY DEF RemovePeer, registries
<1>2. Connected'
  <2>1. connected' \subseteq Links /\ closed' \subseteq connected'
    BY <1>1 DEF GossipInv, Connected
  <2>2. QED BY <1>1, <2>1, WriterDone DEF GossipInv
<1>3. Pulls'
  <2>1. ASSUME NEW k \in Nodes, NEW pull \in pulling[k], pull.stage = "send"
        PROVE  <<k, pull.to>> \in connected'
    <3>1. k # n BY <1>1, <2>1 DEF NoReader
    <3>2. QED BY <1>1, <2>1, <3>1 DEF GossipInv, Pulls
  <2>2. QED BY <1>1, <2>1 DEF GossipInv, Pulls
<1>4. Loops'
  <2>1. ASSUME NEW l \in Links, serving[l].stage = "send" PROVE <<l[2], l[1]>> \in connected'
    <3>1. l[2] # n BY <1>1, <2>1 DEF NoReader
    <3>2. QED BY <1>1, <2>1, <3>1 DEF GossipInv, Loops
  <2>2. QED BY <1>1, <2>1 DEF GossipInv, Loops, Past
<1>5. QED BY <1>1, <1>2, <1>3, <1>4, DatesStay, ChannelsStay DEF GossipInv

\* The ticker fires.
LEMMA StartRoundKeeps ==
  ASSUME GossipInv, NEW n \in Nodes, StartRound(n)
  PROVE  GossipInv'
<1>1. /\ round' = [round EXCEPT ![n] = Peers(n)]
      /\ UNCHANGED registries /\ UNCHANGED <<chan, now>>
      /\ UNCHANGED <<pulling, serving, now>> /\ UNCHANGED <<connected, writing, closed, changes>>
  BY DEF StartRound, registries
<1>2. Peers(n) \subseteq Nodes BY DEF Peers
<1>3. Connected' BY <1>1, <1>2 DEF GossipInv, Connected
<1>4. Pulls' /\ Loops' BY <1>1, SendersStay DEF GossipInv
<1>5. QED BY <1>1, <1>3, <1>4, DatesStay, ChannelsStay DEF GossipInv

\* A puller has another pull under way, or none.
LEMMA PullKeeps ==
  ASSUME GossipInv, NEW n \in Nodes, UNCHANGED connected
  PROVE  /\ pulling' = [pulling EXCEPT ![n] = {}] => Pulls'
         /\ \A pull \in Pull :
              /\ pulling' = [pulling EXCEPT ![n] = {pull}]
              /\ pull.stage = "send" => <<n, pull.to>> \in connected
              => Pulls'
<1>1. CASE pulling' = [pulling EXCEPT ![n] = {}]
  BY <1>1, FS_EmptySet DEF GossipInv, Pulls
<1>2. ASSUME NEW pull \in Pull, pulling' = [pulling EXCEPT ![n] = {pull}],
             pull.stage = "send" => <<n, pull.to>> \in connected
      PROVE  Pulls'
  <2>1. Cardinality({pull}) = 1 BY FS_Singleton
  <2>2. QED BY <1>2, <2>1 DEF GossipInv, Pulls
<1>3. QED BY <1>1, <1>2

\* initiate_pull builds the digest.
LEMMA InitiatePullKeeps ==
  ASSUME GossipInv, NEW n \in Nodes, NEW m \in Nodes, InitiatePull(n, m)
  PROVE  GossipInv'
<1> USE DEF GossipInv
<1>0. PICK pull : pull = [stage |-> "lookup", to |-> m, digest |-> table[n]] OBVIOUS
<1>1. /\ round' = [round EXCEPT ![n] = round[n] \ {m}]
      /\ pulling' = [pulling EXCEPT ![n] = {pull}]
      /\ UNCHANGED registries /\ UNCHANGED <<chan, now>> /\ UNCHANGED connected
      /\ UNCHANGED <<serving, writing, closed, changes>>
  BY <1>0 DEF InitiatePull, registries
<1>2. Connected' BY <1>1 DEF Connected
<1>3. table[n] \in LastSeen BY DEF Dates
<1>4. pull \in Pull /\ pull.stage # "send" BY <1>0, <1>3 DEF Pull
<1>5. Pulls' BY <1>1, <1>4, PullKeeps
<1>6. Loops' BY <1>1 DEF Loops, Past
<1>7. QED BY <1>1, <1>2, <1>5, <1>6, DatesStay, ChannelsStay

\* It finds the link, or gives up.
LEMMA LookUpTargetKeeps ==
  ASSUME GossipInv, NEW n \in Nodes, NEW pull \in pulling[n], LookUpTarget(n, pull)
  PROVE  GossipInv'
<1> USE DEF GossipInv
<1>0. PICK send : send = [pull EXCEPT !.stage = "send"] OBVIOUS
<1>1. /\ \/ pulling' = [pulling EXCEPT ![n] = {send}] /\ pull.to \in Peers(n)
         \/ pulling' = [pulling EXCEPT ![n] = {}]
      /\ UNCHANGED registries /\ UNCHANGED <<chan, now>> /\ UNCHANGED connected
      /\ UNCHANGED <<round, serving, writing, closed, changes>>
  BY <1>0 DEF LookUpTarget, registries
<1>2. send \in Pull /\ send.to = pull.to BY <1>0 DEF Pulls, Pull
<1>3. Pulls'
  <2>1. CASE pulling' = [pulling EXCEPT ![n] = {send}] /\ pull.to \in Peers(n)
    <3>1. <<n, send.to>> \in connected BY <1>2, <2>1 DEF Peers
    <3>2. QED BY <1>1, <1>2, <2>1, <3>1, PullKeeps
  <2>2. CASE pulling' = [pulling EXCEPT ![n] = {}] BY <1>1, <2>2, PullKeeps
  <2>3. QED BY <1>1, <2>1, <2>2
<1>4. Connected' /\ Loops' BY <1>1 DEF Connected, Loops, Past
<1>5. QED BY <1>1, <1>3, <1>4, DatesStay, ChannelsStay

\* The pull is sent over its link, which is still there, or fails.
LEMMA SendPullKeeps ==
  ASSUME GossipInv, NEW n \in Nodes, NEW pull \in pulling[n], SendPull(n, pull)
  PROVE  GossipInv'
<1> USE DEF GossipInv
<1>0. PICK l, msg : l = <<n, pull.to>> /\ msg = [type |-> "Pull", body |-> pull.digest]
  OBVIOUS
<1>1. /\ pull.stage = "send" /\ Send(l, msg)
      /\ pulling' = [pulling EXCEPT ![n] = {}]
      /\ UNCHANGED registries /\ UNCHANGED now /\ UNCHANGED connected
      /\ UNCHANGED <<round, serving, writing, closed, changes>>
  BY <1>0 DEF SendPull, registries
<1>2. l \in Links BY <1>0, <1>1 DEF Pulls, Connected
<1>3. pull.digest \in LastSeen BY DEF Pulls, Pull
<1>4. msg \in Message /\ msg.type # "Push" BY <1>0, <1>3 DEF Message
<1>5. Channels' BY <1>1, <1>2, <1>4, SendEither
<1>6. Pulls' BY <1>1, PullKeeps
<1>7. Connected' /\ Loops' BY <1>1 DEF Connected, Loops, Past
<1>8. QED BY <1>1, <1>5, <1>6, <1>7, DatesStay

\* A receive loop changes what it does.
LEMMA LoopKeeps ==
  ASSUME Loops, NEW l \in Links, NEW s \in Serving,
         s.stage # "idle" => Past(s.push),
         s.stage = "send" => <<l[2], l[1]>> \in connected,
         serving' = [serving EXCEPT ![l] = s], UNCHANGED <<connected, now>>
  PROVE  Loops'
<1>1. /\ serving' \in [Links -> Serving] /\ serving'[l] = s
      /\ \A k \in Links \ {l} : serving'[k] = serving[k]
  BY DEF Loops
<1>2. \A k \in Links : /\ serving'[k].stage # "idle" => Past(serving'[k].push)
                       /\ serving'[k].stage = "send" => <<k[2], k[1]>> \in connected
  BY <1>1 DEF Loops
<1>3. QED BY <1>1, <1>2 DEF Loops, Past

\* A loop ends, and its channel with it.
LEMMA CloseReceiverKeeps ==
  ASSUME GossipInv, NEW l \in Links, CloseReceiver(l)
  PROVE  GossipInv'
<1> USE DEF GossipInv
<1>1. /\ l \in connected /\ closed' = closed \cup {l}
      /\ changes < MaxChanges /\ changes' = changes + 1
      /\ chan' = [chan EXCEPT ![l] = <<>>] /\ serving' = [serving EXCEPT ![l] = Idle]
      /\ UNCHANGED registries /\ UNCHANGED now /\ UNCHANGED <<connected, now>>
      /\ UNCHANGED <<round, pulling, writing>>
  BY DEF CloseReceiver, registries
<1>2. Channels' BY <1>1, EmptyKeeps
<1>3. Loops' BY <1>1, ServingShape, LoopKeeps
<1>4. Connected'
  <2>1. changes' \in 0 .. MaxChanges BY <1>1, SizeAssumption DEF Connected
  <2>2. QED BY <1>1, <2>1 DEF Connected
<1>5. Pulls' BY <1>1 DEF Pulls
<1>6. QED BY <1>1, <1>2, <1>3, <1>4, <1>5, DatesStay

\* handle_message of a pull, up to the look-up of the way back.
LEMMA ReceivePullKeeps ==
  ASSUME GossipInv, NEW l \in Links, ReceivePull(l)
  PROVE  GossipInv'
<1> USE DEF GossipInv
<1>0. PICK push, s : /\ push = HandleGossipPull(table[l[2]], Head(chan[l]).body)
                     /\ s = [stage |-> "lookup", push |-> push]
  OBVIOUS
<1>1. /\ chan[l] # <<>> /\ chan' = [chan EXCEPT ![l] = Tail(chan[l])]
      /\ serving' = [serving EXCEPT ![l] = s]
      /\ UNCHANGED registries /\ UNCHANGED now /\ UNCHANGED <<connected, now>>
      /\ UNCHANGED <<round, pulling, writing, closed, changes>>
  BY <1>0 DEF ReceivePull, registries
<1>2. Channels' /\ Head(chan[l]) \in Message BY <1>1, ReceiveKeeps
<1>3. push \in LastSeen /\ Past(push)
  <2>1. Head(chan[l]).body \in LastSeen BY <1>2 DEF Message
  <2>2. table[l[2]] \in LastSeen /\ Past(table[l[2]]) BY LinkEnds DEF Dates
  <2>3. now \in Nat /\ 1 <= now BY DEF Dates
  <2>4. QED BY <1>0, <2>1, <2>2, <2>3, PushFromTable
<1>4. s \in Serving /\ s.stage = "lookup" /\ s.push = push BY <1>0, <1>3 DEF Serving
<1>5. Loops' BY <1>1, <1>3, <1>4, LoopKeeps
<1>6. Connected' /\ Pulls' BY <1>1 DEF Connected, Pulls
<1>7. QED BY <1>1, <1>2, <1>5, <1>6, DatesStay

\* The way back is found, or the push is lost.
LEMMA LookUpPeerKeeps ==
  ASSUME GossipInv, NEW l \in Links, LookUpPeer(l)
  PROVE  GossipInv'
<1> USE DEF GossipInv
<1>0. PICK s : s = IF l[1] \in Peers(l[2]) THEN [serving[l] EXCEPT !.stage = "send"] ELSE Idle
  OBVIOUS
<1>1. /\ serving[l].stage = "lookup" /\ serving' = [serving EXCEPT ![l] = s]
      /\ UNCHANGED registries /\ UNCHANGED <<chan, now>> /\ UNCHANGED <<connected, now>>
      /\ UNCHANGED <<round, pulling, writing, closed, changes>>
  BY <1>0 DEF LookUpPeer, registries
<1>2. serving[l] \in [stage : {"lookup", "send"}, push : LastSeen] /\ Past(serving[l].push)
  BY <1>1, ServingShape DEF Loops
<1>3. Loops'
  <2>1. CASE l[1] \in Peers(l[2])
    <3>1. s \in Serving /\ s.push = serving[l].push
      BY <1>0, <1>2, <2>1 DEF Serving
    <3>2. <<l[2], l[1]>> \in connected BY <2>1 DEF Peers
    <3>3. QED BY <1>1, <1>2, <3>1, <3>2, LoopKeeps
  <2>2. CASE l[1] \notin Peers(l[2])
    <3>1. s \in Serving /\ s.stage = "idle" BY <1>0, <2>2, ServingShape
    <3>2. QED BY <1>1, <3>1, LoopKeeps
  <2>3. QED BY <2>1, <2>2
<1>4. Connected' /\ Pulls' BY <1>1 DEF Connected, Pulls
<1>5. QED BY <1>1, <1>3, <1>4, DatesStay, ChannelsStay

\* The push is sent over the way back, which is still there, or fails.
LEMMA SendPushKeeps ==
  ASSUME GossipInv, NEW l \in Links, SendPush(l)
  PROVE  GossipInv'
<1> USE DEF GossipInv
<1>0. PICK back, msg : back = <<l[2], l[1]>> /\ msg = [type |-> "Push", body |-> serving[l].push]
  OBVIOUS
<1>1. /\ serving[l].stage = "send" /\ Send(back, msg)
      /\ serving' = [serving EXCEPT ![l] = Idle]
      /\ UNCHANGED registries /\ UNCHANGED now /\ UNCHANGED <<connected, now>>
      /\ UNCHANGED <<round, pulling, writing, closed, changes>>
  BY <1>0 DEF SendPush, registries
<1>2. serving[l].push \in LastSeen /\ Past(serving[l].push) /\ back \in Links
  BY <1>0, <1>1, ServingShape DEF Loops, Connected
<1>3. msg \in Message /\ msg.body = serving[l].push BY <1>0, <1>2 DEF Message
<1>4. Channels' BY <1>1, <1>2, <1>3, SendEither
<1>5. Loops' BY <1>1, ServingShape, LoopKeeps
<1>6. Connected' /\ Pulls' BY <1>1 DEF Connected, Pulls
<1>7. QED BY <1>1, <1>4, <1>5, <1>6, DatesStay

\* A push is merged.
LEMMA ReceivePushKeeps ==
  ASSUME GossipInv, NEW l \in Links, ReceivePush(l)
  PROVE  /\ GossipInv'
         /\ \A n \in Nodes, p \in Agents : table[n][p] <= table'[n][p]
<1> USE DEF GossipInv
<1>0. PICK n, f : n = l[2] /\ f = MergeGossipPush(table[n], Head(chan[l]).body) OBVIOUS
<1>1. /\ chan[l] # <<>> /\ Head(chan[l]).type = "Push"
      /\ chan' = [chan EXCEPT ![l] = Tail(chan[l])]
      /\ table' = [table EXCEPT ![n] = f]
      /\ UNCHANGED now /\ UNCHANGED announcing
      /\ UNCHANGED <<connected, round, pulling, serving, writing, closed, changes>>
  BY <1>0 DEF ReceivePush
<1>2. /\ Channels' /\ Head(chan[l]) \in Message /\ Past(Head(chan[l]).body)
  BY <1>1, ReceiveKeeps
<1>3. Head(chan[l]).body \in LastSeen BY <1>2 DEF Message
<1>4. n \in Nodes /\ table[n] \in LastSeen /\ Past(table[n]) BY <1>0, LinkEnds DEF Dates
<1>5. f \in LastSeen /\ Past(f) /\ \A p \in Agents : table[n][p] <= f[p]
  BY <1>0, <1>2, <1>3, <1>4, MergeRaises
<1>6. /\ table' \in [Nodes -> LastSeen] /\ table'[n] = f
      /\ \A m \in Nodes \ {n} : table'[m] = table[m]
  BY <1>1, <1>4, <1>5 DEF Dates
<1>7. \A m \in Nodes : Past(table'[m]) BY <1>5, <1>6 DEF Dates
<1>8. Dates' BY <1>1, <1>6, <1>7 DEF Dates, Past
<1>9. Connected' /\ Pulls' /\ Loops' BY <1>1 DEF Connected, Pulls, Loops, Past
<1>10. ASSUME NEW m \in Nodes, NEW p \in Agents PROVE table[m][p] <= table'[m][p]
  <2>1. table[m][p] \in Nat BY DEF Dates, LastSeen
  <2>2. CASE m = n BY <1>5, <1>6, <2>2
  <2>3. CASE m # n BY <1>6, <2>1, <2>3
  <2>4. QED BY <2>2, <2>3
<1>11. QED BY <1>2, <1>8, <1>9, <1>10

------------------------------------------------------------------------------
\* Every step of registries and routers keeps the invariant.
LEMMA GossipStep == GossipInv /\ [Next]_vars => GossipInv'
<1> SUFFICES ASSUME GossipInv, [Next]_vars PROVE GossipInv' OBVIOUS
<1>1. CASE Announcements BY <1>1, ReadTimeKeeps, HandleAnnounceKeeps DEF Announcements
<1>2. CASE Connections
  BY <1>2, LinkEnds, CallWriterKeeps, CloseReceiverKeeps, AddPeerKeeps, RemovePeerKeeps
     DEF Connections
<1>3. CASE \E n \in Nodes, p \in Agents : RemoveAgent(n, p) BY <1>3, RemoveAgentKeeps
<1>4. ASSUME NEW n \in Nodes, Ticker(n) PROVE GossipInv'
  BY <1>4, StartRoundKeeps, InitiatePullKeeps, LookUpTargetKeeps, SendPullKeeps DEF Ticker
<1>5. ASSUME NEW l \in Links, ReceiveLoop(l) PROVE GossipInv'
  BY <1>5, ReceivePullKeeps, LookUpPeerKeeps, SendPushKeeps, ReceivePushKeeps DEF ReceiveLoop
<1>6. CASE UNCHANGED vars
  <2>1. /\ UNCHANGED registries /\ UNCHANGED <<chan, now>>
        /\ UNCHANGED <<pulling, serving, now>>
        /\ UNCHANGED <<connected, round, writing, closed, changes>>
    BY <1>6 DEF vars, registries, routers
  <2>2. Connected' BY <2>1 DEF GossipInv, Connected
  <2>3. QED BY <2>1, <2>2, DatesStay, ChannelsStay, SendersStay DEF GossipInv
<1>7. QED BY <1>1, <1>2, <1>3, <1>4, <1>5, <1>6 DEF Next

\* The invariant holds in every reachable state.
LEMMA GossipInvariant == Spec => []GossipInv
BY GossipInit, GossipStep, PTL DEF Spec

------------------------------------------------------------------------------
\* Types: channels stay within their capacity, a pull under way goes to a
\* peer that is connected, and no registry holds a date from the future.
THEOREM GossipTypes == Spec => []TypeOK
<1>1. ASSUME GossipInv PROVE TypeOK
  <2> USE <1>1 DEF GossipInv
  <2>1. now \in Nat /\ 1 <= now /\ now \in 1 .. MaxTime + 1 BY DEF Dates
  <2>2. table \in [Nodes -> [Agents -> 0 .. now - 1]]
    <3>1. ASSUME NEW n \in Nodes PROVE table[n] \in [Agents -> 0 .. now - 1]
      <4>1. table[n] \in [Agents -> Nat] /\ \A p \in Agents : table[n][p] < now
        BY DEF Dates, LastSeen, Past
      <4>2. \A p \in Agents : table[n][p] \in 0 .. now - 1 BY <2>1, <4>1
      <4>3. QED BY <4>1, <4>2
    <3>2. QED BY <3>1 DEF Dates
  <2>3. ASSUME NEW n \in Nodes PROVE announcing[n] \subseteq Agents \X (1 .. now - 1)
    <3>1. ASSUME NEW call \in announcing[n] PROVE call \in Agents \X (1 .. now - 1)
      <4>1. call \in Agents \X Nat /\ 1 <= call[2] /\ call[2] < now BY DEF Dates
      <4>2. call[2] \in 1 .. now - 1 BY <2>1, <4>1
      <4>3. QED BY <4>1, <4>2
    <3>2. QED BY <3>1
  <2>4. ASSUME NEW n \in Nodes
        PROVE  /\ pulling[n] \subseteq Pull
               /\ \A pull \in pulling[n] : pull.stage = "send" => pull.to \in Peers(n)
    <3>1. pulling[n] \subseteq Pull BY DEF Pulls
    <3>2. \A pull \in pulling[n] : pull.to \in Nodes BY <3>1 DEF Pull
    <3>3. QED BY <3>1, <3>2 DEF Pulls, Peers
  <2>5. /\ connected \subseteq Links /\ closed \subseteq connected
        /\ round \in [Nodes -> SUBSET Nodes] /\ writing \in [Nodes -> SUBSET Writer]
        /\ changes \in 0 .. MaxChanges
    BY DEF Connected
  <2>6. chan \in [Links -> Seq(Message)] /\ \A l \in Links : Len(chan[l]) <= Buffer
    BY DEF Channels
  <2>7. serving \in [Links -> Serving] /\ \A n \in Nodes : Cardinality(pulling[n]) <= 1
    BY DEF Loops, Pulls
  <2>8. QED BY <2>1, <2>2, <2>3, <2>4, <2>5, <2>6, <2>7 DEF TypeOK
<1>2. QED BY <1>1, GossipInvariant, PTL

\* Only a removal, or a call of handle_announce that read the time before a
\* newer entry came in, takes an agent's last_seen back: no pull or push does,
\* however late.
THEOREM GossipOnlyAdvances == Spec => GossipNeverRegresses
<1> DEFINE Advances ==
      \A n \in Nodes, p \in Agents :
        table'[n][p] < table[n][p] =>
          table'[n][p] = 0 \/ <<p, table'[n][p]>> \in announcing[n]
<1>1. ASSUME GossipInv, [Next]_vars PROVE Advances
  <2> SUFFICES ASSUME NEW n \in Nodes, NEW p \in Agents, table'[n][p] < table[n][p]
               PROVE  table'[n][p] = 0 \/ <<p, table'[n][p]>> \in announcing[n]
    OBVIOUS
  <2>0. table \in [Nodes -> LastSeen] /\ table[n] \in [Agents -> Nat] /\ table[n][p] \in Nat
    BY <1>1 DEF GossipInv, Dates, LastSeen
  <2>1. CASE table' = table BY <2>0, <2>1
  <2>2. ASSUME NEW m \in Nodes, NEW call \in announcing[m], HandleAnnounce(m, call)
        PROVE  <<p, table'[n][p]>> \in announcing[n]
    <3>1. call = <<call[1], call[2]>> BY <1>1 DEF GossipInv, Dates
    <3>2. table' = [table EXCEPT ![m] = [table[m] EXCEPT ![call[1]] = call[2]]]
      BY <2>2 DEF HandleAnnounce
    <3>3. n = m /\ p = call[1]
      <4>1. n # m => table'[n] = table[n] BY <2>0, <3>2
      <4>2. n = m /\ p # call[1] => table'[n][p] = table[n][p] BY <2>0, <3>2
      <4>3. QED BY <2>0, <4>1, <4>2
    <3>4. table'[n][p] = call[2] BY <2>0, <3>2, <3>3
    <3>5. QED BY <3>1, <3>3, <3>4
  <2>3. ASSUME NEW m \in Nodes, NEW q \in Agents, RemoveAgent(m, q) PROVE table'[n][p] = 0
    <3>1. table' = [table EXCEPT ![m] = [table[m] EXCEPT ![q] = 0]]
      BY <2>3 DEF RemoveAgent
    <3>2. n = m /\ p = q
      <4>1. n # m => table'[n] = table[n] BY <2>0, <3>1
      <4>2. n = m /\ p # q => table'[n][p] = table[n][p] BY <2>0, <3>1
      <4>3. QED BY <2>0, <4>1, <4>2
    <3>3. QED BY <2>0, <3>1, <3>2
  <2>4. ASSUME NEW l \in Links, ReceivePush(l) PROVE FALSE
    <3>1. table[n][p] <= table'[n][p] /\ GossipInv' BY <1>1, <2>4, ReceivePushKeeps
    <3>2. table'[n][p] \in Nat BY <3>1 DEF GossipInv, Dates, LastSeen
    <3>3. QED BY <2>0, <3>1, <3>2
  <2>5. CASE UNCHANGED vars BY <2>1, <2>5 DEF vars, registries
  <2>6. CASE Next
    <3>1. CASE Announcements
      <4>1. ASSUME NEW m \in Nodes, NEW q \in Agents, ReadTime(m, q) PROVE table' = table
        BY <4>1 DEF ReadTime
      <4>2. QED BY <2>1, <2>2, <3>1, <4>1 DEF Announcements
    <3>2. CASE Connections
      BY <2>1, <3>2 DEF Connections, CallAddPeer, CallRemovePeer, CloseReceiver, AddPeer,
                        RemovePeer, registries
    <3>3. CASE \E m \in Nodes, q \in Agents : RemoveAgent(m, q) BY <2>3, <3>3
    <3>4. CASE \E m \in Nodes : Ticker(m)
      BY <2>1, <3>4 DEF Ticker, StartRound, InitiatePull, LookUpTarget, SendPull, registries
    <3>5. CASE \E l \in Links : ReceiveLoop(l)
      BY <2>1, <2>4, <3>5 DEF ReceiveLoop, ReceivePull, LookUpPeer, SendPush, registries
    <3>6. QED BY <2>6, <3>1, <3>2, <3>3, <3>4, <3>5 DEF Next
  <2>7. QED BY <1>1, <2>5, <2>6
<1>2. QED BY <1>1, GossipInvariant, PTL DEF Spec, GossipNeverRegresses
==============================================================================
