# ClawMesh: a TLA+ verification project

ClawMesh is a peer-to-peer mesh for agents: a Rust library (`p2p/`) with one
object per concern (registry, gossip, rooms, shared room state, matchmaking,
signalling, authentication, federation), and an HTTP gateway (`gateway/`) that
exposes the objects of one node. All state is in memory, behind `tokio` locks
and channels; every public operation is an `async fn` that may run at the same
time as any other. This directory holds TLA+ modules that model the parts of
it whose correctness depends on interleaving, lost or late messages and clocks,
TLC runs over small instances, and TLAPS proofs for every instance.

## 1. Inventory

| Component (source) | State | Operations | Hard behaviour | What makes it correct |
|---|---|---|---|---|
| Room state sync (`p2p/src/room_state.rs`) | per room: key -> entry, aggregate vector clock | `init_room`, `remove_room`, `set`, `build_delta`, `apply_delta`, `snapshot`, `restore_snapshot`, `room_clock` | replicas on many nodes; deltas and snapshots lost, late, repeated, reordered; wall clocks that disagree; rejoining | no write is lost; equal clocks mean equal contents; an entry only gives way to a newer one |
| Peer registry (`p2p/src/discovery.rs`) | agent -> entry with `last_seen` | `handle_announce`, `remove_peer`, digests, `handle_gossip_pull`, `merge_gossip_push`, searches | time read before the lock; stale pushes | gossip never takes an entry back; pullers catch up |
| Gossip router (`p2p/src/gossip.rs`) | connected peers, a bounded channel each | `add_peer`, `remove_peer`, `initiate_pull(_all)`, `handle_message`, periodic task | a send waits with the lock held; two loops that wait for each other; receivers that go away | rounds go on; `add_peer` and `remove_peer` return |
| Room manager (`p2p/src/room.rs`) | rooms and member sets, two locks | `create_room`, `join_room`, `leave_room` | events are emitted after the locks are released; a creation in three steps that a disconnecting client interrupts | capacity; events match membership; rooms are complete; calls return |
| Matchmaking (`p2p/src/matchmaking.rs`) | requests, slots, offers, three locks | `submit_request`, `find_matches`, `cancel_request`, `propose/confirm/decline_slot`, `submit/get/withdraw_offer`, `purge_expired` | double read in `find_matches`; time read before the lock; a purge of two maps in two steps; a schedule envelope in two steps that a disconnecting client interrupts | purging removes only what has expired; matches are compatible; an expired offer stays expired |
| Federation (`p2p/src/federation.rs`) | links, a bounded channel each | `link_mesh`, `unlink_mesh`, `relay`, `forward`, `should_accept` | TTL over hops; link removed between check and use | nothing circulates for ever; only the target mesh dispatches |
| Envelope pipeline (`gateway/src/main.rs`) | the node's objects | `route_envelope`, `enforce_policy`, `dispatch_intent`, `federation_relay` | conditions that change between check and dispatch; the federated path makes fewer checks | no expired or unauthorised envelope is dispatched |
| Signal relay (`p2p/src/relay.rs`, `signal.rs`) | agent -> bounded channel | `register`, `unregister`, `relay` | waits on a full channel with the read lock held; an announcement replaces a channel in use | every call returns; channels stay within their capacity |
| Authentication (`p2p/src/auth.rs`) | pending nonces, authenticated peers, two locks | `make_hello`, `handle_hello`, `sign_challenge`, `handle_response`, `handle_confirm`, `remove_peer` | overlapping, late and repeated handshakes of one agent; restarts with a new identity | a response counts once and for a key its sender has proved to hold; both sides agree; callers succeed in the end |
| Encrypted channel (`p2p/src/channel.rs`) | a secret and a counter per direction | `generate_ephemeral_key`, `agree`, `seal`, `open` | lost, late or bad messages leave the counters out of step | no nonce is used twice; what opens is the peer's, in order |
| Social store (`gateway/src/main.rs`) | accounts, communities, events, broadcasts, one lock | the `/v0/accounts`, `/v0/communities`, ... handlers | several maps change together | maps agree; names find accounts; only members post; feeds only grow |
| Event bus (`p2p/src/events.rs`) | a broadcast channel | `emit`, `subscribe` | slow subscribers miss events | (observability only: nothing in the repository consumes it) |
| Mesh node, crypto wrappers, validator and schemas | none of their own | | | not modelled, see section 8 |

Components meet in the gateway: `dispatch_intent` calls the registry, the relay
and the matchmaker; `create_room` calls the room manager and then the room
state; the gossip router reads and writes the registry. Between nodes, the
library produces and consumes messages (pulls, pushes, deltas, snapshots,
federation envelopes) and leaves moving them to its user, so that the models
assume of a transport only what a channel in the code guarantees.

## 2. Plan

The order is by how much harm a fault does and how hard it is to test.

1. Room state sync: `VectorClock`, `RoomStateSync`, its abstract specification
   `LWWMap`, `RoomStateLifecycle`, and the proofs. *Done.*
2. Registry and gossip: `MeshGossip` and its proofs. *Done.*
3. Matchmaking: `Matchmaking` and its proofs. *Done.*
4. Rooms: `Rooms`, the room manager with the gateway's creation of a room in
   steps, the room events, and the existence of the room's state. *Done.*
5. Federation and the envelope pipeline: `Envelopes`, the checks of
   `route_envelope` and `federation_relay` as separate steps with time, registry,
   keys and links changing in between. *Done.*
6. Signal relay: bounded channels under a read lock and re-registration, as part of
   `Envelopes`, where announcements register. *Done.*
7. Authentication and encrypted channel: `Handshake` and `EncryptedChannel`, with
   ideal signatures and AEAD. *Done.*
8. Social store: `Social`. *Done.*
9. Proofs for 2 to 8: every safety invariant and every action property of the runs
   as a theorem for all values of the constants. *Done.*
10. The content of registry entries besides `last_seen`, for entries that differ
   with the same `last_seen`. *Left.*

## 3. Modules and how they correspond to the code

**`VectorClock`** - `VectorClock` of `room_state.rs`. A clock is a function from
agents to naturals (an absent agent is 0, as in `get`). `Tick`, `Merge`,
`PartialCmpClock` are `tick`, `merge` and `partial_cmp_clock`. Counters are
`u64` in the code; the model leaves them unbounded, since 2^64 writes of one
agent are out of reach.

**`RoomStateSync`** - the stores of all nodes for one room (rooms never interact
inside a store). `entries`, `clock` and `present` are a node's `RoomState` and
its presence in `rooms`. Each operation is an action; a call that fails because
the room is missing changes nothing and has no action. `apply_delta` and
`restore_snapshot` apply entry after entry under the write lock: `ApplyDelta`
and `RestoreSnapshot` take the lock, `ApplyNext` is one turn of the loop in any
order, and `applying` is what is left. `RequestDelta` stands for the caller that
reads `room_clock` and sends it to a peer; `BuildDelta` answers with the
entries that are not covered by that clock. Messages stay in `net` when they
are delivered, so that they can be delivered again or late, and `Lose...` drops
them. Values are opaque to the code and left out. `Home` fixes the node through
which an agent writes. `Skew` bounds how far a reading of `Utc::now()` may be
from real time, which advances with every write. `written`, `heard` and a
delta's `asOf` are history variables: every write ever made, the merge of the
clocks of all states a node was brought up to date with, and the sender's clock.

**`LWWMap`** - what the store promises, with no clocks and messages: writes with
new timestamps are logged, and a replica may adopt a logged write if it is newer
than what it holds of that key.

**`RoomStateLifecycle`** - three further uses of the API: broadcasting the entry
`set` returns as a delta of its own (`BroadcastSpec`), `remove_room` at any time,
and leaving and rejoining from a snapshot of an up-to-date peer (`RejoinSpec`);
`LifecycleSpec` has all three.

**`RoomStateInvariant`**, **`RoomStateProofs`** - the inductive invariant and the
theorems about the two modules above (section 6). The other components have their
invariants and theorems in a module `...Proofs` of their own.

**`MeshGossip`** - registries and gossip routers of all nodes. A registry is a
function from agents to `last_seen`. `handle_announce` is two actions because it
reads the time before it takes the lock. A link is a bounded channel; the loop
that reads it and calls `handle_message` is run by whoever holds the receiver
and is external. `initiate_pull` builds its digest (`InitiatePull`), waits for the
read lock on `peers` and looks up its peer (`LookUpTarget`), and sends (`SendPull`).
The stage `"send"` of `pulling` and of `serving` is where the code waits for room in
a channel with that lock held. `add_peer` and `remove_peer` are two steps: the call,
in `writing` from then on, waits for the write lock and, tokio's lock being fair,
keeps new readers out; with the lock, `AddPeer` inserts a new channel or replaces the
one there was, and `RemovePeer` removes it. A link in `closed` has lost its receiver
(`CloseReceiver`), and a pull or push over it fails, as one over a link that is gone
does. Of whoever runs the loops it is assumed that one loop at a time reads a link: it
moves to the new receiver when the channel is replaced and leaves what it has not read.

**`Matchmaking`** - the three maps of `Matchmaker`. Operations that read the time
before they take a lock (`purge_expired`), or take a lock twice
(`find_matches`, and `purge_expired` for requests and then offers), are split at
those points; all others are one action. `route_schedule` proposes a slot
(`RouteSchedule`) and confirms or declines it with another lock (`FinishSchedule`).
Handlers that wait in between can be dropped there with their client (`DropFind`,
`DropSchedule`, `DropPurge`). Requests carry game, skill range and time window as
small integers.

**`Rooms`** - `RoomManager` and the gateway's `create_room`, `join_room` and
`leave_room`. `max_members` and `members` are the two maps, `tracked` the rooms
of the state store. `calls` says where each call is. `create_room` and
`join_room` wait for the members lock with the rooms lock in hand, hence the
stages `create_members` and `join_members`; the events are emitted afterwards, in
the stages `joined` and `left`. `queue` is the order in which tokio grants the rooms
lock. `Drop` is a client that disconnects: axum then drops the handler at the
`.await` where it is. `abandoned` remembers the creations dropped half-way and how far
they had come.

**`Envelopes`** - the gateway of one mesh. `route_envelope` is `RouteEnvelope`
(version and expiry), `EnforcePolicy`, `VerifySignature`, `DispatchIntent` and, for
announcements, `RegisterWithRelay`; `federation_relay` is `FederationRelay`, which
goes straight to the dispatch or on to `ForwardIfLinked`, `LookUpLink` and
`SendFederationEnvelope`. A link is `open` while somebody reads its channel. The
receiver of a link made by `create_federation_link` is `held` until the handler
returns, so that a few envelopes may be sent to nobody, and then dropped
(`DropReceiver`): the link is `closed` and every forward over it fails. A call in the
stage `sending` holds the lock on the links
for reading. `seen` is history: which demands of the protocol (in time, policy,
signature) have held at some time during a call. The signal relay is part of the
module: `relay_peers` and `inbox` are its map of channels and how full they are, in
the states `none`, `open` and `closed`. `relay_signal` is `RelaySignal`, `LookUpPeer` and
`SendSignal`, the last with the lock on the peers held; users of the library register
and unregister (`Register`), and `route_announce` registers and drops the receiver
(`RegisterWithRelay`). The handshake that changes `authenticated` (see `Handshake`)
and the tasks that read links and signals are external.

**`Handshake`** - `PeerAuthenticator` of each peer and the callers that drive it.
`pending` and `authenticated` are the two maps. `handle_response` is two actions,
because it lets go of the first lock before it waits for the second; `recording`
holds the responses in between. `attempt` is what the code leaves to its caller: which
reply it waits for, and the challenge it will need for `handle_confirm`. A caller that
gives up leaves its request in `net`, where it may arrive late; `Resend` sends the
same response again. `Restart` stands for a new `MeshNode` with a fresh identity.
A caller
that outlives its node (`kept`) signs the challenge with the new identity and may send
the public key of either with its response (`SignChallenge`, `claims`), as
`handle_response` takes any key and never compares it with the hello. Through the
gateway (`Gateways`) the second reply is a status without the
confirmation, so its caller can record nothing. A signature is the pair of key and
nonce; nonces do not repeat. `issued`, `accepted` and `replayed` are history.

**`EncryptedChannel`** - both ends of channels between two peers. Keys are numbered; a
secret is the set of the two keys it was derived from, and `Agree` uses the private
key up, as the type of `agree` demands. The counter of each direction stops before
its last value (`checked_add`). `Open` advances the counter whether or not the
ciphertext fits. Everything ever sealed stays on the wire and may arrive at either
end, in any order, repeatedly or never.

**`Social`** - `SocialStore`. One mutex covers a whole handler, so every handler is one
action. User names are words with or without capitals and surrounding spaces, and
`Normalised` is `trim().to_lowercase()`; `get_user_by_username` does not trim. A
community's text is the sequence of its segments between characters that `slugify`
turns into dashes, some of them empty. `GetUserByUsername`, `ListCommunityMembers`,
`ListEvents` and `Feed` are what the reading handlers return.

The modules `MC...` only give the constants definitions that a `.cfg` cannot
express (the functions `Home`, the sets of links, the envelopes).

## 4. Runs and what they show

| Run | Configuration | Shows |
|---|---|---|
| `room_sync` | 2 nodes, 2 agents, 2 keys (symmetric), 3 writes, 1 pull, 2 messages under way | nothing is lost, equal clocks mean equal entries, ticks are unique, clocks cover entries, the store implements `LWWMap` |
| `room_skewed_convergence` | clocks off by 1 | *violation*: equal clocks, different entries, for good |
| `room_broadcast_loss` | single-entry deltas | *violation*: a write is never delivered |
| `room_rejoin` | rejoin from a fresh snapshot | *violation*: a reused tick hides the next write |
| `gossip` | 2 nodes, one pulls, capacity 1, 2 announcements, 2 changes (an agent removed, a connection removed, replaced or closed) | no stuck round, pullers catch up, `add_peer` and `remove_peer` get their lock, no entry goes back in time |
| `gossip_deadlock` | both nodes pull | *violation*: both receive loops wait for each other for ever |
| `matchmaking` | any 2 requests, slots or offers, 4 request bodies, 4 instants, 2 calls of a kind at once | a late purge takes away only what is over; `get_offer`, `active_offers` and `purge_expired` agree at the deadline; matches have a skill level and an instant in common, whichever handlers are dropped on the way |
| `rooms` | 1 room, 2 agents, limit 1 or none, 3 calls at a time | joins that overlap keep the limit; every change of membership is announced exactly once, in whatever order; nobody is a member of a room that does not exist, and a room lacks its members or its state just as far as a creation is under way or was dropped; calls return |
| `envelopes` | 1 agent, 2 keys, 1 remote mesh, channels of capacity 1, 2 calls at a time | an envelope that is routed to a handler met each demand at some time during its call; what is sent on goes to its target with a smaller ttl; calls return although those who send and signal hold a lock while they wait for room |
| `handshake` | 2 peers, each authenticating with the other, one of them through the gateway; 2 faults (timeout, repeated response, restart, disconnection) | a response is accepted once, and what is recorded is a key that signed a challenge of this session and was not given up before its hello, whichever key the response claims; whoever is told of success was recorded in that handshake; once the faults are over every caller succeeds |
| `channel` | 2 peers, 4 keys, 3 messages per direction and session | no nonce is used twice under a secret; what opens was sealed by the peer in this session, in order and once |
| `social` | 3 users, 4 words, 2 communities, 1 event, 2 broadcasts | names find their accounts in any capitals, the maps agree, posts come from members of all their targets, feeds only grow |

Every property has a mutant: a small change to one definition, of the kind an
edit of the code could introduce, under which TLC finds the property violated.

**The violations.** Each is a disagreement between the code and a sentence in
the repository, recorded under `findings`:
- `apply_entry` prefers causal order over timestamps but uses timestamps between
  concurrent entries. With clocks that disagree this preference has cycles, and
  replicas that have seen the same writes in different orders differ for good.
- the entry `set` returns is "suitable for broadcasting as a delta", but applying
  it alone raises the receiver's clock over writes it does not have, which
  `build_delta` then leaves out.
- `restore_snapshot` ignores `snapshot.clock`: the ticks of writes that lost are
  forgotten, and an agent that rejoins uses one of them again.
- `handle_message` waits to send its push before its loop receives again. Two
  nodes that gossip with each other can fill both channels and stop.

Disagreements that take no model to see have no run. `find_matches` promises matches
"from different agents" (`matchmaking.rs:155-159`) and compares request identifiers
only. `federation_relay` looks at the version of the inner envelope only, where
`spec/protocol-v0.1.md:37` says that envelopes past their expiry "MUST be rejected". The
comment on `relay` says it returns an error if the channel is full (`relay.rs:48`); it
waits. `route_announce` drops the receiver of the channel it registers, so that
signals to an agent known by its announcement always fail, also if the agent had
registered a channel of its own before. The README and the comment on `auth_hello`
speak of a mutual handshake; `auth_respond` does not return the confirmation, and its
caller has nothing to verify. The comment on `AuthRespondRequest`
(`gateway/src/main.rs:2105-2106`) calls its key "the public key they originally sent in
the hello"; `auth_respond` and `handle_response` (`auth.rs:134-157`) keep no key of the
hello and record whatever key verifies the signature, so that a client which says hello
with one key and responds with another is recorded with the second
(`RecordsProvedKey` therefore promises possession only). A late or repeated request may make a handshake fail
that nothing else interrupts: a late hello replaces the nonce, and a late response uses
up the nonce of a newer attempt (`EventuallyDone` says that trying again helps). A
response verified before its sender restarts may be recorded after the sender has
authenticated with its new key, and brings the old key back. The comment in `federation_relay` says that "the
source mesh already enforced policy", but nothing in the repository does so
before `relay`. A creation that is dropped between the two locks leaves a room that
cannot be joined or created again, for good (`RoomsComplete` says so; no text promises
otherwise). In the same way a client that disconnects between the two steps of
`route_schedule` leaves the slot of a "confirmed" or "declined" envelope proposed. The comments on `confirm_slot` and `decline_slot`
speak of "a proposed schedule slot", and both accept a slot in any state.

## 5. Bounds and fairness

Bounds are constants of the modules and appear in guards only. For the room
state, two nodes with an agent each and two keys give concurrent writes of one
key, and writes of another key that a clock covers; three writes are needed
for a cycle of preferences and for a reused tick; messages stay in `net` when they
are delivered, which gives delay and repetition, and two at a time let one
overtake the other. What these bounds might hide (a third node that relays, more
messages) is what the proofs of section 6 exclude, for pulls and snapshots.

For gossip, a channel of capacity one is the hardest case for waiting, and the
deadlock of `gossip_deadlock` needs full channels whatever their capacity. Three
nodes are beyond TLC's reach in the time allowed. Announcements
are bounded by `MaxTime`, and by `MaxChanges` the removals of agents, the removals
and replacements of links that work, and the receivers dropped, so that
`PullersCatchUp` speaks of what happens once they stop; making a link that is missing
or closed is not bounded. At most one writer at a time waits for the lock of a node: a
second one behind it would see what it sees when it calls later.

For matchmaking, requests, slots and offers share one bound: they interact in
pairs of a kind at most, and in a purge of both maps. The instants suffice for a deadline to lie before, at and
after each of the times an operation reads.

For rooms, three calls let one hold a lock, one wait and one overtake; a limit of one
with two agents reaches the limit. Rooms do not interact except through the
lock, which one room exercises as well. For envelopes, the calls meet in the
registry, the keys and the links, where two at a time suffice; a signature by `k1`
is checked against no key, the same and another; a ttl of 0 and 1 are the edge
cases, and whether 255 follows 0 needs no more. One agent suffices for the signal
relay, whose peers share nothing but the lock.

For the handshake, two faults are enough for a request that is late twice, for a
repeated response with a restart, and for a restart of either side in the middle of
an attempt; attempts and nonces need no bound, since every attempt that fails uses up
a fault or what an earlier fault left under way. For the channel, four keys give each
peer two, hence two sessions, crossed ones included, and messages of one that arrive in
the other; a counter of 3 lets the order of three messages and the end of the counter be
seen. For the social store, three users are an owner, a member and a stranger, two
communities a broadcast to two targets; two of the four texts have one slug and one has
none.

No run of the room state checks liveness: nothing in the repository schedules
the exchange of deltas, so no fairness is justified. In `MeshGossip` the
scheduling is in the code (`spawn_periodic_gossip`) and in tokio: weak fairness of
each puller's task, each receive loop, the calls of `handle_announce`, `add_peer` and
`remove_peer` that have begun, and, as an assumption about users, the calls that make
a missing or closed link again. `RoundsGoOn`, `PullersCatchUp` and `WritersFinish` rest
on this. For `gossip_deadlock`, where channels are contended, `FairSpec` adds strong
fairness of the pullers and loops, because tokio's locks and channels serve waiting
tasks in order of arrival: what the run finds is no starvation but a state in which
nothing can move. In
`Rooms` the queue of the lock is part of the model and weak fairness of each call
suffices. In `Envelopes` calls are strongly fair for the reason given for gossip,
the tasks that read the links weakly fair, as `link_mesh` asks of its caller, and a
handler that has made a link returns and drops its receiver;
they may stop reading for good, after which sends fail and nothing waits; the same
goes for those who receive signals. In `Handshake` a caller that has not succeeded
tries again, and what it waits for arrives and is handled, unless it times out, which
is a fault; requests nobody waits for need not arrive. That callers try again is an
assumption about them, since the library leaves it to them. A client
may always disconnect, but never has to.

## 6. What is proved

`RoomStateProofs`, for all finite or infinite sets of nodes and keys, all sets of
agents (naturals: the code compares identifiers), all bounds, any `Home`:

| Theorem | Assumes | States |
|---|---|---|
| `TypeCorrect` | - | `Spec => []TypeOK`; a replica is a map |
| `CausalInvariant` | - | `Spec => []CausalInv` |
| `TicksAndClocks` | - | `Spec => [](UniqueTick /\ ClockCoversEntries)` |
| `NothingLost` | `Skew = 0` | `Spec => []NoLostWrite` |
| `ReplicasConverge` | `Skew = 0` | `Spec => []Convergence` |
| `ImplementsLWW` | `Skew = 0` | `Spec => LastWriterWins`, the refinement |

`Skew = 0` is necessary: `room_skewed_convergence` is a counterexample without it.

*The argument.* None of the properties is inductive. `build_delta` leaves out what
the receiver's clock covers, which is only right if the receiver has it, and that
has to stay true although the answer may arrive after the receiver has moved on,
or never. The invariant has two layers. `CausalInv` holds for any skew: entries
come from calls of `set`; an agent's own node is ahead of everybody in the
agent's component (`HomeLeads`), so a new tick is new everywhere; clocks of
entries, rooms, pulls and messages bound one another (`ClocksNested`); and every
clock is causally closed (`CausallyClosed`): if it covers a write by its author's
tick, it is above the whole clock of that write. Closure turns the comparison of
vectors that the code makes into the comparison of one component.
`CompleteInv` adds, for exact clocks, that timestamps agree with causality
(`TimesAgree`), that a node holds, or still has in its loop, something at least as
new as every write it has heard of (`NodesComplete`), and that a message carries
everything its sender's clock covered except what lies below the clock it
answers (`MessagesComplete`). Applying a message then completes its receiver,
because the receiver's own clock has only grown since. `RoomStateSync.cfg` checks
the consequences; the proof has a lemma for every action and layer. Convergence
follows: with timestamps unique, two nodes that cover the same writes hold the
newest of each key. The refinement follows from `WinsIsNewer`: with exact clocks
the mixed preference of `apply_entry` is comparison of timestamps.

At the end of `RoomStateProofs`, with nothing assumed about skew:

| Theorem | States |
|---|---|
| `LifecycleCovered` | `LifecycleSpec => [](TypeOK /\ ClockCoversEntries)` |

The two violations about broadcasting and rejoining show what `LifecycleSpec` loses;
the theorem says what it keeps. `TypeOK /\ ClockCoversEntries` is inductive, since
`ApplyEntryEffect`, the lemma on `apply_entry`, asks no more of a replica; the
layers above it are not kept (a rejoining node falls behind in its own agents'
components, against `HomeLeads`).

`MatchmakingProofs`, for any bodies, agents, identifiers and bounds:

| Theorem | States |
|---|---|
| `PurgeIsSafe` | `Spec => []NothingVanishes` |
| `ExpiryStands` | `Spec => []ExpiryIsFinal` |
| `MatchmakingTypes` | `Spec => []TypeOK` |
| `MatchesCanMeet` | `Spec => []MatchesHaveCommonGround` |

The first two rest on `ExpiryInv`, which adds that deadlines are times, that what is
stored was submitted, and that no purge under way works with a time ahead of the
clock. Both need time that does not go back; a wall clock that is set back would
bring an expired offer to life again. The others rest on `MatchmakingInv`:
identifiers are given in order, so that a new one is free in its map; and the two
requests of a match passed the tests of `find_matches`, as they were submitted. That two windows and two ranges that overlap have an element in common
(`WindowsShareInstant`, `RangesShareLevel`) needs the later start and the greater
minimum as witness. `BodiesAssumption` takes levels of skill for integers; what is
used of them is that they are ordered, as finite floating-point numbers are. (A level
that is not a number matches nothing in the code.)

`MeshGossipProofs`, for any network of nodes, agents, capacity and bounds:

| Theorem | States |
|---|---|
| `GossipTypes` | `Spec => []TypeOK`: channels keep within their capacity, nothing is known from the future |
| `GossipOnlyAdvances` | `Spec => GossipNeverRegresses`, an action property |

`GossipInv` follows the dates of all that is under way (announcements, digests,
pushes in channels and in the loops that answer), and says that a task that waits to
send does so over a link that is still connected, though its receiver may be gone,
which is what its read lock on the peers is for. `merge_gossip_push` compares under the write lock, and so the action
property holds however old the push is. It says nothing about `handle_announce`,
which does not compare: an announcement may take an entry back to the time it had read.

`RoomsProofs`, for any rooms, agents and limits and finitely many calls at a time:

| Theorem | States |
|---|---|
| `RoomsTypes` | `Spec => []TypeOK`: also, the queue holds the calls that wait, each once |
| `LimitsHold` | `Spec => []WithinLimit` |
| `EventsAgree` | `Spec => []EventsAddUp` |
| `RoomsAreComplete` | `Spec => []RoomsComplete` |

`RoomsComplete` says when the two maps and the store disagree: only while a creation is
half done, or because it was dropped there. `OneCreates` is the strengthening: one call at most is between the two maps of
`create_room`, and the room it is about has no members yet. This is what the lock on
the rooms protects, and without it the insertion in the second map could empty a room
that others have joined. `EventsAddUp` counts calls, hence the assumption that they
are finitely many and the lemmas on how one call's move changes a count. The
other assumptions only keep `NoLimit` and `Absent` (the two uses of `Option`)
apart from each other, from numbers and from sets of agents.

`EnvelopesProofs`, for any calls, agents, keys, meshes, envelopes and capacities:

| Theorem | States |
|---|---|
| `EnvelopesTypes` | `Spec => []TypeOK` |
| `DispatchedWasChecked` | `Spec => []RoutedWasChecked` |
| `HopsGoDown` | `Spec => []HopsCount` |

The checks hold at different times, so the invariant records for every stage of
`route_envelope` which of them its call has passed (`Passed`), and that what was passed
was seen to hold. For hops, it says at which stages the hop has been taken
(`HopTaken`): the envelope at `linked` has the ttl it came with, and from `send` on a
smaller one, since `forward` returns before the subtraction when the ttl is zero. Only
a link whose receiver exists has anything in its channel.

`HandshakeProofs`, for any peers, sessions, gateways and number of faults:

| Theorem | States |
|---|---|
| `HandshakeTypes` | `Spec => []TypeOK` |
| `NoReplay` | `Spec => []AcceptedOnce` |
| `RecordsArePossession` | `Spec => []RecordsProvedKey` |
| `HandshakeAgreement` | `Spec => []BothAgree` |

Two arguments meet in `HandshakeInv`. A nonce is in one place at a time: pending, then
in the response that is being recorded between the two locks, then accepted
(`NonceInOnePlace`); removing the pending challenge in the step that verifies it is
what excludes a replay. And of all the messages of a session, late and repeated ones
included, one at most belongs to the attempt its caller is in (`OneAwaited`), so that a
reply answers the last request and agrees with what the caller knows (`AwaitedFits`).
`ResponderKeepsKey` carries agreement through restarts: a nonce that may still be
accepted was made by a responder that has not restarted since. `ResponsesAnnounced`
says what a response is worth: it is about a nonce of its own session, made for a
key no newer than the one that signs, and once verified it claims that key. Nonces that do not
repeat and signatures that cannot be forged are assumptions of the model.

`EncryptedChannelProofs`, for any number of keys and any size of the counter:

| Theorem | States |
|---|---|
| `ChannelTypes` | `Spec => []TypeOK` |
| `NoNonceReuse` | `Spec => []NonceNeverReused` |
| `OpensOnlyPeers` | `Spec => []OpensWhatPeerSealed` |
| `OpensOnceInOrder` | `Spec => OpensInOrder`, an action property |

A counter that starts again is harmless because `agree` uses the private key up
(`PrivateUnused`): a peer that starts a channel has a secret it has never sealed with.
Under one secret its counter is past all it has sealed (`SealedBefore`), and the
prefixes keep the two directions apart.

`SocialProofs`, for any words, texts and bounds:

| Theorem | States |
|---|---|
| `SocialTypes` | `Spec => []TypeOK` |
| `AccountsAreFound` | `Spec => []AccountsCanBeFound` |
| `StoreIsConsistent` | `Spec => []StoreAgrees` |
| `PostersAreMembers` | `Spec => []PostersBelong` |
| `FeedsGrow` | `Spec => FeedGrows`, an action property |

`SocialInv` says that each map has exactly the ids given so far (`IdsGiven`), that
`users` and `usersByUsername` are inverse to each other on normalised names
(`NamesInverse`), that members are users, with the owner among them and alone where a
community is by invitation (`MembersKnown`), and that posts are by members.

## 7. What is only model-checked

Liveness under fairness, which is outside the prover's reach: `RoundsGoOn`,
`PullersCatchUp`, `WritersFinish`, `CallsReturn` (of `Rooms` and of `Envelopes`) and
`EventuallyDone`; and the violations, which are about single behaviours. All other
properties of the runs are also theorems, so that for them the bounds of section 5
matter only in that TLC confirms the statements before, and the mutants after, the proof.

## 8. What is not modelled

- Crypto wrappers (`crypto.rs`): calls into `ring` and `base64`.
- Validator and schemas: declarative JSON Schema and third-party validators.
- Mesh node (`node.rs`), HTTP layout, tracing, ICE helpers of `signal.rs`:
  constructors, accessors and formatting.
- Event notifications other than those of rooms (`PatchReady` and the like):
  nothing consumes them.
- Social store: display names, titles, messages and times, which the code only stores
  and returns. Federation, matchmaking and registry listings: pure reads.
- Peers that sign with keys that are not theirs, and guesses at keys or signatures:
  signatures and the cipher are taken to be ideal.
