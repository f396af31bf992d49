------------------------------ MODULE Envelopes ------------------------------
(***************************************************************************)
(* How a gateway treats envelopes: the checks and the dispatch of          *)
(* route_envelope and federation_relay (gateway/src/main.rs), the links to *)
(* other meshes over which envelopes are sent on (FederationRouter,        *)
(* p2p/src/federation.rs), and the signal relay that announcing agents are *)
(* registered with (SignalRelay, p2p/src/relay.rs).                        *)
(*                                                                         *)
(* Calls run at the same time and are split where they wait for a lock or  *)
(* for room in a channel.  Time passes, agents are authenticated and leave *)
(* the registry, links come and go, and clients disconnect in between.     *)
(* What a dispatched match request, schedule or offer does is modelled in  *)
(* Matchmaking.                                                            *)
(***************************************************************************)
EXTENDS Integers, FiniteSets, Sequences

CONSTANTS
  Here,        \* the gateway's mesh
  Remotes,     \* other meshes
  Agents,
  Keys,        \* public keys; a signature is named by the key that verifies it
  Bodies,      \* envelopes clients send
  TTLs,        \* values of ttl in envelopes that arrive
  DEFAULT_TTL,
  Capacity,    \* of a link's channel
  SignalCapacity, \* of the channel of a peer of the signal relay
  MaxTime,     \* bounds the clock
  CallIds,     \* bounds the number of calls under way
  None

Meshes == Remotes \cup {Here}

Envelope ==
  [version_ok : BOOLEAN, \* schema_version = PROTOCOL_VERSION
   intent : {"announce", "match"}, policy : {"public", "mesh-only", "private"},
   agent : Agents, mesh : Meshes, signature : Keys \cup {None}, expiry : Nat \cup {None}]

Byte == 0 .. 255

ASSUME EnvelopesAssumption ==
  /\ Here \notin Remotes
  /\ None \notin Nat \cup Keys
  /\ Bodies \subseteq Envelope
  /\ TTLs \subseteq Byte /\ DEFAULT_TTL \in Byte
  /\ Capacity \in Nat \ {0} /\ SignalCapacity \in Nat \ {0} /\ MaxTime \in Nat

VARIABLES
  now,
  registry,      \* agents in the registry
  relay_peers,   \* each agent's channel in the signal relay: "none", "open" or "closed"
  inbox,         \* number of signals in that channel
  authenticated, \* the key each agent has authenticated with, or None
  link,          \* each remote mesh: "none", "open" while a task reads its channel,
                 \* "held" while create_federation_link has the receiver and does
                 \* not read, "closed" once the receiver is gone
  channel,       \* what is under way on each link
  calls,         \* where each call is
  seen           \* history: the checks that have held at some time during a call

relay == <<relay_peers, inbox>>
state == <<now, registry, relay, authenticated, link, channel, calls>>
vars == <<state, seen>>

Idle == [at |-> "idle"]

EnvelopeStages == {"policy", "signature", "dispatch", "register"}

Call ==
  [at : EnvelopeStages, path : {"route", "federation"}, envelope : Bodies]
  \cup [at : {"linked", "send", "sending"}, target : Meshes, ttl : Byte,
        received : Byte \cup {None}]
  \cup [at : {"signal", "signalling"}, agent : Agents]
  \cup [at : {"subscribe", "unsubscribe"}, agent : Agents]
  \cup [at : {"link", "unlink"}, target : Remotes, to : {"open", "held", "none"}]

Init ==
  /\ now = 0
  /\ registry = {}
  /\ relay_peers = [a \in Agents |-> "none"]
  /\ inbox = [a \in Agents |-> 0]
  /\ authenticated = [a \in Agents |-> None]
  /\ link = [t \in Remotes |-> "none"]
  /\ channel = [t \in Remotes |-> <<>>]
  /\ calls = [c \in CallIds |-> Idle]
  /\ seen = [c \in CallIds |-> {}]

At(c, where) == calls[c].at = where
GoTo(c, where) == calls' = [calls EXCEPT ![c].at = where]
Return(c) == calls' = [calls EXCEPT ![c] = Idle]

Begin(c, call) ==
  /\ At(c, "idle")
  /\ calls' = [calls EXCEPT ![c] = call]
  /\ UNCHANGED <<now, registry, relay, authenticated, link, channel>>

------------------------------------------------------------------------------
(* The checks *)

\* In the instant of its expiry an envelope is still accepted.
Expired(e) == e.expiry # None /\ e.expiry < now

\* Mutant: a mesh-only envelope of a known agent passes from anywhere.
AllowsKnownAgents(e) ==
  \/ e.policy = "public"
  \/ e.policy = "mesh-only" /\ (e.mesh = Here \/ e.agent \in registry)
  \/ e.policy = "private" /\ e.agent \in registry

PolicyAllows(e) ==
  \/ e.policy = "public"
  \/ e.policy = "mesh-only" /\ e.mesh = Here
  \/ e.policy = "private" /\ e.agent \in registry

\* A signature counts only if its agent is authenticated.
SignatureAccepted(e) ==
  e.signature = None \/ authenticated[e.agent] \in {None, e.signature}

\* route_envelope.  An envelope of another version, or that has expired, is
\* refused at once and changes nothing.
RouteEnvelope(c, e) ==
  /\ e.version_ok
  /\ ~ Expired(e)
  /\ Begin(c, [at |-> "policy", path |-> "route", envelope |-> e])

EnforcePolicy(c) ==
  /\ At(c, "policy")
  /\ IF PolicyAllows(calls[c].envelope) THEN GoTo(c, "signature") ELSE Return(c)
  /\ UNCHANGED <<now, registry, relay, authenticated, link, channel>>

VerifySignature(c) ==
  /\ At(c, "signature")
  /\ IF SignatureAccepted(calls[c].envelope) THEN GoTo(c, "dispatch") ELSE Return(c)
  /\ UNCHANGED <<now, registry, relay, authenticated, link, channel>>

\* dispatch_intent; route_announce adds the sender to the registry first and
\* then to the signal relay.
DispatchIntent(c) ==
  /\ At(c, "dispatch")
  /\ IF calls[c].envelope.intent = "announce"
     THEN registry' = registry \cup {calls[c].envelope.agent} /\ GoTo(c, "register")
     ELSE Return(c) /\ UNCHANGED registry
  /\ UNCHANGED <<now, relay, authenticated, link, channel>>

------------------------------------------------------------------------------
(* The signal relay *)

\* The lock on its peers: a call that relays holds it for reading, one that
\* waits to register or unregister keeps new readers out.
CanReadPeers ==
  \A d \in CallIds : ~ At(d, "register") /\ ~ At(d, "subscribe") /\ ~ At(d, "unsubscribe")

CanWritePeers == \A d \in CallIds : ~ At(d, "signalling")

\* The agent's channel is replaced by a new one, or dropped; what its receiver
\* may still find in the old one is not followed.
SetChannel(a, to) ==
  /\ relay_peers' = [relay_peers EXCEPT ![a] = to]
  /\ inbox' = [inbox EXCEPT ![a] = 0]

\* route_announce drops the receiver it gets from register: the channel is
\* closed from the start, and replaces one that may be in use.
RegisterWithRelay(c) ==
  /\ At(c, "register")
  /\ CanWritePeers
  /\ SetChannel(calls[c].envelope.agent, "closed")
  /\ Return(c)
  /\ UNCHANGED <<now, registry, authenticated, link, channel>>

\* register and unregister, called by users of the library.
CallRegister(c, a, at) == Begin(c, [at |-> at, agent |-> a])

Register(c) ==
  /\ At(c, "subscribe") \/ At(c, "unsubscribe")
  /\ CanWritePeers
  /\ SetChannel(calls[c].agent, IF At(c, "subscribe") THEN "open" ELSE "none")
  /\ Return(c)
  /\ UNCHANGED <<now, registry, authenticated, link, channel>>

\* relay_signal, as far as the lock on the peers, and the look-up of the target.
RelaySignal(c, a) == Begin(c, [at |-> "signal", agent |-> a])

LookUpPeer(c) ==
  /\ At(c, "signal")
  /\ CanReadPeers
  /\ IF relay_peers[calls[c].agent] # "none" THEN GoTo(c, "signalling") ELSE Return(c)
  /\ UNCHANGED <<now, registry, relay, authenticated, link, channel>>

\* The rest of relay: fails if nobody receives, else waits for room.
SendSignal(c) ==
  LET a == calls[c].agent
  IN  /\ At(c, "signalling")
      /\ \/ relay_peers[a] = "closed" /\ UNCHANGED inbox
         \/ /\ relay_peers[a] = "open" /\ inbox[a] < SignalCapacity
            /\ inbox' = [inbox EXCEPT ![a] = @ + 1]
      /\ Return(c)
      /\ UNCHANGED <<now, registry, relay_peers, authenticated, link, channel>>

\* The owner of the receiver takes a signal, or drops the receiver.
ReceiveSignal(a) ==
  /\ inbox[a] > 0
  /\ inbox' = [inbox EXCEPT ![a] = @ - 1]
  /\ UNCHANGED <<now, registry, relay_peers, authenticated, link, channel, calls>>

StopReceiving(a) ==
  /\ relay_peers[a] = "open"
  /\ SetChannel(a, "closed")
  /\ UNCHANGED <<now, registry, authenticated, link, channel, calls>>

------------------------------------------------------------------------------
(* Federation *)

ShouldAccept(t, ttl) == t = Here /\ ttl > 0

\* federation_relay, for an envelope e inside one for mesh t.
FederationRelay(c, e, t, ttl) ==
  IF ShouldAccept(t, ttl)
  THEN /\ e.version_ok
       /\ Begin(c, [at |-> "dispatch", path |-> "federation", envelope |-> e])
  ELSE Begin(c, [at |-> "linked", target |-> t, ttl |-> ttl, received |-> ttl])

\* relay, called by users of the library.
Relay(c, t) ==
  Begin(c, [at |-> "send", target |-> t, ttl |-> DEFAULT_TTL, received |-> None])

\* The lock on the links.  A call that sends holds it for reading; one that
\* waits to link or unlink keeps new readers out.
CanRead == \A d \in CallIds : ~ At(d, "link") /\ ~ At(d, "unlink")
CanWrite == \A d \in CallIds : ~ At(d, "sending")

\* Mutant: one too many.
HasRoomForOneMore(t) == Len(channel[t]) <= Capacity

HasRoom(t) == Len(channel[t]) < Capacity

Linked(t) == t \in Remotes /\ link[t] # "none"

\* The channel's receiver exists, whether anybody reads it or not.
Received(t) == link[t] \in {"open", "held"}

\* Mutant: the ttl goes down and nobody looks whether it was zero.
HopsUnchecked(c) ==
  calls' = [calls EXCEPT ![c].at = "send", ![c].ttl = (@ - 1) % 256]

\* forward: refused with a ttl of zero, else the ttl goes down.
Hop(c) ==
  IF calls[c].ttl = 0
  THEN Return(c)
  ELSE calls' = [calls EXCEPT ![c].at = "send", ![c].ttl = (@ - 1) % 256]

\* is_linked, and forward as far as its lock.
ForwardIfLinked(c) ==
  /\ At(c, "linked")
  /\ CanRead
  /\ IF Linked(calls[c].target) THEN Hop(c) ELSE Return(c)
  /\ UNCHANGED <<now, registry, relay, authenticated, link, channel>>

\* send_federation_envelope: the link may be gone by now.
LookUpLink(c) ==
  /\ At(c, "send")
  /\ CanRead
  /\ IF Linked(calls[c].target) THEN GoTo(c, "sending") ELSE Return(c)
  /\ UNCHANGED <<now, registry, relay, authenticated, link, channel>>

\* Mutant: a call waits for room in a channel that nobody reads any more.
SendToOpen(c) ==
  LET t == calls[c].target
      sent == [target |-> t, ttl |-> calls[c].ttl, received |-> calls[c].received]
  IN  /\ At(c, "sending")
      /\ Received(t) /\ HasRoom(t)
      /\ channel' = [channel EXCEPT ![t] = Append(@, sent)]
      /\ Return(c)
      /\ UNCHANGED <<now, registry, relay, authenticated, link>>

\* Fails if the channel's receiver is gone, else waits for room.
SendFederationEnvelope(c) ==
  LET t == calls[c].target
      sent == [target |-> t, ttl |-> calls[c].ttl, received |-> calls[c].received]
  IN  /\ At(c, "sending")
      /\ \/ link[t] = "closed" /\ UNCHANGED channel
         \/ /\ Received(t) /\ HasRoom(t)
            /\ channel' = [channel EXCEPT ![t] = Append(@, sent)]
      /\ Return(c)
      /\ UNCHANGED <<now, registry, relay, authenticated, link>>

\* create_federation_link holds the receiver of its link until it returns; a
\* user of the library reads it.
CallLinkMesh(c, t, to) == Begin(c, [at |-> "link", target |-> t, to |-> to])

CallUnlinkMesh(c, t) == Begin(c, [at |-> "unlink", target |-> t, to |-> "none"])

\* A mesh that is linked already is left as it is.
LinkMesh(c) ==
  LET t == calls[c].target
  IN  /\ At(c, "link")
      /\ CanWrite
      /\ link' = [link EXCEPT ![t] = IF @ = "none" THEN calls[c].to ELSE @]
      /\ Return(c)
      /\ UNCHANGED <<now, registry, relay, authenticated, channel>>

\* The delivering task may still take what it finds in the channel; that is
\* not followed here.
UnlinkMesh(c) ==
  LET t == calls[c].target
  IN  /\ At(c, "unlink")
      /\ CanWrite
      /\ link' = [link EXCEPT ![t] = "none"]
      /\ channel' = [channel EXCEPT ![t] = <<>>]
      /\ Return(c)
      /\ UNCHANGED <<now, registry, relay, authenticated>>

------------------------------------------------------------------------------
(* Surroundings *)

\* The task that delivers to mesh t takes an envelope, or ends.
Deliver(t) ==
  /\ link[t] = "open" /\ channel[t] # <<>>
  /\ channel' = [channel EXCEPT ![t] = Tail(@)]
  /\ UNCHANGED <<now, registry, relay, authenticated, link, calls>>

StopDelivering(t) ==
  /\ link[t] = "open"
  /\ link' = [link EXCEPT ![t] = "closed"]
  /\ channel' = [channel EXCEPT ![t] = <<>>]
  /\ UNCHANGED <<now, registry, relay, authenticated, calls>>

\* create_federation_link returns and the receiver is dropped, with what was
\* sent meanwhile.
DropReceiver(t) ==
  /\ link[t] = "held"
  /\ link' = [link EXCEPT ![t] = "closed"]
  /\ channel' = [channel EXCEPT ![t] = <<>>]
  /\ UNCHANGED <<now, registry, relay, authenticated, calls>>

Authenticate(a, k) ==
  /\ authenticated' = [authenticated EXCEPT ![a] = k]
  /\ UNCHANGED <<now, registry, relay, link, channel, calls>>

\* remove_peer, or a push that brings an agent another node knows.
RegistryChanges(a) ==
  /\ registry' \in {registry \ {a}, registry \cup {a}}
  /\ UNCHANGED <<now, relay, authenticated, link, channel, calls>>

TimePasses ==
  /\ now < MaxTime
  /\ now' = now + 1
  /\ UNCHANGED <<registry, relay, authenticated, link, channel, calls>>

\* The client disconnects while its call waits.
Drop(c) ==
  /\ ~ At(c, "idle")
  /\ Return(c)
  /\ UNCHANGED <<now, registry, relay, authenticated, link, channel>>

------------------------------------------------------------------------------
Step(c) ==
  \/ EnforcePolicy(c) \/ VerifySignature(c) \/ DispatchIntent(c) \/ RegisterWithRelay(c)
  \/ ForwardIfLinked(c) \/ LookUpLink(c) \/ SendFederationEnvelope(c)
  \/ LinkMesh(c) \/ UnlinkMesh(c)
  \/ Register(c) \/ LookUpPeer(c) \/ SendSignal(c)

Arrive(c) ==
  \/ \E e \in Bodies :
       \/ RouteEnvelope(c, e)
       \/ \E t \in Meshes, ttl \in TTLs : FederationRelay(c, e, t, ttl)
  \/ \E t \in Remotes :
       \/ Relay(c, t)
       \/ \E to \in {"open", "held"} : CallLinkMesh(c, t, to)
       \/ CallUnlinkMesh(c, t)
  \/ \E a \in Agents :
       \/ RelaySignal(c, a)
       \/ \E at \in {"subscribe", "unsubscribe"} : CallRegister(c, a, at)

Surroundings ==
  \/ \E t \in Remotes : Deliver(t) \/ StopDelivering(t) \/ DropReceiver(t)
  \/ \E a \in Agents : ReceiveSignal(a) \/ StopReceiving(a)
  \/ \E a \in Agents : RegistryChanges(a) \/ \E k \in Keys : Authenticate(a, k)
  \/ TimePasses

Routing(c) == calls[c].at \in {"policy", "signature", "dispatch"} /\ calls[c].path = "route"

\* What the protocol asks of an envelope that is routed, and whether it holds now.
Holding(c) ==
  LET e == calls[c].envelope IN
    {k \in {"fresh", "policy", "signature"} :
       /\ k = "fresh" => e.expiry = None \/ now <= e.expiry
       /\ k = "policy" => /\ e.policy = "mesh-only" => e.mesh = Here
                          /\ e.policy = "private" => e.agent \in registry
       /\ k = "signature" => \A key \in {e.signature} \ {None} :
                               authenticated[e.agent] \in {key, None}}

Observe ==
  seen' = [c \in CallIds |-> IF Routing(c)' THEN seen[c] \cup Holding(c)' ELSE {}]

Next ==
  /\ \/ \E c \in CallIds : Arrive(c) \/ Step(c) \/ Drop(c)
     \/ Surroundings
  /\ Observe

\* Tokio's locks and channels serve those who wait in the order they came;
\* the tasks that deliver and receive keep reading, and a handler that has made
\* its link returns.
Fairness ==
  /\ \A c \in CallIds : SF_state(Step(c))
  /\ \A t \in Remotes : WF_state(Deliver(t)) /\ WF_state(DropReceiver(t))
  /\ \A a \in Agents : WF_state(ReceiveSignal(a))

Spec == Init /\ [][Next]_vars /\ Fairness

------------------------------------------------------------------------------
(* Properties *)

\* Types; channels hold no more than their capacity.
TypeOK ==
  /\ now \in 0 .. MaxTime
  /\ registry \subseteq Agents
  /\ relay_peers \in [Agents -> {"none", "open", "closed"}]
  /\ inbox \in [Agents -> 0 .. SignalCapacity]
  /\ authenticated \in [Agents -> Keys \cup {None}]
  /\ link \in [Remotes -> {"none", "open", "held", "closed"}]
  /\ calls \in [CallIds -> Call \cup {Idle}]
  /\ \A t \in Remotes : Len(channel[t]) <= Capacity

\* Whatever changes while route_envelope runs, an envelope reaches
\* dispatch_intent only if each of the checks (expiry, policy, signature) held
\* at some time during its call.
RoutedWasChecked ==
  \A c \in CallIds :
    At(c, "dispatch") /\ calls[c].path = "route" => seen[c] = {"fresh", "policy", "signature"}

\* An envelope that is sent on goes towards its target over an established
\* link whose receiver exists, one hop poorer than it came: the ttl has not wrapped around.
HopsCount ==
  \A t \in Remotes : \A i \in 1 .. Len(channel[t]) :
    LET e == channel[t][i] IN
    /\ e.target = t
    /\ Received(t)
    /\ e.received # None => e.ttl < e.received

\* Every call returns, though those who send and relay wait for room in a
\* channel with the lock on the links or on the relay's peers in hand, and
\* those who link, unlink, register and unregister wait for them.
CallsReturn == \A c \in CallIds : ~ At(c, "idle") ~> At(c, "idle")
==============================================================================
