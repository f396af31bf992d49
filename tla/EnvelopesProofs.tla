--------------------------- MODULE EnvelopesProofs ---------------------------
(***************************************************************************)
(* Envelopes are dispatched only after every check has held, and are sent  *)
(* on one hop poorer over links that have a receiver (Envelopes), for any  *)
(* number of calls, agents and meshes, whatever values the bounds have.    *)
(* The checks hold at different times, so the proof carries which of them  *)
(* a call has passed at each of its stages.                                *)
(***************************************************************************)
EXTENDS Envelopes, SequenceTheorems, TLAPS

EnvelopeCall == [at : EnvelopeStages, path : {"route", "federation"}, envelope : Bodies]
SendCall == [at : {"linked", "send", "sending"}, target : Meshes, ttl : Byte,
             received : Byte \cup {None}]
SignalCall == [at : {"signal", "signalling"}, agent : Agents]
RegisterCall == [at : {"subscribe", "unsubscribe"}, agent : Agents]
LinkCall == [at : {"link", "unlink"}, target : Remotes, to : {"open", "held", "none"}]

\* A call that sends has taken a hop if the envelope came from elsewhere.
HopTaken(call) ==
  /\ call.at = "linked" => call.received = call.ttl
  /\ call.at \in {"send", "sending"} /\ call.received # None => call.ttl < call.received
  /\ call.at = "sending" => call.target \in Remotes

GoodCall == {call \in Call \cup {Idle} : HopTaken(call)}

\* What may be on the link to mesh t.
Sent(t) ==
  {e \in [target : Meshes, ttl : Byte, received : Byte \cup {None}] :
     e.target = t /\ (e.received # None => e.ttl < e.received)}

CallsFine == calls \in [CallIds -> GoodCall]

ClockFine ==
  now \in 0 .. MaxTime /\ registry \subseteq Agents /\ authenticated \in [Agents -> Keys \cup {None}]

RelayFine ==
  relay_peers \in [Agents -> {"none", "open", "closed"}] /\ inbox \in [Agents -> 0 .. SignalCapacity]

LinkStates == {"none", "open", "held", "closed"}

\* Only a link whose receiver exists has anything under way.
LinksFine ==
  /\ link \in [Remotes -> LinkStates]
  /\ channel = [t \in Remotes |-> channel[t]]
  /\ \A t \in Remotes :
       /\ channel[t] \in Seq(Sent(t)) /\ Len(channel[t]) <= Capacity
       /\ channel[t] # <<>> => link[t] \in {"open", "held"}

Checks == {"fresh", "policy", "signature"}

\* The checks a call of route_envelope has passed when it is at a stage.
Passed(at) ==
  {k \in Checks : /\ k = "policy" => at \in {"signature", "dispatch"}
                  /\ k = "signature" => at = "dispatch"}

\* What a call has passed was seen to hold.
ChecksFine ==
  /\ seen \in [CallIds -> SUBSET Checks]
  /\ \A c \in CallIds : Routing(c) => Passed(calls[c].at) \subseteq seen[c]

RestFine == ClockFine /\ RelayFine /\ LinksFine

EnvelopesInv == CallsFine /\ RestFine /\ ChecksFine

\* Call c does something that no check is about.
QuietMove(c) ==
  \E call \in GoodCall :
    /\ calls' = [calls EXCEPT ![c] = call]
    /\ call.at \in {"policy", "signature", "dispatch"} => call.path # "route"

------------------------------------------------------------------------------
\* Where a call is says of what kind it is.
LEMMA CallShape ==
  ASSUME NEW call \in Call \cup {Idle}
  PROVE  /\ call.at \in EnvelopeStages => call \in EnvelopeCall
         /\ call.at \in {"linked", "send", "sending"} => call \in SendCall
         /\ call.at \in {"signal", "signalling"} => call \in SignalCall
         /\ call.at \in {"subscribe", "unsubscribe"} => call \in RegisterCall
         /\ call.at \in {"link", "unlink"} => call \in LinkCall
<1>1. CASE call = Idle BY <1>1 DEF Idle, EnvelopeStages
<1>2. CASE call \in EnvelopeCall BY <1>2 DEF EnvelopeCall, EnvelopeStages
<1>3. CASE call \in SendCall BY <1>3 DEF SendCall, EnvelopeStages
<1>4. CASE call \in SignalCall BY <1>4 DEF SignalCall, EnvelopeStages
<1>5. CASE call \in RegisterCall BY <1>5 DEF RegisterCall, EnvelopeStages
<1>6. CASE call \in LinkCall BY <1>6 DEF LinkCall, EnvelopeStages
<1>7. QED
  BY <1>1, <1>2, <1>3, <1>4, <1>5, <1>6
     DEF Call, EnvelopeCall, SendCall, SignalCall, RegisterCall, LinkCall

\* The other direction, for calls that begin or move on.
LEMMA CallKinds ==
  /\ Idle \in GoodCall /\ Idle.at = "idle"
  /\ EnvelopeCall \subseteq GoodCall
  /\ \A call \in SendCall : HopTaken(call) => call \in GoodCall
  /\ SignalCall \subseteq GoodCall
  /\ RegisterCall \subseteq GoodCall
  /\ LinkCall \subseteq GoodCall
<1>1. Idle \in GoodCall /\ Idle.at = "idle" BY DEF Idle, GoodCall, HopTaken
<1>2. EnvelopeCall \subseteq GoodCall
  <2>1. ASSUME NEW call \in EnvelopeCall PROVE call \in Call /\ HopTaken(call)
    <3>1. call \in Call BY DEF Call, EnvelopeCall
    <3>2. call.at \notin {"linked", "send", "sending"} BY DEF EnvelopeCall, EnvelopeStages
    <3>3. QED BY <3>1, <3>2 DEF HopTaken
  <2>2. QED BY <2>1 DEF GoodCall
<1>3. \A call \in SendCall : HopTaken(call) => call \in GoodCall
  BY DEF SendCall, Call, GoodCall
<1>4. SignalCall \subseteq GoodCall
  <2>1. ASSUME NEW call \in SignalCall PROVE call \in Call /\ HopTaken(call)
    <3>1. call \in Call BY DEF Call, SignalCall
    <3>2. call.at \notin {"linked", "send", "sending"} BY DEF SignalCall
    <3>3. QED BY <3>1, <3>2 DEF HopTaken
  <2>2. QED BY <2>1 DEF GoodCall
<1>5. RegisterCall \subseteq GoodCall
  <2>1. ASSUME NEW call \in RegisterCall PROVE call \in Call /\ HopTaken(call)
    <3>1. call \in Call BY DEF Call, RegisterCall
    <3>2. call.at \notin {"linked", "send", "sending"} BY DEF RegisterCall
    <3>3. QED BY <3>1, <3>2 DEF HopTaken
  <2>2. QED BY <2>1 DEF GoodCall
<1>6. LinkCall \subseteq GoodCall
  <2>1. ASSUME NEW call \in LinkCall PROVE call \in Call /\ HopTaken(call)
    <3>1. call \in Call BY DEF Call, LinkCall
    <3>2. call.at \notin {"linked", "send", "sending"} BY DEF LinkCall
    <3>3. QED BY <3>1, <3>2 DEF HopTaken
  <2>2. QED BY <2>1 DEF GoodCall
<1>7. QED BY <1>1, <1>2, <1>3, <1>4, <1>5, <1>6

\* The kinds again, with what HopTaken says of calls that send.
LEMMA CallAt ==
  ASSUME CallsFine, NEW c \in CallIds
  PROVE  /\ calls[c].at \in EnvelopeStages => calls[c] \in EnvelopeCall
         /\ calls[c].at \in {"linked", "send", "sending"} =>
              calls[c] \in SendCall /\ HopTaken(calls[c])
         /\ calls[c].at \in {"signal", "signalling"} => calls[c] \in SignalCall
         /\ calls[c].at \in {"subscribe", "unsubscribe"} => calls[c] \in RegisterCall
         /\ calls[c].at \in {"link", "unlink"} => calls[c] \in LinkCall
<1>1. calls[c] \in Call \cup {Idle} /\ HopTaken(calls[c]) BY DEF CallsFine, GoodCall
<1>2. QED BY <1>1, CallShape

\* A call that returns is past its checks.
LEMMA ReturnIsQuiet ==
  ASSUME NEW c \in CallIds, Return(c)
  PROVE  QuietMove(c)
<1>1. Idle.at \notin {"policy", "signature", "dispatch"} BY CallKinds
<1>2. QED BY <1>1, CallKinds DEF QuietMove, Return

\* A call of a good kind that begins.
LEMMA BeginIsQuiet ==
  ASSUME NEW c \in CallIds, NEW call \in GoodCall, Begin(c, call),
         call.at \in {"policy", "signature", "dispatch"} => call.path # "route"
  PROVE  QuietMove(c)
BY DEF QuietMove, Begin

\* After such a move the calls that are being routed are the ones that were.
LEMMA QuietMoveFine ==
  ASSUME CallsFine, NEW c \in CallIds, QuietMove(c)
  PROVE  /\ CallsFine'
         /\ \A d \in CallIds : Routing(d)' => calls'[d] = calls[d]
<1>1. PICK call \in GoodCall :
        /\ calls' = [calls EXCEPT ![c] = call]
        /\ call.at \in {"policy", "signature", "dispatch"} => call.path # "route"
  BY DEF QuietMove
<1>2. CallsFine' BY <1>1 DEF CallsFine
<1>3. calls'[c] = call /\ \A d \in CallIds \ {c} : calls'[d] = calls[d]
  BY <1>1 DEF CallsFine
<1>4. QED BY <1>1, <1>2, <1>3 DEF Routing

\* An envelope moves on to its next stage.
LEMMA EnvelopeMoves ==
  ASSUME CallsFine, NEW c \in CallIds, calls[c].at \in EnvelopeStages,
         NEW w \in EnvelopeStages, GoTo(c, w)
  PROVE  /\ CallsFine'
         /\ calls'[c] \in EnvelopeCall /\ calls'[c].at = w
         /\ calls'[c].envelope = calls[c].envelope /\ calls'[c].path = calls[c].path
         /\ \A d \in CallIds \ {c} : calls'[d] = calls[d]
<1>0. PICK call : call = [calls[c] EXCEPT !.at = w] OBVIOUS
<1>1. calls[c] \in EnvelopeCall BY CallAt
<1>2. /\ call \in EnvelopeCall /\ call.at = w
      /\ call.envelope = calls[c].envelope /\ call.path = calls[c].path
  BY <1>0, <1>1 DEF EnvelopeCall
<1>3. calls' = [calls EXCEPT ![c] = call] BY <1>0 DEF GoTo, CallsFine
<1>4. call \in GoodCall BY <1>2, CallKinds
<1>5. QED BY <1>2, <1>3, <1>4 DEF CallsFine

------------------------------------------------------------------------------
(* The checks *)

\* A call keeps what it has passed, and passes what is seen to hold.
LEMMA ChecksKept ==
  ASSUME ChecksFine, Observe,
         \A d \in CallIds : Routing(d)' =>
           \/ calls'[d] = calls[d]
           \/ Passed(calls'[d].at) \subseteq
                (IF Routing(d) THEN Passed(calls[d].at) ELSE {}) \cup Holding(d)'
  PROVE  ChecksFine'
<1>1. \A d \in CallIds : Holding(d)' \subseteq Checks BY DEF Holding, Checks
<1>2. seen' = [d \in CallIds |-> IF Routing(d)' THEN seen[d] \cup Holding(d)' ELSE {}]
  BY DEF Observe
<1>3. seen' \in [CallIds -> SUBSET Checks] BY <1>1, <1>2 DEF ChecksFine
<1>4. ASSUME NEW d \in CallIds, Routing(d)' PROVE Passed(calls'[d].at) \subseteq seen'[d]
  <2>1. seen'[d] = seen[d] \cup Holding(d)' BY <1>2, <1>4
  <2>2. CASE calls'[d] = calls[d]
    <3>1. Routing(d) BY <1>4, <2>2 DEF Routing
    <3>2. QED BY <2>1, <2>2, <3>1 DEF ChecksFine
  <2>3. CASE Passed(calls'[d].at) \subseteq
               (IF Routing(d) THEN Passed(calls[d].at) ELSE {}) \cup Holding(d)'
    BY <2>1, <2>3 DEF ChecksFine
  <2>4. QED BY <1>4, <2>2, <2>3
<1>5. QED BY <1>3, <1>4 DEF ChecksFine

\* route_envelope begins with an envelope that has not expired.
LEMMA RouteEnvelopeFine ==
  ASSUME CallsFine, ClockFine, NEW c \in CallIds, NEW e \in Bodies, RouteEnvelope(c, e)
  PROVE  /\ CallsFine'
         /\ \A d \in CallIds : Routing(d)' =>
              calls'[d] = calls[d] \/ Passed(calls'[d].at) \subseteq Holding(d)'
<1> DEFINE call == [at |-> "policy", path |-> "route", envelope |-> e]
<1>1. call \in EnvelopeCall /\ call.at = "policy" /\ call.envelope = e
  BY DEF EnvelopeCall, EnvelopeStages
<1>2. calls' = [calls EXCEPT ![c] = call] /\ now' = now /\ ~ Expired(e)
  BY DEF RouteEnvelope, Begin
<1> HIDE DEF call
<1>3. call \in GoodCall BY <1>1, CallKinds
<1>4. CallsFine' /\ calls'[c] = call /\ \A d \in CallIds \ {c} : calls'[d] = calls[d]
  BY <1>2, <1>3 DEF CallsFine
<1>5. e.expiry = None \/ now <= e.expiry
  <2>1. e.expiry \in Nat \cup {None} BY EnvelopesAssumption DEF Envelope
  <2>2. now \in Nat BY DEF ClockFine
  <2>3. QED BY <1>2, <2>1, <2>2 DEF Expired
<1>6. "fresh" \in Holding(c)' BY <1>1, <1>2, <1>4, <1>5 DEF Holding
<1>7. Passed(calls'[c].at) = {"fresh"} BY <1>1, <1>4 DEF Passed, Checks
<1>8. QED BY <1>4, <1>6, <1>7

\* enforce_policy lets an envelope through that its policy allows now.
LEMMA EnforcePolicyFine ==
  ASSUME CallsFine, NEW c \in CallIds, EnforcePolicy(c)
  PROVE  /\ CallsFine'
         /\ \A d \in CallIds : Routing(d)' =>
              \/ calls'[d] = calls[d]
              \/ Passed(calls'[d].at) \subseteq
                   (IF Routing(d) THEN Passed(calls[d].at) ELSE {}) \cup Holding(d)'
<1>1. calls[c].at = "policy" /\ UNCHANGED registry BY DEF EnforcePolicy, At
<1>2. CASE ~ PolicyAllows(calls[c].envelope)
  BY <1>2, ReturnIsQuiet, QuietMoveFine DEF EnforcePolicy
<1>3. CASE PolicyAllows(calls[c].envelope)
  <2>0. PICK e : e = calls[c].envelope OBVIOUS
  <2>1. GoTo(c, "signature") BY <1>3 DEF EnforcePolicy
  <2>2. /\ CallsFine' /\ calls'[c].at = "signature"
        /\ calls'[c].envelope = e /\ calls'[c].path = calls[c].path
        /\ \A d \in CallIds \ {c} : calls'[d] = calls[d]
    BY <1>1, <2>0, <2>1, EnvelopeMoves DEF EnvelopeStages
  <2>3. /\ e.policy = "mesh-only" => e.mesh = Here
        /\ e.policy = "private" => e.agent \in registry
    BY <1>3, <2>0 DEF PolicyAllows
  <2>4. "policy" \in Holding(c)' BY <1>1, <2>2, <2>3 DEF Holding
  <2>5. /\ Passed(calls'[c].at) = {"fresh", "policy"} /\ Passed(calls[c].at) = {"fresh"}
    BY <1>1, <2>2 DEF Passed, Checks
  <2>6. Routing(c)' => Routing(c) BY <1>1, <2>2 DEF Routing
  <2>7. QED BY <2>2, <2>4, <2>5, <2>6
<1>4. QED BY <1>2, <1>3

\* A signature is accepted if it fits the key the agent has now.
LEMMA VerifySignatureFine ==
  ASSUME CallsFine, NEW c \in CallIds, VerifySignature(c)
  PROVE  /\ CallsFine'
         /\ \A d \in CallIds : Routing(d)' =>
              \/ calls'[d] = calls[d]
              \/ Passed(calls'[d].at) \subseteq
                   (IF Routing(d) THEN Passed(calls[d].at) ELSE {}) \cup Holding(d)'
<1>1. calls[c].at = "signature" /\ UNCHANGED authenticated BY DEF VerifySignature, At
<1>2. CASE ~ SignatureAccepted(calls[c].envelope)
  BY <1>2, ReturnIsQuiet, QuietMoveFine DEF VerifySignature
<1>3. CASE SignatureAccepted(calls[c].envelope)
  <2>0. PICK e : e = calls[c].envelope OBVIOUS
  <2>1. GoTo(c, "dispatch") BY <1>3 DEF VerifySignature
  <2>2. /\ CallsFine' /\ calls'[c].at = "dispatch"
        /\ calls'[c].envelope = e /\ calls'[c].path = calls[c].path
        /\ \A d \in CallIds \ {c} : calls'[d] = calls[d]
    BY <1>1, <2>0, <2>1, EnvelopeMoves DEF EnvelopeStages
  <2>3. \A key \in {e.signature} \ {None} : authenticated[e.agent] \in {key, None}
    BY <1>3, <2>0 DEF SignatureAccepted
  <2>4. "signature" \in Holding(c)' BY <1>1, <2>2, <2>3 DEF Holding
  <2>5. /\ Passed(calls'[c].at) = Checks /\ Passed(calls[c].at) = {"fresh", "policy"}
    BY <1>1, <2>2 DEF Passed, Checks
  <2>6. Routing(c)' => Routing(c) BY <1>1, <2>2 DEF Routing
  <2>7. QED BY <2>2, <2>4, <2>5, <2>6 DEF Checks
<1>4. QED BY <1>2, <1>3

------------------------------------------------------------------------------
(* The steps that no check is about *)

\* What an action leaves alone stays fine.
LEMMA ClockStays == ClockFine /\ UNCHANGED <<now, registry, authenticated>> => ClockFine'
BY DEF ClockFine

\* The signal relay, when nothing touches it.
LEMMA RelayStays == RelayFine /\ UNCHANGED relay => RelayFine'
BY DEF RelayFine, relay

\* Links and channels that nothing touches.
LEMMA LinksStay == LinksFine /\ UNCHANGED <<link, channel>> => LinksFine'
BY DEF LinksFine

\* All that is not calls.
LEMMA RestStays ==
  RestFine /\ UNCHANGED <<now, registry, relay, authenticated, link, channel>> => RestFine'
<1> SUFFICES ASSUME RestFine, UNCHANGED <<now, registry, relay, authenticated, link, channel>>
             PROVE  RestFine'
  OBVIOUS
<1>1. UNCHANGED <<now, registry, authenticated>> /\ UNCHANGED relay /\ UNCHANGED <<link, channel>>
  OBVIOUS
<1>2. QED BY <1>1, ClockStays, RelayStays, LinksStay DEF RestFine

\* A call that begins, other than of route_envelope.
LEMMA BeginFine ==
  ASSUME RestFine, NEW c \in CallIds, NEW call \in GoodCall, Begin(c, call),
         call.at \in {"policy", "signature", "dispatch"} => call.path # "route"
  PROVE  QuietMove(c) /\ RestFine'
BY BeginIsQuiet, RestStays DEF Begin

\* federation_relay dispatches here, or prepares to send on what came, with its
\* ttl as it came.
LEMMA FederationRelayFine ==
  ASSUME RestFine, NEW c \in CallIds, NEW e \in Bodies, NEW t \in Meshes, NEW ttl \in TTLs,
         FederationRelay(c, e, t, ttl)
  PROVE  QuietMove(c) /\ RestFine'
<1>1. CASE ShouldAccept(t, ttl)
  <2> DEFINE call == [at |-> "dispatch", path |-> "federation", envelope |-> e]
  <2>1. call \in EnvelopeCall /\ call.path # "route" BY DEF EnvelopeCall, EnvelopeStages
  <2>2. Begin(c, call) BY <1>1 DEF FederationRelay
  <2> HIDE DEF call
  <2>3. call \in GoodCall BY <2>1, CallKinds
  <2>4. QED BY <2>1, <2>2, <2>3, BeginFine
<1>2. CASE ~ ShouldAccept(t, ttl)
  <2> DEFINE call == [at |-> "linked", target |-> t, ttl |-> ttl, received |-> ttl]
  <2>1. ttl \in Byte BY EnvelopesAssumption
  <2>2. call \in SendCall /\ call.at = "linked" /\ HopTaken(call)
    BY <2>1 DEF SendCall, HopTaken
  <2>3. Begin(c, call) BY <1>2 DEF FederationRelay
  <2> HIDE DEF call
  <2>4. call \in GoodCall BY <2>2, CallKinds
  <2>5. QED BY <2>2, <2>3, <2>4, BeginFine
<1>3. QED BY <1>1, <1>2

\* The other calls that users of the library and clients make.
LEMMA OtherCallsFine ==
  ASSUME RestFine, NEW c \in CallIds,
         \/ \E t \in Remotes :
              \/ Relay(c, t)
              \/ \E to \in {"open", "held"} : CallLinkMesh(c, t, to)
              \/ CallUnlinkMesh(c, t)
         \/ \E a \in Agents :
              \/ RelaySignal(c, a)
              \/ \E at \in {"subscribe", "unsubscribe"} : CallRegister(c, a, at)
  PROVE  QuietMove(c) /\ RestFine'
<1>1. ASSUME NEW t \in Remotes, Relay(c, t) PROVE QuietMove(c) /\ RestFine'
  <2> DEFINE call == [at |-> "send", target |-> t, ttl |-> DEFAULT_TTL, received |-> None]
  <2>1. call \in SendCall /\ call.at = "send" /\ HopTaken(call)
    BY EnvelopesAssumption DEF SendCall, HopTaken, Meshes
  <2>2. Begin(c, call) BY <1>1 DEF Relay
  <2> HIDE DEF call
  <2>3. call \in GoodCall BY <2>1, CallKinds
  <2>4. QED BY <2>1, <2>2, <2>3, BeginFine
<1>2. ASSUME NEW t \in Remotes, NEW at \in {"link", "unlink"},
             NEW to \in {"open", "held", "none"},
             Begin(c, [at |-> at, target |-> t, to |-> to])
      PROVE  QuietMove(c) /\ RestFine'
  <2> DEFINE call == [at |-> at, target |-> t, to |-> to]
  <2>1. call \in LinkCall /\ call.at \in {"link", "unlink"} BY DEF LinkCall
  <2>2. Begin(c, call) BY <1>2
  <2> HIDE DEF call
  <2>3. call \in GoodCall BY <2>1, CallKinds
  <2>4. QED BY <2>1, <2>2, <2>3, BeginFine
<1>3. ASSUME NEW a \in Agents, NEW at \in {"signal", "subscribe", "unsubscribe"},
             Begin(c, [at |-> at, agent |-> a])
      PROVE  QuietMove(c) /\ RestFine'
  <2> DEFINE call == [at |-> at, agent |-> a]
  <2>1. call \in SignalCall \cup RegisterCall /\ call.at \in {"signal", "subscribe", "unsubscribe"}
    BY DEF SignalCall, RegisterCall
  <2>2. Begin(c, call) BY <1>3
  <2> HIDE DEF call
  <2>3. call \in GoodCall BY <2>1, CallKinds
  <2>4. QED BY <2>1, <2>2, <2>3, BeginFine
<1>4. QED BY <1>1, <1>2, <1>3 DEF CallLinkMesh, CallUnlinkMesh, RelaySignal, CallRegister

\* dispatch_intent adds an announcing agent to the registry.
LEMMA DispatchIntentFine ==
  ASSUME CallsFine, RestFine, NEW c \in CallIds, DispatchIntent(c)
  PROVE  QuietMove(c) /\ RestFine'
<1>1. /\ calls[c].at = "dispatch" /\ UNCHANGED <<now, authenticated>>
      /\ UNCHANGED relay /\ UNCHANGED <<link, channel>>
  BY DEF DispatchIntent, At
<1>2. calls[c] \in EnvelopeCall BY <1>1, CallAt DEF EnvelopeStages
<1>3. calls[c].envelope.agent \in Agents
  BY <1>2, EnvelopesAssumption DEF EnvelopeCall, Envelope
<1>4. registry' \subseteq registry \cup {calls[c].envelope.agent} BY DEF DispatchIntent
<1>5. ClockFine' BY <1>1, <1>3, <1>4 DEF RestFine, ClockFine
<1>6. QuietMove(c)
  <2>1. CASE Return(c) BY <2>1, ReturnIsQuiet
  <2>2. CASE GoTo(c, "register")
    <3> DEFINE call == [calls[c] EXCEPT !.at = "register"]
    <3>1. call \in EnvelopeCall /\ call.at = "register"
      BY <1>2 DEF EnvelopeCall, EnvelopeStages
    <3>2. calls' = [calls EXCEPT ![c] = call] BY <2>2 DEF GoTo, CallsFine
    <3> HIDE DEF call
    <3>3. call \in GoodCall BY <3>1, CallKinds
    <3>4. QED BY <3>1, <3>2, <3>3 DEF QuietMove
  <2>3. QED BY <2>1, <2>2 DEF DispatchIntent
<1>7. QED BY <1>1, <1>5, <1>6, RelayStays, LinksStay DEF RestFine

\* A channel of the relay is replaced or dropped, and starts empty.
LEMMA SetChannelFine ==
  ASSUME RelayFine, NEW a \in Agents, NEW to \in {"none", "open", "closed"}, SetChannel(a, to)
  PROVE  RelayFine'
<1>1. 0 \in 0 .. SignalCapacity BY EnvelopesAssumption
<1>2. QED BY <1>1 DEF RelayFine, SetChannel

\* register and unregister, from route_announce or by users of the library.
LEMMA RegisterFine ==
  ASSUME CallsFine, RestFine, NEW c \in CallIds, RegisterWithRelay(c) \/ Register(c)
  PROVE  QuietMove(c) /\ RestFine'
<1>1. Return(c) /\ UNCHANGED <<now, registry, authenticated>> /\ UNCHANGED <<link, channel>>
  BY DEF RegisterWithRelay, Register
<1>2. RelayFine'
  <2>1. CASE RegisterWithRelay(c)
    <3>1. calls[c] \in EnvelopeCall
      BY <2>1, CallAt DEF RegisterWithRelay, At, EnvelopeStages
    <3>2. calls[c].envelope.agent \in Agents
      BY <3>1, EnvelopesAssumption DEF EnvelopeCall, Envelope
    <3>3. QED BY <2>1, <3>2, SetChannelFine DEF RegisterWithRelay, RestFine
  <2>2. CASE Register(c)
    <3>1. calls[c] \in RegisterCall BY <2>2, CallAt DEF Register, At
    <3>2. calls[c].agent \in Agents BY <3>1 DEF RegisterCall
    <3>3. PICK to \in {"none", "open", "closed"} : SetChannel(calls[c].agent, to)
      BY <2>2 DEF Register
    <3>4. QED BY <3>2, <3>3, SetChannelFine DEF RestFine
  <2>3. QED BY <2>1, <2>2
<1>3. QED BY <1>1, <1>2, ReturnIsQuiet, ClockStays, LinksStay DEF RestFine

\* relay_signal.
LEMMA SignalFine ==
  ASSUME CallsFine, RestFine, NEW c \in CallIds, LookUpPeer(c) \/ SendSignal(c)
  PROVE  QuietMove(c) /\ RestFine'
<1>1. CASE LookUpPeer(c)
  <2>1. RestFine' BY <1>1, RestStays DEF LookUpPeer
  <2>2. CASE Return(c) BY <2>1, <2>2, ReturnIsQuiet
  <2>3. CASE GoTo(c, "signalling")
    <3> DEFINE call == [calls[c] EXCEPT !.at = "signalling"]
    <3>1. calls[c] \in SignalCall BY <1>1, CallAt DEF LookUpPeer, At
    <3>2. call \in SignalCall /\ call.at = "signalling" BY <3>1 DEF SignalCall
    <3>3. calls' = [calls EXCEPT ![c] = call] BY <2>3 DEF GoTo, CallsFine
    <3> HIDE DEF call
    <3>4. call \in GoodCall BY <3>2, CallKinds
    <3>5. QED BY <2>1, <3>2, <3>3, <3>4 DEF QuietMove
  <2>4. QED BY <1>1, <2>2, <2>3 DEF LookUpPeer
<1>2. CASE SendSignal(c)
  <2>0. PICK a : a = calls[c].agent OBVIOUS
  <2>1. /\ Return(c) /\ UNCHANGED <<now, registry, authenticated>> /\ UNCHANGED relay_peers
        /\ UNCHANGED <<link, channel>>
    BY <1>2 DEF SendSignal
  <2>2. calls[c] \in SignalCall BY <1>2, CallAt DEF SendSignal, At
  <2>3. a \in Agents BY <2>0, <2>2 DEF SignalCall
  <2>4. inbox' \in [Agents -> 0 .. SignalCapacity]
    <3>1. CASE UNCHANGED inbox BY <3>1 DEF RestFine, RelayFine
    <3>2. CASE inbox[a] < SignalCapacity /\ inbox' = [inbox EXCEPT ![a] = inbox[a] + 1]
      <4>1. inbox[a] \in 0 .. SignalCapacity /\ SignalCapacity \in Nat
        BY <2>3, EnvelopesAssumption DEF RestFine, RelayFine
      <4>2. inbox[a] + 1 \in 0 .. SignalCapacity BY <3>2, <4>1
      <4>3. QED BY <3>2, <4>2 DEF RestFine, RelayFine
    <3>3. QED BY <1>2, <2>0, <3>1, <3>2 DEF SendSignal
  <2>5. RelayFine' BY <2>1, <2>4 DEF RestFine, RelayFine
  <2>6. QED BY <2>1, <2>5, ReturnIsQuiet, ClockStays, LinksStay DEF RestFine
<1>3. QED BY <1>1, <1>2

\* forward: the ttl is not zero when it goes down.
LEMMA ForwardFine ==
  ASSUME CallsFine, RestFine, NEW c \in CallIds, ForwardIfLinked(c)
  PROVE  QuietMove(c) /\ RestFine'
<1>1. RestFine' BY RestStays DEF ForwardIfLinked
<1>2. CASE Return(c) BY <1>1, <1>2, ReturnIsQuiet
<1>3. CASE /\ calls[c].ttl # 0
           /\ calls' = [calls EXCEPT ![c].at = "send", ![c].ttl = (@ - 1) % 256]
  <2>0. PICK n, call : n = (calls[c].ttl - 1) % 256
                       /\ call = [calls[c] EXCEPT !.at = "send", !.ttl = n]
    OBVIOUS
  <2>1. calls[c].at = "linked" /\ calls[c] \in SendCall /\ HopTaken(calls[c])
    BY CallAt DEF ForwardIfLinked, At
  <2>2. calls[c].ttl \in 0 .. 255 /\ calls[c].received = calls[c].ttl
    BY <2>1 DEF SendCall, Byte, HopTaken
  <2>3. n \in 0 .. 255 /\ n < calls[c].ttl BY <1>3, <2>0, <2>2
  <2>4. /\ call \in SendCall /\ call.at = "send" /\ call.ttl = n
        /\ call.received = calls[c].ttl
    BY <2>0, <2>1, <2>2, <2>3 DEF SendCall, Byte
  <2>5. HopTaken(call) BY <2>3, <2>4 DEF HopTaken
  <2>6. calls' = [calls EXCEPT ![c] = call] BY <1>3, <2>0 DEF CallsFine
  <2>7. call \in GoodCall BY <2>4, <2>5, CallKinds
  <2>8. QED BY <1>1, <2>4, <2>6, <2>7 DEF QuietMove
<1>4. QED BY <1>2, <1>3 DEF ForwardIfLinked, Hop

\* A call that goes on to send has found the link.
LEMMA LookUpLinkFine ==
  ASSUME CallsFine, RestFine, NEW c \in CallIds, LookUpLink(c)
  PROVE  QuietMove(c) /\ RestFine'
<1>1. RestFine' BY RestStays DEF LookUpLink
<1>2. CASE ~ Linked(calls[c].target) BY <1>1, <1>2, ReturnIsQuiet DEF LookUpLink
<1>3. CASE Linked(calls[c].target)
  <2>0. PICK call : call = [calls[c] EXCEPT !.at = "sending"] OBVIOUS
  <2>1. calls[c].at = "send" /\ calls[c] \in SendCall /\ HopTaken(calls[c])
    BY CallAt DEF LookUpLink, At
  <2>2. /\ call \in SendCall /\ call.at = "sending" /\ call.ttl = calls[c].ttl
        /\ call.received = calls[c].received /\ call.target = calls[c].target
    BY <2>0, <2>1 DEF SendCall
  <2>3. HopTaken(call) BY <1>3, <2>1, <2>2 DEF HopTaken, Linked
  <2>4. calls' = [calls EXCEPT ![c] = call] BY <1>3, <2>0 DEF LookUpLink, GoTo, CallsFine
  <2>5. call \in GoodCall BY <2>2, <2>3, CallKinds
  <2>6. QED BY <1>1, <2>2, <2>4, <2>5 DEF QuietMove
<1>4. QED BY <1>2, <1>3

\* The link to mesh t and its channel change together.
LEMMA LinkChanges ==
  ASSUME LinksFine, NEW t \in Remotes,
         NEW l \in LinkStates, NEW ch \in Seq(Sent(t)), Len(ch) <= Capacity,
         ch # <<>> => l \in {"open", "held"},
         link' = [link EXCEPT ![t] = l], channel' = [channel EXCEPT ![t] = ch]
  PROVE  LinksFine'
<1>1. link' \in [Remotes -> LinkStates] BY DEF LinksFine
<1>2. /\ link'[t] = l /\ channel'[t] = ch
      /\ \A u \in Remotes \ {t} : link'[u] = link[u] /\ channel'[u] = channel[u]
      /\ channel' = [u \in Remotes |-> channel'[u]]
  BY DEF LinksFine
<1>3. QED BY <1>1, <1>2 DEF LinksFine

\* An envelope is sent over a link that is open and has room.
LEMMA SendFine ==
  ASSUME CallsFine, RestFine, NEW c \in CallIds, SendFederationEnvelope(c)
  PROVE  QuietMove(c) /\ RestFine'
<1>0. PICK t, e : t = calls[c].target /\ e = [target |-> t, ttl |-> calls[c].ttl,
                                             received |-> calls[c].received]
  OBVIOUS
<1>1. /\ calls[c].at = "sending" /\ Return(c) /\ UNCHANGED <<now, registry, authenticated>>
      /\ UNCHANGED relay /\ UNCHANGED link
  BY DEF SendFederationEnvelope, At
<1>2. calls[c] \in SendCall /\ HopTaken(calls[c]) /\ t \in Remotes
  BY <1>0, <1>1, CallAt DEF HopTaken
<1>3. e \in Sent(t) BY <1>0, <1>1, <1>2 DEF SendCall, HopTaken, Sent
<1>4. CASE UNCHANGED channel
  BY <1>1, <1>4, ReturnIsQuiet, ClockStays, RelayStays, LinksStay DEF RestFine
<1>5. CASE Received(t) /\ HasRoom(t) /\ channel' = [channel EXCEPT ![t] = Append(channel[t], e)]
  <2>1. channel[t] \in Seq(Sent(t)) /\ Len(channel[t]) < Capacity
    BY <1>2, <1>5 DEF RestFine, LinksFine, HasRoom
  <2>2. /\ Append(channel[t], e) \in Seq(Sent(t))
        /\ Len(Append(channel[t], e)) = Len(channel[t]) + 1
    BY <1>3, <2>1, AppendProperties
  <2>3. Len(Append(channel[t], e)) <= Capacity
    <3>1. Len(channel[t]) \in Nat /\ Capacity \in Nat BY <2>1, LenProperties, EnvelopesAssumption
    <3>2. QED BY <2>1, <2>2, <3>1
  <2>4. /\ link' = [link EXCEPT ![t] = link[t]] /\ link[t] \in {"open", "held"}
        /\ link[t] \in LinkStates
    BY <1>1, <1>2, <1>5 DEF RestFine, LinksFine, Received
  <2>5. LinksFine' BY <1>2, <1>5, <2>2, <2>3, <2>4, LinkChanges DEF RestFine
  <2>6. QED BY <1>1, <2>5, ReturnIsQuiet, ClockStays, RelayStays DEF RestFine
<1>6. QED BY <1>0, <1>4, <1>5 DEF SendFederationEnvelope

\* An empty channel goes with a link in any state.
LEMMA EmptyChannel ==
  \A t : <<>> \in Seq(Sent(t)) /\ Len(<<>>) <= Capacity
BY EmptySeq, EnvelopesAssumption

\* Linking keeps what is under way; unlinking drops it.
LEMMA LinkFine ==
  ASSUME CallsFine, RestFine, NEW c \in CallIds, LinkMesh(c) \/ UnlinkMesh(c)
  PROVE  QuietMove(c) /\ RestFine'
<1>0. PICK t : t = calls[c].target OBVIOUS
<1>1. /\ calls[c].at \in {"link", "unlink"} /\ Return(c)
      /\ UNCHANGED <<now, registry, authenticated>> /\ UNCHANGED relay
  BY DEF LinkMesh, UnlinkMesh, At
<1>2. calls[c] \in LinkCall BY <1>1, CallAt
<1>3. t \in Remotes /\ calls[c].to \in LinkStates BY <1>0, <1>2 DEF LinkCall, LinkStates
<1>4. /\ link[t] \in LinkStates /\ channel[t] \in Seq(Sent(t))
      /\ Len(channel[t]) <= Capacity /\ (channel[t] # <<>> => link[t] \in {"open", "held"})
      /\ channel = [channel EXCEPT ![t] = channel[t]]
  BY <1>3 DEF RestFine, LinksFine
<1>5. LinksFine'
  <2>1. CASE LinkMesh(c)
    <3>1. PICK l : l = IF link[t] = "none" THEN calls[c].to ELSE link[t] OBVIOUS
    <3>2. l \in LinkStates /\ (channel[t] # <<>> => l \in {"open", "held"})
      BY <1>3, <1>4, <3>1
    <3>3. link' = [link EXCEPT ![t] = l] /\ channel' = [channel EXCEPT ![t] = channel[t]]
      BY <1>0, <1>4, <2>1, <3>1 DEF LinkMesh
    <3>4. QED BY <1>3, <1>4, <3>2, <3>3, LinkChanges DEF RestFine
  <2>2. CASE UnlinkMesh(c)
    <3>1. link' = [link EXCEPT ![t] = "none"] /\ channel' = [channel EXCEPT ![t] = <<>>]
      BY <1>0, <2>2 DEF UnlinkMesh
    <3>2. QED BY <1>3, <3>1, EmptyChannel, LinkChanges DEF RestFine, LinkStates
  <2>3. QED BY <2>1, <2>2
<1>6. QED BY <1>1, <1>5, ReturnIsQuiet, ClockStays, RelayStays DEF RestFine

\* Deliveries, receivers, authentications, the registry and time.
LEMMA SurroundingsFine ==
  ASSUME RestFine, Surroundings
  PROVE  calls' = calls /\ RestFine'
<1>1. ASSUME NEW t \in Remotes, Deliver(t) PROVE calls' = calls /\ RestFine'
  <2>1. /\ link[t] = "open" /\ channel[t] # <<>> /\ channel' = [channel EXCEPT ![t] = Tail(channel[t])]
        /\ UNCHANGED <<now, registry, authenticated>> /\ UNCHANGED relay
        /\ UNCHANGED link /\ UNCHANGED calls
    BY <1>1 DEF Deliver
  <2>2. /\ channel[t] \in Seq(Sent(t)) /\ Len(channel[t]) <= Capacity
    BY <2>1 DEF RestFine, LinksFine
  <2>3. Tail(channel[t]) \in Seq(Sent(t)) /\ Len(Tail(channel[t])) = Len(channel[t]) - 1
    BY <2>1, <2>2, HeadTailProperties
  <2>4. Len(Tail(channel[t])) <= Capacity
    <3>1. Len(channel[t]) \in Nat /\ Capacity \in Nat BY <2>2, LenProperties, EnvelopesAssumption
    <3>2. QED BY <2>2, <2>3, <3>1
  <2>5. link' = [link EXCEPT ![t] = "open"] BY <2>1, <2>2 DEF RestFine, LinksFine
  <2>6. LinksFine' BY <2>1, <2>3, <2>4, <2>5, LinkChanges DEF RestFine, LinkStates
  <2>7. QED BY <2>1, <2>6, ClockStays, RelayStays DEF RestFine
<1>2. ASSUME NEW t \in Remotes, StopDelivering(t) \/ DropReceiver(t)
      PROVE  calls' = calls /\ RestFine'
  <2>1. /\ link' = [link EXCEPT ![t] = "closed"] /\ channel' = [channel EXCEPT ![t] = <<>>]
        /\ UNCHANGED <<now, registry, authenticated>> /\ UNCHANGED relay /\ UNCHANGED calls
    BY <1>2 DEF StopDelivering, DropReceiver
  <2>2. LinksFine' BY <2>1, EmptyChannel, LinkChanges DEF RestFine, LinkStates
  <2>3. QED BY <2>1, <2>2, ClockStays, RelayStays DEF RestFine
<1>3. ASSUME NEW a \in Agents, ReceiveSignal(a) PROVE calls' = calls /\ RestFine'
  <2>1. /\ inbox[a] > 0 /\ inbox' = [inbox EXCEPT ![a] = inbox[a] - 1]
        /\ UNCHANGED relay_peers /\ UNCHANGED <<now, registry, authenticated>>
        /\ UNCHANGED <<link, channel>> /\ UNCHANGED calls
    BY <1>3 DEF ReceiveSignal
  <2>2. inbox[a] \in 0 .. SignalCapacity /\ SignalCapacity \in Nat
    BY EnvelopesAssumption DEF RestFine, RelayFine
  <2>3. inbox[a] - 1 \in 0 .. SignalCapacity BY <2>1, <2>2
  <2>4. RelayFine' BY <2>1, <2>3 DEF RestFine, RelayFine
  <2>5. QED BY <2>1, <2>4, ClockStays, LinksStay DEF RestFine
<1>4. ASSUME NEW a \in Agents, StopReceiving(a) PROVE calls' = calls /\ RestFine'
  <2>1. /\ SetChannel(a, "closed") /\ UNCHANGED <<now, registry, authenticated>>
        /\ UNCHANGED <<link, channel>> /\ UNCHANGED calls
    BY <1>4 DEF StopReceiving
  <2>2. RelayFine' BY <2>1, SetChannelFine DEF RestFine
  <2>3. QED BY <2>1, <2>2, ClockStays, LinksStay DEF RestFine
<1>5. ASSUME \/ TimePasses
             \/ \E a \in Agents : RegistryChanges(a) \/ \E k \in Keys : Authenticate(a, k)
      PROVE  calls' = calls /\ RestFine'
  <2>1. UNCHANGED relay /\ UNCHANGED <<link, channel>> /\ UNCHANGED calls
    BY <1>5 DEF TimePasses, RegistryChanges, Authenticate
  <2>2. CASE TimePasses
    <3>1. now \in 0 .. MaxTime /\ MaxTime \in Nat BY EnvelopesAssumption DEF RestFine, ClockFine
    <3>2. now' \in 0 .. MaxTime BY <2>2, <3>1 DEF TimePasses
    <3>3. ClockFine' BY <2>2, <3>2 DEF TimePasses, RestFine, ClockFine
    <3>4. QED BY <2>1, <3>3, RelayStays, LinksStay DEF RestFine
  <2>3. CASE \E a \in Agents : RegistryChanges(a)
    <3>1. ClockFine' BY <2>3 DEF RegistryChanges, RestFine, ClockFine
    <3>2. QED BY <2>1, <3>1, RelayStays, LinksStay DEF RestFine
  <2>4. CASE \E a \in Agents, k \in Keys : Authenticate(a, k)
    <3>1. ClockFine' BY <2>4 DEF Authenticate, RestFine, ClockFine
    <3>2. QED BY <2>1, <3>1, RelayStays, LinksStay DEF RestFine
  <2>5. QED BY <1>5, <2>2, <2>3, <2>4
<1>6. QED BY <1>1, <1>2, <1>3, <1>4, <1>5 DEF Surroundings

------------------------------------------------------------------------------
\* Before the first call.
LEMMA EnvelopesInit == Init => EnvelopesInv
<1> SUFFICES ASSUME Init PROVE EnvelopesInv OBVIOUS
<1>1. CallsFine BY CallKinds DEF Init, CallsFine
<1>2. ClockFine /\ RelayFine BY EnvelopesAssumption DEF Init, ClockFine, RelayFine
<1>3. LinksFine BY EmptyChannel DEF Init, LinksFine, LinkStates
<1>4. ChecksFine
  <2>1. \A c \in CallIds : calls[c].at = "idle" BY DEF Init, Idle
  <2>2. QED BY <2>1 DEF Init, ChecksFine, Routing
<1>5. QED BY <1>1, <1>2, <1>3, <1>4 DEF RestFine, EnvelopesInv

\* The stages of a call that no check is about.
LEMMA QuietSteps ==
  ASSUME CallsFine, RestFine, NEW c \in CallIds,
         Step(c) \/ Drop(c), ~ EnforcePolicy(c), ~ VerifySignature(c)
  PROVE  QuietMove(c) /\ RestFine'
<1>1. CASE Drop(c) BY <1>1, ReturnIsQuiet, RestStays DEF Drop
<1>2. CASE Step(c)
  BY <1>2, DispatchIntentFine, RegisterFine, SignalFine, ForwardFine, LookUpLinkFine,
     SendFine, LinkFine DEF Step
<1>3. QED BY <1>1, <1>2

\* Every step of the gateway and of its surroundings keeps the invariant.
LEMMA EnvelopesStep == EnvelopesInv /\ [Next]_vars => EnvelopesInv'
<1> SUFFICES ASSUME EnvelopesInv, [Next]_vars PROVE EnvelopesInv' OBVIOUS
<1> USE DEF EnvelopesInv
<1>1. ASSUME NEW c \in CallIds, QuietMove(c), RestFine', Observe PROVE EnvelopesInv'
  BY <1>1, QuietMoveFine, ChecksKept
<1>2. ASSUME NEW c \in CallIds, NEW e \in Bodies, RouteEnvelope(c, e), Observe
      PROVE  EnvelopesInv'
  <2>1. RestFine' BY <1>2, RestStays DEF RouteEnvelope, Begin
  <2>2. CallsFine' BY <1>2, RouteEnvelopeFine DEF RestFine
  <2>3. \A d \in CallIds : Routing(d)' =>
          calls'[d] = calls[d] \/ Passed(calls'[d].at) \subseteq Holding(d)'
    BY <1>2, RouteEnvelopeFine DEF RestFine
  <2>4. ChecksFine' BY <1>2, <2>3, ChecksKept
  <2>5. QED BY <2>1, <2>2, <2>4
<1>3. ASSUME NEW c \in CallIds, EnforcePolicy(c), Observe PROVE EnvelopesInv'
  <2>1. RestFine' BY <1>3, RestStays DEF EnforcePolicy
  <2>2. QED BY <1>3, <2>1, EnforcePolicyFine, ChecksKept
<1>4. ASSUME NEW c \in CallIds, VerifySignature(c), Observe PROVE EnvelopesInv'
  <2>1. RestFine' BY <1>4, RestStays DEF VerifySignature
  <2>2. QED BY <1>4, <2>1, VerifySignatureFine, ChecksKept
<1>5. ASSUME Surroundings, Observe PROVE EnvelopesInv'
  <2>1. calls' = calls /\ RestFine' BY <1>5, SurroundingsFine
  <2>2. CallsFine' BY <2>1 DEF CallsFine
  <2>3. ChecksFine' BY <1>5, <2>1, ChecksKept
  <2>4. QED BY <2>1, <2>2, <2>3
<1>6. ASSUME NEW c \in CallIds, Arrive(c), Observe PROVE EnvelopesInv'
  BY <1>1, <1>2, <1>6, FederationRelayFine, OtherCallsFine DEF Arrive
<1>7. ASSUME NEW c \in CallIds, Step(c) \/ Drop(c), Observe PROVE EnvelopesInv'
  BY <1>1, <1>3, <1>4, <1>7, QuietSteps
<1>8. CASE UNCHANGED vars
  <2>1. /\ UNCHANGED <<now, registry, relay, authenticated, link, channel>>
        /\ calls' = calls /\ seen' = seen
    BY <1>8 DEF vars, state
  <2>2. CallsFine' /\ ChecksFine' BY <2>1 DEF CallsFine, ChecksFine, Routing
  <2>3. QED BY <2>1, <2>2, RestStays
<1>9. QED BY <1>5, <1>6, <1>7, <1>8 DEF Next

\* The invariant holds in every reachable state.
LEMMA EnvelopesInvariant == Spec => []EnvelopesInv
BY EnvelopesInit, EnvelopesStep, PTL DEF Spec

------------------------------------------------------------------------------
\* The variables have their types, and no channel of a link or of the signal
\* relay holds more than its capacity.
THEOREM EnvelopesTypes == Spec => []TypeOK
<1>1. EnvelopesInv => TypeOK
  BY DEF EnvelopesInv, CallsFine, GoodCall, RestFine, ClockFine, RelayFine, LinksFine,
         LinkStates, TypeOK
<1>2. QED BY <1>1, EnvelopesInvariant, PTL

\* Though time passes, agents are authenticated and the registry changes while
\* route_envelope runs, an envelope it dispatches has met each of its checks
\* at some time during the call.
THEOREM DispatchedWasChecked == Spec => []RoutedWasChecked
<1>1. ASSUME EnvelopesInv PROVE RoutedWasChecked
  <2> SUFFICES ASSUME NEW c \in CallIds, calls[c].at = "dispatch", calls[c].path = "route"
               PROVE  seen[c] = Checks
    BY DEF RoutedWasChecked, At, Checks
  <2>1. Passed("dispatch") = Checks BY DEF Passed, Checks
  <2>2. Routing(c) BY DEF Routing
  <2>3. QED BY <1>1, <2>1, <2>2 DEF EnvelopesInv, ChecksFine
<1>2. QED BY <1>1, EnvelopesInvariant, PTL

\* What forward and relay put on a link goes towards its target, over a link
\* whose receiver exists, and forward has taken one from its ttl, which was not zero.
THEOREM HopsGoDown == Spec => []HopsCount
<1>1. ASSUME EnvelopesInv PROVE HopsCount
  <2> SUFFICES ASSUME NEW t \in Remotes, NEW i \in 1 .. Len(channel[t])
               PROVE  /\ channel[t][i].target = t
                      /\ Received(t)
                      /\ channel[t][i].received # None => channel[t][i].ttl < channel[t][i].received
    BY DEF HopsCount
  <2>1. channel[t] \in Seq(Sent(t)) /\ (channel[t] # <<>> => link[t] \in {"open", "held"})
    BY <1>1 DEF EnvelopesInv, RestFine, LinksFine
  <2>2. channel[t][i] \in Sent(t) BY <2>1, ElementOfSeq
  <2>3. channel[t] # <<>> BY <2>1, EmptySeq
  <2>4. QED BY <2>1, <2>2, <2>3 DEF Sent, Received
<1>2. QED BY <1>1, EnvelopesInvariant, PTL
==============================================================================
