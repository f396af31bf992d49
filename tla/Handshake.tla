----------------------------- MODULE Handshake -----------------------------
(***************************************************************************)
(* The challenge-response handshake of mesh peers (p2p/src/auth.rs and the *)
(* gateway's auth_hello and auth_respond).                                 *)
(*                                                                         *)
(* A session <<i, r>> is i authenticating with r: two calls, hello and     *)
(* response, each with its reply.  A caller may stop waiting for a reply   *)
(* while its request is still under way, start again, or send the same     *)
(* response again.  A peer that restarts has a new identity and forgets    *)
(* everything; a caller that outlives it goes on with the new identity and *)
(* may say that it responds with either key.                               *)
(*                                                                         *)
(* The key of a peer is the number of its restarts; a signature is the     *)
(* pair of the key that made it and the nonce it is over.  Random nonces   *)
(* never repeat and are numbered in the order in which they are made.      *)
(***************************************************************************)
EXTENDS Integers, Sequences, FiniteSets

CONSTANTS
  Peers,
  Sessions,   \* pairs of an initiator and a responder
  Gateways,   \* responders reached through the gateway's HTTP endpoints
  MaxFaults,  \* bounds timeouts, repetitions, restarts and disconnections
  None

ASSUME HandshakeAssumption ==
  /\ Sessions \subseteq {s \in Peers \X Peers : s[1] # s[2]}
  /\ Gateways \subseteq Peers
  /\ MaxFaults \in Nat
  /\ None \notin Nat

VARIABLES
  key,            \* identity of each peer
  pending,        \* pending[r][i]: the nonce r has challenged i with, or None
  authenticated,  \* authenticated[p][q]: the key p has recorded for q, or None
  recording,      \* responses that handle_response has verified, not recorded
  attempt,        \* what the caller of each session waits for
  net,            \* requests and replies under way
  faults,         \* number of faults so far
  issued,         \* history: nonce -> the hello it was made for
  accepted,       \* history: responses that led to a record
  replayed        \* history: whether a response was accepted twice

Keys == 0 .. MaxFaults

peers == <<key, pending, authenticated, recording>>
history == <<issued, accepted, replayed>>
vars == <<peers, attempt, net, faults, history>>

\* `key` and `nonce` are those of the challenge, `claims` is the public key the
\* caller has sent last.
Idle == [stage |-> "idle", call |-> 0, key |-> None, claims |-> None, nonce |-> None]

Init ==
  /\ key = [p \in Peers |-> 0]
  /\ pending = [p \in Peers |-> [q \in Peers |-> None]]
  /\ authenticated = [p \in Peers |-> [q \in Peers |-> None]]
  /\ recording = {}
  /\ attempt = [s \in Sessions |-> Idle]
  /\ net = {}
  /\ faults = 0
  /\ issued = <<>>
  /\ accepted = {}
  /\ replayed = FALSE

Initiator(m) == m.session[1]
Responder(m) == m.session[2]

\* A call is numbered with the faults before it, so that what belongs to a
\* call its caller has given up has another number.  `key` is the key of the
\* sender, with which it signs, `claims` the public key that it sends along.
Message(type, s, call, k, claims, n) ==
  [type |-> type, session |-> s, call |-> call, key |-> k, claims |-> claims, nonce |-> n]

\* The caller still waits for the reply to m.
Awaited(m) ==
  LET a == attempt[m.session]
  IN  a.stage \in {"hello", "response"} /\ a.call = m.call

\* m is used up, and its reply is sent if someone waits for it.
Answer(m, reply) == net' = (net \ {m}) \cup (IF Awaited(m) THEN {reply} ELSE {})

RepliesTo(s) == {m \in net : m.session = s /\ m.type \in {"challenge", "confirm"}}

\* The call that m belongs to ends with an error.
Fail(m) ==
  attempt' = IF Awaited(m) THEN [attempt EXCEPT ![m.session] = Idle] ELSE attempt

------------------------------------------------------------------------------
(* The four steps of the protocol *)

\* make_hello.
SendHello(s) ==
  LET k == key[s[1]]
  IN  /\ attempt[s].stage = "idle"
      /\ attempt' = [attempt EXCEPT ![s] = [Idle EXCEPT !.stage = "hello", !.call = faults,
                                                        !.claims = k]]
      /\ net' = net \cup {Message("hello", s, faults, k, k, None)}
      /\ UNCHANGED <<peers, faults, history>>

\* Mutant: a hello is refused as long as a challenge is pending.
RefusesSecondHello(m) == pending[Responder(m)][Initiator(m)] = None

AcceptsHello(m) == TRUE

\* Mutant: the nonce of a pending challenge is given out again.
PendingNonce(m) ==
  LET n == pending[Responder(m)][Initiator(m)]
  IN  IF n = None THEN Len(issued) + 1 ELSE n

FreshNonce(m) == Len(issued) + 1

\* handle_hello: a new challenge replaces the pending one.
HandleHello(m) ==
  LET i == Initiator(m)
      r == Responder(m)
      n == FreshNonce(m)
  IN  /\ m.type = "hello"
      /\ AcceptsHello(m)
      /\ pending' = [pending EXCEPT ![r][i] = n]
      /\ issued' = [k \in DOMAIN issued \cup {n} |-> IF k = n THEN m ELSE issued[k]]
      /\ Answer(m, Message("challenge", m.session, m.call, key[r], key[r], n))
      /\ UNCHANGED <<key, authenticated, recording, attempt, faults, accepted, replayed>>

\* sign_challenge; the caller keeps the challenge for the confirmation.  It
\* sends the public key of its hello along, or the one it has by now.
SignChallenge(m, claims) ==
  LET s == m.session
  IN  /\ m.type = "challenge"
      /\ claims \in {attempt[s].claims, key[s[1]]}
      /\ attempt' = [attempt EXCEPT ![s] = [stage |-> "response", call |-> faults,
                                            key |-> m.key, claims |-> claims, nonce |-> m.nonce]]
      /\ net' = (net \ {m}) \cup {Message("response", s, faults, key[s[1]], claims, m.nonce)}
      /\ UNCHANGED <<peers, faults, history>>

\* The signature <<m.key, m.nonce>> of m is one over n with the key k.
Verify(k, n, m) == m.key = k /\ m.nonce = n

\* Mutant: the pending challenge is read and not removed.
KeepChallenge(r, i) == pending[r][i]

\* Mutant: the pending challenge is emptied and not removed.
EmptyChallenge(r, i) == 0

\* What is pending once handle_response has taken the challenge.
AfterTaking(r, i) == None

\* handle_response up to the verification, with the lock on pending: the
\* challenge is used up whether or not the signature is one over it with the
\* public key of the request, whatever the hello said.
HandleResponse(m) ==
  LET i == Initiator(m)
      r == Responder(m)
      n == pending[r][i]
      ok == n # None /\ Verify(m.claims, n, m)
  IN  /\ m.type = "response"
      /\ net' = net \ {m}
      /\ pending' = [pending EXCEPT ![r][i] = IF n = None THEN None ELSE AfterTaking(r, i)]
      /\ recording' = IF ok THEN recording \cup {m} ELSE recording
      /\ IF ok THEN UNCHANGED attempt ELSE Fail(m)
      /\ UNCHANGED <<key, authenticated, faults, history>>

\* Mutant: the caller is told of a success that is not recorded.
ConfirmUnrecorded(m) ==
  /\ recording' = recording \ {m}
  /\ Answer(m, Message("confirm", m.session, m.call, key[Responder(m)], key[Responder(m)], m.nonce))
  /\ UNCHANGED <<key, pending, authenticated, attempt, faults, history>>

\* handle_response after the verification, with the lock on authenticated.
RecordPeer(m) ==
  LET i == Initiator(m)
      r == Responder(m)
      fact == [session |-> m.session, key |-> m.claims, signer |-> m.key,
               by |-> key[r], nonce |-> m.nonce]
  IN  /\ recording' = recording \ {m}
      /\ authenticated' = [authenticated EXCEPT ![r][i] = m.claims]
      /\ Answer(m, Message("confirm", m.session, m.call, key[r], key[r], m.nonce))
      /\ accepted' = accepted \cup {fact}
      /\ replayed' = (replayed \/ fact \in accepted)
      /\ UNCHANGED <<key, pending, attempt, faults, issued>>

\* handle_confirm.  auth_respond keeps the confirmation to itself and answers
\* "authenticated": its caller has nothing to verify or record.
HandleConfirm(m) ==
  LET i == Initiator(m)
      r == Responder(m)
      a == attempt[m.session]
      ok == r \in Gateways \/ Verify(a.key, a.nonce, m)
  IN  /\ m.type = "confirm"
      /\ net' = net \ {m}
      /\ attempt' = [attempt EXCEPT ![m.session] = IF ok THEN [a EXCEPT !.stage = "done"] ELSE Idle]
      /\ authenticated' = IF ok /\ r \notin Gateways
                          THEN [authenticated EXCEPT ![i][r] = a.key] ELSE authenticated
      /\ UNCHANGED <<key, pending, recording, faults, history>>

------------------------------------------------------------------------------
(* Timeouts, repetitions, restarts and disconnections *)

Fault == faults < MaxFaults /\ faults' = faults + 1

\* The caller stops waiting.
Timeout(s) ==
  /\ Fault
  /\ attempt[s].stage \in {"hello", "response"}
  /\ attempt' = [attempt EXCEPT ![s] = Idle]
  /\ net' = net \ RepliesTo(s)
  /\ UNCHANGED <<peers, history>>

\* The caller stops waiting for the reply to its response and sends it again.
Resend(s) ==
  /\ Fault
  /\ attempt[s].stage = "response"
  /\ attempt' = [attempt EXCEPT ![s].call = faults + 1]
  /\ net' = (net \ RepliesTo(s))
              \cup {Message("response", s, faults + 1, key[s[1]], attempt[s].claims,
                            attempt[s].nonce)}
  /\ UNCHANGED <<peers, history>>

\* p stops and a new MeshNode takes its place: the calls it was answering are
\* gone, and its own but for `kept`, whose callers outlive it and have yet to
\* get a challenge.
Restart(p, kept) ==
  LET own == {s \in Sessions : s[1] = p}
      cut == {m \in recording : Responder(m) = p}
      ended(s) == s \in own \ kept \/ \E m \in cut : m.session = s /\ Awaited(m)
  IN  /\ Fault
      /\ \A s \in kept : s \in own /\ attempt[s].stage = "hello"
      /\ key' = [key EXCEPT ![p] = @ + 1]
      /\ pending' = [pending EXCEPT ![p] = [q \in Peers |-> None]]
      /\ authenticated' = [authenticated EXCEPT ![p] = [q \in Peers |-> None]]
      /\ recording' = recording \ cut
      /\ attempt' = [s \in Sessions |-> IF ended(s) THEN Idle ELSE attempt[s]]
      /\ net' = net \ UNION {RepliesTo(s) : s \in own \ kept}
      /\ UNCHANGED history

\* remove_peer: p takes q for disconnected.
RemovePeer(p, q) ==
  /\ Fault
  /\ authenticated[p][q] # None
  /\ authenticated' = [authenticated EXCEPT ![p][q] = None]
  /\ attempt' = [s \in Sessions |-> IF s = <<p, q>> /\ attempt[s].stage = "done"
                                    THEN Idle ELSE attempt[s]]
  /\ UNCHANGED <<key, pending, recording, net, history>>

------------------------------------------------------------------------------
Handle(m) ==
  \/ HandleHello(m) \/ HandleResponse(m) \/ HandleConfirm(m)
  \/ \E claims \in Keys : SignChallenge(m, claims)

Next ==
  \/ \E s \in Sessions : SendHello(s) \/ Timeout(s) \/ Resend(s)
  \/ \E m \in net : Handle(m)
  \/ \E m \in recording : RecordPeer(m)
  \/ \E p \in Peers, kept \in SUBSET Sessions : Restart(p, kept)
  \/ \E p, q \in Peers : RemovePeer(p, q)

\* A caller that has not succeeded tries again, and what a caller waits for is
\* delivered and handled: otherwise it times out, which is a fault.
Progress(s) ==
  \/ SendHello(s)
  \/ \E m \in net : m.session = s /\ Awaited(m) /\ Handle(m)
  \/ \E m \in recording : m.session = s /\ RecordPeer(m)

Spec == Init /\ [][Next]_vars /\ \A s \in Sessions : WF_vars(Progress(s))

------------------------------------------------------------------------------
(* Properties *)

Nonces == DOMAIN issued
Option(S) == S \cup {None}

TypeOK ==
  /\ key \in [Peers -> Keys]
  /\ pending \in [Peers -> [Peers -> Option(Nonces)]]
  /\ authenticated \in [Peers -> [Peers -> Option(Keys)]]
  /\ attempt \in [Sessions -> [stage : {"idle", "hello", "response", "done"}, call : Keys,
                               key : Option(Keys), claims : Option(Keys),
                               nonce : Option(Nonces)]]
  /\ net \subseteq [type : {"hello", "challenge", "response", "confirm"}, session : Sessions,
                    call : Keys, key : Keys, claims : Keys, nonce : Option(Nonces)]
  /\ recording \subseteq [type : {"response"}, session : Sessions, call : Keys,
                          key : Keys, claims : Keys, nonce : Nonces]
  /\ faults \in Keys

\* A response is accepted at most once, though it may be sent and arrive
\* several times: handle_response uses its challenge up.
AcceptedOnce == ~ replayed

\* What is recorded for a peer is proved: the public key of the response is the
\* one that signed, on a challenge made for this very session, and the peer
\* had not given it up when it said the hello of that challenge.  A response
\* from before a restart never passes for one to a later challenge.  (That it
\* is the key of the hello itself is not so: handle_response keeps no record
\* of the hello.)
RecordsProvedKey ==
  \A f \in accepted :
    /\ f.key = f.signer
    /\ issued[f.nonce].session = f.session
    /\ issued[f.nonce].key <= f.key

\* A caller that has been told of its success was recorded by the responder in
\* this very handshake, with the key it still has, and has taken for the
\* responder's key the one the responder had then.
BothAgree ==
  \A s \in Sessions : LET a == attempt[s] IN
    a.stage = "done" =>
      [session |-> s, key |-> key[s[1]], signer |-> key[s[1]], by |-> a.key,
       nonce |-> a.nonce] \in accepted

\* Late and repeated requests may make an attempt fail that nothing
\* interrupts, but once the faults are over every caller succeeds.
EventuallyDone == \A s \in Sessions : <>[](attempt[s].stage = "done")
==============================================================================
