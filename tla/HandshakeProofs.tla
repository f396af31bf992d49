--------------------------- MODULE HandshakeProofs ---------------------------
(***************************************************************************)
(* The handshake is safe for any number of peers, sessions and faults      *)
(* (Handshake): a response is accepted once, with a key that signed it and *)
(* is no older than its hello, and a caller that succeeds agrees with its  *)
(* responder.                                                              *)
(*                                                                         *)
(* Two arguments meet.  A nonce is in one place at a time: it is pending,  *)
(* then in the response that is being recorded, then in what was accepted. *)
(* And of the messages of a session at most one belongs to the call that   *)
(* its caller waits for, so that a reply always answers the last request.  *)
(***************************************************************************)
EXTENDS Handshake, SequenceTheorems, TLAPS

InFlight == net \cup recording

\* The nonce n was made for a hello of session s, with the key k or an older one.
Announced(n, s, k) == n \in Nonces /\ issued[n].session = s /\ issued[n].key <= k

\* Types; keys and call numbers count faults.
Types ==
  /\ TypeOK
  /\ \A p \in Peers : key[p] <= faults
  /\ \A s \in Sessions : attempt[s].call <= faults
  /\ issued \in Seq([type : {"hello"}, session : Sessions, call : Keys, key : Keys, claims : Keys, nonce : Nat \cup {None}])
  /\ accepted \subseteq [session : Sessions, key : Keys, signer : Keys, by : Keys, nonce : Nonces]
  /\ replayed \in BOOLEAN

\* A message of a call that was given up has an older number, and no two
\* messages belong to the call its caller waits for.
OneAwaited ==
  /\ net \cap recording = {}
  /\ \A m \in InFlight : Awaited(m) \/ m.call < faults
  /\ \A m, x \in InFlight : m.session = x.session /\ Awaited(m) /\ Awaited(x) => m = x
  /\ \A m \in net : m.type \in {"challenge", "confirm"} => Awaited(m)

\* The message a caller waits to see answered, or the reply it waits for, fits
\* what the caller knows and the key it still has.
Fits(m) ==
  LET s == m.session
      a == attempt[s]
      k == key[s[1]]
  IN  /\ m.type = "hello" => a.stage = "hello" /\ m.key <= k
      /\ m.type = "challenge" => a.stage = "hello" /\ Announced(m.nonce, s, k)
      /\ m.type = "response" => a.stage = "response" /\ m.key = k /\ m.nonce = a.nonce
      /\ m.type = "confirm" =>
           /\ a.stage = "response" /\ m.nonce = a.nonce /\ m.key = a.key
           /\ [session |-> s, key |-> k, signer |-> k, by |-> m.key,
               nonce |-> m.nonce] \in accepted

AwaitedFits == \A m \in InFlight : Awaited(m) => Fits(m)

\* Responses, and attempts that have sent one, are about a nonce that was made
\* for their session and for a key no newer than theirs; a response that was
\* verified is signed with the key it claims.
ResponsesAnnounced ==
  /\ \A m \in InFlight : m.type = "response" => Announced(m.nonce, m.session, m.key)
  /\ \A s \in Sessions : attempt[s].stage = "response" =>
       Announced(attempt[s].nonce, s, key[s[1]])
  /\ \A m \in recording : m.claims = m.key
  /\ \A s \in Sessions : attempt[s].stage = "response" => attempt[s].claims \in Keys

\* A nonce is pending, or being recorded, or accepted, and once only.
NonceInOnePlace ==
  /\ \A r, i \in Peers : pending[r][i] # None =>
       /\ pending[r][i] \in Nonces /\ issued[pending[r][i]].session = <<i, r>>
       /\ \A f \in recording \cup accepted : f.nonce # pending[r][i]
  /\ \A m \in recording :
       /\ \A x \in recording : x.nonce = m.nonce => x = m
       /\ \A f \in accepted : f.nonce # m.nonce

\* A nonce that may still be accepted was made by a responder that has not
\* restarted since.
Live(n) == (\E r, i \in Peers : pending[r][i] = n) \/ \E m \in recording : m.nonce = n

ResponderKeepsKey ==
  /\ \A m \in net : m.type = "challenge" /\ Live(m.nonce) => m.key = key[m.session[2]]
  /\ \A s \in Sessions : attempt[s].stage = "response" /\ Live(attempt[s].nonce) =>
       attempt[s].key = key[s[2]]

HandshakeInv ==
  /\ Types /\ OneAwaited /\ AwaitedFits /\ ResponsesAnnounced /\ NonceInOnePlace
  /\ ResponderKeepsKey
  /\ AcceptedOnce /\ RecordsProvedKey /\ BothAgree

------------------------------------------------------------------------------
(* What the invariant says of one message *)

\* A session is a pair of two peers.
LEMMA SessionParts ==
  ASSUME NEW s \in Sessions
  PROVE  s[1] \in Peers /\ s[2] \in Peers /\ s[1] # s[2] /\ s = <<s[1], s[2]>>
BY HandshakeAssumption

\* A message under way or being recorded is well-formed, and its call has a
\* number that has been reached.
LEMMA MessageFacts ==
  ASSUME Types, OneAwaited, NEW m \in InFlight
  PROVE  /\ m \in [type : {"hello", "challenge", "response", "confirm"}, session : Sessions,
                   call : Keys, key : Keys, claims : Keys, nonce : Option(Nonces)]
         /\ m.session \in Sessions /\ m.call \in Nat /\ faults \in Nat /\ m.call <= faults
         /\ m \in recording => m.type = "response" /\ m.nonce \in Nonces
<1>1. m \in [type : {"hello", "challenge", "response", "confirm"}, session : Sessions,
             call : Keys, key : Keys, claims : Keys, nonce : Option(Nonces)]
  BY DEF Types, TypeOK, InFlight, Option
<1>2. m.session \in Sessions /\ m.call \in Nat /\ faults \in Nat
  BY <1>1, HandshakeAssumption DEF Types, TypeOK, Keys
<1>3. m.call <= faults
  <2>1. CASE Awaited(m) BY <1>2, <2>1 DEF Awaited, Types
  <2>2. CASE m.call < faults BY <1>2, <2>2
  <2>3. QED BY <2>1, <2>2 DEF OneAwaited
<1>4. m \in recording => m.type = "response" /\ m.nonce \in Nonces BY DEF Types, TypeOK
<1>5. QED BY <1>1, <1>2, <1>3, <1>4

\* What was announced with a key is announced with every later one.
LEMMA AnnouncedLater ==
  ASSUME Types, NEW n, NEW s, NEW k \in Keys, NEW l \in Keys, k <= l, Announced(n, s, k)
  PROVE  Announced(n, s, l)
<1> DEFINE S == [type : {"hello"}, session : Sessions, call : Keys, key : Keys, claims : Keys,
                 nonce : Nat \cup {None}]
<1>1. issued \in Seq(S) /\ n \in DOMAIN issued BY DEF Types, Announced, Nonces
<1>2. issued[n] \in S
  <2> HIDE DEF S
  <2>1. QED BY <1>1, LenProperties, ElementOfSeq
<1>3. issued[n].key \in Int /\ k \in Int /\ l \in Int BY <1>2 DEF Keys
<1>4. QED BY <1>3 DEF Announced

\* Nothing has happened.
LEMMA HandshakeInit == Init => HandshakeInv
<1> SUFFICES ASSUME Init PROVE HandshakeInv OBVIOUS
<1>1. TypeOK
  <2>1. key \in [Peers -> Keys] /\ faults \in Keys BY HandshakeAssumption DEF Init, Keys
  <2>2. /\ pending \in [Peers -> [Peers -> Option(Nonces)]]
        /\ authenticated \in [Peers -> [Peers -> Option(Keys)]]
    BY DEF Init, Option
  <2>3. attempt \in [Sessions -> [stage : {"idle", "hello", "response", "done"}, call : Keys,
                                  key : Option(Keys), claims : Option(Keys), nonce : Option(Nonces)]]
    BY HandshakeAssumption DEF Init, Idle, Option, Keys
  <2>4. QED BY <2>1, <2>2, <2>3 DEF TypeOK, Init
<1>2. Types
  <2>1. replayed \in BOOLEAN BY DEF Init
  <2>2. issued \in Seq([type : {"hello"}, session : Sessions, call : Keys, key : Keys, claims : Keys,
                        nonce : Nat \cup {None}])
    BY DEF Init
  <2>3. QED BY <1>1, <2>1, <2>2 DEF Types, Init, Idle
<1>3. OneAwaited /\ AwaitedFits /\ ResponsesAnnounced
  BY DEF Init, Idle, OneAwaited, AwaitedFits, ResponsesAnnounced, InFlight
<1>4. NonceInOnePlace /\ ResponderKeepsKey
  BY DEF Init, Idle, NonceInOnePlace, ResponderKeepsKey
<1>5. AcceptedOnce /\ RecordsProvedKey /\ BothAgree
  BY DEF Init, Idle, AcceptedOnce, RecordsProvedKey, BothAgree
<1>6. QED BY <1>1, <1>2, <1>3, <1>4, <1>5 DEF HandshakeInv

------------------------------------------------------------------------------
(* The steps of the protocol *)

\* make_hello: what is left of the session's earlier calls has older numbers.
LEMMA SendHelloKeeps ==
  ASSUME HandshakeInv, NEW s \in Sessions, SendHello(s)
  PROVE  HandshakeInv'
<1> DEFINE h == Message("hello", s, faults, key[s[1]], key[s[1]], None)
<1> USE DEF HandshakeInv
<1>1. /\ attempt[s].stage = "idle"
      /\ attempt' = [attempt EXCEPT ![s] = [Idle EXCEPT !.stage = "hello", !.call = faults,
                                                        !.claims = key[s[1]]]]
      /\ net' = net \cup {h}
      /\ UNCHANGED <<key, pending, authenticated, recording, faults, issued, accepted, replayed>>
  BY DEF SendHello, peers, history
<1>2. /\ h \in [type : {"hello"}, session : Sessions, call : Keys, key : Keys, claims : Keys, nonce : {None}]
      /\ h.type = "hello" /\ h.session = s /\ h.call = faults /\ h.key = key[s[1]]
  BY SessionParts DEF Message, Types, TypeOK
<1> HIDE DEF h
<1>3. /\ attempt'[s].stage = "hello" /\ attempt'[s].call = faults
      /\ \A t \in Sessions \ {s} : attempt'[t] = attempt[t]
  BY <1>1 DEF Types, TypeOK, Idle
<1> key[s[1]] \in Keys /\ key[s[1]] <= key[s[1]]
  BY SessionParts DEF Types, TypeOK, Keys
<1>4. \A m \in InFlight : m.session \in Sessions /\ (m.session = s => m.call < faults /\ ~ Awaited(m)')
  <2> SUFFICES ASSUME NEW m \in InFlight
               PROVE  m.session \in Sessions /\ (m.session = s => m.call < faults /\ ~ Awaited(m)')
    OBVIOUS
  <2>1. m.session = s => m.call < faults BY <1>1 DEF OneAwaited, Awaited
  <2>2. QED BY <1>3, <2>1, MessageFacts DEF Awaited
<1>5. \A m \in InFlight : m.session # s => (Awaited(m)' <=> Awaited(m))
  BY <1>3, <1>4 DEF Awaited
<1>6. InFlight' = InFlight \cup {h} BY <1>1 DEF InFlight
<1>7. Types'
  <2>1. attempt' \in [Sessions -> [stage : {"idle", "hello", "response", "done"}, call : Keys,
                                   key : Option(Keys), claims : Option(Keys), nonce : Option(Nonces)]]
    BY <1>1 DEF Types, TypeOK, Idle, Option
  <2>2. net' \subseteq [type : {"hello", "challenge", "response", "confirm"}, session : Sessions,
                        call : Keys, key : Keys, claims : Keys, nonce : Option(Nonces)]
    BY <1>1, <1>2 DEF Types, TypeOK, Option
  <2>3. TypeOK' BY <1>1, <2>1, <2>2 DEF Types, TypeOK, Nonces, Option
  <2>4. \A t \in Sessions : attempt'[t].call <= faults
    <3>1. faults \in Nat BY HandshakeAssumption DEF Types, TypeOK, Keys
    <3>2. QED BY <1>3, <3>1 DEF Types
  <2>5. QED BY <1>1, <2>3, <2>4 DEF Types, Nonces
<1>8. OneAwaited'
  <2>1. net' \cap recording' = {} BY <1>1, <1>2 DEF OneAwaited, Types, TypeOK
  <2>2. \A m \in InFlight' : Awaited(m)' \/ m.call < faults'
    BY <1>1, <1>2, <1>3, <1>4, <1>5, <1>6 DEF OneAwaited, Awaited
  <2>3. \A m, x \in InFlight' : m.session = x.session /\ Awaited(m)' /\ Awaited(x)' => m = x
    BY <1>2, <1>4, <1>5, <1>6 DEF OneAwaited
  <2>4. \A m \in net' : m.type \in {"challenge", "confirm"} => Awaited(m)'
    BY <1>1, <1>2, <1>4, <1>5 DEF OneAwaited, InFlight, Awaited
  <2>5. QED BY <2>1, <2>2, <2>3, <2>4 DEF OneAwaited, Awaited
<1>9. AwaitedFits'
  <2> SUFFICES ASSUME NEW m \in InFlight', Awaited(m)' PROVE Fits(m)' BY DEF AwaitedFits
  <2>1. CASE m = h BY <1>1, <1>2, <1>3, <2>1 DEF Fits
  <2>2. CASE m \in InFlight
    <3>1. m.session # s /\ Fits(m) BY <1>4, <1>5, <2>2 DEF AwaitedFits
    <3>2. QED BY <1>1, <1>3, <1>4, <2>2, <3>1 DEF Fits, Announced, Nonces
  <2>3. QED BY <1>6, <2>1, <2>2
<1>10. ResponsesAnnounced'
  BY <1>1, <1>2, <1>3, <1>6 DEF ResponsesAnnounced, Announced, Nonces
<1>11. NonceInOnePlace' BY <1>1 DEF NonceInOnePlace, Nonces
<1>12. ResponderKeepsKey' BY <1>1, <1>2, <1>3 DEF ResponderKeepsKey, Live
<1>13. AcceptedOnce' /\ RecordsProvedKey' /\ BothAgree'
  BY <1>1, <1>3 DEF AcceptedOnce, RecordsProvedKey, BothAgree
<1>14. QED BY <1>7, <1>8, <1>9, <1>10, <1>11, <1>12, <1>13

\* rand::random: the new nonce is one that nothing mentions yet, and what was
\* issued before is unchanged.
LEMMA IssueFacts ==
  ASSUME Types, NEW m \in net, m.type = "hello",
         issued' = [k \in DOMAIN issued \cup {Len(issued) + 1} |->
                      IF k = Len(issued) + 1 THEN m ELSE issued[k]]
  PROVE  /\ Len(issued) + 1 \notin Nonces /\ Len(issued) + 1 \in Nat /\ Len(issued) + 1 # None
         /\ Nonces' = Nonces \cup {Len(issued) + 1}
         /\ issued'[Len(issued) + 1] = m /\ \A k \in Nonces : issued'[k] = issued[k]
         /\ issued' \in Seq([type : {"hello"}, session : Sessions, call : Keys, key : Keys, claims : Keys,
                             nonce : Nat \cup {None}])
<1> DEFINE S == [type : {"hello"}, session : Sessions, call : Keys, key : Keys, claims : Keys,
                 nonce : Nat \cup {None}]
           n == Len(issued) + 1
<1>1. issued \in Seq(S) BY DEF Types
<1>2. Len(issued) \in Nat /\ DOMAIN issued = 1 .. Len(issued)
      /\ \A k \in 1 .. Len(issued) : issued[k] \in S
  <2> HIDE DEF S
  <2>1. QED BY <1>1, LenProperties, ElementOfSeq
<1>3. m \in S
  <2>1. m \in [type : {"hello", "challenge", "response", "confirm"}, session : Sessions,
               call : Keys, key : Keys, claims : Keys, nonce : Option(Nonces)]
    BY DEF Types, TypeOK
  <2>2. m.nonce \in Nat \cup {None} BY <1>2, <2>1 DEF Option, Nonces
  <2>3. QED BY <2>1, <2>2
<1> HIDE DEF S
<1>4. n \notin DOMAIN issued /\ n \in Nat /\ n # None
  BY <1>2, HandshakeAssumption
<1>5. issued' \in [1 .. n -> S] BY <1>2, <1>3
<1>6. issued' \in Seq(S)
  <2> HIDE DEF n
  <2>1. QED BY <1>4, <1>5, SeqDef
<1>7. QED BY <1>2, <1>4, <1>6 DEF Nonces, S

\* handle_hello: the challenge takes the hello's place, with a nonce that is
\* pending now and nowhere else.
LEMMA HandleHelloKeeps ==
  ASSUME HandshakeInv, NEW m \in net, HandleHello(m)
  PROVE  HandshakeInv'
<1> DEFINE s == m.session
           i == m.session[1]
           r == m.session[2]
           n == Len(issued) + 1
           c == Message("challenge", s, m.call, key[r], key[r], n)
<1> USE DEF HandshakeInv
<1>1. /\ m.type = "hello"
      /\ pending' = [pending EXCEPT ![r][i] = n]
      /\ issued' = [k \in DOMAIN issued \cup {n} |-> IF k = n THEN m ELSE issued[k]]
      /\ net' = (net \ {m}) \cup (IF Awaited(m) THEN {c} ELSE {})
      /\ UNCHANGED <<key, authenticated, recording, attempt, faults, accepted, replayed>>
  BY DEF HandleHello, FreshNonce, Answer, Initiator, Responder
<1>2. /\ n \notin Nonces /\ n \in Nat /\ n # None /\ Nonces' = Nonces \cup {n}
      /\ issued'[n] = m /\ \A k \in Nonces : issued'[k] = issued[k]
      /\ issued' \in Seq([type : {"hello"}, session : Sessions, call : Keys, key : Keys, claims : Keys,
                          nonce : Nat \cup {None}])
  BY <1>1, IssueFacts
<1> HIDE DEF n
<1>3. /\ m \in InFlight /\ s \in Sessions /\ m.call \in Keys /\ m.call \in Nat
      /\ i \in Peers /\ r \in Peers /\ s = <<i, r>>
  BY MessageFacts, SessionParts DEF InFlight, Types
<1>4. /\ c \in [type : {"challenge"}, session : Sessions, call : Keys, key : Keys, claims : Keys, nonce : {n}]
      /\ c.type = "challenge" /\ c.session = s /\ c.call = m.call /\ c.key = key[r] /\ c.nonce = n
  BY <1>3 DEF Message, Types, TypeOK
<1> HIDE DEF c
<1>5. \A x : Awaited(x)' <=> Awaited(x) BY <1>1 DEF Awaited
<1>6. Awaited(c) <=> Awaited(m) BY <1>4 DEF Awaited
<1>7. \A x \in InFlight' : x \in InFlight \ {m} \/ (x = c /\ Awaited(m))
  <2>1. m \notin recording BY <1>1 DEF Types, TypeOK
  <2>2. QED BY <1>1, <2>1 DEF InFlight
<1>8. \A k, t, q : Announced(k, t, q) => Announced(k, t, q)' BY <1>2 DEF Announced
<1>9. Types'
  <2>1. pending' \in [Peers -> [Peers -> Option(Nonces')]]
    BY <1>1, <1>2, <1>3 DEF Types, TypeOK, Option
  <2>2. attempt' \in [Sessions -> [stage : {"idle", "hello", "response", "done"}, call : Keys,
                                   key : Option(Keys), claims : Option(Keys), nonce : Option(Nonces')]]
    BY <1>1, <1>2 DEF Types, TypeOK, Option
  <2>3. net' \subseteq [type : {"hello", "challenge", "response", "confirm"}, session : Sessions,
                        call : Keys, key : Keys, claims : Keys, nonce : Option(Nonces')]
    BY <1>1, <1>2, <1>4 DEF Types, TypeOK, Option
  <2>4. recording' \subseteq [type : {"response"}, session : Sessions, call : Keys,
                              key : Keys, claims : Keys, nonce : Nonces']
    BY <1>1, <1>2 DEF Types, TypeOK
  <2>5. accepted' \subseteq [session : Sessions, key : Keys, signer : Keys, by : Keys, nonce : Nonces']
    BY <1>1, <1>2 DEF Types
  <2>6. TypeOK' BY <1>1, <2>1, <2>2, <2>3, <2>4 DEF Types, TypeOK, Option
  <2>7. QED BY <1>1, <1>2, <2>5, <2>6 DEF Types
<1>10. OneAwaited'
  <2>1. net' \cap recording' = {} BY <1>1, <1>4 DEF OneAwaited, Types, TypeOK
  <2>2. \A x \in InFlight' : Awaited(x)' \/ x.call < faults'
    BY <1>1, <1>3, <1>4, <1>5, <1>6, <1>7 DEF OneAwaited
  <2>3. \A x, y \in InFlight' : x.session = y.session /\ Awaited(x)' /\ Awaited(y)' => x = y
    BY <1>3, <1>4, <1>5, <1>6, <1>7 DEF OneAwaited
  <2>4. \A x \in net' : x.type \in {"challenge", "confirm"} => Awaited(x)'
    BY <1>1, <1>5, <1>6 DEF OneAwaited
  <2>5. QED BY <2>1, <2>2, <2>3, <2>4 DEF OneAwaited
<1>11. AwaitedFits'
  <2> SUFFICES ASSUME NEW x \in InFlight', Awaited(x)' PROVE Fits(x)' BY DEF AwaitedFits
  <2>1. CASE x = c /\ Awaited(m)
    <3>1. attempt[s].stage = "hello" /\ m.key <= key[i]
      BY <1>1, <1>3, <2>1 DEF AwaitedFits, Fits
    <3>2. QED BY <1>1, <1>2, <1>4, <2>1, <3>1 DEF Fits, Announced
  <2>2. CASE x \in InFlight
    <3>1. Fits(x) BY <1>5, <2>2 DEF AwaitedFits
    <3>2. QED BY <1>1, <1>8, <3>1 DEF Fits
  <2>3. QED BY <1>7, <2>1, <2>2
<1>12. ResponsesAnnounced'
  <2>1. \A x \in InFlight' : x.type = "response" => Announced(x.nonce, x.session, x.key)'
    BY <1>4, <1>7, <1>8 DEF ResponsesAnnounced
  <2>2. \A t \in Sessions : attempt'[t].stage = "response" =>
          Announced(attempt[t].nonce, t, key[t[1]])'
    BY <1>1, <1>8 DEF ResponsesAnnounced
  <2>3. /\ \A x \in recording' : x.claims = x.key
        /\ \A t \in Sessions : attempt'[t].stage = "response" => attempt'[t].claims \in Keys
    BY <1>1 DEF ResponsesAnnounced
  <2>4. QED BY <2>1, <2>2, <2>3 DEF ResponsesAnnounced
<1>13. \A p, q \in Peers : pending'[p][q] = IF p = r /\ q = i THEN n ELSE pending[p][q]
  BY <1>1, <1>3 DEF Types, TypeOK
<1>14. NonceInOnePlace'
  <2>1. \A f \in recording \cup accepted : f.nonce \in Nonces BY DEF Types, TypeOK
  <2>2. ASSUME NEW p \in Peers, NEW q \in Peers, pending'[p][q] # None
        PROVE  /\ pending'[p][q] \in Nonces' /\ issued'[pending'[p][q]].session = <<q, p>>
               /\ \A f \in recording \cup accepted : f.nonce # pending'[p][q]
    <3>1. CASE p = r /\ q = i
      <4>1. pending'[p][q] = n BY <1>13, <3>1
      <4>2. issued'[n].session = <<q, p>> BY <1>2, <1>3, <3>1
      <4>3. QED BY <1>2, <2>1, <4>1, <4>2
    <3>2. CASE ~ (p = r /\ q = i)
      <4>1. pending'[p][q] = pending[p][q] BY <1>13, <3>2
      <4>2. /\ pending[p][q] \in Nonces /\ issued[pending[p][q]].session = <<q, p>>
            /\ \A f \in recording \cup accepted : f.nonce # pending[p][q]
        BY <2>2, <4>1 DEF NonceInOnePlace
      <4>3. QED BY <1>2, <4>1, <4>2
    <3>3. QED BY <3>1, <3>2
  <2>3. QED BY <1>1, <2>2 DEF NonceInOnePlace
<1>15. ResponderKeepsKey'
  <2>1. \A x \in Option(Nonces) : Live(x)' => Live(x)
    BY <1>1, <1>2, <1>13 DEF Live, Option
  <2>2. \A x \in net : x.nonce \in Option(Nonces) BY DEF Types, TypeOK
  <2>3. \A t \in Sessions : attempt[t].nonce \in Option(Nonces) BY DEF Types, TypeOK
  <2>4. \A x \in net' : x.type = "challenge" /\ Live(x.nonce)' => x.key = key[x.session[2]]
    BY <1>1, <1>4, <2>1, <2>2 DEF ResponderKeepsKey
  <2>5. \A t \in Sessions : attempt'[t].stage = "response" /\ Live(attempt[t].nonce)' =>
          attempt'[t].key = key'[t[2]]
    BY <1>1, <2>1, <2>3 DEF ResponderKeepsKey
  <2>6. QED BY <1>1, <2>4, <2>5 DEF ResponderKeepsKey
<1>16. RecordsProvedKey'
  <2>1. \A f \in accepted \cup recording : f.nonce \in Nonces BY DEF Types, TypeOK
  <2>2. QED BY <1>1, <1>2, <2>1 DEF RecordsProvedKey
<1>17. AcceptedOnce' /\ BothAgree' BY <1>1 DEF AcceptedOnce, BothAgree
<1>18. QED BY <1>9, <1>10, <1>11, <1>12, <1>14, <1>15, <1>16, <1>17

\* sign_challenge: the challenge was the one message of the call, and what it
\* is about was announced with the key that now signs.
LEMMA SignChallengeKeeps ==
  ASSUME HandshakeInv, NEW m \in net, NEW claims \in Keys, SignChallenge(m, claims)
  PROVE  HandshakeInv'
<1> DEFINE s == m.session
           new == [stage |-> "response", call |-> faults, key |-> m.key,
                   claims |-> claims, nonce |-> m.nonce]
<1> USE DEF HandshakeInv
<1>0. PICK a : a = Message("response", s, faults, key[s[1]], claims, m.nonce) OBVIOUS
<1>1. /\ m.type = "challenge"
      /\ attempt' = [attempt EXCEPT ![s] = new]
      /\ net' = (net \ {m}) \cup {a}
      /\ UNCHANGED <<key, pending, authenticated, recording, faults, issued, accepted, replayed>>
  BY <1>0 DEF SignChallenge, peers, history
<1>2. m \in InFlight /\ s \in Sessions /\ s[1] \in Peers /\ faults \in Nat /\ faults \in Keys
  BY MessageFacts, SessionParts DEF InFlight, Types, TypeOK
<1>3. Awaited(m) /\ Announced(m.nonce, s, key[s[1]])
  BY <1>1, <1>2 DEF OneAwaited, AwaitedFits, Fits
<1>4. /\ a \in [type : {"response"}, session : Sessions, call : Keys, key : Keys, claims : Keys, nonce : Nonces]
      /\ a.type = "response" /\ a.session = s /\ a.call = faults /\ a.key = key[s[1]]
      /\ a.nonce = m.nonce
  BY <1>0, <1>2, <1>3 DEF Message, Types, TypeOK, Announced
<1>5. /\ new \in [stage : {"response"}, call : Keys, key : Keys, claims : Keys, nonce : Nonces]
      /\ new.stage = "response" /\ new.call = faults /\ new.nonce = m.nonce /\ new.key = m.key
      /\ new.claims \in Keys
  BY <1>2, <1>3 DEF Types, TypeOK, Announced
<1> HIDE DEF new
<1>6. attempt'[s] = new /\ \A t \in Sessions \ {s} : attempt'[t] = attempt[t]
  BY <1>1, <1>2 DEF Types, TypeOK
<1>7. \A x \in InFlight \ {m} : /\ x.session \in Sessions
                                /\ x.session = s => x.call < faults /\ ~ Awaited(x)'
                                /\ x.session # s => (Awaited(x)' <=> Awaited(x))
  <2> SUFFICES ASSUME NEW x \in InFlight \ {m}
               PROVE  /\ x.session \in Sessions
                      /\ x.session = s => x.call < faults /\ ~ Awaited(x)'
                      /\ x.session # s => (Awaited(x)' <=> Awaited(x))
    OBVIOUS
  <2>1. x.session \in Sessions /\ x.call \in Nat BY MessageFacts
  <2>2. x.session = s => x.call < faults BY <1>2, <1>3 DEF OneAwaited
  <2>3. QED BY <1>2, <1>5, <1>6, <2>1, <2>2 DEF Awaited
<1>8. \A x \in InFlight' : x \in InFlight \ {m} \/ x = a
  <2>1. m \notin recording BY <1>1 DEF Types, TypeOK
  <2>2. QED BY <1>1, <2>1 DEF InFlight
<1>9. Awaited(a)' BY <1>4, <1>5, <1>6 DEF Awaited
<1>10. Types'
  <2>1. attempt' \in [Sessions -> [stage : {"idle", "hello", "response", "done"}, call : Keys,
                                   key : Option(Keys), claims : Option(Keys), nonce : Option(Nonces)]]
    BY <1>1, <1>5 DEF Types, TypeOK, Option
  <2>2. net' \subseteq [type : {"hello", "challenge", "response", "confirm"}, session : Sessions,
                        call : Keys, key : Keys, claims : Keys, nonce : Option(Nonces)]
    BY <1>1, <1>4 DEF Types, TypeOK, Option
  <2>3. TypeOK' BY <1>1, <2>1, <2>2 DEF Types, TypeOK, Nonces, Option
  <2>4. \A t \in Sessions : attempt'[t].call <= faults BY <1>2, <1>5, <1>6 DEF Types
  <2>5. QED BY <1>1, <2>3, <2>4 DEF Types, Nonces
<1>11. OneAwaited'
  <2>1. a \notin recording
    <3>1. SUFFICES ASSUME a \in recording PROVE FALSE OBVIOUS
    <3>2. a \in InFlight \ {m} BY <1>1, <1>4, <3>1 DEF InFlight
    <3>3. QED BY <1>2, <1>4, <1>7, <3>2
  <2>2. net' \cap recording' = {} BY <1>1, <2>1 DEF OneAwaited
  <2>3. \A x \in InFlight' : Awaited(x)' \/ x.call < faults'
    BY <1>1, <1>7, <1>8, <1>9 DEF OneAwaited
  <2>4. \A x, y \in InFlight' : x.session = y.session /\ Awaited(x)' /\ Awaited(y)' => x = y
    BY <1>4, <1>7, <1>8 DEF OneAwaited
  <2>5. \A x \in net' : x.type \in {"challenge", "confirm"} => Awaited(x)'
    <3> SUFFICES ASSUME NEW x \in net \ {m}, x.type \in {"challenge", "confirm"} PROVE Awaited(x)'
      BY <1>1, <1>9
    <3>1. x \in InFlight \ {m} /\ Awaited(x) BY DEF OneAwaited, InFlight
    <3>2. QED BY <1>2, <1>3, <1>7, <3>1 DEF OneAwaited
  <2>6. QED BY <2>2, <2>3, <2>4, <2>5 DEF OneAwaited
<1>12. AwaitedFits'
  <2> SUFFICES ASSUME NEW x \in InFlight', Awaited(x)' PROVE Fits(x)' BY DEF AwaitedFits
  <2>1. CASE x = a BY <1>1, <1>4, <1>5, <1>6, <2>1 DEF Fits
  <2>2. CASE x \in InFlight \ {m}
    <3>1. x.session # s /\ Fits(x) BY <1>7, <2>2 DEF AwaitedFits
    <3>2. QED BY <1>1, <1>6, <1>7, <2>2, <3>1 DEF Fits, Announced, Nonces
  <2>3. QED BY <1>8, <2>1, <2>2
<1>13. ResponsesAnnounced'
  <2>1. \A k, t, q : Announced(k, t, q)' <=> Announced(k, t, q) BY <1>1 DEF Announced, Nonces
  <2>2. \A x \in InFlight' : x.type = "response" => Announced(x.nonce, x.session, x.key)'
    BY <1>3, <1>4, <1>8, <2>1 DEF ResponsesAnnounced
  <2>3. \A t \in Sessions : attempt'[t].stage = "response" =>
          Announced(attempt[t].nonce, t, key[t[1]])'
    BY <1>1, <1>3, <1>5, <1>6, <2>1 DEF ResponsesAnnounced
  <2>4. /\ \A x \in recording' : x.claims = x.key
        /\ \A t \in Sessions : attempt'[t].stage = "response" => attempt'[t].claims \in Keys
    BY <1>1, <1>5, <1>6 DEF ResponsesAnnounced
  <2>5. QED BY <2>2, <2>3, <2>4 DEF ResponsesAnnounced
<1>14. NonceInOnePlace' BY <1>1 DEF NonceInOnePlace, Nonces
<1>15. ResponderKeepsKey'
  <2>1. \A x : Live(x)' <=> Live(x) BY <1>1 DEF Live
  <2>2. \A x \in net' : x.type = "challenge" /\ Live(x.nonce) => x.key = key[x.session[2]]
    BY <1>1, <1>4 DEF ResponderKeepsKey
  <2>3. \A t \in Sessions : attempt'[t].stage = "response" /\ Live(attempt'[t].nonce) =>
          attempt'[t].key = key[t[2]]
    BY <1>1, <1>2, <1>5, <1>6 DEF ResponderKeepsKey
  <2>4. QED BY <1>1, <2>1, <2>2, <2>3 DEF ResponderKeepsKey, Live
<1>16. AcceptedOnce' /\ RecordsProvedKey' BY <1>1 DEF AcceptedOnce, RecordsProvedKey
<1>17. BothAgree' BY <1>1, <1>5, <1>6 DEF BothAgree
<1>18. QED BY <1>10, <1>11, <1>12, <1>13, <1>14, <1>15, <1>16, <1>17

\* None is no nonce.
LEMMA NoneIsNoNonce ==
  ASSUME Types
  PROVE  None \notin Nonces
<1>1. DOMAIN issued \subseteq Nat BY LenProperties DEF Types
<1>2. QED BY <1>1, HandshakeAssumption DEF Nonces

\* A responder that has not restarted keeps its key, as long as no nonce comes
\* back to life and attempts stay about the nonce they were about.
LEMMA ResponderKeeps ==
  ASSUME HandshakeInv, UNCHANGED key,
         \A x \in net' : x.type = "challenge" => x \in net,
         \A s \in Sessions : attempt'[s].stage = "response" =>
           /\ attempt[s].stage = "response"
           /\ attempt'[s].nonce = attempt[s].nonce /\ attempt'[s].key = attempt[s].key,
         \A x : x # None /\ Live(x)' => Live(x)
  PROVE  ResponderKeepsKey'
<1> USE DEF HandshakeInv
<1>1. None \notin Nonces BY NoneIsNoNonce
<1>2. \A x \in net' : x.type = "challenge" /\ Live(x.nonce)' => x.key = key'[x.session[2]]
  <2> SUFFICES ASSUME NEW x \in net, x.type = "challenge", Live(x.nonce)'
               PROVE  x.key = key[x.session[2]]
    OBVIOUS
  <2>1. x.nonce # None BY <1>1 DEF OneAwaited, AwaitedFits, Fits, Announced, InFlight
  <2>2. QED BY <2>1 DEF ResponderKeepsKey
<1>3. \A t \in Sessions : attempt'[t].stage = "response" /\ Live(attempt[t].nonce)' =>
        attempt'[t].key = key'[t[2]]
  <2> SUFFICES ASSUME NEW t \in Sessions, attempt'[t].stage = "response", Live(attempt[t].nonce)'
               PROVE  attempt'[t].key = key'[t[2]]
    OBVIOUS
  <2>1. /\ attempt[t].stage = "response" /\ attempt'[t].key = attempt[t].key
        /\ attempt[t].nonce # None /\ attempt'[t].nonce = attempt[t].nonce
    BY <1>1 DEF ResponsesAnnounced, Announced
  <2>2. Live(attempt[t].nonce) BY <2>1
  <2>3. QED BY <2>1, <2>2 DEF ResponderKeepsKey
<1>4. QED BY <1>2, <1>3 DEF ResponderKeepsKey

\* The initiator of s keeps its key, or has a newer one and has yet to sign.
KeepsKey(s) ==
  \/ key'[s[1]] = key[s[1]]
  \/ attempt[s].stage = "hello" /\ key'[s[1]] >= key[s[1]]

\* Steps that end attempts and lose messages: a call that ends leaves no
\* message that is still taken for one of it.
LEMMA EndingKeeps ==
  ASSUME HandshakeInv, NEW E \in SUBSET Sessions, Types', ResponderKeepsKey',
         \A s \in Sessions : attempt'[s] = IF s \in E THEN Idle ELSE attempt[s],
         net' \subseteq net, recording' \subseteq recording,
         faults' >= faults,
         \A m \in InFlight' : m.session \in E => m.call < faults',
         \A m \in net' : m.type \in {"challenge", "confirm"} => m.session \notin E,
         \A s \in Sessions \ E : KeepsKey(s),
         \A r, i \in Peers : pending'[r][i] \in {None, pending[r][i]},
         UNCHANGED <<issued, accepted, replayed>>
  PROVE  HandshakeInv'
<1> USE DEF HandshakeInv
<1>1. \A m \in InFlight' : m \in InFlight /\ m.session \in Sessions /\ m.call \in Nat
  BY MessageFacts DEF InFlight
<1>2. \A m \in InFlight' : m.session \in E => ~ Awaited(m)'
  BY <1>1 DEF Awaited, Idle
<1>3. \A m \in InFlight' : m.session \notin E => (Awaited(m)' <=> Awaited(m))
  BY <1>1 DEF Awaited
<1>4. faults \in Nat /\ faults' \in Nat BY HandshakeAssumption DEF Types, TypeOK, Keys
<1>5. OneAwaited'
  <2>1. net' \cap recording' = {} BY DEF OneAwaited
  <2>2. \A m \in InFlight' : Awaited(m)' \/ m.call < faults'
    <3> SUFFICES ASSUME NEW m \in InFlight', m.session \notin E, ~ Awaited(m)
                 PROVE  m.call < faults'
      BY <1>3
    <3>1. m.call < faults BY <1>1 DEF OneAwaited
    <3>2. QED BY <1>1, <1>4, <3>1
  <2>3. \A m, x \in InFlight' : m.session = x.session /\ Awaited(m)' /\ Awaited(x)' => m = x
    BY <1>1, <1>2, <1>3 DEF OneAwaited
  <2>4. \A m \in net' : m.type \in {"challenge", "confirm"} => Awaited(m)'
    BY <1>3 DEF OneAwaited, InFlight
  <2>5. QED BY <2>1, <2>2, <2>3, <2>4 DEF OneAwaited
<1>6. \A k, t, q : Announced(k, t, q)' <=> Announced(k, t, q) BY DEF Announced, Nonces
<1>7. AwaitedFits'
  <2> SUFFICES ASSUME NEW m \in InFlight', Awaited(m)' PROVE Fits(m)' BY DEF AwaitedFits
  <2>1. m \in InFlight /\ m.session \in Sessions \ E BY <1>1, <1>2
  <2>2. Fits(m) BY <1>3, <2>1 DEF AwaitedFits
  <2>3. attempt'[m.session] = attempt[m.session] BY <2>1
  <2>4. CASE key'[m.session[1]] = key[m.session[1]] BY <1>6, <2>2, <2>3, <2>4 DEF Fits
  <2>5. CASE attempt[m.session].stage = "hello" /\ key'[m.session[1]] >= key[m.session[1]]
    <3>1. m.session[1] \in Peers BY <2>1, SessionParts
    <3>2. key[m.session[1]] \in Keys /\ key'[m.session[1]] \in Keys /\ m.key \in Keys
      BY <2>1, <3>1, MessageFacts DEF Types, TypeOK
    <3>3. key[m.session[1]] \in Int /\ key'[m.session[1]] \in Int /\ m.key \in Int
      BY <3>2 DEF Keys
    <3>4. m.type = "hello" => m.key <= key'[m.session[1]] BY <2>2, <2>5, <3>3 DEF Fits
    <3>5. m.type = "challenge" => Announced(m.nonce, m.session, key'[m.session[1]])
      BY <2>2, <2>5, <3>2, <3>3, AnnouncedLater DEF Fits
    <3>6. m.type = "challenge" => Announced(m.nonce, m.session, key[m.session[1]])'
      BY <1>6, <3>5
    <3>7. QED BY <2>2, <2>3, <2>5, <3>4, <3>6 DEF Fits
  <2>6. QED BY <2>1, <2>4, <2>5 DEF KeepsKey
<1>8. ResponsesAnnounced'
  <2>1. \A m \in InFlight' : m.type = "response" => Announced(m.nonce, m.session, m.key)'
    BY <1>1, <1>6 DEF ResponsesAnnounced
  <2>2. ASSUME NEW s \in Sessions, attempt'[s].stage = "response"
        PROVE  Announced(attempt[s].nonce, s, key[s[1]])'
    <3>1. s \notin E /\ attempt'[s] = attempt[s] BY <2>2 DEF Idle
    <3>2. Announced(attempt[s].nonce, s, key[s[1]]) BY <2>2, <3>1 DEF ResponsesAnnounced
    <3>3. key'[s[1]] = key[s[1]] BY <2>2, <3>1 DEF KeepsKey
    <3>4. QED BY <1>6, <3>1, <3>2, <3>3
  <2>3. /\ \A x \in recording' : x.claims = x.key
        /\ \A t \in Sessions : attempt'[t].stage = "response" => attempt'[t].claims \in Keys
    BY DEF ResponsesAnnounced, Idle
  <2>4. QED BY <2>1, <2>2, <2>3 DEF ResponsesAnnounced
<1>9. NonceInOnePlace'
  <2>1. ASSUME NEW r \in Peers, NEW i \in Peers, pending'[r][i] # None
        PROVE  /\ pending'[r][i] \in Nonces' /\ issued'[pending'[r][i]].session = <<i, r>>
               /\ \A f \in recording' \cup accepted' : f.nonce # pending'[r][i]
    <3>1. pending'[r][i] = pending[r][i] BY <2>1
    <3>2. /\ pending[r][i] \in Nonces /\ issued[pending[r][i]].session = <<i, r>>
          /\ \A f \in recording \cup accepted : f.nonce # pending[r][i]
      BY <2>1, <3>1 DEF NonceInOnePlace
    <3>3. QED BY <3>1, <3>2 DEF Nonces
  <2>2. \A m \in recording' : /\ \A x \in recording' : x.nonce = m.nonce => x = m
                              /\ \A f \in accepted' : f.nonce # m.nonce
    BY DEF NonceInOnePlace
  <2>3. QED BY <2>1, <2>2 DEF NonceInOnePlace
<1>10. AcceptedOnce' /\ RecordsProvedKey' BY DEF AcceptedOnce, RecordsProvedKey
<1>11. BothAgree'
  <2> SUFFICES ASSUME NEW s \in Sessions, attempt'[s].stage = "done"
               PROVE  [session |-> s, key |-> key'[s[1]], signer |-> key'[s[1]],
                       by |-> attempt'[s].key, nonce |-> attempt'[s].nonce] \in accepted
    BY DEF BothAgree
  <2>1. s \notin E /\ attempt'[s] = attempt[s] BY DEF Idle
  <2>2. key'[s[1]] = key[s[1]] BY <2>1 DEF KeepsKey
  <2>3. QED BY <2>1, <2>2 DEF BothAgree
<1>12. QED BY <1>5, <1>7, <1>8, <1>9, <1>10, <1>11

\* handle_response with a signature over the pending challenge: the nonce goes
\* from pending to recording.
LEMMA VerifiedKeeps ==
  ASSUME HandshakeInv, NEW m \in net, HandleResponse(m),
         pending[m.session[2]][m.session[1]] = m.nonce, m.nonce # None, m.claims = m.key
  PROVE  HandshakeInv'
<1> DEFINE s == m.session
           i == m.session[1]
           r == m.session[2]
<1> USE DEF HandshakeInv
<1>1. /\ m.type = "response"
      /\ net' = net \ {m} /\ recording' = recording \cup {m}
      /\ pending' = [pending EXCEPT ![r][i] = None]
      /\ UNCHANGED <<key, authenticated, attempt, faults, issued, accepted, replayed>>
  BY DEF HandleResponse, Initiator, Responder, Verify, AfterTaking, history
<1>2. /\ m \in InFlight /\ s \in Sessions /\ i \in Peers /\ r \in Peers /\ s = <<i, r>>
      /\ m \in [type : {"hello", "challenge", "response", "confirm"}, session : Sessions,
                call : Keys, key : Keys, claims : Keys, nonce : Option(Nonces)]
  BY MessageFacts, SessionParts DEF InFlight
<1>3. InFlight' = InFlight BY <1>1, <1>2 DEF InFlight
<1>4. \A x : Awaited(x)' <=> Awaited(x) BY <1>1 DEF Awaited
<1>5. \A p, q \in Peers : pending'[p][q] = IF p = r /\ q = i THEN None ELSE pending[p][q]
  BY <1>1, <1>2 DEF Types, TypeOK
<1>6. m.nonce \in Nonces BY <1>2 DEF Option
<1>7. Types'
  <2>1. pending' \in [Peers -> [Peers -> Option(Nonces)]]
    BY <1>1, <1>2 DEF Types, TypeOK, Option
  <2>2. m \in [type : {"response"}, session : Sessions, call : Keys, key : Keys, claims : Keys, nonce : Nonces]
    BY <1>1, <1>2, <1>6
  <2>3. TypeOK' BY <1>1, <2>1, <2>2 DEF Types, TypeOK, Nonces, Option
  <2>4. QED BY <1>1, <2>3 DEF Types, Nonces
<1>8. OneAwaited' BY <1>1, <1>3, <1>4 DEF OneAwaited
<1>9. \A k, t, q : Announced(k, t, q)' <=> Announced(k, t, q) BY <1>1 DEF Announced, Nonces
<1>10. AwaitedFits' BY <1>1, <1>3, <1>4, <1>9 DEF AwaitedFits, Fits
<1>11. ResponsesAnnounced'
  <2>1. \A x \in recording' : x.claims = x.key BY <1>1 DEF ResponsesAnnounced
  <2>2. QED BY <1>1, <1>3, <1>9, <2>1 DEF ResponsesAnnounced
<1>12. issued[m.nonce].session = s /\ issued[m.nonce].key <= m.key
  BY <1>1, <1>2 DEF ResponsesAnnounced, Announced
<1>13. \A f \in recording \cup accepted : f.nonce # m.nonce BY <1>2 DEF NonceInOnePlace
<1>14. NonceInOnePlace'
  <2>1. ASSUME NEW p \in Peers, NEW q \in Peers, pending'[p][q] # None
        PROVE  /\ pending'[p][q] \in Nonces' /\ issued'[pending'[p][q]].session = <<q, p>>
               /\ \A f \in recording' \cup accepted' : f.nonce # pending'[p][q]
    <3>1. pending'[p][q] = pending[p][q] /\ ~ (p = r /\ q = i) BY <1>5, <2>1
    <3>2. /\ pending[p][q] \in Nonces /\ issued[pending[p][q]].session = <<q, p>>
          /\ \A f \in recording \cup accepted : f.nonce # pending[p][q]
      BY <2>1, <3>1 DEF NonceInOnePlace
    <3>3. <<q, p>> # s BY <1>2, <3>1
    <3>4. m.nonce # pending[p][q] BY <1>12, <3>2, <3>3
    <3>5. QED BY <1>1, <3>1, <3>2, <3>4 DEF Nonces
  <2>2. \A y \in recording' : /\ \A x \in recording' : x.nonce = y.nonce => x = y
                              /\ \A f \in accepted' : f.nonce # y.nonce
    BY <1>1, <1>13 DEF NonceInOnePlace
  <2>3. QED BY <2>1, <2>2 DEF NonceInOnePlace
<1>15. ResponderKeepsKey'
  <2>1. \A x : x # None /\ Live(x)' => Live(x) BY <1>1, <1>2, <1>5 DEF Live
  <2>2. QED BY <1>1, <2>1, ResponderKeeps
<1>16. RecordsProvedKey' BY <1>1 DEF RecordsProvedKey
<1>17. AcceptedOnce' /\ BothAgree' BY <1>1 DEF AcceptedOnce, BothAgree
<1>18. QED BY <1>7, <1>8, <1>10, <1>11, <1>14, <1>15, <1>16, <1>17

\* handle_response with anything else: the challenge is gone all the same, and
\* the caller, if it waits, is told so.
LEMMA RefusedKeeps ==
  ASSUME HandshakeInv, NEW m \in net, HandleResponse(m),
         ~ (/\ pending[m.session[2]][m.session[1]] = m.nonce /\ m.nonce # None
            /\ m.claims = m.key)
  PROVE  HandshakeInv'
<1> DEFINE s == m.session
           i == m.session[1]
           r == m.session[2]
<1> USE DEF HandshakeInv
<1>0. PICK E : E = IF Awaited(m) THEN {s} ELSE {} OBVIOUS
<1>1. /\ m.type = "response"
      /\ net' = net \ {m} /\ recording' = recording
      /\ pending' = [pending EXCEPT ![r][i] = None]
      /\ attempt' = IF Awaited(m) THEN [attempt EXCEPT ![s] = Idle] ELSE attempt
      /\ UNCHANGED <<key, authenticated, faults, issued, accepted, replayed>>
  BY DEF HandleResponse, Initiator, Responder, Verify, AfterTaking, Fail, history
<1>2. m \in InFlight /\ s \in Sessions /\ i \in Peers /\ r \in Peers /\ faults \in Nat
  BY MessageFacts, SessionParts DEF InFlight
<1>3. \A t \in Sessions : attempt'[t] = IF t \in E THEN Idle ELSE attempt[t]
  BY <1>0, <1>1, <1>2 DEF Types, TypeOK
<1>4. \A x \in InFlight' : x \in InFlight \ {m}
  BY <1>1 DEF InFlight, OneAwaited
<1>5. \A x \in InFlight' : x.session \in E => x.call < faults /\ ~ Awaited(x)
  BY <1>0, <1>2, <1>4 DEF OneAwaited
<1>6. \A p, q \in Peers : pending'[p][q] = IF p = r /\ q = i THEN None ELSE pending[p][q]
  BY <1>1, <1>2 DEF Types, TypeOK
<1>7. Types'
  <2>1. Idle \in [stage : {"idle"}, call : Keys, key : {None}, claims : {None}, nonce : {None}]
    BY HandshakeAssumption DEF Idle, Keys
  <2>2. attempt' \in [Sessions -> [stage : {"idle", "hello", "response", "done"}, call : Keys,
                                   key : Option(Keys), claims : Option(Keys), nonce : Option(Nonces)]]
    BY <1>1, <2>1 DEF Types, TypeOK, Option
  <2>3. pending' \in [Peers -> [Peers -> Option(Nonces)]]
    BY <1>1, <1>2 DEF Types, TypeOK, Option
  <2>4. TypeOK' BY <1>1, <2>2, <2>3 DEF Types, TypeOK, Nonces, Option
  <2>5. \A t \in Sessions : attempt'[t].call <= faults BY <1>2, <1>3 DEF Types, Idle
  <2>6. QED BY <1>1, <2>4, <2>5 DEF Types, Nonces
<1>8. ResponderKeepsKey'
  <2>1. \A x : x # None /\ Live(x)' => Live(x) BY <1>1, <1>6 DEF Live
  <2>2. \A t \in Sessions : attempt'[t].stage = "response" => attempt'[t] = attempt[t]
    BY <1>3 DEF Idle
  <2>3. QED BY <1>1, <2>1, <2>2, ResponderKeeps
<1>9. \A x \in net' : x.type \in {"challenge", "confirm"} => x.session \notin E
  BY <1>1, <1>5 DEF InFlight, OneAwaited
<1>10. E \in SUBSET Sessions BY <1>0, <1>2
<1>11. \A p, q \in Peers : pending'[p][q] \in {None, pending[p][q]} BY <1>6
<1>12. faults' >= faults BY <1>1, <1>2
<1>13. \A t \in Sessions \ E : KeepsKey(t) BY <1>1 DEF KeepsKey
<1>14. QED
  BY <1>1, <1>3, <1>5, <1>7, <1>8, <1>9, <1>10, <1>11, <1>12, <1>13, EndingKeeps

\* handle_confirm, which never fails: the confirmation answers the response to
\* the challenge that the caller has kept.
LEMMA HandleConfirmKeeps ==
  ASSUME HandshakeInv, NEW m \in net, HandleConfirm(m)
  PROVE  HandshakeInv'
<1> DEFINE s == m.session
           i == m.session[1]
           r == m.session[2]
<1> USE DEF HandshakeInv
<1>1. m.type = "confirm" /\ m \in InFlight /\ s \in Sessions /\ i \in Peers /\ r \in Peers
  BY MessageFacts, SessionParts DEF HandleConfirm, InFlight
<1>2. /\ Awaited(m) /\ m.key = attempt[s].key /\ m.nonce = attempt[s].nonce
      /\ [session |-> s, key |-> key[i], signer |-> key[i], by |-> m.key,
          nonce |-> m.nonce] \in accepted
  BY <1>1 DEF OneAwaited, AwaitedFits, Fits
<1>3. /\ net' = net \ {m}
      /\ attempt' = [attempt EXCEPT ![s] = [attempt[s] EXCEPT !.stage = "done"]]
      /\ authenticated' \in {authenticated, [authenticated EXCEPT ![i][r] = attempt[s].key]}
      /\ UNCHANGED <<key, pending, recording, faults, issued, accepted, replayed>>
  BY <1>2 DEF HandleConfirm, Initiator, Responder, Verify, history
<1>4. /\ attempt'[s].stage = "done" /\ attempt'[s].call = attempt[s].call
      /\ attempt'[s].key = attempt[s].key /\ attempt'[s].nonce = attempt[s].nonce
      /\ attempt'[s].claims = attempt[s].claims
      /\ \A t \in Sessions \ {s} : attempt'[t] = attempt[t]
  BY <1>1, <1>3 DEF Types, TypeOK
<1>5. \A x \in InFlight' : x \in InFlight \ {m}
  BY <1>1, <1>3 DEF InFlight, OneAwaited
<1>6. \A x \in InFlight' : /\ x.session \in Sessions
                           /\ x.session = s => x.call < faults /\ ~ Awaited(x)' /\ ~ Awaited(x)
                           /\ x.session # s => (Awaited(x)' <=> Awaited(x))
  <2> SUFFICES ASSUME NEW x \in InFlight'
               PROVE  /\ x.session \in Sessions
                      /\ x.session = s => x.call < faults /\ ~ Awaited(x)' /\ ~ Awaited(x)
                      /\ x.session # s => (Awaited(x)' <=> Awaited(x))
    OBVIOUS
  <2>1. x \in InFlight \ {m} /\ x.session \in Sessions BY <1>5, MessageFacts
  <2>2. x.session = s => ~ Awaited(x) BY <1>1, <1>2, <2>1 DEF OneAwaited
  <2>3. x.session = s => x.call < faults BY <2>1, <2>2 DEF OneAwaited
  <2>4. QED BY <1>4, <2>1, <2>2, <2>3 DEF Awaited
<1>7. Types'
  <2>1. attempt' \in [Sessions -> [stage : {"idle", "hello", "response", "done"}, call : Keys,
                                   key : Option(Keys), claims : Option(Keys), nonce : Option(Nonces)]]
    <3>1. attempt[s] \in [stage : {"idle", "hello", "response", "done"}, call : Keys,
                          key : Option(Keys), claims : Option(Keys), nonce : Option(Nonces)]
      BY <1>1 DEF Types, TypeOK
    <3>2. [attempt[s] EXCEPT !.stage = "done"] \in
            [stage : {"idle", "hello", "response", "done"}, call : Keys,
             key : Option(Keys), claims : Option(Keys), nonce : Option(Nonces)]
      BY <3>1
    <3>3. QED BY <1>1, <1>3, <3>2 DEF Types, TypeOK
  <2>2. authenticated' \in [Peers -> [Peers -> Option(Keys)]]
    <3>1. attempt[s].key \in Option(Keys) BY <1>1 DEF Types, TypeOK
    <3>2. authenticated \in [Peers -> [Peers -> Option(Keys)]] BY DEF Types, TypeOK
    <3>3. [authenticated EXCEPT ![i][r] = attempt[s].key] \in [Peers -> [Peers -> Option(Keys)]]
      BY <1>1, <3>1, <3>2
    <3>4. QED BY <1>3, <3>2, <3>3
  <2>3. TypeOK' BY <1>3, <2>1, <2>2 DEF Types, TypeOK, Nonces, Option
  <2>4. \A t \in Sessions : attempt'[t].call <= faults BY <1>4 DEF Types
  <2>5. QED BY <1>3, <2>3, <2>4 DEF Types, Nonces
<1>8. OneAwaited'
  <2>1. net' \cap recording' = {} BY <1>3 DEF OneAwaited
  <2>2. \A x \in InFlight' : Awaited(x)' \/ x.call < faults'
    BY <1>3, <1>5, <1>6 DEF OneAwaited
  <2>3. \A x, y \in InFlight' : x.session = y.session /\ Awaited(x)' /\ Awaited(y)' => x = y
    BY <1>5, <1>6 DEF OneAwaited
  <2>4. \A x \in net' : x.type \in {"challenge", "confirm"} => Awaited(x)'
    BY <1>3, <1>6 DEF OneAwaited, InFlight
  <2>5. QED BY <2>1, <2>2, <2>3, <2>4 DEF OneAwaited
<1>9. \A k, t, q : Announced(k, t, q)' <=> Announced(k, t, q) BY <1>3 DEF Announced, Nonces
<1>10. AwaitedFits'
  <2> SUFFICES ASSUME NEW x \in InFlight', Awaited(x)' PROVE Fits(x)' BY DEF AwaitedFits
  <2>1. x.session \in Sessions \ {s} /\ Fits(x) BY <1>5, <1>6 DEF AwaitedFits
  <2>2. QED BY <1>3, <1>4, <1>9, <2>1 DEF Fits
<1>11. ResponsesAnnounced'
  <2>1. \A x \in InFlight' : x.type = "response" => Announced(x.nonce, x.session, x.key)'
    BY <1>5, <1>9 DEF ResponsesAnnounced
  <2>2. \A t \in Sessions : attempt'[t].stage = "response" =>
          Announced(attempt[t].nonce, t, key[t[1]])'
    BY <1>3, <1>4, <1>9 DEF ResponsesAnnounced
  <2>3. /\ \A x \in recording' : x.claims = x.key
        /\ \A t \in Sessions : attempt'[t].stage = "response" => attempt'[t].claims \in Keys
    BY <1>3, <1>4 DEF ResponsesAnnounced
  <2>4. QED BY <2>1, <2>2, <2>3 DEF ResponsesAnnounced
<1>12. NonceInOnePlace' BY <1>3 DEF NonceInOnePlace, Nonces
<1>13. ResponderKeepsKey'
  <2>1. \A x : Live(x)' => Live(x) BY <1>3 DEF Live
  <2>2. \A t \in Sessions : attempt'[t].stage = "response" => attempt'[t] = attempt[t]
    BY <1>4
  <2>3. QED BY <1>3, <2>1, <2>2, ResponderKeeps
<1>14. AcceptedOnce' /\ RecordsProvedKey' BY <1>3 DEF AcceptedOnce, RecordsProvedKey
<1>15. BothAgree' BY <1>2, <1>3, <1>4 DEF BothAgree
<1>16. QED BY <1>7, <1>8, <1>10, <1>11, <1>12, <1>13, <1>14, <1>15

\* The rest of handle_response: the nonce goes from recording to accepted, and
\* the confirmation carries the key the challenge was made with.
LEMMA RecordPeerKeeps ==
  ASSUME HandshakeInv, NEW m \in recording, RecordPeer(m)
  PROVE  HandshakeInv'
<1> DEFINE s == m.session
           i == m.session[1]
           r == m.session[2]
<1> USE DEF HandshakeInv
<1>0. PICK c, f : /\ c = Message("confirm", s, m.call, key[r], key[r], m.nonce)
                  /\ f = [session |-> s, key |-> m.claims, signer |-> m.key, by |-> key[r],
                         nonce |-> m.nonce]
  OBVIOUS
<1>1. /\ recording' = recording \ {m}
      /\ authenticated' = [authenticated EXCEPT ![r][i] = m.claims]
      /\ net' = (net \ {m}) \cup (IF Awaited(m) THEN {c} ELSE {})
      /\ accepted' = accepted \cup {f}
      /\ replayed' = (replayed \/ f \in accepted)
      /\ UNCHANGED <<key, pending, attempt, faults, issued>>
  BY <1>0 DEF RecordPeer, Answer, Initiator, Responder
<1>2. /\ m \in InFlight /\ s \in Sessions /\ i \in Peers /\ r \in Peers
      /\ m.type = "response" /\ m.nonce \in Nonces /\ m.call \in Keys /\ m.key \in Keys
      /\ m.claims = m.key /\ Announced(m.nonce, s, m.key)
  BY MessageFacts, SessionParts DEF InFlight, ResponsesAnnounced
<1>3. /\ c \in [type : {"confirm"}, session : Sessions, call : Keys, key : Keys, claims : Keys, nonce : Nonces]
      /\ c.type = "confirm" /\ c.session = s /\ c.call = m.call /\ c.key = key[r]
      /\ c.nonce = m.nonce
  BY <1>0, <1>2 DEF Message, Types, TypeOK
<1>4. /\ f \in [session : Sessions, key : Keys, signer : Keys, by : Keys, nonce : Nonces]
      /\ f.session = s /\ f.key = m.key /\ f.signer = m.key /\ f.nonce = m.nonce
  BY <1>0, <1>2 DEF Types, TypeOK
<1>5. f \notin accepted BY <1>4 DEF NonceInOnePlace
<1>6. \A x : Awaited(x)' <=> Awaited(x) BY <1>1 DEF Awaited
<1>7. Awaited(c) <=> Awaited(m) BY <1>3 DEF Awaited
<1>8. \A x \in InFlight' : x \in InFlight \ {m} \/ (x = c /\ Awaited(m))
  BY <1>1 DEF InFlight, OneAwaited
<1>9. Types'
  <2>1. authenticated' \in [Peers -> [Peers -> Option(Keys)]]
    BY <1>1, <1>2 DEF Types, TypeOK, Option
  <2>2. net' \subseteq [type : {"hello", "challenge", "response", "confirm"}, session : Sessions,
                        call : Keys, key : Keys, claims : Keys, nonce : Option(Nonces)]
    BY <1>1, <1>3 DEF Types, TypeOK, Option
  <2>3. TypeOK' BY <1>1, <2>1, <2>2 DEF Types, TypeOK, Nonces, Option
  <2>4. replayed' \in BOOLEAN BY <1>1, <1>5 DEF AcceptedOnce
  <2>5. accepted' \subseteq [session : Sessions, key : Keys, signer : Keys, by : Keys, nonce : Nonces]
    BY <1>1, <1>4 DEF Types
  <2>6. QED BY <1>1, <2>3, <2>4, <2>5 DEF Types, Nonces
<1>10. OneAwaited'
  <2>1. net' \cap recording' = {} BY <1>1, <1>3 DEF OneAwaited, Types, TypeOK
  <2>2. \A x \in InFlight' : Awaited(x)' \/ x.call < faults'
    BY <1>1, <1>6, <1>7, <1>8 DEF OneAwaited
  <2>3. \A x, y \in InFlight' : x.session = y.session /\ Awaited(x)' /\ Awaited(y)' => x = y
    BY <1>2, <1>3, <1>6, <1>7, <1>8 DEF OneAwaited
  <2>4. \A x \in net' : x.type \in {"challenge", "confirm"} => Awaited(x)'
    BY <1>1, <1>6, <1>7 DEF OneAwaited
  <2>5. QED BY <2>1, <2>2, <2>3, <2>4 DEF OneAwaited
<1>11. \A k, t, q : Announced(k, t, q)' <=> Announced(k, t, q) BY <1>1 DEF Announced, Nonces
<1>12. AwaitedFits'
  <2> SUFFICES ASSUME NEW x \in InFlight', Awaited(x)' PROVE Fits(x)' BY DEF AwaitedFits
  <2>1. CASE x = c /\ Awaited(m)
    <3>1. attempt[s].stage = "response" /\ m.key = key[i] /\ m.nonce = attempt[s].nonce
      BY <1>2, <2>1 DEF AwaitedFits, Fits
    <3>2. Live(attempt[s].nonce) BY <3>1 DEF Live
    <3>3. attempt[s].key = key[r] BY <1>2, <3>1, <3>2 DEF ResponderKeepsKey
    <3>4. [session |-> s, key |-> key[i], signer |-> key[i], by |-> c.key,
           nonce |-> c.nonce] \in accepted'
      BY <1>0, <1>1, <1>2, <1>3, <3>1
    <3>5. QED BY <1>1, <1>3, <2>1, <3>1, <3>3, <3>4 DEF Fits
  <2>2. CASE x \in InFlight
    <3>1. Fits(x) BY <1>6, <2>2 DEF AwaitedFits
    <3>2. QED BY <1>1, <1>11, <3>1 DEF Fits
  <2>3. QED BY <1>8, <2>1, <2>2
<1>13. ResponsesAnnounced'
  <2>1. \A x \in InFlight' : x.type = "response" => Announced(x.nonce, x.session, x.key)'
    BY <1>3, <1>8, <1>11 DEF ResponsesAnnounced
  <2>2. \A t \in Sessions : attempt'[t].stage = "response" =>
          Announced(attempt[t].nonce, t, key[t[1]])'
    BY <1>1, <1>11 DEF ResponsesAnnounced
  <2>3. /\ \A x \in recording' : x.claims = x.key
        /\ \A t \in Sessions : attempt'[t].stage = "response" => attempt'[t].claims \in Keys
    BY <1>1 DEF ResponsesAnnounced
  <2>4. QED BY <2>1, <2>2, <2>3 DEF ResponsesAnnounced
<1>14. NonceInOnePlace'
  <2>1. \A p, q \in Peers : pending[p][q] # None =>
          \A g \in recording' \cup accepted' : g.nonce # pending[p][q]
    BY <1>1, <1>4 DEF NonceInOnePlace
  <2>2. \A y \in recording' : /\ \A x \in recording' : x.nonce = y.nonce => x = y
                              /\ \A g \in accepted' : g.nonce # y.nonce
    BY <1>1, <1>4 DEF NonceInOnePlace
  <2>3. QED BY <1>1, <2>1, <2>2 DEF NonceInOnePlace, Nonces
<1>15. ResponderKeepsKey'
  <2>1. \A x : Live(x)' => Live(x) BY <1>1 DEF Live
  <2>2. QED BY <1>1, <1>3, <2>1, ResponderKeeps
<1>16. RecordsProvedKey' BY <1>1, <1>2, <1>4 DEF RecordsProvedKey, Announced
<1>17. AcceptedOnce' BY <1>1, <1>5 DEF AcceptedOnce
<1>18. BothAgree' BY <1>1 DEF BothAgree
<1>19. QED BY <1>9, <1>10, <1>12, <1>13, <1>14, <1>15, <1>16, <1>17, <1>18

------------------------------------------------------------------------------
(* Faults *)

\* A fault makes every call that was numbered before it an older one.
LEMMA FaultFacts ==
  ASSUME HandshakeInv, Fault
  PROVE  /\ faults \in Nat /\ faults' = faults + 1 /\ faults' \in Keys /\ faults' >= faults
         /\ \A m \in InFlight : m.call < faults'
         /\ \A p \in Peers : key[p] + 1 <= faults' /\ key[p] + 1 \in Keys /\ key[p] <= faults'
         /\ \A s \in Sessions : attempt[s].call <= faults'
<1> USE DEF HandshakeInv
<1>1. /\ faults \in Nat /\ MaxFaults \in Nat /\ faults < MaxFaults /\ faults' = faults + 1
  BY HandshakeAssumption DEF Fault, Types, TypeOK, Keys
<1>2. \A m \in InFlight : m.call < faults' BY <1>1, MessageFacts
<1>3. \A p \in Peers : key[p] \in Nat /\ key[p] <= faults
  BY HandshakeAssumption DEF Types, TypeOK, Keys
<1>4. \A s \in Sessions : attempt[s].call \in Nat /\ attempt[s].call <= faults
  BY HandshakeAssumption DEF Types, TypeOK, Keys
<1>5. QED BY <1>1, <1>2, <1>3, <1>4 DEF Keys

\* Idle is a state of an attempt.
LEMMA IdleType ==
  Idle \in [stage : {"idle", "hello", "response", "done"}, call : Keys,
            key : Option(Keys), claims : Option(Keys), nonce : Option(Nonces)]
BY HandshakeAssumption DEF Idle, Keys, Option

\* The caller stops waiting; the replies it would have got are lost.
LEMMA TimeoutKeeps ==
  ASSUME HandshakeInv, NEW s \in Sessions, Timeout(s)
  PROVE  HandshakeInv'
<1> USE DEF HandshakeInv
<1>1. /\ Fault /\ attempt' = [attempt EXCEPT ![s] = Idle] /\ net' = net \ RepliesTo(s)
      /\ UNCHANGED <<key, pending, authenticated, recording, issued, accepted, replayed>>
  BY DEF Timeout, peers, history
<1>2. \A t \in Sessions : attempt'[t] = IF t \in {s} THEN Idle ELSE attempt[t]
  BY <1>1 DEF Types, TypeOK
<1>3. Types'
  <2>1. attempt' \in [Sessions -> [stage : {"idle", "hello", "response", "done"}, call : Keys,
                                   key : Option(Keys), claims : Option(Keys), nonce : Option(Nonces)]]
    BY <1>1, IdleType DEF Types, TypeOK
  <2>2. TypeOK' BY <1>1, <2>1, FaultFacts DEF Types, TypeOK, Nonces, Option
  <2>3. \A t \in Sessions : attempt'[t].call <= faults' BY <1>1, <1>2, FaultFacts DEF Idle
  <2>4. QED BY <1>1, <2>2, <2>3, FaultFacts DEF Types, Nonces
<1>4. ResponderKeepsKey'
  <2>1. \A x : Live(x)' => Live(x) BY <1>1 DEF Live
  <2>2. \A t \in Sessions : attempt'[t].stage = "response" => attempt'[t] = attempt[t]
    BY <1>2 DEF Idle
  <2>3. QED BY <1>1, <2>1, <2>2, ResponderKeeps
<1>5. \A x \in InFlight' : x.call < faults' BY <1>1, FaultFacts DEF InFlight
<1>6. \A x \in net' : x.type \in {"challenge", "confirm"} => x.session \notin {s}
  BY <1>1 DEF RepliesTo
<1>7. faults' >= faults BY <1>1, FaultFacts
<1>8. \A t \in Sessions \ {s} : KeepsKey(t) BY <1>1 DEF KeepsKey
<1>9. QED BY <1>1, <1>2, <1>3, <1>4, <1>5, <1>6, <1>7, <1>8, EndingKeeps

\* The same response again, as a call of its own: the older ones of the
\* session are no longer awaited.
LEMMA ResendKeeps ==
  ASSUME HandshakeInv, NEW s \in Sessions, Resend(s)
  PROVE  HandshakeInv'
<1> USE DEF HandshakeInv
<1>0. PICK a : a = Message("response", s, faults + 1, key[s[1]], attempt[s].claims,
                          attempt[s].nonce) OBVIOUS
<1>1. /\ Fault /\ attempt[s].stage = "response"
      /\ attempt' = [attempt EXCEPT ![s].call = faults + 1]
      /\ net' = (net \ RepliesTo(s)) \cup {a}
      /\ UNCHANGED <<key, pending, authenticated, recording, issued, accepted, replayed>>
  BY <1>0 DEF Resend, peers, history
<1>2. /\ faults \in Nat /\ faults' = faults + 1 /\ faults' \in Keys
      /\ \A m \in InFlight : m.call < faults'
      /\ \A p \in Peers : key[p] <= faults'
      /\ \A t \in Sessions : attempt[t].call <= faults'
  BY <1>1, FaultFacts
<1>3. Announced(attempt[s].nonce, s, key[s[1]]) /\ attempt[s].claims \in Keys
  BY <1>1 DEF ResponsesAnnounced
<1>4. /\ a \in [type : {"response"}, session : Sessions, call : Keys, key : Keys, claims : Keys, nonce : Nonces]
      /\ a.type = "response" /\ a.session = s /\ a.call = faults' /\ a.key = key[s[1]]
      /\ a.nonce = attempt[s].nonce
  BY <1>0, <1>2, <1>3, SessionParts DEF Message, Types, TypeOK, Announced
<1>5. /\ attempt'[s].stage = "response" /\ attempt'[s].call = faults'
      /\ attempt'[s].key = attempt[s].key /\ attempt'[s].nonce = attempt[s].nonce
      /\ attempt'[s].claims = attempt[s].claims
      /\ \A t \in Sessions \ {s} : attempt'[t] = attempt[t]
  BY <1>1, <1>2 DEF Types, TypeOK
<1>6. \A x \in InFlight' : (x \in InFlight /\ x \notin RepliesTo(s)) \/ x = a
  <2>1. \A x \in recording : x \notin RepliesTo(s) BY DEF RepliesTo, Types, TypeOK
  <2>2. QED BY <1>1, <2>1 DEF InFlight
<1>7. \A x \in InFlight : /\ x.session \in Sessions
                          /\ x.session = s => ~ Awaited(x)'
                          /\ x.session # s => (Awaited(x)' <=> Awaited(x))
  <2> SUFFICES ASSUME NEW x \in InFlight
               PROVE  /\ x.session \in Sessions
                      /\ x.session = s => ~ Awaited(x)'
                      /\ x.session # s => (Awaited(x)' <=> Awaited(x))
    OBVIOUS
  <2>1. x.session \in Sessions /\ x.call \in Nat /\ x.call < faults' BY <1>2, MessageFacts
  <2>2. QED BY <1>2, <1>5, <2>1 DEF Awaited
<1>8. Awaited(a)' BY <1>4, <1>5 DEF Awaited
<1>9. Types'
  <2>1. attempt' \in [Sessions -> [stage : {"idle", "hello", "response", "done"}, call : Keys,
                                   key : Option(Keys), claims : Option(Keys), nonce : Option(Nonces)]]
    BY <1>1, <1>2 DEF Types, TypeOK
  <2>2. net' \subseteq [type : {"hello", "challenge", "response", "confirm"}, session : Sessions,
                        call : Keys, key : Keys, claims : Keys, nonce : Option(Nonces)]
    BY <1>1, <1>4 DEF Types, TypeOK, Option
  <2>3. TypeOK' BY <1>1, <1>2, <2>1, <2>2 DEF Types, TypeOK, Nonces, Option
  <2>4. \A t \in Sessions : attempt'[t].call <= faults' BY <1>2, <1>5
  <2>5. QED BY <1>1, <1>2, <2>3, <2>4 DEF Types, Nonces
<1>10. OneAwaited'
  <2>1. a \notin recording BY <1>2, <1>4 DEF InFlight
  <2>2. net' \cap recording' = {} BY <1>1, <2>1 DEF OneAwaited
  <2>3. \A x \in InFlight' : Awaited(x)' \/ x.call < faults' BY <1>2, <1>6, <1>8
  <2>4. \A x, y \in InFlight' : x.session = y.session /\ Awaited(x)' /\ Awaited(y)' => x = y
    BY <1>4, <1>6, <1>7 DEF OneAwaited
  <2>5. \A x \in net' : x.type \in {"challenge", "confirm"} => Awaited(x)'
    <3> SUFFICES ASSUME NEW x \in net \ RepliesTo(s), x.type \in {"challenge", "confirm"}
                 PROVE  Awaited(x)'
      BY <1>1, <1>8
    <3>1. x \in InFlight /\ x.session # s /\ Awaited(x) BY DEF RepliesTo, OneAwaited, InFlight
    <3>2. QED BY <1>7, <3>1
  <2>6. QED BY <2>2, <2>3, <2>4, <2>5 DEF OneAwaited
<1>11. \A k, t, q : Announced(k, t, q)' <=> Announced(k, t, q) BY <1>1 DEF Announced, Nonces
<1>12. AwaitedFits'
  <2> SUFFICES ASSUME NEW x \in InFlight', Awaited(x)' PROVE Fits(x)' BY DEF AwaitedFits
  <2>1. CASE x = a BY <1>1, <1>4, <1>5, <2>1 DEF Fits
  <2>2. CASE x \in InFlight
    <3>1. x.session \in Sessions \ {s} /\ Fits(x) BY <1>7, <2>2 DEF AwaitedFits
    <3>2. QED BY <1>1, <1>5, <1>11, <3>1 DEF Fits
  <2>3. QED BY <1>6, <2>1, <2>2
<1>13. ResponsesAnnounced'
  <2>1. \A x \in InFlight' : x.type = "response" => Announced(x.nonce, x.session, x.key)'
    BY <1>3, <1>4, <1>6, <1>11 DEF ResponsesAnnounced
  <2>2. \A t \in Sessions : attempt'[t].stage = "response" =>
          Announced(attempt[t].nonce, t, key[t[1]])'
    BY <1>1, <1>3, <1>5, <1>11 DEF ResponsesAnnounced
  <2>3. /\ \A x \in recording' : x.claims = x.key
        /\ \A t \in Sessions : attempt'[t].stage = "response" => attempt'[t].claims \in Keys
    BY <1>1, <1>5 DEF ResponsesAnnounced
  <2>4. QED BY <2>1, <2>2, <2>3 DEF ResponsesAnnounced
<1>14. NonceInOnePlace' BY <1>1 DEF NonceInOnePlace, Nonces
<1>15. ResponderKeepsKey'
  <2>1. \A x : Live(x)' => Live(x) BY <1>1 DEF Live
  <2>2. \A t \in Sessions : attempt'[t].stage = "response" =>
          /\ attempt[t].stage = "response"
          /\ attempt'[t].nonce = attempt[t].nonce /\ attempt'[t].key = attempt[t].key
    BY <1>1, <1>5
  <2>3. QED BY <1>1, <1>4, <2>1, <2>2, ResponderKeeps
<1>16. AcceptedOnce' /\ RecordsProvedKey' BY <1>1 DEF AcceptedOnce, RecordsProvedKey
<1>17. BothAgree' BY <1>1, <1>5 DEF BothAgree
<1>18. QED BY <1>9, <1>10, <1>12, <1>13, <1>14, <1>15, <1>16, <1>17

\* A restart ends the calls the peer was answering and its own, or leaves them
\* with a newer key; the nonces it had made are no longer accepted by anyone.
LEMMA RestartKeeps ==
  ASSUME HandshakeInv, NEW p \in Peers, NEW kept \in SUBSET Sessions, Restart(p, kept)
  PROVE  HandshakeInv'
<1> DEFINE own == {s \in Sessions : s[1] = p}
           cut == {m \in recording : m.session[2] = p}
<1> USE DEF HandshakeInv
<1>0. PICK E : E = {s \in Sessions : s \in own \ kept \/ \E m \in cut : m.session = s /\ Awaited(m)}
  OBVIOUS
<1>1. /\ Fault
      /\ key' = [key EXCEPT ![p] = @ + 1]
      /\ pending' = [pending EXCEPT ![p] = [q \in Peers |-> None]]
      /\ authenticated' = [authenticated EXCEPT ![p] = [q \in Peers |-> None]]
      /\ recording' = recording \ cut
      /\ attempt' = [s \in Sessions |-> IF s \in own \ kept \/ \E m \in cut : m.session = s /\ Awaited(m)
                                        THEN Idle ELSE attempt[s]]
      /\ net' = net \ UNION {RepliesTo(s) : s \in own \ kept}
      /\ \A s \in kept : attempt[s].stage = "hello"
      /\ UNCHANGED <<issued, accepted, replayed>>
  BY DEF Restart, Responder, history
<1>2. E \in SUBSET Sessions /\ own \ kept \subseteq E BY <1>0
<1>3. \A s \in Sessions : attempt'[s] = IF s \in E THEN Idle ELSE attempt[s]
  BY <1>0, <1>1
<1>4. \A q \in Peers : key'[q] = IF q = p THEN key[p] + 1 ELSE key[q]
  BY <1>1 DEF Types, TypeOK
<1>5. \A r, i \in Peers : pending'[r][i] = IF r = p THEN None ELSE pending[r][i]
  BY <1>1 DEF Types, TypeOK
<1>6. net' \subseteq net /\ recording' \subseteq recording BY <1>1
<1>7. Types'
  <2>1. attempt' \in [Sessions -> [stage : {"idle", "hello", "response", "done"}, call : Keys,
                                   key : Option(Keys), claims : Option(Keys), nonce : Option(Nonces)]]
    BY <1>1, IdleType DEF Types, TypeOK
  <2>2. key' \in [Peers -> Keys] BY <1>1, FaultFacts DEF Types, TypeOK
  <2>3. /\ pending' \in [Peers -> [Peers -> Option(Nonces)]]
        /\ authenticated' \in [Peers -> [Peers -> Option(Keys)]]
    BY <1>1 DEF Types, TypeOK, Option
  <2>4. TypeOK' BY <1>1, <1>6, <2>1, <2>2, <2>3, FaultFacts DEF Types, TypeOK, Nonces, Option
  <2>5. \A s \in Sessions : attempt'[s].call <= faults'
    BY <1>1, <1>3, FaultFacts DEF Idle
  <2>6. \A q \in Peers : key'[q] <= faults' BY <1>1, <1>4, FaultFacts
  <2>7. QED BY <1>1, <2>4, <2>5, <2>6 DEF Types, Nonces
<1>8. \A x \in net' : x.type \in {"challenge", "confirm"} => x.session \notin E
  <2> SUFFICES ASSUME NEW x \in net', x.type \in {"challenge", "confirm"}, x.session \in E
               PROVE  FALSE
    OBVIOUS
  <2>1. x \in net /\ x \in InFlight /\ Awaited(x) BY <1>6 DEF OneAwaited, InFlight
  <2>2. x.session \notin own \ kept BY <1>1, <2>1 DEF RepliesTo
  <2>3. PICK m \in cut : m.session = x.session /\ Awaited(m) BY <1>0, <2>2
  <2>4. m = x BY <2>1, <2>3 DEF OneAwaited, InFlight
  <2>5. QED BY <2>1, <2>3, <2>4 DEF OneAwaited
<1>9. \A s \in Sessions \ E : KeepsKey(s)
  <2> SUFFICES ASSUME NEW s \in Sessions \ E PROVE KeepsKey(s) OBVIOUS
  <2>1. s[1] \in Peers /\ key[s[1]] \in Int BY SessionParts DEF Types, TypeOK, Keys
  <2>2. s[1] # p \/ s \in kept BY <1>2
  <2>3. QED BY <1>1, <1>4, <2>1, <2>2 DEF KeepsKey
<1>10. ResponderKeepsKey'
  <2>1. None \notin Nonces BY NoneIsNoNonce
  <2>2. ASSUME NEW n, NEW s \in Sessions, NEW k, Announced(n, s, k), Live(n)'
        PROVE  s[2] # p /\ Live(n)
    <3>1. CASE \E r, i \in Peers : pending'[r][i] = n
      <4>1. PICK r \in Peers, i \in Peers : pending'[r][i] = n BY <3>1
      <4>2. n # None BY <2>1, <2>2 DEF Announced
      <4>3. r # p /\ pending[r][i] = n BY <1>5, <4>1, <4>2
      <4>4. issued[n].session = <<i, r>> BY <4>2, <4>3 DEF NonceInOnePlace
      <4>5. s[2] = r BY <2>2, <4>4, SessionParts DEF Announced
      <4>6. QED BY <4>3, <4>5 DEF Live
    <3>2. CASE \E m \in recording' : m.nonce = n
      <4>1. PICK m \in recording' : m.nonce = n BY <3>2
      <4>2. m \in recording /\ m \notin cut BY <1>1
      <4>3. m.session = s
        BY <2>2, <4>1, <4>2 DEF Types, TypeOK, ResponsesAnnounced, Announced, InFlight
      <4>4. QED BY <4>1, <4>2, <4>3 DEF Live
    <3>3. QED BY <2>2, <3>1, <3>2 DEF Live
  <2>3. \A x \in net' : x.type = "challenge" /\ Live(x.nonce)' => x.key = key'[x.session[2]]
    <3> SUFFICES ASSUME NEW x \in net, x.type = "challenge", Live(x.nonce)'
                 PROVE  x.key = key'[x.session[2]]
      BY <1>6
    <3>1. x.session \in Sessions /\ Announced(x.nonce, x.session, key[x.session[1]])
      BY MessageFacts DEF OneAwaited, AwaitedFits, Fits, InFlight
    <3>2. x.session[2] # p /\ Live(x.nonce) BY <2>2, <3>1
    <3>3. QED BY <1>4, <3>1, <3>2, SessionParts DEF ResponderKeepsKey
  <2>4. \A t \in Sessions : attempt'[t].stage = "response" /\ Live(attempt[t].nonce)' =>
          attempt'[t].key = key'[t[2]]
    <3> SUFFICES ASSUME NEW t \in Sessions, attempt'[t].stage = "response", Live(attempt[t].nonce)'
                 PROVE  attempt'[t].key = key'[t[2]]
      OBVIOUS
    <3>1. attempt'[t] = attempt[t] BY <1>3 DEF Idle
    <3>2. PICK n : n = attempt[t].nonce OBVIOUS
    <3>3. Announced(n, t, key[t[1]]) /\ Live(n)' BY <3>1, <3>2 DEF ResponsesAnnounced
    <3>4. t[2] # p /\ Live(n) BY <2>2, <3>3
    <3>5. QED BY <1>4, <3>1, <3>2, <3>4, SessionParts DEF ResponderKeepsKey
  <2>5. QED BY <2>3, <2>4 DEF ResponderKeepsKey
<1>11. \A x \in InFlight' : x.call < faults' BY <1>1, <1>6, FaultFacts DEF InFlight
<1>12. faults' >= faults BY <1>1, FaultFacts
<1>13. \A r, i \in Peers : pending'[r][i] \in {None, pending[r][i]} BY <1>5
<1>14. UNCHANGED <<issued, accepted, replayed>> BY <1>1
<1>15. QED
  BY <1>2, <1>3, <1>6, <1>7, <1>8, <1>9, <1>10, <1>11, <1>12, <1>13, <1>14, EndingKeeps

\* remove_peer: only a handshake that is over is forgotten.
LEMMA RemovePeerKeeps ==
  ASSUME HandshakeInv, NEW p \in Peers, NEW q \in Peers, RemovePeer(p, q)
  PROVE  HandshakeInv'
<1> USE DEF HandshakeInv
<1>0. PICK E : E = {s \in Sessions : s = <<p, q>> /\ attempt[s].stage = "done"} OBVIOUS
<1>1. /\ Fault
      /\ authenticated' = [authenticated EXCEPT ![p][q] = None]
      /\ attempt' = [s \in Sessions |-> IF s = <<p, q>> /\ attempt[s].stage = "done"
                                        THEN Idle ELSE attempt[s]]
      /\ UNCHANGED <<key, pending, recording, net, issued, accepted, replayed>>
  BY DEF RemovePeer, history
<1>2. E \in SUBSET Sessions BY <1>0
<1>3. \A s \in Sessions : attempt'[s] = IF s \in E THEN Idle ELSE attempt[s] BY <1>0, <1>1
<1>4. Types'
  <2>1. attempt' \in [Sessions -> [stage : {"idle", "hello", "response", "done"}, call : Keys,
                                   key : Option(Keys), claims : Option(Keys), nonce : Option(Nonces)]]
    BY <1>1, IdleType DEF Types, TypeOK
  <2>2. authenticated' \in [Peers -> [Peers -> Option(Keys)]] BY <1>1 DEF Types, TypeOK, Option
  <2>3. TypeOK' BY <1>1, <2>1, <2>2, FaultFacts DEF Types, TypeOK, Nonces, Option
  <2>4. \A t \in Sessions : attempt'[t].call <= faults' BY <1>1, <1>3, FaultFacts DEF Idle
  <2>5. QED BY <1>1, <2>3, <2>4, FaultFacts DEF Types, Nonces
<1>5. ResponderKeepsKey'
  <2>1. \A x : Live(x)' => Live(x) BY <1>1 DEF Live
  <2>2. \A t \in Sessions : attempt'[t].stage = "response" => attempt'[t] = attempt[t]
    BY <1>3 DEF Idle
  <2>3. QED BY <1>1, <2>1, <2>2, ResponderKeeps
<1>6. \A x \in InFlight' : x.call < faults' BY <1>1, FaultFacts DEF InFlight
<1>7. \A x \in net' : x.type \in {"challenge", "confirm"} => x.session \notin E
  BY <1>0, <1>1 DEF OneAwaited, Awaited
<1>8. faults' >= faults BY <1>1, FaultFacts
<1>9. \A t \in Sessions \ E : KeepsKey(t) BY <1>1 DEF KeepsKey
<1>10. QED BY <1>1, <1>2, <1>3, <1>4, <1>5, <1>6, <1>7, <1>8, <1>9, EndingKeeps

------------------------------------------------------------------------------
\* Every step keeps the invariant.
LEMMA HandshakeStep == HandshakeInv /\ [Next]_vars => HandshakeInv'
<1> SUFFICES ASSUME HandshakeInv, [Next]_vars PROVE HandshakeInv' OBVIOUS
<1>1. ASSUME NEW m \in net, HandleResponse(m) PROVE HandshakeInv'
  BY <1>1, VerifiedKeeps, RefusedKeeps
<1>2. ASSUME NEW m \in net, Handle(m) PROVE HandshakeInv'
  BY <1>1, <1>2, HandleHelloKeeps, SignChallengeKeeps, HandleConfirmKeeps DEF Handle
<1>3. CASE UNCHANGED vars
  <2>1. UNCHANGED <<key, pending, authenticated, recording, attempt, net, faults, issued,
                    accepted, replayed>>
    BY <1>3 DEF vars, peers, history
  <2>2. Types' BY <2>1 DEF HandshakeInv, Types, TypeOK, Nonces
  <2>3. OneAwaited' /\ ResponsesAnnounced' /\ AwaitedFits'
    BY <2>1 DEF HandshakeInv, OneAwaited, ResponsesAnnounced, AwaitedFits, Fits, Awaited,
                Announced, Nonces, InFlight
  <2>4. NonceInOnePlace' /\ ResponderKeepsKey'
    BY <2>1 DEF HandshakeInv, NonceInOnePlace, ResponderKeepsKey, Live, Nonces
  <2>5. AcceptedOnce' /\ RecordsProvedKey' /\ BothAgree'
    BY <2>1 DEF HandshakeInv, AcceptedOnce, RecordsProvedKey, BothAgree
  <2>6. QED BY <2>2, <2>3, <2>4, <2>5 DEF HandshakeInv
<1>4. QED
  BY <1>2, <1>3, SendHelloKeeps, TimeoutKeeps, ResendKeeps, RecordPeerKeeps, RestartKeeps,
     RemovePeerKeeps
  DEF Next

\* The inductive invariant holds of every behaviour.
LEMMA HandshakeInvariant == Spec => []HandshakeInv
BY HandshakeInit, HandshakeStep, PTL DEF Spec

\* The state of the handshake has its type: what was pending, awaited or under
\* way is about nonces that were issued.
THEOREM HandshakeTypes == Spec => []TypeOK
<1>1. HandshakeInv => TypeOK BY DEF HandshakeInv, Types
<1>2. QED BY <1>1, HandshakeInvariant, PTL

\* However often a response is sent and arrives, handle_response accepts it at
\* most once.
THEOREM NoReplay == Spec => []AcceptedOnce
<1>1. HandshakeInv => AcceptedOnce BY DEF HandshakeInv
<1>2. QED BY <1>1, HandshakeInvariant, PTL

\* handle_response records a peer only with a key that signed a nonce made for
\* this peer, and that is no older than the hello the nonce was made for,
\* whoever has restarted in between.
THEOREM RecordsArePossession == Spec => []RecordsProvedKey
<1>1. HandshakeInv => RecordsProvedKey BY DEF HandshakeInv
<1>2. QED BY <1>1, HandshakeInvariant, PTL

\* A caller that has succeeded was recorded in this handshake, with the key it
\* has, by a responder with the key it takes it to have.
THEOREM HandshakeAgreement == Spec => []BothAgree
<1>1. HandshakeInv => BothAgree BY DEF HandshakeInv
<1>2. QED BY <1>1, HandshakeInvariant, PTL
==============================================================================
