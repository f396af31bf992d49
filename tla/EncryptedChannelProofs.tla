----------------------- MODULE EncryptedChannelProofs -----------------------
(***************************************************************************)
(* The encrypted channel is safe however often the two peers agree on new  *)
(* keys and in whatever order what they sent arrives (EncryptedChannel).   *)
(*                                                                         *)
(* No nonce is used twice because an ephemeral key is used up by the       *)
(* secret it goes into: a peer that restarts its counter has a secret it   *)
(* has never sealed anything with.  Under one secret a peer's counter only *)
(* grows, and the prefixes keep the two peers apart.                       *)
(***************************************************************************)
EXTENDS EncryptedChannel, TLAPS

\* Keys that are in use were made.
KeysMade ==
  \A p \in Peers :
    /\ private[p] # None => private[p] \in 1 .. keys
    /\ public[p] \subseteq 1 .. keys
    /\ secret[p] \subseteq 1 .. keys
    /\ \A m \in sealed[p] : m.secret \subseteq 1 .. keys

\* A key a peer still holds is in no secret the peer has, or has sealed with.
PrivateUnused ==
  \A p \in Peers : private[p] # None =>
    /\ private[p] \notin secret[p]
    /\ \A m \in sealed[p] : private[p] \notin m.secret

\* What a peer sealed has its prefix, and a counter that its present channel
\* is past.
SealedBefore ==
  \A p \in Peers : \A m \in sealed[p] :
    /\ m.prefix = SealPrefix(p)
    /\ m.secret = secret[p] => m.counter < sealing[p]

\* What a channel opened has a counter it is past.
OpenedBefore ==
  \A p \in Peers : \A m \in opened[p] : m.counter < opening[p]

ChannelInv ==
  /\ TypeOK /\ KeysMade /\ PrivateUnused /\ SealedBefore /\ OpenedBefore
  /\ NonceNeverReused /\ OpensWhatPeerSealed

------------------------------------------------------------------------------
\* The two peers are each other's other and have different prefixes.
LEMMA TwoPeers ==
  ASSUME NEW p \in Peers
  PROVE  /\ Other(p) \in Peers /\ Other(p) # p /\ Other(Other(p)) = p
         /\ \A q \in Peers : q = p \/ q = Other(p)
         /\ SealPrefix(p) \in 1 .. 2 /\ OpenPrefix(p) = SealPrefix(Other(p))
         /\ SealPrefix(p) # SealPrefix(Other(p))
BY DEF Peers, Other, SealPrefix, OpenPrefix

\* checked_add does not wrap around: what is left of the modulus is the sum.
LEMMA AdvanceAddsOne ==
  ASSUME NEW c \in Counter, CanAdvance(c)
  PROVE  Advance(c) = c + 1 /\ Advance(c) \in Counter
<1>1. c \in Nat /\ c < MaxCounter /\ MaxCounter \in Nat
  BY EncryptedChannelAssumption DEF Counter, CanAdvance
<1>2. (c + 1) % (MaxCounter + 1) = c + 1
  BY <1>1
<1>3. QED BY <1>1, <1>2 DEF Advance, Counter

\* Two peers that have done nothing.
LEMMA ChannelInit == Init => ChannelInv
<1> SUFFICES ASSUME Init PROVE ChannelInv OBVIOUS
<1> USE DEF Init
<1>1. TypeOK
  <2>1. private \in [Peers -> (1 .. MaxKeys) \cup {None}] OBVIOUS
  <2>2. /\ public \in [Peers -> SUBSET (1 .. MaxKeys)]
        /\ secret \in [Peers -> SUBSET (1 .. MaxKeys)]
    OBVIOUS
  <2>3. /\ sealing \in [Peers -> Counter] /\ opening \in [Peers -> Counter]
        /\ keys \in 0 .. MaxKeys
    BY EncryptedChannelAssumption DEF Counter
  <2>4. reused \in BOOLEAN OBVIOUS
  <2>5. /\ sealed \in [Peers -> SUBSET Ciphertext] /\ opened \in [Peers -> SUBSET Ciphertext]
    OBVIOUS
  <2>6. QED BY <2>1, <2>2, <2>3, <2>4, <2>5 DEF TypeOK
<1>2. KeysMade /\ PrivateUnused BY DEF KeysMade, PrivateUnused
<1>3. SealedBefore /\ OpenedBefore /\ NonceNeverReused /\ OpensWhatPeerSealed
  BY DEF SealedBefore, OpenedBefore, NonceNeverReused, OpensWhatPeerSealed
<1>4. QED BY <1>1, <1>2, <1>3 DEF ChannelInv

\* generate_ephemeral_key: the new key is in no secret, as none of those that
\* were made before it is.
LEMMA GenerateKeeps ==
  ASSUME ChannelInv, NEW p \in Peers, GenerateEphemeralKey(p)
  PROVE  ChannelInv'
<1> USE DEF ChannelInv
<1>1. /\ keys \in Nat /\ keys < MaxKeys /\ MaxKeys \in Nat /\ keys' = keys + 1
      /\ private' = [private EXCEPT ![p] = keys + 1]
      /\ public' = [public EXCEPT ![Other(p)] = @ \cup {keys + 1}]
      /\ UNCHANGED <<secret, sealing, opening, sealed, reused, opened>>
  BY EncryptedChannelAssumption DEF GenerateEphemeralKey, ends, TypeOK
<1>2. Other(p) \in Peers BY TwoPeers
<1>3. TypeOK' BY <1>1, <1>2 DEF TypeOK
<1>4. \A q \in Peers : private'[q] = IF q = p THEN keys + 1 ELSE private[q]
  BY <1>1 DEF TypeOK
<1>5. \A q \in Peers : public'[q] \subseteq public[q] \cup {keys + 1}
  BY <1>1, <1>2 DEF TypeOK
<1>6. KeysMade'
  <2> SUFFICES ASSUME NEW q \in Peers
               PROVE  /\ private'[q] # None => private'[q] \in 1 .. keys'
                      /\ public'[q] \subseteq 1 .. keys'
                      /\ secret'[q] \subseteq 1 .. keys'
                      /\ \A m \in sealed'[q] : m.secret \subseteq 1 .. keys'
    BY DEF KeysMade
  <2>1. 1 .. keys \subseteq 1 .. keys' /\ keys + 1 \in 1 .. keys' BY <1>1
  <2>2. QED BY <1>1, <1>4, <1>5, <2>1 DEF KeysMade
<1>7. PrivateUnused'
  <2>1. keys + 1 \notin 1 .. keys BY <1>1
  <2>2. QED BY <1>1, <1>4, <2>1 DEF KeysMade, PrivateUnused
<1>8. SealedBefore' /\ OpenedBefore' /\ NonceNeverReused' /\ OpensWhatPeerSealed'
  BY <1>1 DEF SealedBefore, OpenedBefore, NonceNeverReused, OpensWhatPeerSealed
<1>9. QED BY <1>3, <1>6, <1>7, <1>8

\* agree: the key that is used up makes the secret one that nothing was sealed
\* with, so that the counter may start from zero.
LEMMA AgreeKeeps ==
  ASSUME ChannelInv, NEW p \in Peers, NEW k \in public[p], Agree(p, k)
  PROVE  ChannelInv'
<1> USE DEF ChannelInv
<1>1. /\ private[p] # None
      /\ private' = [private EXCEPT ![p] = None]
      /\ secret' = [secret EXCEPT ![p] = {private[p], k}]
      /\ sealing' = [sealing EXCEPT ![p] = 0] /\ opening' = [opening EXCEPT ![p] = 0]
      /\ opened' = [opened EXCEPT ![p] = {}]
      /\ UNCHANGED <<public, keys, sealed, reused>>
  BY DEF Agree
<1>2. /\ private[p] \in 1 .. keys /\ k \in 1 .. keys
      /\ private[p] \in 1 .. MaxKeys /\ k \in 1 .. MaxKeys
  BY <1>1 DEF TypeOK, KeysMade
<1>3. TypeOK'
  BY <1>1, <1>2, EncryptedChannelAssumption DEF TypeOK, Counter
<1>4. \A q \in Peers :
        /\ private'[q] = IF q = p THEN None ELSE private[q]
        /\ secret'[q] = IF q = p THEN {private[p], k} ELSE secret[q]
        /\ sealing'[q] = IF q = p THEN 0 ELSE sealing[q]
        /\ opening'[q] = IF q = p THEN 0 ELSE opening[q]
        /\ opened'[q] = IF q = p THEN {} ELSE opened[q]
  BY <1>1 DEF TypeOK
<1>5. KeysMade' BY <1>1, <1>2, <1>4 DEF KeysMade
<1>6. PrivateUnused' BY <1>1, <1>4 DEF PrivateUnused
<1>7. SealedBefore'
  <2>1. \A m \in sealed[p] : m.secret # {private[p], k}
    BY <1>1 DEF PrivateUnused
  <2>2. QED BY <1>1, <1>4, <2>1 DEF SealedBefore
<1>8. OpenedBefore' /\ NonceNeverReused' /\ OpensWhatPeerSealed'
  BY <1>1, <1>4 DEF OpenedBefore, NonceNeverReused, OpensWhatPeerSealed
<1>9. QED BY <1>3, <1>5, <1>6, <1>7, <1>8

\* seal: the nonce is new, as the peer's own counter is past the ones it used
\* and the other peer's nonces have the other prefix.
LEMMA SealKeeps ==
  ASSUME ChannelInv, NEW p \in Peers, Seal(p)
  PROVE  ChannelInv'
<1> USE DEF ChannelInv
<1> DEFINE m == [secret |-> secret[p], prefix |-> SealPrefix(p), counter |-> sealing[p]]
<1>1. /\ CanAdvance(sealing[p])
      /\ sealing' = [sealing EXCEPT ![p] = Advance(@)]
      /\ sealed' = [sealed EXCEPT ![p] = @ \cup {m}]
      /\ reused' = (reused \/ \E q \in Peers : m \in sealed[q])
      /\ UNCHANGED <<private, public, secret, opening, keys, opened>>
  BY DEF Seal
<1>2. sealing[p] \in Counter /\ secret[p] \subseteq 1 .. MaxKeys
  BY DEF TypeOK
<1>3. Advance(sealing[p]) = sealing[p] + 1 /\ Advance(sealing[p]) \in Counter
  BY <1>1, <1>2, AdvanceAddsOne
<1>4. m \in Ciphertext /\ m.secret = secret[p] /\ m.prefix = SealPrefix(p) /\ m.counter = sealing[p]
  BY <1>2, TwoPeers DEF Ciphertext
<1>5. sealing[p] \in Nat BY <1>2 DEF Counter
<1> HIDE DEF m
<1>6. \A q \in Peers :
        /\ sealing'[q] = IF q = p THEN sealing[p] + 1 ELSE sealing[q]
        /\ sealed'[q] = IF q = p THEN sealed[p] \cup {m} ELSE sealed[q]
  BY <1>1, <1>3 DEF TypeOK
<1>7. \A q \in Peers : m \notin sealed[q]
  <2>1. m \notin sealed[p] BY <1>4, <1>5 DEF SealedBefore
  <2>2. m \notin sealed[Other(p)] BY <1>4, TwoPeers DEF SealedBefore
  <2>3. QED BY <2>1, <2>2, TwoPeers
<1>8. NonceNeverReused' BY <1>1, <1>7 DEF NonceNeverReused
<1>9. TypeOK'
  <2>1. reused' \in BOOLEAN BY <1>1, <1>7 DEF NonceNeverReused
  <2>2. sealing' \in [Peers -> Counter] BY <1>1, <1>3 DEF TypeOK
  <2>3. sealed' \in [Peers -> SUBSET Ciphertext] BY <1>1, <1>4 DEF TypeOK
  <2>4. QED BY <1>1, <2>1, <2>2, <2>3 DEF TypeOK
<1>10. KeysMade' BY <1>1, <1>4, <1>6 DEF KeysMade
<1>11. PrivateUnused' BY <1>1, <1>4, <1>6 DEF PrivateUnused
<1>12. SealedBefore'
  <2> SUFFICES ASSUME NEW q \in Peers, NEW x \in sealed'[q]
               PROVE  /\ x.prefix = SealPrefix(q)
                      /\ x.secret = secret[q] => x.counter < sealing'[q]
    BY <1>1 DEF SealedBefore
  <2>1. CASE q = p /\ x = m BY <1>4, <1>5, <1>6, <2>1
  <2>2. CASE q = p /\ x \in sealed[p]
    <3>1. x.counter \in Nat BY <2>2 DEF TypeOK, Ciphertext, Counter
    <3>2. QED BY <1>5, <1>6, <2>2, <3>1 DEF SealedBefore
  <2>3. CASE q # p BY <1>6, <2>3 DEF SealedBefore
  <2>4. QED BY <1>6, <2>1, <2>2, <2>3
<1>13. OpenedBefore' BY <1>1 DEF OpenedBefore
<1>14. OpensWhatPeerSealed' BY <1>1, <1>6, TwoPeers DEF OpensWhatPeerSealed
<1>15. QED BY <1>8, <1>9, <1>10, <1>11, <1>12, <1>13, <1>14

\* open: a ciphertext that opens has the other peer's prefix, so the other
\* peer sealed it; the counter moves past it.
LEMMA OpenKeeps ==
  ASSUME ChannelInv, NEW p \in Peers, NEW m \in Wire, Open(p, m)
  PROVE  ChannelInv'
<1> USE DEF ChannelInv
<1>1. /\ CanAdvance(opening[p])
      /\ opening' = [opening EXCEPT ![p] = Advance(@)]
      /\ opened' = IF Opens(p, m) THEN [opened EXCEPT ![p] = @ \cup {m}] ELSE opened
      /\ UNCHANGED <<private, public, secret, sealing, keys, sealed, reused>>
  BY DEF Open
<1>2. opening[p] \in Counter BY DEF TypeOK
<1>3. Advance(opening[p]) = opening[p] + 1 /\ Advance(opening[p]) \in Counter
  BY <1>1, <1>2, AdvanceAddsOne
<1>4. opening[p] \in Nat BY <1>2 DEF Counter
<1>5. PICK s \in Peers : m \in sealed[s] BY DEF Wire
<1>6. m \in Ciphertext BY <1>5 DEF TypeOK
<1>7. Opens(p, m) => m.secret = secret[p] /\ m.counter = opening[p] /\ m \in sealed[Other(p)]
  BY <1>5, TwoPeers DEF Opens, SealedBefore
<1>8. \A q \in Peers :
        /\ opening'[q] = IF q = p THEN opening[p] + 1 ELSE opening[q]
        /\ opened'[q] = IF q = p /\ Opens(p, m) THEN opened[p] \cup {m} ELSE opened[q]
  BY <1>1, <1>3 DEF TypeOK
<1>9. TypeOK'
  <2>1. opening' \in [Peers -> Counter] BY <1>1, <1>3 DEF TypeOK
  <2>2. opened' \in [Peers -> SUBSET Ciphertext] BY <1>1, <1>6 DEF TypeOK
  <2>3. QED BY <1>1, <2>1, <2>2 DEF TypeOK
<1>10. KeysMade' /\ PrivateUnused' /\ SealedBefore' /\ NonceNeverReused'
  BY <1>1 DEF KeysMade, PrivateUnused, SealedBefore, NonceNeverReused
<1>11. OpenedBefore'
  <2> SUFFICES ASSUME NEW q \in Peers, NEW x \in opened'[q] PROVE x.counter < opening'[q]
    BY DEF OpenedBefore
  <2>1. CASE q = p /\ x \in opened[p]
    <3>1. x.counter \in Nat BY <2>1 DEF TypeOK, Ciphertext, Counter
    <3>2. x.counter < opening[p] BY <2>1 DEF OpenedBefore
    <3>3. QED BY <1>4, <1>8, <2>1, <3>1, <3>2
  <2>2. CASE q = p /\ x = m /\ Opens(p, m) BY <1>4, <1>7, <1>8, <2>2
  <2>3. CASE q # p BY <1>8, <2>3 DEF OpenedBefore
  <2>4. QED BY <1>8, <2>1, <2>2, <2>3
<1>12. OpensWhatPeerSealed' BY <1>1, <1>7, <1>8 DEF OpensWhatPeerSealed
<1>13. QED BY <1>9, <1>10, <1>11, <1>12

\* Every step keeps the invariant.
LEMMA ChannelStep == ChannelInv /\ [Next]_vars => ChannelInv'
<1> SUFFICES ASSUME ChannelInv, [Next]_vars PROVE ChannelInv' OBVIOUS
<1>1. CASE UNCHANGED vars
  BY <1>1 DEF vars, ends, ChannelInv, TypeOK, KeysMade, PrivateUnused, SealedBefore,
              OpenedBefore, NonceNeverReused, OpensWhatPeerSealed
<1>2. QED BY <1>1, GenerateKeeps, AgreeKeeps, SealKeeps, OpenKeeps DEF Next

\* The inductive invariant holds of every behaviour.
LEMMA ChannelInvariant == Spec => []ChannelInv
BY ChannelInit, ChannelStep, PTL DEF Spec

------------------------------------------------------------------------------
\* The state of the two channels has its type: no counter leaves its range.
THEOREM ChannelTypes == Spec => []TypeOK
<1>1. ChannelInv => TypeOK BY DEF ChannelInv
<1>2. QED BY <1>1, ChannelInvariant, PTL

\* For any number of key agreements and any size of the counter, SealingKey
\* and OpeningKey never use a nonce twice under one secret.
THEOREM NoNonceReuse == Spec => []NonceNeverReused
<1>1. ChannelInv => NonceNeverReused BY DEF ChannelInv
<1>2. QED BY <1>1, ChannelInvariant, PTL

\* Whatever arrives late, again or back at its sender, open accepts only what
\* the other end of the same session sealed.
THEOREM OpensOnlyPeers == Spec => []OpensWhatPeerSealed
<1>1. ChannelInv => OpensWhatPeerSealed BY DEF ChannelInv
<1>2. QED BY <1>1, ChannelInvariant, PTL

\* A channel opens what it opens in the order in which it was sealed, and
\* nothing twice: the counter of open is past all it has opened.
THEOREM OpensOnceInOrder == Spec => OpensInOrder
<1> DEFINE InOrder == \A p \in Peers : \A m \in opened[p]' \ opened[p] : \A n \in opened[p] :
                        secret[p]' = secret[p] => n.counter < m.counter
<1>1. ChannelInv /\ [Next]_vars => [InOrder]_vars
  <2> SUFFICES ASSUME ChannelInv, Next PROVE InOrder BY DEF vars
  <2>1. ASSUME NEW q \in Peers, GenerateEphemeralKey(q) \/ Seal(q) PROVE InOrder
    BY <2>1 DEF GenerateEphemeralKey, Seal
  <2>2. ASSUME NEW q \in Peers, NEW k \in public[q], Agree(q, k) PROVE InOrder
    BY <2>2 DEF Agree, ChannelInv, TypeOK
  <2>3. ASSUME NEW q \in Peers, NEW m \in Wire, Open(q, m) PROVE InOrder
    <3>1. \A p \in Peers : \A x \in opened[p]' \ opened[p] : p = q /\ x.counter = opening[q]
      BY <2>3 DEF Open, Opens, ChannelInv, TypeOK
    <3>2. QED BY <3>1 DEF ChannelInv, OpenedBefore
  <2>4. QED BY <2>1, <2>2, <2>3 DEF Next
<1>2. QED BY <1>1, ChannelInvariant, PTL DEF Spec, OpensInOrder
==============================================================================
