-------------------------- MODULE EncryptedChannel --------------------------
(***************************************************************************)
(* Key agreement and the encrypted channel between two peers               *)
(* (p2p/src/channel.rs).                                                   *)
(*                                                                         *)
(* The initiator and the responder each make an ephemeral key, send its    *)
(* public half and derive a secret from their own private half and the     *)
(* public half they received.  The secret is the set of the two key        *)
(* numbers.  Each may start again at any time, so that an old public half, *)
(* or an old ciphertext, may arrive late.  The cipher is ideal: a          *)
(* ciphertext opens only under the secret and the nonce it was sealed      *)
(* with.  What is on the wire arrives in any order, again, late, back at   *)
(* its sender, or never.                                                   *)
(***************************************************************************)
EXTENDS Integers, FiniteSets

CONSTANTS
  MaxCounter, \* the largest value of a counter (2^64 - 1)
  MaxKeys,    \* bounds the ephemeral keys made
  None

ASSUME EncryptedChannelAssumption ==
  /\ MaxCounter \in Nat /\ MaxKeys \in Nat
  /\ None \notin Nat

Peers == {"initiator", "responder"}
Other(p) == IF p = "initiator" THEN "responder" ELSE "initiator"

VARIABLES
  private,   \* the ephemeral private key a peer holds, or None
  public,    \* public halves under way to each peer
  secret,    \* the shared secret of a peer's channel, {} if it has none
  sealing,   \* counter of the sealing key
  opening,   \* counter of the opening key
  keys,      \* number of ephemeral keys made so far
  sealed,    \* what each peer has ever sealed: all of it is on the wire
  reused,    \* history: whether a nonce was used twice under one secret
  opened     \* history: what each peer's present channel has opened

ends == <<secret, sealing, opening>>
vars == <<private, public, ends, keys, sealed, reused, opened>>

Counter == 0 .. MaxCounter
Ciphertext == [secret : SUBSET (1 .. MaxKeys), prefix : 1 .. 2, counter : Counter]

\* Ciphertexts that may arrive: none is ever too late.
Wire == UNION {sealed[p] : p \in Peers}

Init ==
  /\ private = [p \in Peers |-> None]
  /\ public = [p \in Peers |-> {}]
  /\ secret = [p \in Peers |-> {}]
  /\ sealing = [p \in Peers |-> 0]
  /\ opening = [p \in Peers |-> 0]
  /\ keys = 0
  /\ sealed = [p \in Peers |-> {}]
  /\ reused = FALSE
  /\ opened = [p \in Peers |-> {}]

------------------------------------------------------------------------------
(* Key agreement *)

\* generate_ephemeral_key, and the public half is sent to the other peer.
GenerateEphemeralKey(p) ==
  /\ keys < MaxKeys
  /\ keys' = keys + 1
  /\ private' = [private EXCEPT ![p] = keys + 1]
  /\ public' = [public EXCEPT ![Other(p)] = @ \cup {keys + 1}]
  /\ UNCHANGED <<ends, sealed, reused, opened>>

\* agree, which uses up the private key, and EncryptedChannel::new.
Agree(p, k) ==
  /\ private[p] # None
  /\ k \in public[p]
  /\ private' = [private EXCEPT ![p] = None]
  /\ secret' = [secret EXCEPT ![p] = {private[p], k}]
  /\ sealing' = [sealing EXCEPT ![p] = 0]
  /\ opening' = [opening EXCEPT ![p] = 0]
  /\ opened' = [opened EXCEPT ![p] = {}]
  /\ UNCHANGED <<public, keys, sealed, reused>>

------------------------------------------------------------------------------
(* Sealing and opening *)

\* The prefix p seals with.
SealPrefix(p) == IF p = "initiator" THEN 1 ELSE 2

OpenPrefix(p) == 3 - SealPrefix(p)

\* Mutant: the counter wraps around.
Wraps(c) == TRUE

\* checked_add: the last value of the counter is never used.
CanAdvance(c) == c < MaxCounter

\* Mutant: one call advances the counter twice, and the check covers one step.
AdvanceTwice(c) == c + 2

Advance(c) == (c + 1) % (MaxCounter + 1)

Seal(p) ==
  LET m == [secret |-> secret[p], prefix |-> SealPrefix(p), counter |-> sealing[p]]
  IN  /\ secret[p] # {}
      /\ CanAdvance(sealing[p])
      /\ sealing' = [sealing EXCEPT ![p] = Advance(@)]
      /\ sealed' = [sealed EXCEPT ![p] = @ \cup {m}]
      /\ reused' = (reused \/ \E q \in Peers : m \in sealed[q])
      /\ UNCHANGED <<private, public, secret, opening, keys, opened>>

\* Mutant: the nonce that came with a message is trusted.
OpensAnyNonce(p, m) == m.secret = secret[p] /\ m.prefix = OpenPrefix(p)

\* Mutant: the prefix makes no difference.
OpensAnyPrefix(p, m) == m.secret = secret[p] /\ m.counter = opening[p]

\* The tag fits: sealed under this secret with the nonce that is next here.
Opens(p, m) ==
  /\ m.secret = secret[p]
  /\ m.prefix = OpenPrefix(p)
  /\ m.counter = opening[p]

\* open, at the arrival of a ciphertext.  The counter advances whether the ciphertext opens or not, and the
\* ciphertext may arrive again.
Open(p, m) ==
  /\ secret[p] # {}
  /\ CanAdvance(opening[p])
  /\ opening' = [opening EXCEPT ![p] = Advance(@)]
  /\ opened' = IF Opens(p, m) THEN [opened EXCEPT ![p] = @ \cup {m}] ELSE opened
  /\ UNCHANGED <<private, public, secret, sealing, keys, sealed, reused>>

------------------------------------------------------------------------------
Next ==
  \/ \E p \in Peers :
       \/ GenerateEphemeralKey(p)
       \/ \E k \in public[p] : Agree(p, k)
       \/ Seal(p)
       \/ \E m \in Wire : Open(p, m)

Spec == Init /\ [][Next]_vars

------------------------------------------------------------------------------
(* Properties *)

TypeOK ==
  /\ private \in [Peers -> (1 .. MaxKeys) \cup {None}]
  /\ public \in [Peers -> SUBSET (1 .. MaxKeys)]
  /\ secret \in [Peers -> SUBSET (1 .. MaxKeys)]
  /\ sealing \in [Peers -> Counter] /\ opening \in [Peers -> Counter]
  /\ keys \in 0 .. MaxKeys
  /\ sealed \in [Peers -> SUBSET Ciphertext]
  /\ reused \in BOOLEAN
  /\ opened \in [Peers -> SUBSET Ciphertext]

\* No nonce is used twice under one secret: not by the two ends, which count
\* separately, not by a channel that replaces another, and not at the end of
\* the counter.
NonceNeverReused == ~ reused

\* What a channel opens was sealed by the other end of the same session, even
\* when late, repeated and returned ciphertexts have put the two out of step.
OpensWhatPeerSealed ==
  \A p \in Peers : \A m \in opened[p] : m.secret = secret[p] /\ m \in sealed[Other(p)]

\* A channel opens its messages in the order in which they were sealed and
\* each at most once, though failed attempts advance its counter too.
OpensInOrder ==
  [][\A p \in Peers : \A m \in opened[p]' \ opened[p] : \A n \in opened[p] :
       secret[p]' = secret[p] => n.counter < m.counter]_vars
==============================================================================
