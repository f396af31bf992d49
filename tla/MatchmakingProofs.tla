-------------------------- MODULE MatchmakingProofs --------------------------
(***************************************************************************)
(* The matchmaker is correct for every number of clients, requests, slots, *)
(* offers and purges at once (Matchmaking).  Expiry is safe because a time *)
(* that a call has read is never ahead of the clock.  Identifiers are      *)
(* unique because a new one is greater than the number of those given.     *)
(***************************************************************************)
EXTENDS Matchmaking, FiniteSetTheorems, TLAPS

\* Deadlines are times, stored things were submitted, and purges under way
\* judge by a time that has come.
Timed ==
  /\ now \in Nat
  /\ \A r \in submitted : r.window.end \in Nat
  /\ \A o \in offered : o.expires_at \in Nat
  /\ requests \subseteq submitted /\ offers \subseteq offered
  /\ looking \subseteq offered /\ expired \subseteq offered
  /\ purging \subseteq [time : Nat, next : {"requests", "offers"}]
  /\ \A p \in purging : p.time <= now

ExpiryInv == Timed /\ NothingVanishes /\ ExpiryIsFinal

\* The invariant holds of the empty matchmaker.
LEMMA ExpiryInit == Init => ExpiryInv
BY DEF Init, ExpiryInv, Timed, NothingVanishes, ExpiryIsFinal, matching, offering

\* A deadline in the past stays in the past while time passes.
LEMMA TimePassesKeeps == ExpiryInv /\ TimePasses => ExpiryInv'
<1> SUFFICES ASSUME ExpiryInv, TimePasses PROVE ExpiryInv' OBVIOUS
<1> USE DEF ExpiryInv
<1>1. now' = now + 1 /\ now \in Nat BY DEF TimePasses, Timed
<1>2. UNCHANGED <<requests, submitted, offers, offered, looking, expired, purging, given_up>>
  BY DEF TimePasses, matching, offering
<1>3. Timed' BY <1>1, <1>2 DEF Timed
<1>4. NothingVanishes' BY <1>1, <1>2 DEF Timed, NothingVanishes
<1>5. ExpiryIsFinal' BY <1>1, <1>2 DEF Timed, ExpiryIsFinal, Active
<1>6. QED BY <1>3, <1>4, <1>5

\* A request stored with a window that ends at a time.
LEMMA SubmitKeeps ==
  ASSUME ExpiryInv, NEW body, NEW window, window.end \in Nat, Submit(body, window)
  PROVE  ExpiryInv'
<1> DEFINE r == [id |-> Cardinality(submitted) + 1, body |-> body, window |-> window]
<1>1. /\ requests' = requests \cup {r} /\ submitted' = submitted \cup {r}
      /\ UNCHANGED <<now, offers, offered, looking, expired, purging, given_up>>
  BY DEF Submit, offering
<1>2. r.window.end \in Nat OBVIOUS
<1> HIDE DEF r
<1>3. Timed' BY <1>1, <1>2 DEF ExpiryInv, Timed
<1>4. NothingVanishes' BY <1>1 DEF ExpiryInv, NothingVanishes
<1>5. ExpiryIsFinal' BY <1>1 DEF ExpiryInv, ExpiryIsFinal, Active
<1>6. QED BY <1>3, <1>4, <1>5 DEF ExpiryInv

\* An offer stored, in place of the one that had its identifier.
LEMMA OfferingKeeps ==
  ASSUME ExpiryInv, NEW id, NEW a, NEW expires_at \in Nat, Offering(id, a, expires_at)
  PROVE  ExpiryInv'
<1> DEFINE o == [id |-> id, from |-> a, expires_at |-> expires_at,
                 no |-> Cardinality(offered) + 1]
<1>1. /\ offers' = (offers \ Replaced(id)) \cup {o} /\ offered' = offered \cup {o}
      /\ given_up' = given_up \cup Replaced(id)
      /\ UNCHANGED <<now, requests, submitted, looking, expired, purging>>
  BY DEF Offering, matching
<1>2. o.expires_at \in Nat OBVIOUS
<1> HIDE DEF o
<1>3. Timed' BY <1>1, <1>2 DEF ExpiryInv, Timed
<1>4. NothingVanishes' BY <1>1 DEF ExpiryInv, NothingVanishes
<1>5. ExpiryIsFinal' BY <1>1 DEF ExpiryInv, ExpiryIsFinal, Active
<1>6. QED BY <1>3, <1>4, <1>5 DEF ExpiryInv

\* The three steps of purge_expired remove only what is over.
LEMMA PurgingKeeps == ExpiryInv /\ Purging => ExpiryInv'
<1> SUFFICES ASSUME ExpiryInv, Purging PROVE ExpiryInv' OBVIOUS
<1> USE DEF ExpiryInv
<1>1. CASE StartPurge
  <2>1. /\ purging' = purging \cup {[time |-> now, next |-> "requests"]}
        /\ UNCHANGED <<now, requests, submitted, offers, offered, looking, expired, given_up>>
    BY <1>1 DEF StartPurge, matching, offering
  <2>2. Timed' BY <2>1 DEF Timed
  <2>3. NothingVanishes' /\ ExpiryIsFinal'
    BY <2>1 DEF NothingVanishes, ExpiryIsFinal, Active
  <2>4. QED BY <2>2, <2>3
<1>2. ASSUME NEW p \in purging, PurgeRequests(p) PROVE ExpiryInv'
  <2>1. /\ requests' = {r \in requests : r.window.end >= p.time}
        /\ purging' = (purging \ {p}) \cup {[p EXCEPT !.next = "offers"]}
        /\ UNCHANGED <<now, submitted, offers, offered, looking, expired, given_up>>
    BY <1>2 DEF PurgeRequests, Lives, offering
  <2>2. p \in [time : Nat, next : {"requests", "offers"}] /\ p.time <= now
    BY DEF Timed
  <2>3. Timed' BY <2>1, <2>2 DEF Timed
  <2>4. \A r \in submitted \ requests' : r \in given_up \/ r.window.end < now
    BY <2>1, <2>2 DEF NothingVanishes, Timed
  <2>5. NothingVanishes' BY <2>1, <2>4 DEF NothingVanishes
  <2>6. ExpiryIsFinal' BY <2>1 DEF ExpiryIsFinal, Active
  <2>7. QED BY <2>3, <2>5, <2>6
<1>3. ASSUME NEW p \in purging, PurgeOffers(p) PROVE ExpiryInv'
  <2>1. /\ offers' = {o \in offers : o.expires_at >= p.time}
        /\ purging' = purging \ {p}
        /\ UNCHANGED <<now, requests, submitted, offered, looking, expired, given_up>>
    BY <1>3 DEF PurgeOffers, Lives, matching
  <2>2. p.time \in Nat /\ p.time <= now BY DEF Timed
  <2>3. Timed' BY <2>1 DEF Timed
  <2>4. \A o \in offered \ offers' : o \in given_up \/ o.expires_at < now
    BY <2>1, <2>2 DEF NothingVanishes, Timed
  <2>5. NothingVanishes' BY <2>1, <2>4 DEF NothingVanishes
  <2>6. ExpiryIsFinal' BY <2>1 DEF ExpiryIsFinal, Active
  <2>7. QED BY <2>3, <2>5, <2>6
<1>4. ASSUME NEW p \in purging, DropPurge(p) PROVE ExpiryInv'
  <2>1. /\ purging' = purging \ {p}
        /\ UNCHANGED <<now, requests, submitted, offers, offered, looking, expired, given_up>>
    BY <1>4 DEF DropPurge, matching, offering
  <2>2. QED BY <2>1 DEF Timed, NothingVanishes, ExpiryIsFinal, Active
<1>5. QED BY <1>1, <1>2, <1>3, <1>4 DEF Purging

\* Submitting, finding and cancelling requests.
LEMMA MatchingKeeps == ExpiryInv /\ Matching => ExpiryInv'
<1> SUFFICES ASSUME ExpiryInv, Matching PROVE ExpiryInv' OBVIOUS
<1>0. now \in Nat BY DEF ExpiryInv, Timed
<1>1. \A body \in Bodies : body.window.start \in Nat /\ body.window.end \in Nat
  BY BodiesAssumption
<1>2. ASSUME NEW body \in Bodies, SubmitRequest(body) PROVE ExpiryInv'
  BY <1>1, <1>2, SubmitKeeps DEF SubmitRequest
<1>3. ASSUME NEW body \in Bodies, NEW start \in {body.window.start, now},
             NEW end \in {body.window.end, now}, RouteRequestMatch(body, start, end)
      PROVE ExpiryInv'
  <2>1. [start |-> start, end |-> end].end \in Nat BY <1>0, <1>1
  <2>2. QED BY <1>3, <2>1, SubmitKeeps DEF RouteRequestMatch
<1>4. ASSUME NEW r \in requests, CancelRequest(r) PROVE ExpiryInv'
  <2>1. /\ requests' = requests \ {r} /\ given_up' = given_up \cup {r}
        /\ UNCHANGED <<now, submitted, offers, offered, looking, expired, purging>>
    BY <1>4 DEF CancelRequest, offering
  <2>2. Timed' BY <2>1 DEF ExpiryInv, Timed
  <2>3. NothingVanishes' BY <2>1 DEF ExpiryInv, NothingVanishes
  <2>4. ExpiryIsFinal' BY <2>1 DEF ExpiryInv, ExpiryIsFinal, Active
  <2>5. QED BY <2>2, <2>3, <2>4 DEF ExpiryInv
<1>5. ASSUME NEW r, ReadTarget(r) \/ FindMatches(r) \/ DropFind(r) PROVE ExpiryInv'
  <2>1. UNCHANGED <<now, requests, submitted, offers, offered, looking, expired, purging, given_up>>
    BY <1>5 DEF ReadTarget, FindMatches, DropFind, offering
  <2>2. QED BY <2>1 DEF ExpiryInv, Timed, NothingVanishes, ExpiryIsFinal, Active
<1>6. QED BY <1>2, <1>3, <1>4, <1>5 DEF Matching

\* Submitting, reading and withdrawing offers.
LEMMA TradingKeeps == ExpiryInv /\ Trading => ExpiryInv'
<1> SUFFICES ASSUME ExpiryInv, Trading PROVE ExpiryInv' OBVIOUS
<1>0. now \in Nat BY DEF ExpiryInv, Timed
<1>1. ASSUME NEW id \in OfferIds, NEW a \in Agents, RouteOffer(id, a) PROVE ExpiryInv'
  BY <1>0, <1>1, OfferingKeeps DEF RouteOffer
<1>2. ASSUME NEW id \in OfferIds, NEW a \in Agents, NEW t \in Time, SubmitOffer(id, a, t)
      PROVE ExpiryInv'
  <2>1. t \in Nat BY BoundAssumption DEF Time
  <2>2. QED BY <1>2, <2>1, OfferingKeeps DEF SubmitOffer
<1>3. ASSUME NEW o \in offers, LookUpOffer(o) PROVE ExpiryInv'
  <2>1. /\ looking' = looking \cup {o}
        /\ UNCHANGED <<now, requests, submitted, offers, offered, expired, purging, given_up>>
    BY <1>3 DEF LookUpOffer, matching
  <2>2. QED BY <2>1 DEF ExpiryInv, Timed, NothingVanishes, ExpiryIsFinal, Active
<1>4. ASSUME NEW o \in offers, WithdrawOffer(o) PROVE ExpiryInv'
  <2>1. /\ offers' = offers \ {o} /\ given_up' = given_up \cup {o}
        /\ UNCHANGED <<now, requests, submitted, offered, looking, expired, purging>>
    BY <1>4 DEF WithdrawOffer, matching
  <2>2. Timed' BY <2>1 DEF ExpiryInv, Timed
  <2>3. NothingVanishes' BY <2>1 DEF ExpiryInv, NothingVanishes
  <2>4. ExpiryIsFinal' BY <2>1 DEF ExpiryInv, ExpiryIsFinal, Active
  <2>5. QED BY <2>2, <2>3, <2>4 DEF ExpiryInv
<1>5. ASSUME NEW o \in looking, GetOffer(o) PROVE ExpiryInv'
  <2>1. /\ looking' = looking \ {o}
        /\ expired' = expired \cup (IF o.expires_at < now THEN {o} ELSE {})
        /\ UNCHANGED <<now, requests, submitted, offers, offered, purging, given_up>>
    BY <1>5 DEF GetOffer, OfferExpired, matching
  <2>2. o \in offered /\ o.expires_at \in Nat BY DEF ExpiryInv, Timed
  <2>3. Timed' BY <2>1, <2>2 DEF ExpiryInv, Timed
  <2>4. NothingVanishes' BY <2>1 DEF ExpiryInv, NothingVanishes
  <2>5. ExpiryIsFinal' BY <1>0, <2>1, <2>2 DEF ExpiryInv, ExpiryIsFinal, Active
  <2>6. QED BY <2>3, <2>4, <2>5 DEF ExpiryInv
<1>6. QED BY <1>1, <1>2, <1>3, <1>4, <1>5 DEF Trading

\* Slots have nothing to do with expiry, and a stuttering step nothing at all.
LEMMA FrameKeeps ==
  ASSUME ExpiryInv,
         UNCHANGED <<now, requests, submitted, offers, offered, looking, expired, purging, given_up>>
  PROVE  ExpiryInv'
BY DEF ExpiryInv, Timed, NothingVanishes, ExpiryIsFinal, Active

\* Every step keeps the invariant.
LEMMA ExpiryStep == ExpiryInv /\ [Next]_vars => ExpiryInv'
<1> SUFFICES ASSUME ExpiryInv, [Next]_vars PROVE ExpiryInv' OBVIOUS
<1>1. CASE Scheduling
  <2>1. UNCHANGED <<now, requests, submitted, offers, offered, looking, expired, purging, given_up>>
    BY <1>1 DEF Scheduling, ProposeSlot, RouteSchedule, Propose, FinishSchedule,
                DropSchedule, ConfirmSlot, DeclineSlot, Decide, matching, offering
  <2>2. QED BY <2>1, FrameKeeps
<1>2. CASE UNCHANGED vars
  BY <1>2, FrameKeeps DEF vars, matching, offering
<1>3. QED
  BY <1>1, <1>2, TimePassesKeeps, MatchingKeeps, TradingKeeps, PurgingKeeps DEF Next

\* However calls of purge_expired wait for their locks, a request or offer is
\* gone only if it was given up or its time is over.
THEOREM PurgeIsSafe == Spec => []NothingVanishes
<1>1. ExpiryInv => NothingVanishes BY DEF ExpiryInv
<1>2. QED BY <1>1, ExpiryInit, ExpiryStep, PTL DEF Spec

\* Once get_offer has reported an offer expired, active_offers never lists it.
THEOREM ExpiryStands == Spec => []ExpiryIsFinal
<1>1. ExpiryInv => ExpiryIsFinal BY DEF ExpiryInv
<1>2. QED BY <1>1, ExpiryInit, ExpiryStep, PTL DEF Spec

------------------------------------------------------------------------------
(* Identifiers, matches and slots *)

\* Requests ever made have ids up to their number; reported matches are
\* compatible requests.
RequestsFine ==
  /\ submitted \subseteq Request /\ IsFiniteSet(submitted)
  /\ \A x \in submitted : x.id <= Cardinality(submitted)
  /\ \A x, y \in submitted : x.id = y.id => x = y
  /\ requests \subseteq submitted /\ finding \subseteq submitted
  /\ found \subseteq submitted \X submitted
  /\ \A pair \in found : Compatible(pair[2], pair[1])

SlotsFine ==
  /\ schedules \subseteq Slot /\ IsFiniteSet(schedules)
  /\ \A x \in schedules : x.id <= Cardinality(schedules)
  /\ \A x, y \in schedules : x.id = y.id => x = y
  /\ routing \subseteq 1 .. MaxItems

OffersFine ==
  /\ offered \subseteq Offer /\ IsFiniteSet(offered)
  /\ offers \subseteq offered
  /\ \A x, y \in offers : x.id = y.id => x = y
  /\ looking \subseteq offered /\ expired \subseteq offered

ClockFine ==
  /\ now \in Time
  /\ purging \subseteq [time : 0 .. now, next : {"requests", "offers"}]

MatchmakingInv ==
  /\ RequestsFine /\ SlotsFine /\ OffersFine /\ ClockFine
  /\ given_up \subseteq submitted \cup offered

\* The empty matchmaker.
LEMMA MatchmakingInit == Init => MatchmakingInv
<1> SUFFICES ASSUME Init PROVE MatchmakingInv OBVIOUS
<1>1. 0 \in Time BY BoundAssumption DEF Time
<1>2. RequestsFine /\ SlotsFine /\ OffersFine
  BY FS_EmptySet DEF Init, RequestsFine, SlotsFine, OffersFine
<1>3. ClockFine BY <1>1 DEF Init, ClockFine
<1>4. QED BY <1>2, <1>3 DEF Init, MatchmakingInv

\* While a thing may be made, its number is a new identifier within the bound.
LEMMA NumbersFit ==
  ASSUME MatchmakingInv, Items < MaxItems
  PROVE  \A S \in {submitted, schedules, offered} :
           Cardinality(S) \in Nat /\ Cardinality(S) + 1 \in 1 .. MaxItems
<1>1. /\ Cardinality(submitted) \in Nat /\ Cardinality(schedules) \in Nat
      /\ Cardinality(offered) \in Nat
  BY FS_CardinalityType DEF MatchmakingInv, RequestsFine, SlotsFine, OffersFine
<1>2. MaxItems \in Nat BY BoundAssumption
<1>3. Cardinality(submitted) + Cardinality(schedules) + Cardinality(offered) < MaxItems
  BY DEF Items
<1>4. QED BY <1>1, <1>2, <1>3

\* What an action leaves alone stays fine.
LEMMA RequestsStay == RequestsFine /\ UNCHANGED matching => RequestsFine'
BY DEF RequestsFine, matching

\* Slots that nothing touches.
LEMMA SlotsStay == SlotsFine /\ UNCHANGED slots => SlotsFine'
BY DEF SlotsFine, slots

\* Offers that nothing touches.
LEMMA OffersStay == OffersFine /\ UNCHANGED offering => OffersFine'
BY DEF OffersFine, offering

\* The clock and the purges under way that nothing touches.
LEMMA ClockStays == ClockFine /\ UNCHANGED <<now, purging>> => ClockFine'
BY DEF ClockFine

------------------------------------------------------------------------------
\* A request gets an identifier of its own.
LEMMA SubmitFine ==
  ASSUME MatchmakingInv, NEW body \in Bodies, NEW window \in Window, Submit(body, window)
  PROVE  MatchmakingInv'
<1> USE DEF MatchmakingInv
<1>0. PICK r : r = [id |-> Cardinality(submitted) + 1, body |-> body, window |-> window]
  OBVIOUS
<1>1. /\ Items < MaxItems
      /\ requests' = requests \cup {r} /\ submitted' = submitted \cup {r}
      /\ UNCHANGED <<finding, found>> /\ UNCHANGED <<now, purging>>
      /\ UNCHANGED slots /\ UNCHANGED offering /\ UNCHANGED given_up
  BY <1>0 DEF Submit
<1>2. Cardinality(submitted) \in Nat /\ Cardinality(submitted) + 1 \in 1 .. MaxItems
  BY <1>1, NumbersFit
<1>3. r \in Request /\ r.id = Cardinality(submitted) + 1 BY <1>0, <1>2 DEF Request
<1>4. \A x \in submitted : x.id \in Int /\ x.id <= Cardinality(submitted)
  BY DEF RequestsFine, Request
<1>5. r \notin submitted BY <1>2, <1>3, <1>4
<1>6. IsFiniteSet(submitted') /\ Cardinality(submitted') = Cardinality(submitted) + 1
  BY <1>1, <1>5, FS_AddElement DEF RequestsFine
<1>7. RequestsFine'
  <2>1. \A x \in submitted' : x.id <= Cardinality(submitted')
    BY <1>1, <1>2, <1>3, <1>4, <1>6
  <2>2. \A x, y \in submitted' : x.id = y.id => x = y
    <3>1. \A x \in submitted : x.id # r.id BY <1>2, <1>3, <1>4
    <3>2. QED BY <1>1, <3>1 DEF RequestsFine
  <2>3. submitted' \subseteq Request /\ requests' \subseteq submitted'
        /\ finding' \subseteq submitted' /\ found' \subseteq submitted' \X submitted'
    BY <1>1, <1>3 DEF RequestsFine
  <2>4. \A pair \in found' : Compatible(pair[2], pair[1]) BY <1>1 DEF RequestsFine
  <2>5. QED BY <1>6, <2>1, <2>2, <2>3, <2>4 DEF RequestsFine
<1>8. SlotsFine' /\ OffersFine' /\ ClockFine'
  BY <1>1, SlotsStay, OffersStay, ClockStays
<1>9. given_up' \subseteq submitted' \cup offered' BY <1>1 DEF offering
<1>10. QED BY <1>7, <1>8, <1>9

\* Requests are made, matched and cancelled.
LEMMA MatchingFine == MatchmakingInv /\ Matching => MatchmakingInv'
<1> SUFFICES ASSUME MatchmakingInv, Matching PROVE MatchmakingInv' OBVIOUS
<1> USE DEF MatchmakingInv
<1>1. \A body \in Bodies : body.window \in Window BY BodiesAssumption DEF Window, Time
<1>2. ASSUME NEW body \in Bodies, SubmitRequest(body) PROVE MatchmakingInv'
  BY <1>1, <1>2, SubmitFine DEF SubmitRequest
<1>3. ASSUME NEW body \in Bodies, NEW start \in {body.window.start, now},
             NEW end \in {body.window.end, now}, RouteRequestMatch(body, start, end)
      PROVE MatchmakingInv'
  <2>1. [start |-> start, end |-> end] \in Window BY <1>1 DEF ClockFine, Window
  <2>2. QED BY <1>3, <2>1, SubmitFine DEF RouteRequestMatch
<1>4. ASSUME NEW r \in requests, ReadTarget(r) \/ CancelRequest(r) PROVE MatchmakingInv'
  <2>1. /\ requests' \subseteq requests /\ finding' \subseteq finding \cup {r}
        /\ given_up' \subseteq given_up \cup {r}
        /\ UNCHANGED <<submitted, found>> /\ UNCHANGED <<now, purging>>
        /\ UNCHANGED slots /\ UNCHANGED offering
    BY <1>4 DEF ReadTarget, CancelRequest
  <2>2. RequestsFine' BY <2>1 DEF RequestsFine
  <2>3. SlotsFine' /\ OffersFine' /\ ClockFine'
    BY <2>1, SlotsStay, OffersStay, ClockStays
  <2>4. given_up' \subseteq submitted' \cup offered' BY <2>1 DEF offering, RequestsFine
  <2>5. QED BY <2>2, <2>3, <2>4
<1>5. ASSUME NEW target \in finding, FindMatches(target) \/ DropFind(target)
      PROVE MatchmakingInv'
  <2>1. /\ finding' \subseteq finding
        /\ found' \subseteq found \cup {<<target, r>> : r \in {q \in requests : Compatible(q, target)}}
        /\ UNCHANGED <<requests, submitted>> /\ UNCHANGED <<now, purging>>
        /\ UNCHANGED slots /\ UNCHANGED offering /\ UNCHANGED given_up
    BY <1>5 DEF FindMatches, DropFind
  <2>2. \A pair \in found' : pair \in found \/ \E r \in requests :
                                pair = <<target, r>> /\ Compatible(r, target)
    BY <2>1
  <2>3. \A pair \in found' : Compatible(pair[2], pair[1]) BY <2>2 DEF RequestsFine
  <2>4. found' \subseteq submitted \X submitted BY <2>2 DEF RequestsFine
  <2>5. RequestsFine' BY <2>1, <2>3, <2>4 DEF RequestsFine
  <2>6. SlotsFine' /\ OffersFine' /\ ClockFine'
    BY <2>1, SlotsStay, OffersStay, ClockStays
  <2>7. given_up' \subseteq submitted' \cup offered' BY <2>1 DEF offering
  <2>8. QED BY <2>5, <2>6, <2>7
<1>6. QED BY <1>2, <1>3, <1>4, <1>5 DEF Matching

------------------------------------------------------------------------------
\* A slot gets an identifier of its own.
LEMMA ProposeFine ==
  ASSUME MatchmakingInv, NEW a \in Agents, NEW wanted \in SlotState,
         NEW route \in BOOLEAN, Propose(a, wanted, route)
  PROVE  MatchmakingInv'
<1> USE DEF MatchmakingInv
<1>0. PICK id, s : /\ id = Cardinality(schedules) + 1
                   /\ s = [id |-> id, agent |-> a, state |-> "proposed", wanted |-> wanted]
  OBVIOUS
<1>1. /\ Items < MaxItems
      /\ schedules' = schedules \cup {s}
      /\ routing' = routing \cup (IF route THEN {id} ELSE {})
      /\ UNCHANGED <<now, purging>>
      /\ UNCHANGED matching /\ UNCHANGED offering /\ UNCHANGED given_up
  BY <1>0 DEF Propose
<1>2. Cardinality(schedules) \in Nat /\ id \in 1 .. MaxItems
  BY <1>0, <1>1, NumbersFit
<1>3. /\ s \in Slot /\ s.id = id /\ s.state = "proposed" /\ s.wanted = wanted
  BY <1>0, <1>2 DEF Slot, SlotState
<1>4. \A x \in schedules : x.id \in Int /\ x.id <= Cardinality(schedules)
  BY DEF SlotsFine, Slot
<1>5. \A x \in schedules : x.id # id BY <1>0, <1>2, <1>4
<1>6. IsFiniteSet(schedules') /\ Cardinality(schedules') = Cardinality(schedules) + 1
  BY <1>1, <1>3, <1>5, FS_AddElement DEF SlotsFine
<1>7. SlotsFine'
  <2>1. \A x \in schedules' : x.id <= Cardinality(schedules')
    BY <1>0, <1>1, <1>2, <1>3, <1>4, <1>6
  <2>2. \A x, y \in schedules' : x.id = y.id => x = y BY <1>1, <1>3, <1>5 DEF SlotsFine
  <2>3. schedules' \subseteq Slot /\ routing' \subseteq 1 .. MaxItems
    BY <1>1, <1>2, <1>3 DEF SlotsFine
  <2>4. QED BY <1>6, <2>1, <2>2, <2>3 DEF SlotsFine
<1>8. RequestsFine' /\ OffersFine' /\ ClockFine' BY <1>1, RequestsStay, OffersStay, ClockStays
<1>9. given_up' \subseteq submitted' \cup offered' BY <1>1 DEF matching, offering
<1>10. QED BY <1>7, <1>8, <1>9

\* Slots keep their identifiers and their number when the state of one is set.
LEMMA SetStateFine ==
  ASSUME SlotsFine, NEW s \in schedules, NEW state \in SlotState, SetState(s, state),
         routing' \subseteq routing
  PROVE  SlotsFine'
<1>0. PICK t : t = [s EXCEPT !.state = state] OBVIOUS
<1>1. schedules' = (schedules \ {s}) \cup {t} BY <1>0 DEF SetState
<1>2. t \in Slot /\ t.id = s.id
  BY <1>0 DEF SlotsFine, Slot
<1>3. \A x \in schedules \ {s} : x.id # s.id BY DEF SlotsFine
<1>4. t \notin schedules \ {s} BY <1>2, <1>3
<1>5. IsFiniteSet(schedules \ {s}) /\ Cardinality(schedules \ {s}) = Cardinality(schedules) - 1
  BY FS_RemoveElement DEF SlotsFine
<1>6. IsFiniteSet(schedules') /\ Cardinality(schedules') = Cardinality(schedules)
  <2>1. /\ IsFiniteSet(schedules')
        /\ Cardinality(schedules') = Cardinality(schedules \ {s}) + 1
    BY <1>1, <1>4, <1>5, FS_AddElement
  <2>2. Cardinality(schedules) \in Nat BY FS_CardinalityType DEF SlotsFine
  <2>3. QED BY <1>5, <2>1, <2>2
<1>7. \A x, y \in schedules' : x.id = y.id => x = y BY <1>1, <1>2, <1>3 DEF SlotsFine
<1>8. \A x \in schedules' : x.id <= Cardinality(schedules')
  BY <1>1, <1>2, <1>6 DEF SlotsFine
<1>9. schedules' \subseteq Slot BY <1>1, <1>2 DEF SlotsFine
<1>10. QED BY <1>6, <1>7, <1>8, <1>9 DEF SlotsFine

\* Slots are proposed, decided by their envelopes and by clients.
LEMMA SchedulingFine == MatchmakingInv /\ Scheduling => MatchmakingInv'
<1> SUFFICES ASSUME MatchmakingInv, Scheduling PROVE MatchmakingInv' OBVIOUS
<1> USE DEF MatchmakingInv
<1>1. ASSUME NEW a \in Agents, ProposeSlot(a) PROVE MatchmakingInv'
  <2>1. "proposed" \in SlotState BY DEF SlotState
  <2>2. QED BY <1>1, <2>1, ProposeFine DEF ProposeSlot
<1>2. ASSUME NEW a \in Agents, NEW state \in SlotState, RouteSchedule(a, state)
      PROVE MatchmakingInv'
  <2>1. PICK route \in BOOLEAN : route = (state # "proposed") OBVIOUS
  <2>2. Propose(a, state, route) BY <1>2, <2>1 DEF RouteSchedule
  <2>3. QED BY <2>1, <2>2, ProposeFine
<1>3. ASSUME NEW s \in schedules, NEW state \in SlotState, SetState(s, state),
             routing' \subseteq routing, UNCHANGED <<now, purging>>, UNCHANGED given_up,
             UNCHANGED matching, UNCHANGED offering
      PROVE MatchmakingInv'
  <2>1. SlotsFine' BY <1>3, SetStateFine
  <2>2. RequestsFine' /\ OffersFine' /\ ClockFine'
    BY <1>3, RequestsStay, OffersStay, ClockStays
  <2>3. given_up' \subseteq submitted' \cup offered' BY <1>3 DEF matching, offering
  <2>4. QED BY <2>1, <2>2, <2>3
<1>4. ASSUME NEW s \in schedules, FinishSchedule(s) PROVE MatchmakingInv'
  <2>1. s.wanted \in SlotState BY DEF SlotsFine, Slot
  <2>2. QED BY <1>3, <1>4, <2>1 DEF FinishSchedule
<1>5. ASSUME NEW id \in routing, DropSchedule(id) PROVE MatchmakingInv'
  <2>1. /\ routing' \subseteq routing /\ UNCHANGED schedules /\ UNCHANGED given_up
        /\ UNCHANGED matching /\ UNCHANGED offering /\ UNCHANGED <<now, purging>>
    BY <1>5 DEF DropSchedule
  <2>2. SlotsFine' BY <2>1 DEF SlotsFine
  <2>3. RequestsFine' /\ OffersFine' /\ ClockFine'
    BY <2>1, RequestsStay, OffersStay, ClockStays
  <2>4. given_up' \subseteq submitted' \cup offered' BY <2>1 DEF matching, offering
  <2>5. QED BY <2>2, <2>3, <2>4
<1>6. QED
  <2>1. "confirmed" \in SlotState /\ "declined" \in SlotState BY DEF SlotState
  <2>2. QED BY <1>1, <1>2, <1>3, <1>4, <1>5, <2>1
          DEF Scheduling, ConfirmSlot, DeclineSlot, Decide

------------------------------------------------------------------------------
\* An offer takes the place of the one that has its identifier.
LEMMA OfferingFine ==
  ASSUME MatchmakingInv, NEW id \in OfferIds, NEW a \in Agents, NEW expires_at \in Time,
         Offering(id, a, expires_at)
  PROVE  MatchmakingInv'
<1> USE DEF MatchmakingInv
<1>0. PICK o : o = [id |-> id, from |-> a, expires_at |-> expires_at,
                    no |-> Cardinality(offered) + 1]
  OBVIOUS
<1>1. /\ Items < MaxItems
      /\ offers' = (offers \ Replaced(id)) \cup {o} /\ offered' = offered \cup {o}
      /\ given_up' = given_up \cup Replaced(id)
      /\ UNCHANGED <<looking, expired>> /\ UNCHANGED <<now, purging>>
      /\ UNCHANGED matching /\ UNCHANGED slots
  BY <1>0 DEF Offering
<1>2. Cardinality(offered) + 1 \in 1 .. MaxItems BY <1>1, NumbersFit
<1>3. o \in Offer /\ o.id = id BY <1>0, <1>2 DEF Offer
<1>4. OffersFine'
  <2>1. IsFiniteSet(offered') BY <1>1, FS_AddElement DEF OffersFine
  <2>2. \A x \in offers \ Replaced(id) : x.id # id BY DEF Replaced
  <2>3. \A x, y \in offers' : x.id = y.id => x = y BY <1>1, <1>3, <2>2 DEF OffersFine
  <2>4. QED BY <1>1, <1>3, <2>1, <2>3 DEF OffersFine
<1>5. RequestsFine' /\ SlotsFine' /\ ClockFine'
  BY <1>1, RequestsStay, SlotsStay, ClockStays
<1>6. given_up' \subseteq submitted' \cup offered'
  BY <1>1 DEF Replaced, OffersFine, matching
<1>7. QED BY <1>4, <1>5, <1>6

\* Offers are made, read and withdrawn.
LEMMA TradingFine == MatchmakingInv /\ Trading => MatchmakingInv'
<1> SUFFICES ASSUME MatchmakingInv, Trading PROVE MatchmakingInv' OBVIOUS
<1> USE DEF MatchmakingInv
<1>1. ASSUME NEW id \in OfferIds, NEW a \in Agents, RouteOffer(id, a) PROVE MatchmakingInv'
  <2>1. now \in Time BY DEF ClockFine
  <2>2. QED BY <1>1, <2>1, OfferingFine DEF RouteOffer
<1>2. ASSUME NEW id \in OfferIds, NEW a \in Agents, NEW t \in Time, SubmitOffer(id, a, t)
      PROVE MatchmakingInv'
  BY <1>2, OfferingFine DEF SubmitOffer
<1>3. ASSUME NEW o \in offered, LookUpOffer(o) \/ WithdrawOffer(o) \/ GetOffer(o)
      PROVE MatchmakingInv'
  <2>1. /\ offers' \subseteq offers /\ looking' \subseteq looking \cup {o}
        /\ expired' \subseteq expired \cup {o} /\ given_up' \subseteq given_up \cup {o}
        /\ UNCHANGED offered /\ UNCHANGED <<now, purging>>
        /\ UNCHANGED matching /\ UNCHANGED slots
    BY <1>3 DEF LookUpOffer, WithdrawOffer, GetOffer
  <2>2. OffersFine' BY <2>1 DEF OffersFine
  <2>3. RequestsFine' /\ SlotsFine' /\ ClockFine'
    BY <2>1, RequestsStay, SlotsStay, ClockStays
  <2>4. given_up' \subseteq submitted' \cup offered' BY <2>1 DEF matching
  <2>5. QED BY <2>2, <2>3, <2>4
<1>4. offers \subseteq offered /\ looking \subseteq offered BY DEF OffersFine
<1>5. QED BY <1>1, <1>2, <1>3, <1>4 DEF Trading

\* Purges, and the passing of time.
LEMMA PurgingFine == MatchmakingInv /\ (Purging \/ TimePasses) => MatchmakingInv'
<1> SUFFICES ASSUME MatchmakingInv, Purging \/ TimePasses PROVE MatchmakingInv' OBVIOUS
<1> USE DEF MatchmakingInv
<1>0. MaxTime \in Nat /\ now \in 0 .. MaxTime BY BoundAssumption DEF ClockFine, Time
<1>1. /\ requests' \subseteq requests /\ offers' \subseteq offers
      /\ UNCHANGED <<finding, submitted, found>> /\ UNCHANGED slots
      /\ UNCHANGED <<looking, offered, expired>> /\ UNCHANGED given_up
  BY DEF Purging, StartPurge, PurgeRequests, PurgeOffers, DropPurge, TimePasses, matching, offering
<1>2. RequestsFine' BY <1>1 DEF RequestsFine
<1>3. OffersFine' BY <1>1 DEF OffersFine
<1>4. SlotsFine' BY <1>1, SlotsStay
<1>5. ClockFine'
  <2>1. CASE TimePasses
    <3>1. now' = now + 1 /\ now' \in 0 .. MaxTime /\ purging' = purging
      BY <1>0, <2>1 DEF TimePasses
    <3>2. 0 .. now \subseteq 0 .. now' BY <1>0, <3>1
    <3>3. QED BY <3>1, <3>2 DEF ClockFine, Time
  <2>2. CASE StartPurge
    <3>1. [time |-> now, next |-> "requests"] \in [time : 0 .. now, next : {"requests", "offers"}]
      BY <1>0
    <3>2. QED BY <2>2, <3>1 DEF StartPurge, ClockFine
  <2>3. ASSUME NEW p \in purging, PurgeRequests(p) \/ PurgeOffers(p) \/ DropPurge(p)
        PROVE ClockFine'
    <3>1. p \in [time : 0 .. now, next : {"requests", "offers"}] BY DEF ClockFine
    <3>2. [p EXCEPT !.next = "offers"] \in [time : 0 .. now, next : {"requests", "offers"}]
      BY <3>1
    <3>3. QED BY <2>3, <3>2 DEF PurgeRequests, PurgeOffers, DropPurge, ClockFine
  <2>4. QED BY <2>1, <2>2, <2>3 DEF Purging
<1>6. given_up' \subseteq submitted' \cup offered' BY <1>1
<1>7. QED BY <1>2, <1>3, <1>4, <1>5, <1>6

\* Every step keeps the second invariant too.
LEMMA MatchmakingStep == MatchmakingInv /\ [Next]_vars => MatchmakingInv'
<1> SUFFICES ASSUME MatchmakingInv, [Next]_vars PROVE MatchmakingInv' OBVIOUS
<1>1. CASE UNCHANGED vars
  <2>1. /\ UNCHANGED <<now, purging>> /\ UNCHANGED given_up
        /\ UNCHANGED matching /\ UNCHANGED slots /\ UNCHANGED offering
    BY <1>1 DEF vars
  <2>2. given_up' \subseteq submitted' \cup offered'
    BY <2>1 DEF MatchmakingInv, matching, offering
  <2>3. QED BY <2>1, <2>2, RequestsStay, SlotsStay, OffersStay, ClockStays DEF MatchmakingInv
<1>2. QED
  BY <1>1, MatchingFine, SchedulingFine, TradingFine, PurgingFine DEF Next

\* The second invariant holds in every reachable state.
LEMMA MatchmakingInvariant == Spec => []MatchmakingInv
BY MatchmakingInit, MatchmakingStep, PTL DEF Spec

------------------------------------------------------------------------------
\* The maps have the types of their values and one value for each identifier,
\* and purges judge by a time that has come.
THEOREM MatchmakingTypes == Spec => []TypeOK
<1>1. MatchmakingInv => TypeOK
  BY DEF MatchmakingInv, RequestsFine, SlotsFine, OffersFine, ClockFine, TypeOK
<1>2. QED BY <1>1, MatchmakingInvariant, PTL

\* Ranges that pass ranges_overlap share a level: the greater of their lower
\* ends.
LEMMA RangesShareLevel ==
  ASSUME NEW a \in [min : Int, max : Int], NEW b \in [min : Int, max : Int],
         a.min <= a.max, b.min <= b.max, RangesOverlap(a, b)
  PROVE  \E level \in a.min .. a.max : level \in b.min .. b.max
<1>1. a.min \in Int /\ a.max \in Int /\ b.min \in Int /\ b.max \in Int OBVIOUS
<1>2. CASE a.min <= b.min
  <2>1. b.min \in a.min .. a.max /\ b.min \in b.min .. b.max
    BY <1>1, <1>2 DEF RangesOverlap
  <2>2. QED BY <2>1
<1>3. CASE b.min <= a.min
  <2>1. a.min \in a.min .. a.max /\ a.min \in b.min .. b.max
    BY <1>1, <1>3 DEF RangesOverlap
  <2>2. QED BY <2>1
<1>4. QED BY <1>1, <1>2, <1>3

\* Windows that pass windows_overlap share an instant: the later start.
LEMMA WindowsShareInstant ==
  ASSUME NEW a \in Window, NEW b \in Window,
         a.start < a.end, b.start < b.end, WindowsOverlap(a, b)
  PROVE  \E t \in Time : /\ a.start <= t /\ t < a.end
                         /\ b.start <= t /\ t < b.end
<1>1. a.start \in Time /\ a.end \in Time /\ b.start \in Time /\ b.end \in Time
  BY DEF Window
<1>2. a.start \in Int /\ a.end \in Int /\ b.start \in Int /\ b.end \in Int
  BY <1>1 DEF Time
<1>3. CASE a.start <= b.start
  <2>1. b.start <= b.start /\ b.start < a.end BY <1>2 DEF WindowsOverlap
  <2>2. QED BY <1>1, <1>3, <2>1
<1>4. CASE b.start <= a.start
  <2>1. a.start <= a.start /\ a.start < b.end BY <1>2 DEF WindowsOverlap
  <2>2. QED BY <1>1, <1>4, <2>1
<1>5. QED BY <1>2, <1>3, <1>4

\* Whatever is submitted, cancelled or purged between the two locks of
\* find_matches, two requests it reports as a match have a level of skill and
\* an instant in common.
THEOREM MatchesCanMeet == Spec => []MatchesHaveCommonGround
<1>1. ASSUME MatchmakingInv PROVE MatchesHaveCommonGround
  <2> SUFFICES ASSUME NEW pair \in found, NEW r, NEW s, r = pair[1], s = pair[2],
                      Proper(r), Proper(s)
               PROVE  /\ \E level \in r.body.skill.min .. r.body.skill.max :
                           level \in s.body.skill.min .. s.body.skill.max
                      /\ \E t \in Time : /\ r.window.start <= t /\ t < r.window.end
                                        /\ s.window.start <= t /\ t < s.window.end
    BY DEF MatchesHaveCommonGround
  <2>1. r \in Request /\ s \in Request /\ Compatible(s, r)
    BY <1>1 DEF MatchmakingInv, RequestsFine
  <2>2. /\ r.body.skill \in [min : Int, max : Int] /\ s.body.skill \in [min : Int, max : Int]
        /\ r.window \in Window /\ s.window \in Window
    BY <2>1, BodiesAssumption DEF Request
  <2>3. RangesOverlap(r.body.skill, s.body.skill) /\ WindowsOverlap(r.window, s.window)
    BY <2>1 DEF Compatible, RangesOverlap, WindowsOverlap
  <2>4. QED BY <2>2, <2>3, RangesShareLevel, WindowsShareInstant DEF Proper
<1>2. QED BY <1>1, MatchmakingInvariant, PTL
==============================================================================
