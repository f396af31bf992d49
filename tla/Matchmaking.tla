----------------------------- MODULE Matchmaking -----------------------------
(***************************************************************************)
(* Match requests, schedule slots and offers: Matchmaker                   *)
(* (p2p/src/matchmaking.rs) with the gateway's handlers that call it.      *)
(*                                                                         *)
(* The three maps have a lock each and nothing takes two of them at once.  *)
(* An operation is one action, the time it holds its lock, except where    *)
(* others can come in between: find_matches locks twice, get_offer lets go *)
(* of the lock and then reads the time, purge_expired reads the time, then *)
(* locks the requests, then the offers, and a schedule envelope proposes a *)
(* slot and then decides it.  A client that disconnects while its call     *)
(* waits for a lock ends the call there (external).                        *)
(*                                                                         *)
(* Time is discrete and any number of steps may share an instant.          *)
(***************************************************************************)
EXTENDS Integers, FiniteSets

CONSTANTS
  Bodies,      \* requests clients make: agent, game, skill, window
  Agents,      \* agents that propose slots and submit offers
  OfferIds,    \* identifiers of offers, chosen by the clients
  MaxTime,     \* bound on time
  MaxItems,    \* bound on the requests, slots and offers made, together
  MaxCalls     \* bound on the calls of one kind under way

ASSUME BoundAssumption ==
  {MaxTime, MaxItems, MaxCalls} \subseteq Nat

\* Levels of skill are floating-point numbers, of which the order matters.
ASSUME BodiesAssumption ==
  \A body \in Bodies :
    /\ body.window \in [start : 0 .. MaxTime, end : 0 .. MaxTime]
    /\ body.skill \in [min : Int, max : Int]

VARIABLES
  now,         \* Utc::now()
  requests,    \* Matchmaker.requests, as the set of its values
  schedules,   \* Matchmaker.schedules
  offers,      \* Matchmaker.offers
  finding,     \* targets of calls of find_matches between their two locks
  looking,     \* offers read by calls of get_offer that have yet to read the time
  purging,     \* calls of purge_expired under way
  routing,     \* schedule envelopes whose slot is proposed and not yet decided
  submitted,   \* history: all requests submitted
  offered,     \* history: all offers submitted
  given_up,    \* history: requests cancelled, offers withdrawn or replaced
  found,       \* history: <<target, match>> for every match reported
  expired      \* history: offers some caller was told are expired

matching == <<requests, finding, submitted, found>>
slots == <<schedules, routing>>
offering == <<offers, looking, offered, expired>>
vars == <<now, matching, slots, offering, purging, given_up>>

Time == 0 .. MaxTime
Window == [start : Time, end : Time]
SlotState == {"proposed", "confirmed", "declined"}

\* MatchRequest: a body with the identifier it was given.
Request == [id : 1 .. MaxItems, body : Bodies, window : Window]

\* ScheduleSlot.  `wanted` is the state its envelope asks for.
Slot == [id : 1 .. MaxItems, agent : Agents, state : SlotState, wanted : SlotState]

\* PeerOffer.  `no` tells apart offers with the same identifier (history).
Offer == [id : OfferIds, from : Agents, expires_at : Time, no : 1 .. MaxItems]

Init ==
  /\ now = 0
  /\ requests = {} /\ schedules = {} /\ offers = {}
  /\ finding = {} /\ looking = {} /\ purging = {} /\ routing = {}
  /\ submitted = {} /\ offered = {} /\ given_up = {}
  /\ found = {} /\ expired = {}

\* Requests, slots and offers made so far.
Items == Cardinality(submitted) + Cardinality(schedules) + Cardinality(offered)

TimePasses ==
  /\ now < MaxTime
  /\ now' = now + 1
  /\ UNCHANGED <<matching, slots, offering, purging, given_up>>

------------------------------------------------------------------------------
(* Match requests *)

RangesOverlap(a, b) == a.min <= b.max /\ b.min <= a.max

\* Mutant: windows that only touch overlap.
WindowsTouch(a, b) == a.start <= b.end /\ b.start <= a.end

WindowsOverlap(a, b) == a.start < b.end /\ b.start < a.end

\* submit_request; the identifier is a fresh UUID.
Submit(body, window) ==
  LET r == [id |-> Cardinality(submitted) + 1, body |-> body, window |-> window]
  IN  /\ Items < MaxItems
      /\ requests' = requests \cup {r}
      /\ submitted' = submitted \cup {r}
      /\ UNCHANGED <<now, slots, offering, purging, given_up, finding, found>>

SubmitRequest(body) == Submit(body, body.window)

\* An envelope: a start or an end that is missing or cannot be parsed is now.
\* (The defaults of game and skill are bodies like others.)
RouteRequestMatch(body, start, end) == Submit(body, [start |-> start, end |-> end])

\* find_matches: the target is read, and the lock released.
ReadTarget(target) ==
  /\ Cardinality(finding) < MaxCalls
  /\ finding' = finding \cup {target}
  /\ UNCHANGED <<now, slots, offering, purging, given_up, requests, submitted, found>>

Compatible(r, target) ==
  /\ r.id # target.id
  /\ r.body.game = target.body.game
  /\ RangesOverlap(r.body.skill, target.body.skill)
  /\ WindowsOverlap(r.window, target.window)

FindMatches(target) ==
  /\ finding' = finding \ {target}
  /\ found' = found \cup {<<target, r>> : r \in {q \in requests : Compatible(q, target)}}
  /\ UNCHANGED <<now, slots, offering, purging, given_up, requests, submitted>>

\* The client of find_matches disconnects between the locks.
DropFind(target) ==
  /\ finding' = finding \ {target}
  /\ UNCHANGED <<now, slots, offering, purging, given_up, requests, submitted, found>>

CancelRequest(r) ==
  /\ requests' = requests \ {r}
  /\ given_up' = given_up \cup {r}
  /\ UNCHANGED <<now, slots, offering, purging, finding, submitted, found>>

------------------------------------------------------------------------------
(* Schedule slots *)

Propose(a, wanted, route) ==
  LET id == Cardinality(schedules) + 1
  IN  /\ Items < MaxItems
      /\ schedules' = schedules \cup
           {[id |-> id, agent |-> a, state |-> "proposed", wanted |-> wanted]}
      /\ routing' = routing \cup (IF route THEN {id} ELSE {})
      /\ UNCHANGED <<now, matching, offering, purging, given_up>>

ProposeSlot(a) == Propose(a, "proposed", FALSE)

\* A schedule envelope proposes a slot and then, unless it says "proposed",
\* confirms or declines it.
RouteSchedule(a, state) == Propose(a, state, state # "proposed")

SetState(s, state) == schedules' = (schedules \ {s}) \cup {[s EXCEPT !.state = state]}

FinishSchedule(s) ==
  /\ s.id \in routing
  /\ SetState(s, s.wanted)
  /\ routing' = routing \ {s.id}
  /\ UNCHANGED <<now, matching, offering, purging, given_up>>

\* The client disconnects in between: the slot stays as others have left it.
DropSchedule(id) ==
  /\ routing' = routing \ {id}
  /\ UNCHANGED <<now, matching, offering, purging, given_up, schedules>>

\* A client that knows the slot's identifier confirms or declines it.
Decide(s, state) ==
  /\ SetState(s, state)
  /\ UNCHANGED <<now, matching, offering, purging, given_up, routing>>

ConfirmSlot(s) == Decide(s, "confirmed")
DeclineSlot(s) == Decide(s, "declined")

------------------------------------------------------------------------------
(* Offers *)

\* Mutant: offers accumulate.
NoneReplaced(id) == {}

\* HashMap::insert replaces the offer that has the identifier, whoever made it.
Replaced(id) == {x \in offers : x.id = id}

\* submit_offer.
Offering(id, a, expires_at) ==
  LET o == [id |-> id, from |-> a, expires_at |-> expires_at,
            no |-> Cardinality(offered) + 1]
  IN  /\ Items < MaxItems
      /\ offers' = (offers \ Replaced(id)) \cup {o}
      /\ offered' = offered \cup {o}
      /\ given_up' = given_up \cup Replaced(id)
      /\ UNCHANGED <<now, matching, slots, purging, looking, expired>>

SubmitOffer(id, a, expires_at) == Offering(id, a, expires_at)

\* An envelope whose expires_at is missing or cannot be parsed.
RouteOffer(id, a) == Offering(id, a, now)

\* get_offer: the offer is copied, then judged by the time.
LookUpOffer(o) ==
  /\ Cardinality(looking) < MaxCalls
  /\ looking' = looking \cup {o}
  /\ UNCHANGED <<now, matching, slots, purging, given_up, offers, offered, expired>>

\* Mutant: expired at its deadline already.
ExpiredAtDeadline(o) == o.expires_at <= now

OfferExpired(o) == o.expires_at < now

GetOffer(o) ==
  /\ looking' = looking \ {o}
  /\ expired' = expired \cup (IF OfferExpired(o) THEN {o} ELSE {})
  /\ UNCHANGED <<now, matching, slots, purging, given_up, offers, offered>>

\* The filter of active_offers, when it has read the time t.
Active(o, t) == o.expires_at >= t

WithdrawOffer(o) ==
  /\ offers' = offers \ {o}
  /\ given_up' = given_up \cup {o}
  /\ UNCHANGED <<now, matching, slots, purging, looking, offered, expired>>

------------------------------------------------------------------------------
(* purge_expired *)

StartPurge ==
  /\ Cardinality(purging) < MaxCalls
  /\ purging' = purging \cup {[time |-> now, next |-> "requests"]}
  /\ UNCHANGED <<now, matching, slots, offering, given_up>>

\* Mutant: a deadline is the first moment at which a thing is gone.
LivesUntil(deadline, t) == deadline > t

Lives(deadline, t) == deadline >= t

PurgeRequests(p) ==
  /\ p.next = "requests"
  /\ requests' = {r \in requests : Lives(r.window.end, p.time)}
  /\ purging' = (purging \ {p}) \cup {[p EXCEPT !.next = "offers"]}
  /\ UNCHANGED <<now, slots, offering, given_up, finding, submitted, found>>

PurgeOffers(p) ==
  /\ p.next = "offers"
  /\ offers' = {o \in offers : Lives(o.expires_at, p.time)}
  /\ purging' = purging \ {p}
  /\ UNCHANGED <<now, matching, slots, looking, offered, expired, given_up>>

\* The client disconnects before either lock: half of the purge may be done.
DropPurge(p) ==
  /\ purging' = purging \ {p}
  /\ UNCHANGED <<now, matching, slots, offering, given_up>>

------------------------------------------------------------------------------
Matching ==
  \/ \E body \in Bodies :
       \/ SubmitRequest(body)
       \/ \E start \in {body.window.start, now}, end \in {body.window.end, now} :
            RouteRequestMatch(body, start, end)
  \/ \E r \in requests : ReadTarget(r) \/ CancelRequest(r)
  \/ \E target \in finding : FindMatches(target) \/ DropFind(target)

Scheduling ==
  \/ \E a \in Agents : ProposeSlot(a) \/ \E state \in SlotState : RouteSchedule(a, state)
  \/ \E s \in schedules : FinishSchedule(s) \/ ConfirmSlot(s) \/ DeclineSlot(s)
  \/ \E id \in routing : DropSchedule(id)

Trading ==
  \/ \E id \in OfferIds, a \in Agents :
       RouteOffer(id, a) \/ \E t \in Time : SubmitOffer(id, a, t)
  \/ \E o \in offers : LookUpOffer(o) \/ WithdrawOffer(o)
  \/ \E o \in looking : GetOffer(o)

Purging ==
  \/ StartPurge
  \/ \E p \in purging : PurgeRequests(p) \/ PurgeOffers(p) \/ DropPurge(p)

Next == TimePasses \/ Matching \/ Scheduling \/ Trading \/ Purging

Spec == Init /\ [][Next]_vars

------------------------------------------------------------------------------
(* Properties *)

\* Types; identifiers of stored requests, slots and offers are unique, as the
\* keys of a map are; a purge works with a time that has come.
TypeOK ==
  /\ now \in Time
  /\ requests \subseteq submitted /\ submitted \subseteq Request
  /\ schedules \subseteq Slot
  /\ offers \subseteq offered /\ offered \subseteq Offer
  /\ \A x, y \in requests : x.id = y.id => x = y
  /\ \A x, y \in schedules : x.id = y.id => x = y
  /\ \A x, y \in offers : x.id = y.id => x = y
  /\ finding \subseteq submitted /\ found \subseteq submitted \X submitted
  /\ looking \subseteq offered /\ expired \subseteq offered
  /\ purging \subseteq [time : 0 .. now, next : {"requests", "offers"}]
  /\ routing \subseteq 1 .. MaxItems
  /\ given_up \subseteq submitted \cup offered

\* purge_expired never takes away what is still of use, though it judges by a
\* time it read before it waited for two locks: what is no longer stored was
\* cancelled, withdrawn or replaced, or its time is over.
NothingVanishes ==
  /\ \A r \in submitted \ requests : r \in given_up \/ r.window.end < now
  /\ \A o \in offered \ offers : o \in given_up \/ o.expires_at < now

\* get_offer and active_offers agree: an offer that one caller was told is
\* expired is never listed as active to a later one, in the instant of the
\* deadline either.
ExpiryIsFinal == \A o \in expired : ~ Active(o, now)

Proper(r) == r.window.start < r.window.end /\ r.body.skill.min <= r.body.skill.max

\* A match reported by find_matches is one two clients can keep: there is a
\* level of skill both accept and an instant, of windows that include their
\* start and not their end, at which both are free.
MatchesHaveCommonGround ==
  \A pair \in found :
    LET r == pair[1]
        s == pair[2]
    IN  Proper(r) /\ Proper(s) =>
          /\ \E level \in r.body.skill.min .. r.body.skill.max :
               level \in s.body.skill.min .. s.body.skill.max
          /\ \E t \in Time :
               /\ r.window.start <= t /\ t < r.window.end
               /\ s.window.start <= t /\ t < s.window.end
==============================================================================
