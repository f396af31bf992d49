------------------------------- MODULE Social -------------------------------
(***************************************************************************)
(* The gateway's social store: accounts, communities, events, broadcasts   *)
(* and feeds (SocialStore and its handlers in gateway/src/main.rs).        *)
(*                                                                         *)
(* The store is behind one mutex that every handler holds from its first   *)
(* read to its last write, so a handler is one step.  A request that is    *)
(* refused changes nothing and is no step.                                 *)
(***************************************************************************)
EXTENDS Integers, Sequences, FiniteSets, SequencesExt

CONSTANTS
  Words,         \* words that names are made of, in lower case
  ShortWords,    \* those of fewer than 3 characters
  Texts,         \* names and slugs that communities are asked for with
  NoSlug,        \* the request names no slug
  None,
  MaxUsers, MaxCommunities, MaxEvents, MaxBroadcasts  \* bounds

ASSUME SocialAssumption ==
  /\ ShortWords \subseteq Words
  /\ NoSlug \notin Texts
  /\ MaxUsers \in Nat /\ MaxCommunities \in Nat
  /\ MaxEvents \in Nat /\ MaxBroadcasts \in Nat

VARIABLES
  nextUser, nextCommunity,   \* the last id given
  users,                     \* id -> name
  usersByUsername,           \* name -> id
  communities,               \* id -> record
  memberships,               \* community id -> set of user ids
  events, broadcasts         \* in the order they were made; the id is the index

accounts == <<nextUser, users, usersByUsername>>
places == <<nextCommunity, communities, memberships>>
vars == <<accounts, places, events, broadcasts>>

Init ==
  /\ nextUser = 0 /\ nextCommunity = 0
  /\ users = <<>> /\ usersByUsername = <<>>
  /\ communities = <<>> /\ memberships = <<>>
  /\ events = <<>> /\ broadcasts = <<>>

\* f with x mapped to v, whether or not x was in its domain.
Insert(f, x, v) == [y \in DOMAIN f \cup {x} |-> IF y = x THEN v ELSE f[y]]

------------------------------------------------------------------------------
(* Names *)

\* A user name as it is typed: a word, in capitals or not, with spaces around
\* it or not.
UserName == [word : Words, caps : BOOLEAN, padded : BOOLEAN]

Lower(n) == [n EXCEPT !.caps = FALSE]
Trim(n) == [n EXCEPT !.padded = FALSE]
Normalised(n) == Lower(Trim(n))

\* A text is the sequence of its segments between characters that are neither
\* letters nor digits: a word, in capitals or not, or Empty.
Empty == [word |-> None, caps |-> FALSE]
Segment == [word : Words, caps : BOOLEAN] \cup {Empty}

\* slugify: the segments in lower case, without the empty ones.
Slugify(text) ==
  LET lowered == [i \in DOMAIN text |-> Lower(text[i])]
  IN  SelectSeq(lowered, LAMBDA seg : seg # Empty)

Slug == {Slugify(t) : t \in Texts} \ {<<>>}

------------------------------------------------------------------------------
(* Accounts *)

\* Mutant: the name is checked and stored as it was typed.
AsTyped(n) == n

\* The key under which register_account looks for and stores a name.
UserKey(n) == Normalised(n)

RegisterAccount(n) ==
  LET key == UserKey(n)
      id == nextUser + 1
  IN  /\ nextUser < MaxUsers
      /\ key.word \notin ShortWords
      /\ key \notin DOMAIN usersByUsername
      /\ nextUser' = id
      /\ usersByUsername' = Insert(usersByUsername, key, id)
      /\ users' = Insert(users, id, key)
      /\ UNCHANGED <<places, events, broadcasts>>

\* get_user_by_username: the name in the path is put in lower case, not
\* trimmed.  None stands for "not found".
GetUserByUsername(n) ==
  IF Lower(n) \in DOMAIN usersByUsername THEN usersByUsername[Lower(n)] ELSE None

------------------------------------------------------------------------------
(* Communities *)

SlugOf(name, slug) == Slugify(IF slug = NoSlug THEN name ELSE slug)

\* Mutant: a new community has no members yet.
NoMembers(u) == {}

\* A new community has its owner as its member.
FirstMembers(u) == {u}

SlugTaken(slug) == \E c \in DOMAIN communities : communities[c].slug = slug

CreateCommunity(u, name, slug, visibility) ==
  LET id == nextCommunity + 1
      s  == SlugOf(name, slug)
  IN  /\ nextCommunity < MaxCommunities
      /\ u \in DOMAIN users
      /\ s # <<>>
      /\ ~ SlugTaken(s)
      /\ nextCommunity' = id
      /\ communities' = Insert(communities, id,
                               [slug |-> s, owner |-> u, visibility |-> visibility])
      /\ memberships' = Insert(memberships, id, FirstMembers(u))
      /\ UNCHANGED <<accounts, events, broadcasts>>

\* A community without an entry has no members.
MembersOf(c) == IF c \in DOMAIN memberships THEN memberships[c] ELSE {}

\* Mutant: the entry of the community is replaced.
OnlyTheNewcomer(c, u) == {u}

\* Mutant: the first id is taken for zero.
MembersAndNobody(c, u) == MembersOf(c) \cup {u - 1}

MembersWith(c, u) == MembersOf(c) \cup {u}

\* An invite-only community takes its owner only: nothing invites.
MayJoin(c, u) == communities[c].visibility = "invite-only" => u = communities[c].owner

JoinCommunity(c, u) ==
  /\ u \in DOMAIN users
  /\ c \in DOMAIN communities
  /\ MayJoin(c, u)
  /\ memberships' = Insert(memberships, c, MembersWith(c, u))
  /\ UNCHANGED <<accounts, nextCommunity, communities, events, broadcasts>>

\* list_community_members: ids that are no user's are left out.
ListCommunityMembers(c) == {u \in MembersOf(c) : u \in DOMAIN users}

------------------------------------------------------------------------------
(* Events, broadcasts and feeds *)

CreateEvent(c, u) ==
  /\ Len(events) < MaxEvents
  /\ c \in DOMAIN memberships
  /\ u \in memberships[c]
  /\ events' = Append(events, [community |-> c, creator |-> u])
  /\ UNCHANGED <<accounts, places, broadcasts>>

ListEvents(c) == {i \in DOMAIN events : events[i].community = c}

\* Mutant: one of the targets is enough.
MayReachOne(u, targets) ==
  \E c \in targets : c \in DOMAIN memberships /\ u \in memberships[c]

\* Every target exists and has the sender as a member.
MayReach(u, targets) ==
  \A c \in targets : c \in DOMAIN memberships /\ u \in memberships[c]

CreateBroadcast(u, targets) ==
  /\ Len(broadcasts) < MaxBroadcasts
  /\ u \in DOMAIN users
  /\ targets # {}
  /\ MayReach(u, targets)
  /\ broadcasts' = Append(broadcasts, [sender |-> u, targets |-> targets])
  /\ UNCHANGED <<accounts, places, events>>

Joined(u) == {c \in DOMAIN memberships : u \in memberships[c]}

\* get_feed.
Feed(u) ==
  [communities |-> Joined(u) \cap DOMAIN communities,
   events      |-> {i \in DOMAIN events : events[i].community \in Joined(u)},
   broadcasts  |-> {i \in DOMAIN broadcasts : broadcasts[i].targets \cap Joined(u) # {}}]

------------------------------------------------------------------------------
UserIds == 1 .. MaxUsers
CommunityIds == 1 .. MaxCommunities
Visibility == {"open", "invite-only"}

Next ==
  \/ \E n \in UserName : RegisterAccount(n)
  \/ \E u \in UserIds, name \in Texts, slug \in Texts \cup {NoSlug}, v \in Visibility :
       CreateCommunity(u, name, slug, v)
  \/ \E u \in UserIds, c \in CommunityIds : JoinCommunity(c, u) \/ CreateEvent(c, u)
  \/ \E u \in UserIds, targets \in SUBSET CommunityIds : CreateBroadcast(u, targets)

Spec == Init /\ [][Next]_vars

------------------------------------------------------------------------------
(* Properties *)

PartialFunction(f, S, T) == DOMAIN f \subseteq S /\ \A x \in DOMAIN f : f[x] \in T

TypeOK ==
  /\ nextUser \in 0 .. MaxUsers /\ nextCommunity \in 0 .. MaxCommunities
  /\ PartialFunction(users, UserIds, UserName)
  /\ PartialFunction(usersByUsername, UserName, UserIds)
  /\ PartialFunction(communities, CommunityIds,
                     [slug : Slug, owner : UserIds, visibility : Visibility])
  /\ PartialFunction(memberships, CommunityIds, SUBSET UserIds)
  /\ \A i \in DOMAIN events :
       events[i] \in [community : CommunityIds, creator : UserIds]
  /\ \A i \in DOMAIN broadcasts :
       broadcasts[i] \in [sender : UserIds, targets : SUBSET CommunityIds]

\* The name that was typed at registration finds the account again, in capitals
\* or not; a look-up never finds an id whose user is missing, which would
\* panic with the store locked and poison it for every later request; and two
\* accounts never differ only in capitals or in the spaces around the name.
AccountsCanBeFound ==
  /\ \A u \in DOMAIN users : \A n \in UserName :
       Normalised(n) = Normalised(users[u]) /\ ~ n.padded => GetUserByUsername(n) = u
  /\ \A n \in UserName : GetUserByUsername(n) \in DOMAIN users \cup {None}

\* The maps that the handlers use in turn for the same id agree: communities
\* and memberships have the same ids, every member is a user, an owner is a
\* member, and no two communities have one slug.
StoreAgrees ==
  /\ DOMAIN communities = DOMAIN memberships
  /\ \A c \in DOMAIN communities :
       /\ ListCommunityMembers(c) = memberships[c]
       /\ communities[c].owner \in memberships[c]
       /\ \A d \in DOMAIN communities \ {c} : communities[c].slug # communities[d].slug

\* u posts in c as a member, and where nobody can be invited as the owner.
Belongs(u, c) ==
  /\ c \in Feed(u).communities
  /\ communities[c].visibility = "invite-only" => communities[c].owner = u

\* Who posted an event or a broadcast can read it back, and belongs to every
\* community it went to: a broadcast to several communities is made for all of
\* them or not at all.
PostersBelong ==
  /\ \A i \in DOMAIN events :
       LET e == events[i] IN
       Belongs(e.creator, e.community) /\ i \in Feed(e.creator).events \cap ListEvents(e.community)
  /\ \A i \in DOMAIN broadcasts :
       LET b == broadcasts[i] IN
       (\A c \in b.targets : Belongs(b.sender, c)) /\ i \in Feed(b.sender).broadcasts

\* Nothing that a user has seen in its feed ever disappears from it.
FeedGrows ==
  [][\A u \in DOMAIN users :
       /\ Feed(u).communities \subseteq Feed(u)'.communities
       /\ Feed(u).events \subseteq Feed(u)'.events
       /\ Feed(u).broadcasts \subseteq Feed(u)'.broadcasts]_vars
==============================================================================
