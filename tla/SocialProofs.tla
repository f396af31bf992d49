---------------------------- MODULE SocialProofs ----------------------------
(***************************************************************************)
(* The social store stays consistent for any number of accounts,           *)
(* communities and posts (Social).  Its maps are written by different      *)
(* handlers and refer to each other by id; the proofs rest on the fact     *)
(* that ids are given in order, that each map has exactly the ids given,   *)
(* and that users and usersByUsername are inverse to each other.           *)
(***************************************************************************)
EXTENDS Social, TLAPS

Event == [community : CommunityIds, creator : UserIds]
Broadcast == [sender : UserIds, targets : SUBSET CommunityIds]

\* Ids are given in order, and the maps have the ids that were given.
IdsGiven ==
  /\ nextUser \in 0 .. MaxUsers /\ nextCommunity \in 0 .. MaxCommunities
  /\ DOMAIN users = 1 .. nextUser
  /\ DOMAIN communities = 1 .. nextCommunity
  /\ DOMAIN memberships = 1 .. nextCommunity

\* Names are stored in their normal form, each for one user.
NamesInverse ==
  /\ \A u \in DOMAIN users :
       /\ users[u] \in UserName /\ Normalised(users[u]) = users[u]
       /\ users[u] \in DOMAIN usersByUsername /\ usersByUsername[users[u]] = u
  /\ \A k \in DOMAIN usersByUsername :
       /\ k \in UserName
       /\ usersByUsername[k] \in DOMAIN users /\ users[usersByUsername[k]] = k

\* Members are users, the owner is one, and the only one by invitation.
MembersKnown ==
  \A c \in DOMAIN communities :
    /\ communities[c] \in [slug : Slug, owner : UserIds, visibility : Visibility]
    /\ memberships[c] \subseteq DOMAIN users
    /\ communities[c].owner \in memberships[c]
    /\ communities[c].visibility = "invite-only" => memberships[c] = {communities[c].owner}

SlugsDiffer ==
  \A c, d \in DOMAIN communities : communities[c].slug = communities[d].slug => c = d

\* What was posted was posted by members.
PostsByMembers ==
  /\ events \in Seq(Event) /\ broadcasts \in Seq(Broadcast)
  /\ \A i \in DOMAIN events :
       events[i].community \in DOMAIN memberships
       /\ events[i].creator \in memberships[events[i].community]
  /\ \A i \in DOMAIN broadcasts :
       /\ broadcasts[i].targets # {}
       /\ \A c \in broadcasts[i].targets :
            c \in DOMAIN memberships /\ broadcasts[i].sender \in memberships[c]

SocialInv == IdsGiven /\ NamesInverse /\ MembersKnown /\ SlugsDiffer /\ PostsByMembers

------------------------------------------------------------------------------
\* Normalising twice is normalising once, and a name that has no spaces around
\* it is normal once it is in lower case.
LEMMA NormalForm ==
  ASSUME NEW n \in UserName
  PROVE  /\ Normalised(n) \in UserName /\ Normalised(n).word = n.word
         /\ Normalised(Normalised(n)) = Normalised(n)
         /\ ~ n.padded => Lower(n) = Normalised(n)
         /\ Lower(n) \in UserName
BY DEF UserName, Normalised, Lower, Trim

\* The empty store.
LEMMA SocialInit == Init => SocialInv
<1> SUFFICES ASSUME Init PROVE SocialInv OBVIOUS
<1>1. IdsGiven BY SocialAssumption DEF Init, IdsGiven
<1>2. NamesInverse /\ MembersKnown /\ SlugsDiffer
  BY DEF Init, NamesInverse, MembersKnown, SlugsDiffer
<1>3. PostsByMembers BY DEF Init, PostsByMembers
<1>4. QED BY <1>1, <1>2, <1>3 DEF SocialInv

\* register_account: the name is new, and so is the id.
LEMMA RegisterKeeps ==
  ASSUME SocialInv, NEW n \in UserName, RegisterAccount(n)
  PROVE  SocialInv'
<1> DEFINE key == Normalised(n)
           id == nextUser + 1
<1> USE DEF SocialInv
<1>1. /\ nextUser < MaxUsers /\ key \notin DOMAIN usersByUsername
      /\ nextUser' = id
      /\ usersByUsername' = Insert(usersByUsername, key, id)
      /\ users' = Insert(users, id, key)
      /\ UNCHANGED <<nextCommunity, communities, memberships, events, broadcasts>>
  BY DEF RegisterAccount, UserKey, places
<1>2. nextUser \in Nat /\ MaxUsers \in Nat BY SocialAssumption DEF IdsGiven
<1>3. key \in UserName /\ Normalised(key) = key BY NormalForm
<1>4. id \notin DOMAIN users /\ DOMAIN users \cup {id} = 1 .. id
  BY <1>2 DEF IdsGiven
<1>5. id \in 0 .. MaxUsers BY <1>1, <1>2
<1> HIDE DEF key, id
<1>6. /\ DOMAIN users' = DOMAIN users \cup {id} /\ users'[id] = key
      /\ \A u \in DOMAIN users : users'[u] = users[u]
  <2>1. users' = Insert(users, id, key) BY <1>1
  <2>2. QED BY <1>4, <2>1 DEF Insert
<1>7. /\ DOMAIN usersByUsername' = DOMAIN usersByUsername \cup {key}
      /\ usersByUsername'[key] = id
      /\ \A k \in DOMAIN usersByUsername : usersByUsername'[k] = usersByUsername[k]
  <2>1. usersByUsername' = Insert(usersByUsername, key, id) /\ key \notin DOMAIN usersByUsername
    BY <1>1
  <2>2. QED BY <2>1 DEF Insert
<1>8. IdsGiven' BY <1>1, <1>4, <1>5, <1>6 DEF IdsGiven
<1>9. NamesInverse'
  <2>1. \A u \in DOMAIN users' :
          /\ users'[u] \in UserName /\ Normalised(users'[u]) = users'[u]
          /\ users'[u] \in DOMAIN usersByUsername' /\ usersByUsername'[users'[u]] = u
    BY <1>3, <1>6, <1>7 DEF NamesInverse
  <2>2. \A k \in DOMAIN usersByUsername' :
          /\ k \in UserName
          /\ usersByUsername'[k] \in DOMAIN users' /\ users'[usersByUsername'[k]] = k
    BY <1>3, <1>6, <1>7 DEF NamesInverse
  <2>3. QED BY <2>1, <2>2 DEF NamesInverse, Normalised, Lower, Trim
<1>10. MembersKnown' BY <1>1, <1>6 DEF MembersKnown
<1>11. SlugsDiffer' /\ PostsByMembers' BY <1>1 DEF SlugsDiffer, PostsByMembers
<1>12. QED BY <1>8, <1>9, <1>10, <1>11

\* create_community: the slug is new and the owner becomes the first member.
LEMMA CreateCommunityKeeps ==
  ASSUME SocialInv, NEW u \in UserIds, NEW name \in Texts, NEW slug \in Texts \cup {NoSlug},
         NEW v \in Visibility, CreateCommunity(u, name, slug, v)
  PROVE  SocialInv'
<1> DEFINE id == nextCommunity + 1
           s == SlugOf(name, slug)
           new == [slug |-> s, owner |-> u, visibility |-> v]
<1> USE DEF SocialInv
<1>1. /\ nextCommunity < MaxCommunities /\ u \in DOMAIN users
      /\ s # <<>> /\ ~ SlugTaken(s)
      /\ nextCommunity' = id
      /\ communities' = Insert(communities, id, new)
      /\ memberships' = Insert(memberships, id, {u})
      /\ UNCHANGED <<nextUser, users, usersByUsername, events, broadcasts>>
  BY DEF CreateCommunity, FirstMembers, accounts
<1>2. nextCommunity \in Nat /\ MaxCommunities \in Nat BY SocialAssumption DEF IdsGiven
<1>3. /\ id \notin DOMAIN communities /\ DOMAIN communities \cup {id} = 1 .. id
      /\ id \in 0 .. MaxCommunities /\ DOMAIN communities = DOMAIN memberships
  BY <1>1, <1>2 DEF IdsGiven
<1>4. s \in Slug BY <1>1 DEF SlugOf, Slug
<1>5. /\ new \in [slug : Slug, owner : UserIds, visibility : Visibility]
      /\ new.slug = s /\ new.owner = u
  BY <1>4
<1>6. \A c \in DOMAIN communities : communities[c].slug # s BY <1>1 DEF SlugTaken
<1> HIDE DEF id, s, new
<1>7. /\ DOMAIN communities' = DOMAIN communities \cup {id} /\ communities'[id] = new
      /\ \A c \in DOMAIN communities : communities'[c] = communities[c]
  <2>1. communities' = Insert(communities, id, new) BY <1>1
  <2>2. QED BY <1>3, <2>1 DEF Insert
<1>8. /\ DOMAIN memberships' = DOMAIN communities' /\ memberships'[id] = {u}
      /\ \A c \in DOMAIN communities : memberships'[c] = memberships[c]
  <2>1. memberships' = Insert(memberships, id, {u}) BY <1>1
  <2>2. QED BY <1>3, <1>7, <2>1 DEF Insert
<1>9. IdsGiven' BY <1>1, <1>3, <1>7, <1>8 DEF IdsGiven
<1>10. NamesInverse' BY <1>1 DEF NamesInverse, Normalised, Lower, Trim
<1>11. MembersKnown'
  <2>1. \A c \in DOMAIN communities :
          /\ communities'[c] \in [slug : Slug, owner : UserIds, visibility : Visibility]
          /\ memberships'[c] \subseteq DOMAIN users
          /\ communities'[c].owner \in memberships'[c]
          /\ communities'[c].visibility = "invite-only" => memberships'[c] = {communities'[c].owner}
    BY <1>7, <1>8 DEF MembersKnown
  <2>2. /\ communities'[id] \in [slug : Slug, owner : UserIds, visibility : Visibility]
        /\ memberships'[id] \subseteq DOMAIN users
        /\ communities'[id].owner \in memberships'[id]
        /\ memberships'[id] = {communities'[id].owner}
    BY <1>1, <1>5, <1>7, <1>8
  <2>3. DOMAIN users' = DOMAIN users BY <1>1
  <2>4. DOMAIN communities' = DOMAIN communities \cup {id} BY <1>7
  <2>5. QED BY <2>1, <2>2, <2>3, <2>4 DEF MembersKnown
<1>12. SlugsDiffer' BY <1>5, <1>6, <1>7 DEF SlugsDiffer
<1>13. PostsByMembers' BY <1>1, <1>3, <1>7, <1>8 DEF PostsByMembers
<1>14. QED BY <1>9, <1>10, <1>11, <1>12, <1>13

\* join_community: a user is added to the members; an invite-only community
\* takes its owner, who is one.
LEMMA JoinKeeps ==
  ASSUME SocialInv, NEW u \in UserIds, NEW c \in CommunityIds, JoinCommunity(c, u)
  PROVE  SocialInv'
<1> USE DEF SocialInv
<1>1. /\ u \in DOMAIN users /\ c \in DOMAIN communities /\ MayJoin(c, u)
      /\ memberships' = Insert(memberships, c, MembersWith(c, u))
      /\ UNCHANGED <<nextUser, users, usersByUsername, nextCommunity, communities, events, broadcasts>>
  BY DEF JoinCommunity, accounts
<1>2. c \in DOMAIN memberships /\ DOMAIN communities = DOMAIN memberships
  BY <1>1 DEF IdsGiven
<1>3. /\ DOMAIN memberships' = DOMAIN memberships /\ memberships'[c] = memberships[c] \cup {u}
      /\ \A d \in DOMAIN memberships \ {c} : memberships'[d] = memberships[d]
  <2>1. memberships' = Insert(memberships, c, memberships[c] \cup {u})
    BY <1>1, <1>2 DEF MembersWith, MembersOf
  <2>2. QED BY <1>2, <2>1 DEF Insert
<1>4. IdsGiven' BY <1>1, <1>3 DEF IdsGiven
<1>5. NamesInverse' BY <1>1 DEF NamesInverse, Normalised, Lower, Trim
<1>6. SlugsDiffer' BY <1>1 DEF SlugsDiffer
<1>7. MembersKnown'
  <2>1. communities[c].visibility = "invite-only" => memberships'[c] = {communities[c].owner}
    BY <1>1, <1>3 DEF MayJoin, MembersKnown
  <2>2. QED BY <1>1, <1>2, <1>3, <2>1 DEF MembersKnown
<1>8. PostsByMembers' BY <1>1, <1>3 DEF PostsByMembers
<1>9. QED BY <1>4, <1>5, <1>6, <1>7, <1>8

\* create_event: by a member.
LEMMA CreateEventKeeps ==
  ASSUME SocialInv, NEW u \in UserIds, NEW c \in CommunityIds, CreateEvent(c, u)
  PROVE  SocialInv'
<1> USE DEF SocialInv
<1> DEFINE e == [community |-> c, creator |-> u]
<1>1. /\ c \in DOMAIN memberships /\ u \in memberships[c]
      /\ events' = Append(events, e)
      /\ UNCHANGED <<nextUser, users, usersByUsername, nextCommunity, communities, memberships, broadcasts>>
  BY DEF CreateEvent, accounts, places
<1>2. e \in Event /\ e.community = c /\ e.creator = u BY DEF Event
<1> HIDE DEF e
<1>3. IdsGiven' /\ MembersKnown' /\ SlugsDiffer' BY <1>1 DEF IdsGiven, MembersKnown, SlugsDiffer
<1>4. NamesInverse' BY <1>1 DEF NamesInverse, Normalised, Lower, Trim
<1>5. /\ events' \in Seq(Event)
      /\ \A i \in DOMAIN events' : (i \in DOMAIN events /\ events'[i] = events[i]) \/ events'[i] = e
  BY <1>1, <1>2 DEF PostsByMembers
<1>6. PostsByMembers' BY <1>1, <1>2, <1>5 DEF PostsByMembers
<1>7. QED BY <1>3, <1>4, <1>6

\* create_broadcast: to communities that all have the sender as a member.
LEMMA CreateBroadcastKeeps ==
  ASSUME SocialInv, NEW u \in UserIds, NEW targets \in SUBSET CommunityIds, CreateBroadcast(u, targets)
  PROVE  SocialInv'
<1> USE DEF SocialInv
<1> DEFINE b == [sender |-> u, targets |-> targets]
<1>1. /\ targets # {} /\ \A c \in targets : c \in DOMAIN memberships /\ u \in memberships[c]
      /\ broadcasts' = Append(broadcasts, b)
      /\ UNCHANGED <<nextUser, users, usersByUsername, nextCommunity, communities, memberships, events>>
  BY DEF CreateBroadcast, MayReach, accounts, places
<1>2. b \in Broadcast /\ b.sender = u /\ b.targets = targets BY DEF Broadcast
<1> HIDE DEF b
<1>3. IdsGiven' /\ MembersKnown' /\ SlugsDiffer' BY <1>1 DEF IdsGiven, MembersKnown, SlugsDiffer
<1>4. NamesInverse' BY <1>1 DEF NamesInverse, Normalised, Lower, Trim
<1>5. /\ broadcasts' \in Seq(Broadcast)
      /\ \A i \in DOMAIN broadcasts' : \/ i \in DOMAIN broadcasts /\ broadcasts'[i] = broadcasts[i]
                                       \/ broadcasts'[i] = b
  BY <1>1, <1>2 DEF PostsByMembers
<1>6. PostsByMembers' BY <1>1, <1>2, <1>5 DEF PostsByMembers
<1>7. QED BY <1>3, <1>4, <1>6

\* Every step keeps the invariant.
LEMMA SocialStep == SocialInv /\ [Next]_vars => SocialInv'
<1> SUFFICES ASSUME SocialInv, [Next]_vars PROVE SocialInv' OBVIOUS
<1>1. CASE UNCHANGED vars
  BY <1>1 DEF vars, accounts, places, SocialInv, IdsGiven, NamesInverse, Normalised, Lower, Trim,
              MembersKnown, SlugsDiffer, PostsByMembers
<1>2. QED
  BY <1>1, RegisterKeeps, CreateCommunityKeeps, JoinKeeps, CreateEventKeeps, CreateBroadcastKeeps
  DEF Next

\* The inductive invariant holds of every behaviour.
LEMMA SocialInvariant == Spec => []SocialInv
BY SocialInit, SocialStep, PTL DEF Spec

------------------------------------------------------------------------------
\* The maps and logs of the store have their types.
THEOREM SocialTypes == Spec => []TypeOK
<1>1. SocialInv => TypeOK
  <2> SUFFICES ASSUME SocialInv PROVE TypeOK OBVIOUS
  <2> USE DEF SocialInv, PartialFunction
  <2>1. nextUser \in 0 .. MaxUsers /\ nextCommunity \in 0 .. MaxCommunities BY DEF IdsGiven
  <2>2. DOMAIN users \subseteq UserIds /\ DOMAIN communities \subseteq CommunityIds
        /\ DOMAIN memberships = DOMAIN communities
    BY SocialAssumption DEF IdsGiven, UserIds, CommunityIds
  <2>3. PartialFunction(users, UserIds, UserName) BY <2>2 DEF NamesInverse
  <2>4. PartialFunction(usersByUsername, UserName, UserIds) BY <2>2 DEF NamesInverse
  <2>5. PartialFunction(communities, CommunityIds,
                        [slug : Slug, owner : UserIds, visibility : Visibility])
    BY <2>2 DEF MembersKnown
  <2>6. PartialFunction(memberships, CommunityIds, SUBSET UserIds) BY <2>2 DEF MembersKnown
  <2>7. /\ \A i \in DOMAIN events : events[i] \in Event
        /\ \A i \in DOMAIN broadcasts : broadcasts[i] \in Broadcast
    BY DEF PostsByMembers
  <2>8. QED BY <2>1, <2>3, <2>4, <2>5, <2>6, <2>7 DEF TypeOK, Event, Broadcast
<1>2. QED BY <1>1, SocialInvariant, PTL

\* Every account is found by its name, no look-up meets a dangling id, and no
\* two accounts have one name but for capitals and spaces.
THEOREM AccountsAreFound == Spec => []AccountsCanBeFound
<1>1. SocialInv => AccountsCanBeFound
  <2> SUFFICES ASSUME SocialInv PROVE AccountsCanBeFound OBVIOUS
  <2>1. ASSUME NEW u \in DOMAIN users, NEW n \in UserName,
               Normalised(n) = Normalised(users[u]), ~ n.padded
        PROVE  GetUserByUsername(n) = u
    <3>1. Lower(n) = users[u] BY <2>1, NormalForm DEF SocialInv, NamesInverse
    <3>2. QED BY <3>1 DEF SocialInv, NamesInverse, GetUserByUsername
  <2>2. ASSUME NEW n \in UserName PROVE GetUserByUsername(n) \in DOMAIN users \cup {None}
    BY DEF SocialInv, NamesInverse, GetUserByUsername
  <2>3. QED BY <2>1, <2>2 DEF AccountsCanBeFound
<1>2. QED BY <1>1, SocialInvariant, PTL

\* The maps that the handlers use in turn agree on every id.
THEOREM StoreIsConsistent == Spec => []StoreAgrees
<1>1. SocialInv => StoreAgrees
  <2> SUFFICES ASSUME SocialInv PROVE StoreAgrees OBVIOUS
  <2>1. DOMAIN communities = DOMAIN memberships BY DEF SocialInv, IdsGiven
  <2>2. ASSUME NEW c \in DOMAIN communities
        PROVE  ListCommunityMembers(c) = memberships[c]
    BY <2>1 DEF SocialInv, MembersKnown, ListCommunityMembers, MembersOf
  <2>3. QED BY <2>1, <2>2 DEF StoreAgrees, SocialInv, MembersKnown, SlugsDiffer
<1>2. QED BY <1>1, SocialInvariant, PTL

\* Who posted belongs to every community the post went to, and can read it.
THEOREM PostersAreMembers == Spec => []PostersBelong
<1>1. SocialInv => PostersBelong
  <2> SUFFICES ASSUME SocialInv PROVE PostersBelong OBVIOUS
  <2>1. ASSUME NEW c \in DOMAIN memberships, NEW u \in memberships[c] PROVE Belongs(u, c)
    BY DEF SocialInv, IdsGiven, MembersKnown, Belongs, Feed, Joined
  <2>2. ASSUME NEW i \in DOMAIN events
        PROVE  /\ Belongs(events[i].creator, events[i].community)
               /\ i \in Feed(events[i].creator).events \cap ListEvents(events[i].community)
    <3>1. events[i].community \in DOMAIN memberships
          /\ events[i].creator \in memberships[events[i].community]
      BY DEF SocialInv, PostsByMembers
    <3>2. QED BY <2>1, <3>1 DEF Feed, Joined, ListEvents
  <2>3. ASSUME NEW i \in DOMAIN broadcasts
        PROVE  /\ \A c \in broadcasts[i].targets : Belongs(broadcasts[i].sender, c)
               /\ i \in Feed(broadcasts[i].sender).broadcasts
    <3>1. /\ broadcasts[i].targets # {}
          /\ \A c \in broadcasts[i].targets :
               c \in DOMAIN memberships /\ broadcasts[i].sender \in memberships[c]
      BY DEF SocialInv, PostsByMembers
    <3>2. QED BY <2>1, <3>1 DEF Feed, Joined
  <2>4. QED BY <2>2, <2>3 DEF PostersBelong
<1>2. QED BY <1>1, SocialInvariant, PTL

\* What a step leaves of the store: memberships only grow and logs are only
\* appended to.
LEMMA StoreGrows ==
  ASSUME SocialInv, [Next]_vars
  PROVE  /\ DOMAIN communities \subseteq DOMAIN communities'
         /\ \A c \in DOMAIN memberships : c \in DOMAIN memberships' /\ memberships[c] \subseteq memberships'[c]
         /\ \A i \in DOMAIN events : i \in DOMAIN events' /\ events'[i] = events[i]
         /\ \A i \in DOMAIN broadcasts : i \in DOMAIN broadcasts' /\ broadcasts'[i] = broadcasts[i]
<1>1. ASSUME UNCHANGED <<communities, memberships>>
      PROVE  /\ DOMAIN communities \subseteq DOMAIN communities'
             /\ \A c \in DOMAIN memberships : c \in DOMAIN memberships' /\ memberships[c] \subseteq memberships'[c]
  BY <1>1
<1>2. ASSUME UNCHANGED <<events, broadcasts>>
      PROVE  /\ \A i \in DOMAIN events : i \in DOMAIN events' /\ events'[i] = events[i]
             /\ \A i \in DOMAIN broadcasts : i \in DOMAIN broadcasts' /\ broadcasts'[i] = broadcasts[i]
  BY <1>2
<1>3. CASE UNCHANGED vars BY <1>1, <1>2, <1>3 DEF vars, places
<1>4. CASE \E n \in UserName : RegisterAccount(n)
  BY <1>1, <1>2, <1>4 DEF RegisterAccount, places
<1>5. ASSUME NEW u \in UserIds, NEW name, NEW slug, NEW v, CreateCommunity(u, name, slug, v)
      PROVE  /\ DOMAIN communities \subseteq DOMAIN communities'
             /\ \A c \in DOMAIN memberships : c \in DOMAIN memberships' /\ memberships[c] \subseteq memberships'[c]
             /\ UNCHANGED <<events, broadcasts>>
  <2> DEFINE id == nextCommunity + 1
  <2>1. id \notin DOMAIN memberships BY DEF SocialInv, IdsGiven
  <2> HIDE DEF id
  <2>2. /\ communities' = Insert(communities, id,
                                 [slug |-> SlugOf(name, slug), owner |-> u, visibility |-> v])
        /\ memberships' = Insert(memberships, id, {u})
        /\ UNCHANGED <<events, broadcasts>>
    BY <1>5 DEF CreateCommunity, FirstMembers, id
  <2>3. QED BY <2>1, <2>2 DEF Insert
<1>6. ASSUME NEW u \in UserIds, NEW c \in CommunityIds, JoinCommunity(c, u)
      PROVE  /\ DOMAIN communities \subseteq DOMAIN communities'
             /\ \A d \in DOMAIN memberships : d \in DOMAIN memberships' /\ memberships[d] \subseteq memberships'[d]
             /\ UNCHANGED <<events, broadcasts>>
  <2>1. /\ memberships' = Insert(memberships, c, MembersWith(c, u))
        /\ UNCHANGED <<communities, events, broadcasts>>
    BY <1>6 DEF JoinCommunity
  <2>2. QED BY <2>1 DEF Insert, MembersWith, MembersOf
<1>7. ASSUME NEW u \in UserIds, NEW c \in CommunityIds, CreateEvent(c, u)
      PROVE  /\ UNCHANGED <<communities, memberships, broadcasts>>
             /\ \A i \in DOMAIN events : i \in DOMAIN events' /\ events'[i] = events[i]
  BY <1>7 DEF CreateEvent, places, SocialInv, PostsByMembers
<1>8. ASSUME NEW u \in UserIds, NEW targets \in SUBSET CommunityIds, CreateBroadcast(u, targets)
      PROVE  /\ UNCHANGED <<communities, memberships, events>>
             /\ \A i \in DOMAIN broadcasts : i \in DOMAIN broadcasts' /\ broadcasts'[i] = broadcasts[i]
  BY <1>8 DEF CreateBroadcast, places, SocialInv, PostsByMembers
<1>9. QED BY <1>1, <1>2, <1>3, <1>4, <1>5, <1>6, <1>7, <1>8 DEF Next

\* Nothing a user has seen in its feed disappears from it.
THEOREM FeedsGrow == Spec => FeedGrows
<1> DEFINE Grows == \A u \in DOMAIN users :
                      /\ Feed(u).communities \subseteq Feed(u)'.communities
                      /\ Feed(u).events \subseteq Feed(u)'.events
                      /\ Feed(u).broadcasts \subseteq Feed(u)'.broadcasts
<1>1. SocialInv /\ [Next]_vars => [Grows]_vars
  <2> SUFFICES ASSUME SocialInv, [Next]_vars, NEW u \in DOMAIN users
               PROVE  /\ Feed(u).communities \subseteq Feed(u)'.communities
                      /\ Feed(u).events \subseteq Feed(u)'.events
                      /\ Feed(u).broadcasts \subseteq Feed(u)'.broadcasts
    OBVIOUS
  <2>1. \A c \in DOMAIN memberships :
          u \in memberships[c] => c \in DOMAIN memberships' /\ u \in memberships'[c]
    BY StoreGrows
  <2>2. Feed(u).communities \subseteq Feed(u)'.communities BY <2>1, StoreGrows DEF Feed, Joined
  <2>3. Feed(u).events \subseteq Feed(u)'.events BY <2>1, StoreGrows DEF Feed, Joined
  <2>4. Feed(u).broadcasts \subseteq Feed(u)'.broadcasts BY <2>1, StoreGrows DEF Feed, Joined
  <2>5. QED BY <2>2, <2>3, <2>4
<1>2. QED BY <1>1, SocialInvariant, PTL DEF Spec, FeedGrows
==============================================================================
