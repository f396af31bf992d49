----------------------------- MODULE RoomsProofs -----------------------------
(***************************************************************************)
(* Rooms keep their limit, announce every change of their members once and *)
(* are complete (Rooms), for any number of rooms, agents and calls.  The   *)
(* two maps of a room are written in two steps of create_room, between     *)
(* which the call may be dropped; the proofs rest on what the lock on the  *)
(* rooms protects: one call at most is between the two steps, and the      *)
(* entry it is about to write is not there yet, nor given up by another.   *)
(***************************************************************************)
EXTENDS Rooms, FiniteSetTheorems, SequenceTheorems, TLAPS

\* The types but for the queue's, and sets of members are finite.
Types ==
  /\ max_members \in [RoomIds -> Limits \cup {NoLimit, Absent}]
  /\ members \in [RoomIds -> (SUBSET Agents) \cup {Absent}]
  /\ \A r \in RoomIds : members[r] # Absent => IsFiniteSet(members[r])
  /\ tracked \subseteq RoomIds
  /\ abandoned \subseteq RoomIds \X {"create_members", "init"}
  /\ calls \in [CallIds -> Call \cup {Idle}]
  /\ emitted \in [RoomIds -> [Agents -> Int]]

Waiting(c) == At(c, "create") \/ At(c, "join")

\* The queue holds the calls that wait, each once.
QueueOfWaiting ==
  /\ queue \in Seq(CallIds)
  /\ \A i, j \in 1 .. Len(queue) : queue[i] = queue[j] => i = j
  /\ \A c \in CallIds : Waiting(c) <=> \E i \in 1 .. Len(queue) : queue[i] = c

\* What the lock on the rooms protects while a room is created.
OneCreates ==
  /\ \A r \in RoomIds : max_members[r] = Absent => members[r] = Absent
  /\ \A c \in CallIds : At(c, "create_members") =>
       max_members[calls[c].room] # Absent /\ members[calls[c].room] = Absent
  /\ \A c \in CallIds : At(c, "init") => members[calls[c].room] # Absent
  /\ \A c, d \in CallIds : At(c, "create_members") /\ At(d, "create_members") => c = d
  /\ \A c \in CallIds : At(c, "create_members") =>
       <<calls[c].room, "create_members">> \notin abandoned

RoomsInv ==
  Types /\ QueueOfWaiting /\ OneCreates /\ WithinLimit /\ EventsAddUp /\ RoomsComplete

\* Only call c moves.
OnlyMoves(c) == \A d \in CallIds \ {c} : calls'[d] = calls[d]

\* Calls that have changed the membership of a and have yet to emit.
Owed(where, r, a) ==
  {c \in CallIds : At(c, where) /\ calls[c].room = r /\ calls[c].agent = a}

------------------------------------------------------------------------------
\* A call is idle, creates a room or is about an agent, and where it is says
\* which.
LEMMA CallShape ==
  ASSUME NEW call \in Call \cup {Idle}
  PROVE  /\ call.at \in {"idle", "create", "create_members", "init", "join",
                         "join_members", "leave", "joined", "left"}
         /\ call.at = "idle" => call = Idle
         /\ call.at # "idle" => call.room \in RoomIds
         /\ call.at \in {"create", "create_members", "init"} =>
              /\ call.limit \in Limits \cup {NoLimit}
              /\ \A w \in {"create", "create_members", "init"} :
                   /\ [call EXCEPT !.at = w] \in Call
                   /\ [call EXCEPT !.at = w].at = w
                   /\ [call EXCEPT !.at = w].room = call.room
         /\ call.at \in {"join", "join_members", "leave", "joined", "left"} =>
              /\ call.agent \in Agents
              /\ \A w \in {"join", "join_members", "leave", "joined", "left"} :
                   /\ [call EXCEPT !.at = w] \in Call
                   /\ [call EXCEPT !.at = w].at = w
                   /\ [call EXCEPT !.at = w].room = call.room
                   /\ [call EXCEPT !.at = w].agent = call.agent
<1>1. CASE call = Idle BY <1>1 DEF Idle
<1>2. CASE call \in [at : {"create", "create_members", "init"}, room : RoomIds,
                     limit : Limits \cup {NoLimit}]
  BY <1>2 DEF Call
<1>3. CASE call \in [at : {"join", "join_members", "leave", "joined", "left"},
                     room : RoomIds, agent : Agents]
  BY <1>3 DEF Call
<1>4. QED BY <1>1, <1>2, <1>3 DEF Call

\* How a call moves to another place, or returns.
LEMMA Moves ==
  ASSUME Types, NEW c \in CallIds, NEW call \in Call \cup {Idle},
         calls' = [calls EXCEPT ![c] = call]
  PROVE  calls' \in [CallIds -> Call \cup {Idle}] /\ OnlyMoves(c) /\ calls'[c] = call
BY DEF Types, OnlyMoves

\* A call that goes on keeps its room, and its agent when it has one.
LEMMA Goes ==
  ASSUME Types, NEW c \in CallIds, NEW w, GoTo(c, w),
         \/ At(c, "create") /\ w = "create_members"
         \/ At(c, "create_members") /\ w = "init"
         \/ At(c, "join") /\ w = "join_members"
         \/ At(c, "join_members") /\ w = "joined"
         \/ At(c, "leave") /\ w = "left"
  PROVE  /\ calls' \in [CallIds -> Call \cup {Idle}] /\ OnlyMoves(c)
         /\ calls'[c].at = w /\ calls'[c].room = calls[c].room
         /\ w \in {"joined", "left"} => calls'[c].agent = calls[c].agent
<1>1. calls[c] \in Call \cup {Idle} BY DEF Types
<1> DEFINE call == [calls[c] EXCEPT !.at = w]
<1>2. calls' = [calls EXCEPT ![c] = call] BY DEF GoTo, Types
<1>3. CASE At(c, "create") \/ At(c, "create_members")
  <2>1. w \in {"create_members", "init"} BY <1>3 DEF At
  <2>2. calls[c].at \in {"create", "create_members", "init"} BY <1>3 DEF At
  <2>3. call \in Call \cup {Idle} /\ call.at = w /\ call.room = calls[c].room
    <3>1. \A x \in {"create", "create_members", "init"} :
            /\ [calls[c] EXCEPT !.at = x] \in Call
            /\ [calls[c] EXCEPT !.at = x].at = x
            /\ [calls[c] EXCEPT !.at = x].room = calls[c].room
      BY <1>1, <2>2, CallShape
    <3>2. QED BY <2>1, <3>1
  <2> HIDE DEF call
  <2>4. QED BY <1>2, <2>1, <2>3, Moves
<1>4. CASE At(c, "join") \/ At(c, "join_members") \/ At(c, "leave")
  <2>1. w \in {"join", "join_members", "leave", "joined", "left"} BY <1>4 DEF At
  <2>2. calls[c].at \in {"join", "join_members", "leave", "joined", "left"} BY <1>4 DEF At
  <2>3. /\ call \in Call \cup {Idle} /\ call.at = w /\ call.room = calls[c].room
        /\ call.agent = calls[c].agent
    <3>1. \A x \in {"join", "join_members", "leave", "joined", "left"} :
            /\ [calls[c] EXCEPT !.at = x] \in Call
            /\ [calls[c] EXCEPT !.at = x].at = x
            /\ [calls[c] EXCEPT !.at = x].room = calls[c].room
            /\ [calls[c] EXCEPT !.at = x].agent = calls[c].agent
      BY <1>1, <2>2, CallShape
    <3>2. QED BY <2>1, <3>1
  <2> HIDE DEF call
  <2>4. QED BY <1>2, <2>3, Moves
<1>5. QED BY <1>3, <1>4

\* A call that returns is idle.
LEMMA Returns ==
  ASSUME Types, NEW c \in CallIds, Return(c)
  PROVE  calls' \in [CallIds -> Call \cup {Idle}] /\ OnlyMoves(c) /\ calls'[c].at = "idle"
<1>1. calls' \in [CallIds -> Call \cup {Idle}] /\ OnlyMoves(c) /\ calls'[c] = Idle
  BY Moves DEF Return
<1>2. QED BY <1>1 DEF Idle

------------------------------------------------------------------------------
(* The queue *)

\* A sequence without its ith element.
LEMMA Removed ==
  ASSUME NEW S, NEW s \in Seq(S), NEW i \in 1 .. Len(s)
  PROVE  /\ RemoveAt(s, i) \in Seq(S)
         /\ Len(RemoveAt(s, i)) = Len(s) - 1
         /\ \A j \in 1 .. Len(s) - 1 : RemoveAt(s, i)[j] = IF j < i THEN s[j] ELSE s[j + 1]
<1> DEFINE front == SubSeq(s, 1, i - 1)
           back == SubSeq(s, i + 1, Len(s))
<1>1. Len(s) \in Nat /\ i \in Nat /\ 1 <= i /\ i <= Len(s) BY LenProperties
<1>2. \A j \in 1 .. Len(s) : s[j] \in S BY ElementOfSeq
<1>3. /\ front \in Seq(S) /\ Len(front) = i - 1
      /\ \A j \in 1 .. i - 1 : front[j] = s[j]
  <2>1. \A j \in 1 .. i - 1 : s[j] \in S BY <1>1, <1>2
  <2>2. /\ front \in Seq(S) /\ Len(front) = IF 1 <= i - 1 THEN (i - 1) - 1 + 1 ELSE 0
        /\ \A j \in 1 .. (i - 1) - 1 + 1 : front[j] = s[1 + j - 1]
    <3>1. 1 \in Int /\ i - 1 \in Int BY <1>1
    <3> HIDE DEF front
    <3>2. QED BY <2>1, <3>1, SubSeqProperties DEF front
  <2> HIDE DEF front
  <2>3. QED BY <1>1, <2>2
<1>4. /\ back \in Seq(S) /\ Len(back) = Len(s) - i
      /\ \A j \in 1 .. Len(s) - i : back[j] = s[i + j]
  <2>1. \A j \in i + 1 .. Len(s) : s[j] \in S BY <1>1, <1>2
  <2>2. /\ back \in Seq(S) /\ Len(back) = IF i + 1 <= Len(s) THEN Len(s) - (i + 1) + 1 ELSE 0
        /\ \A j \in 1 .. Len(s) - (i + 1) + 1 : back[j] = s[(i + 1) + j - 1]
    <3>1. i + 1 \in Int /\ Len(s) \in Int BY <1>1
    <3>2. QED BY <2>1, <3>1, SubSeqProperties
  <2> HIDE DEF back
  <2>3. QED BY <1>1, <2>2
<1> HIDE DEF front, back
<1>5. /\ front \o back \in Seq(S) /\ Len(front \o back) = Len(s) - 1
      /\ \A j \in 1 .. Len(s) - 1 :
           (front \o back)[j] = IF j <= i - 1 THEN front[j] ELSE back[j - (i - 1)]
  <2>1. /\ front \o back \in Seq(S) /\ Len(front \o back) = Len(front) + Len(back)
        /\ \A j \in 1 .. Len(front) + Len(back) :
             (front \o back)[j] = IF j <= Len(front) THEN front[j] ELSE back[j - Len(front)]
    BY <1>3, <1>4, ConcatProperties
  <2>2. Len(front) + Len(back) = Len(s) - 1 BY <1>1, <1>3, <1>4
  <2>3. QED BY <1>3, <2>1, <2>2
<1>6. ASSUME NEW j \in 1 .. Len(s) - 1
      PROVE  (front \o back)[j] = IF j < i THEN s[j] ELSE s[j + 1]
  <2>1. CASE j < i BY <1>1, <1>3, <1>5, <2>1
  <2>2. CASE ~ j < i
    <3>1. j - (i - 1) \in 1 .. Len(s) - i /\ i + (j - (i - 1)) = j + 1 BY <1>1, <2>2
    <3>2. ~ j <= i - 1 BY <1>1, <2>2
    <3>3. (front \o back)[j] = back[j - (i - 1)] BY <1>5, <3>2
    <3>4. QED BY <1>4, <2>2, <3>1, <3>3
  <2>3. QED BY <2>1, <2>2
<1>7. QED BY <1>5, <1>6 DEF RemoveAt, front, back

\* A call that starts to wait goes to the end of the queue.
LEMMA Enqueues ==
  ASSUME QueueOfWaiting, NEW c \in CallIds, ~ Waiting(c), Waiting(c)', OnlyMoves(c),
         queue' = Append(queue, c)
  PROVE  QueueOfWaiting'
<1> DEFINE n == Len(queue)
<1>1. queue \in Seq(CallIds) /\ n \in Nat BY LenProperties DEF QueueOfWaiting
<1>2. /\ queue' \in Seq(CallIds) /\ Len(queue') = n + 1
      /\ \A i \in 1 .. n : queue'[i] = queue[i]
      /\ queue'[n + 1] = c
  BY <1>1, AppendProperties
<1>3. \A i \in 1 .. n : queue[i] # c BY DEF QueueOfWaiting
<1> HIDE DEF n
<1>4. ASSUME NEW i \in 1 .. n + 1, NEW j \in 1 .. n + 1, queue'[i] = queue'[j]
      PROVE  i = j
  <2>1. (i \in 1 .. n \/ i = n + 1) /\ (j \in 1 .. n \/ j = n + 1) BY <1>1
  <2>2. QED BY <1>2, <1>3, <1>4, <2>1 DEF QueueOfWaiting, n
<1>5. ASSUME NEW d \in CallIds
      PROVE  Waiting(d)' <=> \E i \in 1 .. n + 1 : queue'[i] = d
  <2>1. CASE d = c BY <1>1, <1>2, <2>1
  <2>2. CASE d # c
    <3>1. Waiting(d)' <=> Waiting(d) BY <2>2 DEF OnlyMoves, Waiting, At
    <3>2. Waiting(d) <=> \E i \in 1 .. n : queue[i] = d BY DEF QueueOfWaiting, n
    <3>3. ASSUME NEW i \in 1 .. n + 1 PROVE i \in 1 .. n \/ i = n + 1 BY <1>1
    <3>4. 1 .. n \subseteq 1 .. n + 1 BY <1>1
    <3>5. QED BY <1>2, <2>2, <3>1, <3>2, <3>3, <3>4
  <2>3. QED BY <2>1, <2>2
<1>6. QED BY <1>2, <1>4, <1>5 DEF QueueOfWaiting

\* A call that waits no longer leaves the queue.
LEMMA Dequeues ==
  ASSUME QueueOfWaiting, NEW c \in CallIds, ~ Waiting(c)', OnlyMoves(c), LeaveQueue(c)
  PROVE  QueueOfWaiting'
<1> DEFINE n == Len(queue)
<1>1. queue \in Seq(CallIds) /\ n \in Nat BY LenProperties DEF QueueOfWaiting
<1>2. ASSUME NEW d \in CallIds, d # c PROVE Waiting(d)' <=> Waiting(d)
  BY <1>2 DEF OnlyMoves, Waiting, At
<1>3. CASE (\A i \in 1 .. n : queue[i] # c) /\ UNCHANGED queue
  BY <1>2, <1>3 DEF QueueOfWaiting
<1>4. ASSUME NEW k \in 1 .. n, queue[k] = c, queue' = RemoveAt(queue, k)
      PROVE  QueueOfWaiting'
  <2>1. /\ queue' \in Seq(CallIds) /\ Len(queue') = n - 1
        /\ \A i \in 1 .. n - 1 : queue'[i] = IF i < k THEN queue[i] ELSE queue[i + 1]
    BY <1>1, <1>4, Removed
  <2> DEFINE old(i) == IF i < k THEN i ELSE i + 1
  <2>2. \A i \in 1 .. n - 1 : old(i) \in 1 .. n /\ old(i) # k /\ queue'[i] = queue[old(i)]
    BY <1>1, <2>1
  <2>3. \A i, j \in 1 .. n - 1 : old(i) = old(j) => i = j BY <1>1
  <2>4. \A i \in 1 .. n : i # k => \E j \in 1 .. n - 1 : old(j) = i
    <3> TAKE i \in 1 .. n
    <3> HAVE i # k
    <3>1. CASE i < k BY <1>1, <3>1
    <3>2. CASE i > k
      <4>1. i - 1 \in 1 .. n - 1 /\ old(i - 1) = i BY <1>1, <3>2
      <4>2. QED BY <4>1
    <3>3. QED BY <1>1, <3>1, <3>2
  <2>5. \A i \in 1 .. n : queue[i] = c => i = k BY <1>4 DEF QueueOfWaiting
  <2>6. \A i, j \in 1 .. n : queue[i] = queue[j] => i = j BY DEF QueueOfWaiting
  <2>7. \A d \in CallIds : Waiting(d) <=> \E i \in 1 .. n : queue[i] = d
    BY DEF QueueOfWaiting
  <2> HIDE DEF n, old
  <2>8. \A i, j \in 1 .. n - 1 : queue'[i] = queue'[j] => i = j BY <2>2, <2>3, <2>6
  <2>9. ASSUME NEW d \in CallIds
        PROVE  Waiting(d)' <=> \E i \in 1 .. n - 1 : queue'[i] = d
    <3>1. CASE d = c BY <2>2, <2>5, <3>1
    <3>2. CASE d # c
      <4>1. Waiting(d)' <=> \E i \in 1 .. n : queue[i] = d BY <1>2, <2>7, <3>2
      <4>2. QED BY <1>4, <2>2, <2>4, <3>2, <4>1
    <3>3. QED BY <3>1, <3>2
  <2>10. QED BY <2>1, <2>8, <2>9 DEF QueueOfWaiting
<1>5. QED BY <1>3, <1>4 DEF LeaveQueue

\* The queue stays as it is when a call moves that neither waited nor waits.
LEMMA QueueStays ==
  ASSUME QueueOfWaiting, NEW c \in CallIds, ~ Waiting(c), ~ Waiting(c)', OnlyMoves(c),
         queue' = queue
  PROVE  QueueOfWaiting'
<1>1. ASSUME NEW d \in CallIds PROVE Waiting(d)' <=> Waiting(d)
  <2>1. CASE d = c BY <2>1
  <2>2. CASE d # c BY <2>2 DEF OnlyMoves, Waiting, At
  <2>3. QED BY <2>1, <2>2
<1>2. QED BY <1>1 DEF QueueOfWaiting

------------------------------------------------------------------------------
(* What calls owe *)

\* A call that starts to owe an event adds one to what is owed, and one that
\* emits it takes one away.
LEMMA OwingChanges ==
  ASSUME NEW c \in CallIds, OnlyMoves(c), NEW w, NEW r, NEW a
  PROVE  /\ Owing(w, r, a) \in Int
         /\ (c \in Owed(w, r, a) <=> c \in Owed(w, r, a)') => Owing(w, r, a)' = Owing(w, r, a)
         /\ c \notin Owed(w, r, a) /\ c \in Owed(w, r, a)' =>
              Owing(w, r, a)' = Owing(w, r, a) + 1
         /\ c \in Owed(w, r, a) /\ c \notin Owed(w, r, a)' =>
              Owing(w, r, a)' = Owing(w, r, a) - 1
<1> DEFINE O == Owed(w, r, a)
           N == Owed(w, r, a)'
<1>1. Owing(w, r, a) = Cardinality(O) /\ Owing(w, r, a)' = Cardinality(N)
  BY DEF Owing, Owed
<1>2. O \subseteq CallIds /\ IsFiniteSet(O)
  <2>1. O \subseteq CallIds BY DEF Owed
  <2>2. QED BY <2>1, CallsAssumption, FS_Subset
<1>3. N \subseteq CallIds BY DEF Owed
<1>4. \A d \in CallIds \ {c} : d \in O <=> d \in N
  BY DEF Owed, OnlyMoves, At
<1> HIDE DEF O, N
<1>5. Cardinality(O) \in Int BY <1>2, FS_CardinalityType
<1>6. (c \in O <=> c \in N) => N = O BY <1>2, <1>3, <1>4
<1>7. c \notin O /\ c \in N => N = O \cup {c} BY <1>2, <1>3, <1>4
<1>8. c \in O /\ c \notin N => N = O \ {c} BY <1>2, <1>3, <1>4
<1>9. c \notin O => Cardinality(O \cup {c}) = Cardinality(O) + 1 BY <1>2, FS_AddElement
<1>10. c \in O => Cardinality(O \ {c}) = Cardinality(O) - 1 BY <1>2, FS_RemoveElement
<1>11. QED BY <1>1, <1>5, <1>6, <1>7, <1>8, <1>9, <1>10 DEF O, N

\* The account stays balanced when a call moves that neither owed nor owes.
LEMMA StaysBalanced ==
  ASSUME EventsAddUp, NEW c \in CallIds, OnlyMoves(c), emitted' = emitted,
         calls[c].at \notin {"joined", "left"}, calls'[c].at \notin {"joined", "left"},
         \A r \in RoomIds, a \in Agents : IsMember(r, a)' <=> IsMember(r, a)
  PROVE  EventsAddUp'
<1> SUFFICES ASSUME NEW r \in RoomIds, NEW a \in Agents
             PROVE  emitted'[r][a] + Owing("joined", r, a)' - Owing("left", r, a)'
                      = IF IsMember(r, a)' THEN 1 ELSE 0
  BY DEF EventsAddUp
<1>1. \A w \in {"joined", "left"} : c \notin Owed(w, r, a) /\ c \notin Owed(w, r, a)'
  BY DEF Owed, At
<1>2. /\ Owing("joined", r, a)' = Owing("joined", r, a)
      /\ Owing("left", r, a)' = Owing("left", r, a)
  BY <1>1, OwingChanges
<1>3. QED BY <1>2 DEF EventsAddUp

------------------------------------------------------------------------------
(* The actions *)

\* No room at the start.
LEMMA RoomsInit == Init => RoomsInv
<1> SUFFICES ASSUME Init PROVE RoomsInv OBVIOUS
<1>1. \A c \in CallIds : calls[c] = Idle /\ calls[c].at = "idle" BY DEF Init, Idle
<1>2. Types BY DEF Init, Types
<1>3. QueueOfWaiting
  <2>1. queue \in Seq(CallIds) /\ Len(queue) = 0 BY EmptySeq DEF Init
  <2>2. QED BY <1>1, <2>1 DEF QueueOfWaiting, Waiting, At
<1>4. OneCreates /\ WithinLimit /\ RoomsComplete
  BY <1>1 DEF Init, OneCreates, WithinLimit, RoomsComplete, CreationAt, At
<1>5. EventsAddUp
  <2> SUFFICES ASSUME NEW r \in RoomIds, NEW a \in Agents
               PROVE  emitted[r][a] + Owing("joined", r, a) - Owing("left", r, a)
                        = IF IsMember(r, a) THEN 1 ELSE 0
    BY DEF EventsAddUp
  <2>1. \A w \in {"joined", "left"} :
          {c \in CallIds : At(c, w) /\ calls[c].room = r /\ calls[c].agent = a} = {}
    BY <1>1 DEF At
  <2>2. Owing("joined", r, a) = 0 /\ Owing("left", r, a) = 0
    BY <2>1, FS_EmptySet DEF Owing
  <2>3. emitted[r][a] = 0 /\ ~ IsMember(r, a) BY DEF Init, IsMember
  <2>4. QED BY <2>2, <2>3
<1>6. QED BY <1>2, <1>3, <1>4, <1>5 DEF RoomsInv

\* A call that moves outside of the creation of a room, and changes nothing
\* else but the queue and its own obligations.
LEMMA MovesElsewhere ==
  ASSUME RoomsInv, NEW c \in CallIds, OnlyMoves(c),
         calls[c].at \notin {"create_members", "init"},
         calls'[c].at \notin {"create_members", "init"},
         calls' \in [CallIds -> Call \cup {Idle}],
         UNCHANGED <<max_members, members, tracked, abandoned>>,
         emitted' \in [RoomIds -> [Agents -> Int]]
  PROVE  Types' /\ OneCreates' /\ WithinLimit' /\ RoomsComplete'
<1> USE DEF RoomsInv
<1>1. ASSUME NEW d \in CallIds, calls'[d].at \in {"create_members", "init"}
      PROVE  calls'[d] = calls[d]
  BY <1>1 DEF OnlyMoves
<1>2. ASSUME NEW d \in CallIds, calls[d].at \in {"create_members", "init"}
      PROVE  calls'[d] = calls[d]
  BY <1>2 DEF OnlyMoves
<1>3. Types' BY DEF Types
<1>4. OneCreates' BY <1>1 DEF OneCreates, At
<1>5. WithinLimit' BY DEF WithinLimit
<1>6. RoomsComplete'
  <2>1. \A s, w : w \in {"create_members", "init"} => (CreationAt(s, w)' <=> CreationAt(s, w))
    BY <1>1, <1>2 DEF CreationAt, At
  <2>2. QED BY <2>1 DEF RoomsComplete
<1>7. QED BY <1>3, <1>4, <1>5, <1>6

\* A call begins.
LEMMA BeginKeeps ==
  ASSUME RoomsInv, NEW c \in CallIds, NEW call \in Call, Begin(c, call),
         \/ call.at \in {"create", "join"} /\ queue' = Append(queue, c)
         \/ call.at = "leave" /\ UNCHANGED queue
  PROVE  RoomsInv'
<1> USE DEF RoomsInv
<1>1. calls' \in [CallIds -> Call \cup {Idle}] /\ OnlyMoves(c) /\ calls'[c] = call
  BY Moves DEF Begin
<1>2. calls[c].at = "idle" /\ calls'[c].at \in {"create", "join", "leave"}
  BY <1>1 DEF Begin, At
<1>3. Types' /\ OneCreates' /\ WithinLimit' /\ RoomsComplete'
  BY <1>1, <1>2, MovesElsewhere DEF Begin, Types
<1>4. EventsAddUp' BY <1>1, <1>2, StaysBalanced DEF Begin, IsMember
<1>5. QueueOfWaiting'
  BY <1>1, <1>2, Enqueues, QueueStays DEF Waiting, At
<1>6. QED BY <1>3, <1>4, <1>5

\* create_room enters the limit of a room that is new, and holds on to the lock.
LEMMA CreateRoomKeeps ==
  ASSUME RoomsInv, NEW c \in CallIds, CreateRoom(c)
  PROVE  RoomsInv'
<1> USE DEF RoomsInv
<1>0. PICK r : r = calls[c].room OBVIOUS
<1>1. /\ calls[c] \in Call \cup {Idle} /\ calls[c].at = "create" /\ LeaveQueue(c)
      /\ \A d \in CallIds : calls[d].at # "create_members"
      /\ UNCHANGED <<members, tracked, emitted, abandoned>>
  BY DEF CreateRoom, CanWriteRooms, CanReadRooms, At, Types
<1>2. r \in RoomIds /\ calls[c].limit \in Limits \cup {NoLimit} BY <1>0, <1>1, CallShape
<1>3. CASE max_members[r] # Absent
  <2>1. Return(c) /\ UNCHANGED max_members BY <1>0, <1>3 DEF CreateRoom
  <2>2. calls' \in [CallIds -> Call \cup {Idle}] /\ OnlyMoves(c) /\ calls'[c].at = "idle"
    BY <2>1, Returns
  <2>3. Types' /\ OneCreates' /\ WithinLimit' /\ RoomsComplete'
    BY <1>1, <2>1, <2>2, MovesElsewhere DEF Types
  <2>4. EventsAddUp' BY <1>1, <2>2, StaysBalanced DEF IsMember
  <2>5. QueueOfWaiting' BY <1>1, <2>2, Dequeues DEF Waiting, At
  <2>6. QED BY <2>3, <2>4, <2>5
<1>4. CASE max_members[r] = Absent
  <2>1. GoTo(c, "create_members") /\ max_members' = [max_members EXCEPT ![r] = calls[c].limit]
    BY <1>0, <1>4 DEF CreateRoom, LimitOf
  <2>2. /\ calls' \in [CallIds -> Call \cup {Idle}] /\ OnlyMoves(c)
        /\ calls'[c].at = "create_members" /\ calls'[c].room = r
    BY <1>0, <1>1, <2>1, Goes DEF At
  <2>3. max_members'[r] # Absent /\ \A s \in RoomIds \ {r} : max_members'[s] = max_members[s]
    BY <1>2, <2>1, LimitsAssumption, AbsentAssumption DEF Types
  <2>4. members[r] = Absent /\ <<r, "create_members">> \notin abandoned
    BY <1>2, <1>4 DEF OneCreates, RoomsComplete, CreationAt
  <2>5. Types' BY <1>1, <1>2, <2>1, <2>2 DEF Types
  <2>6. OneCreates'
    <3>1. \A d \in CallIds : calls'[d].at = "create_members" => d = c
      BY <1>1, <2>2 DEF OnlyMoves
    <3>2. \A d \in CallIds : calls'[d].at = "init" => calls'[d] = calls[d]
      BY <2>2 DEF OnlyMoves
    <3>3. QED BY <1>1, <2>2, <2>3, <2>4, <3>1, <3>2 DEF OneCreates, At
  <2>7. WithinLimit' BY <1>1, <2>3, <2>4 DEF WithinLimit
  <2>8. RoomsComplete'
    <3>1. \A d \in CallIds \ {c} : calls'[d] = calls[d] BY <2>2 DEF OnlyMoves
    <3>2. \A s : CreationAt(s, "create_members")' <=> CreationAt(s, "create_members") \/ s = r
      BY <1>1, <2>2, <3>1 DEF CreationAt, At
    <3>3. \A s : CreationAt(s, "init")' <=> CreationAt(s, "init")
      BY <1>1, <2>2, <3>1 DEF CreationAt, At
    <3>4. QED BY <1>1, <2>3, <2>4, <3>2, <3>3 DEF RoomsComplete
  <2>9. EventsAddUp' BY <1>1, <2>2, StaysBalanced DEF IsMember
  <2>10. QueueOfWaiting' BY <1>1, <2>2, Dequeues DEF Waiting, At
  <2>11. QED BY <2>5, <2>6, <2>7, <2>8, <2>9, <2>10
<1>5. QED BY <1>3, <1>4

\* The room gets its set of members, which it did not have.
LEMMA CreateMembersKeeps ==
  ASSUME RoomsInv, NEW c \in CallIds, CreateMembers(c)
  PROVE  RoomsInv'
<1> USE DEF RoomsInv
<1>0. PICK r : r = calls[c].room OBVIOUS
<1>1. /\ calls[c] \in Call \cup {Idle} /\ calls[c].at = "create_members" /\ GoTo(c, "init")
      /\ members' = [members EXCEPT ![r] = {}]
      /\ UNCHANGED <<queue, max_members, tracked, emitted, abandoned>>
  BY <1>0 DEF CreateMembers, At, Types
<1>2. r \in RoomIds BY <1>0, <1>1, CallShape
<1>3. /\ calls' \in [CallIds -> Call \cup {Idle}] /\ OnlyMoves(c)
      /\ calls'[c].at = "init" /\ calls'[c].room = r
  BY <1>0, <1>1, Goes DEF At
<1>4. /\ members[r] = Absent /\ max_members[r] # Absent
      /\ \A d \in CallIds : calls[d].at = "create_members" => d = c
      /\ <<r, "create_members">> \notin abandoned
  BY <1>0, <1>1 DEF OneCreates, At
<1>5. /\ members'[r] = {} /\ members'[r] # Absent
      /\ \A s \in RoomIds \ {r} : members'[s] = members[s]
  BY <1>1, <1>2, AbsentAssumption DEF Types
<1>6. Types'
  <2>1. members' \in [RoomIds -> (SUBSET Agents) \cup {Absent}] BY <1>1 DEF Types
  <2>2. \A s \in RoomIds : members'[s] # Absent => IsFiniteSet(members'[s])
    BY <1>5, FS_EmptySet DEF Types
  <2>3. QED BY <1>1, <1>3, <2>1, <2>2 DEF Types
<1>7. OneCreates'
  <2>1. \A d \in CallIds : calls'[d].at # "create_members" BY <1>3, <1>4 DEF OnlyMoves
  <2>2. ASSUME NEW d \in CallIds, calls'[d].at = "init" PROVE members'[calls'[d].room] # Absent
    <3>1. CASE d = c BY <1>3, <1>5, <3>1
    <3>2. CASE d # c
      <4>1. calls'[d] = calls[d] BY <1>3, <3>2 DEF OnlyMoves
      <4>2. calls[d].room \in RoomIds
        <5>1. calls[d] \in Call \cup {Idle} /\ calls[d].at # "idle" BY <2>2, <4>1 DEF Types
        <5>2. QED BY <5>1, CallShape
      <4>3. members[calls[d].room] # Absent BY <2>2, <4>1 DEF OneCreates, At
      <4>4. QED BY <1>5, <4>1, <4>2, <4>3
    <3>3. QED BY <3>1, <3>2
  <2>3. \A s \in RoomIds : max_members'[s] = Absent => members'[s] = Absent
    BY <1>1, <1>4, <1>5 DEF OneCreates
  <2>4. QED BY <2>1, <2>2, <2>3 DEF OneCreates, At
<1>8. WithinLimit'
  <2>1. max_members[r] \in Nat => Cardinality({}) <= max_members[r] BY FS_EmptySet
  <2>2. QED BY <1>1, <1>5, <2>1 DEF WithinLimit
<1>9. RoomsComplete'
  <2>1. \A d \in CallIds \ {c} : calls'[d] = calls[d] BY <1>3 DEF OnlyMoves
  <2>2. \A s : CreationAt(s, "create_members")' <=> CreationAt(s, "create_members") /\ s # r
    BY <1>0, <1>1, <1>3, <1>4, <2>1 DEF CreationAt, At
  <2>3. \A s : CreationAt(s, "init")' <=> CreationAt(s, "init") \/ s = r
    BY <1>1, <1>3, <2>1 DEF CreationAt, At
  <2>4. QED BY <1>1, <1>4, <1>5, <2>2, <2>3 DEF RoomsComplete
<1>10. EventsAddUp'
  <2>1. \A s \in RoomIds, a \in Agents : IsMember(s, a)' <=> IsMember(s, a)
    BY <1>4, <1>5 DEF IsMember
  <2>2. QED BY <1>1, <1>3, <2>1, StaysBalanced
<1>11. QueueOfWaiting' BY <1>1, <1>3, QueueStays DEF Waiting, At
<1>12. QED BY <1>6, <1>7, <1>8, <1>9, <1>10, <1>11

\* The room becomes complete.
LEMMA InitStateKeeps ==
  ASSUME RoomsInv, NEW c \in CallIds, InitState(c)
  PROVE  RoomsInv'
<1> USE DEF RoomsInv
<1>0. PICK r : r = calls[c].room OBVIOUS
<1>1. /\ calls[c] \in Call \cup {Idle} /\ calls[c].at = "init" /\ Return(c)
      /\ tracked' = tracked \cup {r}
      /\ UNCHANGED <<queue, max_members, members, emitted, abandoned>>
  BY <1>0 DEF InitState, At, Types
<1>2. r \in RoomIds /\ members[r] # Absent
  <2>1. r \in RoomIds BY <1>0, <1>1, CallShape
  <2>2. QED BY <1>0, <1>1, <2>1 DEF OneCreates, At
<1>3. /\ calls' \in [CallIds -> Call \cup {Idle}] /\ OnlyMoves(c) /\ calls'[c].at = "idle"
  BY <1>1, Returns
<1>4. Types' BY <1>1, <1>2, <1>3 DEF Types
<1>5. OneCreates'
  <2>1. \A d \in CallIds : calls'[d].at \in {"create_members", "init"} => calls'[d] = calls[d]
    BY <1>3 DEF OnlyMoves
  <2>2. QED BY <1>1, <2>1 DEF OneCreates, At
<1>6. WithinLimit' BY <1>1 DEF WithinLimit
<1>7. RoomsComplete'
  <2>1. \A d \in CallIds \ {c} : calls'[d] = calls[d] BY <1>3 DEF OnlyMoves
  <2>2. \A s : CreationAt(s, "create_members")' <=> CreationAt(s, "create_members")
    BY <1>1, <1>3, <2>1 DEF CreationAt, At
  <2>3. ASSUME NEW s \in RoomIds
        PROVE  /\ members[s] # Absent /\ s \notin tracked' => CreationAt(s, "init")'
               /\ CreationAt(s, "init")' => members[s] # Absent
    <3>1. s \notin tracked' => s \notin tracked /\ s # r BY <1>1
    <3>2. /\ members[s] # Absent /\ s \notin tracked => CreationAt(s, "init")
          /\ CreationAt(s, "init") => members[s] # Absent
      BY DEF RoomsComplete
    <3>3. /\ CreationAt(s, "init")' => CreationAt(s, "init")
          /\ CreationAt(s, "init") /\ s # r => CreationAt(s, "init")'
      BY <1>0, <1>1, <1>3, <2>1 DEF CreationAt, At
    <3>4. QED BY <3>1, <3>2, <3>3
  <2>4. QED BY <1>1, <2>2, <2>3 DEF RoomsComplete
<1>8. EventsAddUp' BY <1>1, <1>3, StaysBalanced DEF IsMember
<1>9. QueueOfWaiting' BY <1>1, <1>3, QueueStays DEF Waiting, At
<1>10. QED BY <1>4, <1>5, <1>6, <1>7, <1>8, <1>9

\* restore_snapshot tracks one more room.
LEMMA RestoreSnapshotKeeps ==
  ASSUME RoomsInv, NEW r \in RoomIds, RestoreSnapshot(r)
  PROVE  RoomsInv'
<1> USE DEF RoomsInv, RestoreSnapshot
<1>1. Types' /\ OneCreates' /\ WithinLimit' /\ RoomsComplete'
  BY DEF Types, OneCreates, WithinLimit, RoomsComplete, CreationAt, At
<1>2. EventsAddUp' BY DEF EventsAddUp, IsMember, Owing, At
<1>3. QueueOfWaiting' BY DEF QueueOfWaiting, Waiting, At
<1>4. QED BY <1>1, <1>2, <1>3

\* join_room looks the room up.
LEMMA LookUpRoomKeeps ==
  ASSUME RoomsInv, NEW c \in CallIds, LookUpRoom(c)
  PROVE  RoomsInv'
<1> USE DEF RoomsInv
<1>1. /\ calls[c].at = "join" /\ LeaveQueue(c) /\ (Return(c) \/ GoTo(c, "join_members"))
      /\ UNCHANGED <<max_members, members, tracked, emitted, abandoned>>
  BY DEF LookUpRoom, At
<1>2. /\ calls' \in [CallIds -> Call \cup {Idle}] /\ OnlyMoves(c)
      /\ calls'[c].at \in {"idle", "join_members"}
  <2>1. CASE Return(c) BY <2>1, Returns
  <2>2. CASE GoTo(c, "join_members") BY <1>1, <2>2, Goes DEF At
  <2>3. QED BY <1>1, <2>1, <2>2
<1>3. Types' /\ OneCreates' /\ WithinLimit' /\ RoomsComplete'
  BY <1>1, <1>2, MovesElsewhere DEF Types
<1>4. EventsAddUp' BY <1>1, <1>2, StaysBalanced DEF IsMember
<1>5. QueueOfWaiting' BY <1>1, <1>2, Dequeues DEF Waiting, At
<1>6. QED BY <1>3, <1>4, <1>5

\* The members of a room that has a set of them change, within the limit.
LEMMA MembersChange ==
  ASSUME RoomsInv, NEW c \in CallIds, OnlyMoves(c), calls' \in [CallIds -> Call \cup {Idle}],
         calls[c].at \notin {"create_members", "init"},
         calls'[c].at \notin {"create_members", "init"},
         NEW r \in RoomIds, members[r] # Absent,
         NEW S \in SUBSET Agents, IsFiniteSet(S), members' = [members EXCEPT ![r] = S],
         max_members[r] \in Nat => Cardinality(S) <= max_members[r],
         UNCHANGED <<max_members, tracked, emitted, abandoned>>
  PROVE  Types' /\ OneCreates' /\ WithinLimit' /\ RoomsComplete'
<1> USE DEF RoomsInv
<1>1. ASSUME NEW d \in CallIds, calls'[d].at \in {"create_members", "init"}
      PROVE  calls'[d] = calls[d]
  BY <1>1 DEF OnlyMoves
<1>2. ASSUME NEW d \in CallIds, calls[d].at \in {"create_members", "init"}
      PROVE  calls'[d] = calls[d] /\ calls[d].room \in RoomIds
  <2>1. calls[d] \in Call \cup {Idle} /\ calls[d].at # "idle" BY <1>2 DEF Types
  <2>2. calls[d].room \in RoomIds BY <2>1, CallShape
  <2>3. QED BY <1>2, <2>2 DEF OnlyMoves
<1>3. /\ members'[r] = S /\ members'[r] # Absent
      /\ \A s \in RoomIds \ {r} : members'[s] = members[s]
  BY AbsentAssumption DEF Types
<1>4. \A s \in RoomIds : members'[s] = Absent <=> members[s] = Absent BY <1>3
<1>5. Types'
  <2>1. members' \in [RoomIds -> (SUBSET Agents) \cup {Absent}] BY DEF Types
  <2>2. \A s \in RoomIds : members'[s] # Absent => IsFiniteSet(members'[s])
    BY <1>3 DEF Types
  <2>3. QED BY <2>1, <2>2 DEF Types
<1>6. OneCreates'
  <2>1. \A s \in RoomIds : max_members'[s] = Absent => members'[s] = Absent
    BY <1>4 DEF OneCreates
  <2>2. \A d \in CallIds : At(d, "create_members")' =>
          max_members'[calls'[d].room] # Absent /\ members'[calls'[d].room] = Absent
    BY <1>1, <1>2, <1>4 DEF OneCreates, At
  <2>3. \A d \in CallIds : At(d, "init")' => members'[calls'[d].room] # Absent
    BY <1>1, <1>2, <1>4 DEF OneCreates, At
  <2>4. \A d, e \in CallIds : At(d, "create_members")' /\ At(e, "create_members")' => d = e
    BY <1>1 DEF OneCreates, At
  <2>5. \A d \in CallIds : At(d, "create_members")' =>
          <<calls'[d].room, "create_members">> \notin abandoned'
    BY <1>1 DEF OneCreates, At
  <2>6. QED BY <2>1, <2>2, <2>3, <2>4, <2>5 DEF OneCreates
<1>7. WithinLimit' BY <1>3 DEF WithinLimit
<1>8. RoomsComplete'
  <2>1. \A s, w : w \in {"create_members", "init"} => (CreationAt(s, w)' <=> CreationAt(s, w))
    BY <1>1, <1>2 DEF CreationAt, At
  <2>2. QED BY <1>4, <2>1 DEF RoomsComplete
<1>9. QED BY <1>5, <1>6, <1>7, <1>8

\* A call that is refused, or has nothing to do, returns.
LEMMA RefusedKeeps ==
  ASSUME RoomsInv, NEW c \in CallIds, Return(c), At(c, "join_members") \/ At(c, "leave"),
         UNCHANGED <<queue, max_members, members, tracked, emitted, abandoned>>
  PROVE  RoomsInv'
<1> USE DEF RoomsInv
<1>1. /\ calls' \in [CallIds -> Call \cup {Idle}] /\ OnlyMoves(c) /\ calls'[c].at = "idle"
  BY Returns
<1>2. calls[c].at \in {"join_members", "leave"} BY DEF At
<1>3. Types' /\ OneCreates' /\ WithinLimit' /\ RoomsComplete'
  BY <1>1, <1>2, MovesElsewhere DEF Types
<1>4. EventsAddUp' BY <1>1, <1>2, StaysBalanced DEF IsMember
<1>5. QueueOfWaiting' BY <1>1, <1>2, QueueStays DEF Waiting, At
<1>6. QED BY <1>3, <1>4, <1>5

\* join_room adds a member where there is room for one, and owes an event.
LEMMA JoinRoomKeeps ==
  ASSUME RoomsInv, NEW c \in CallIds, JoinRoom(c)
  PROVE  RoomsInv'
<1> USE DEF RoomsInv
<1>0. PICK r, a : r = calls[c].room /\ a = calls[c].agent OBVIOUS
<1>1. /\ calls[c] \in Call \cup {Idle} /\ calls[c].at = "join_members"
      /\ UNCHANGED <<queue, max_members, tracked, emitted, abandoned>>
  BY DEF JoinRoom, At, Types
<1>2. CASE ~ MayJoin(r, a) BY <1>0, <1>2, RefusedKeeps DEF JoinRoom
<1>3. CASE MayJoin(r, a)
  <2>1. GoTo(c, "joined") /\ members' = [members EXCEPT ![r] = members[r] \cup {a}]
    BY <1>0, <1>3 DEF JoinRoom
  <2>2. /\ calls' \in [CallIds -> Call \cup {Idle}] /\ OnlyMoves(c)
        /\ calls'[c].at = "joined" /\ calls'[c].room = r /\ calls'[c].agent = a
    BY <1>0, <1>1, <2>1, Goes DEF At
  <2>3. r \in RoomIds /\ a \in Agents BY <1>0, <1>1, CallShape
  <2>4. /\ members[r] # Absent /\ members[r] \in SUBSET Agents /\ IsFiniteSet(members[r])
        /\ a \notin members[r] /\ HasSpace(r)
    BY <1>3, <2>3 DEF MayJoin, Types
  <2> DEFINE S == members[r] \cup {a}
  <2>5. S \in SUBSET Agents /\ IsFiniteSet(S) /\ Cardinality(S) = Cardinality(members[r]) + 1
    BY <2>3, <2>4, FS_AddElement
  <2>6. max_members[r] \in Nat => Cardinality(S) <= max_members[r]
    <3>1. Cardinality(members[r]) \in Nat BY <2>4, FS_CardinalityType
    <3>2. max_members[r] \in Nat => Cardinality(members[r]) < max_members[r]
      BY <2>4, LimitsAssumption DEF HasSpace
    <3> HIDE DEF S
    <3>3. QED BY <2>5, <3>1, <3>2
  <2>7. Types' /\ OneCreates' /\ WithinLimit' /\ RoomsComplete'
    <3> HIDE DEF S
    <3>1. members' = [members EXCEPT ![r] = S] BY <2>1 DEF S
    <3>2. QED BY <1>1, <2>2, <2>3, <2>4, <2>5, <2>6, <3>1, MembersChange
  <2>8. EventsAddUp'
    <3> SUFFICES ASSUME NEW s \in RoomIds, NEW b \in Agents
                 PROVE  emitted'[s][b] + Owing("joined", s, b)' - Owing("left", s, b)'
                          = IF IsMember(s, b)' THEN 1 ELSE 0
      BY DEF EventsAddUp
    <3>1. /\ c \notin Owed("joined", s, b) /\ c \notin Owed("left", s, b)
          /\ c \notin Owed("left", s, b)'
          /\ c \in Owed("joined", s, b)' <=> s = r /\ b = a
      BY <1>1, <2>2 DEF Owed, At
    <3>2. /\ Owing("left", s, b)' = Owing("left", s, b)
          /\ Owing("joined", s, b) \in Int /\ Owing("left", s, b) \in Int
          /\ Owing("joined", s, b)' = Owing("joined", s, b) + IF s = r /\ b = a THEN 1 ELSE 0
      BY <2>2, <3>1, OwingChanges
    <3>3. emitted'[s][b] = emitted[s][b] /\ emitted[s][b] \in Int BY <1>1 DEF Types
    <3>4. CASE s = r /\ b = a
      <4>1. ~ IsMember(s, b) /\ IsMember(s, b)'
        BY <2>1, <2>3, <2>4, <2>5, <3>4, AbsentAssumption DEF IsMember, Types
      <4>2. QED BY <3>2, <3>3, <3>4, <4>1 DEF EventsAddUp
    <3>5. CASE ~ (s = r /\ b = a)
      <4>1. IsMember(s, b)' <=> IsMember(s, b)
        BY <2>1, <2>3, <2>4, <2>5, <3>5, AbsentAssumption DEF IsMember, Types
      <4>2. QED BY <3>2, <3>3, <3>5, <4>1 DEF EventsAddUp
    <3>6. QED BY <3>4, <3>5
  <2>9. QueueOfWaiting' BY <1>1, <2>2, QueueStays DEF Waiting, At
  <2>10. QED BY <2>7, <2>8, <2>9
<1>4. QED BY <1>2, <1>3

\* leave_room removes a member, and owes an event.
LEMMA LeaveRoomKeeps ==
  ASSUME RoomsInv, NEW c \in CallIds, LeaveRoom(c)
  PROVE  RoomsInv'
<1> USE DEF RoomsInv
<1>0. PICK r, a : r = calls[c].room /\ a = calls[c].agent OBVIOUS
<1>1. /\ calls[c] \in Call \cup {Idle} /\ calls[c].at = "leave"
      /\ UNCHANGED <<queue, max_members, tracked, emitted, abandoned>>
  BY DEF LeaveRoom, At, Types
<1>2. CASE ~ IsMember(r, a) BY <1>0, <1>2, RefusedKeeps DEF LeaveRoom, IsMember
<1>3. CASE IsMember(r, a)
  <2>1. GoTo(c, "left") /\ members' = [members EXCEPT ![r] = members[r] \ {a}]
    BY <1>0, <1>3 DEF LeaveRoom, IsMember
  <2>2. /\ calls' \in [CallIds -> Call \cup {Idle}] /\ OnlyMoves(c)
        /\ calls'[c].at = "left" /\ calls'[c].room = r /\ calls'[c].agent = a
    BY <1>0, <1>1, <2>1, Goes DEF At
  <2>3. r \in RoomIds /\ a \in Agents BY <1>0, <1>1, CallShape
  <2>4. /\ members[r] # Absent /\ members[r] \in SUBSET Agents /\ IsFiniteSet(members[r])
        /\ a \in members[r]
    BY <1>3, <2>3 DEF IsMember, Types
  <2> DEFINE S == members[r] \ {a}
  <2>5. S \in SUBSET Agents /\ IsFiniteSet(S) /\ Cardinality(S) = Cardinality(members[r]) - 1
    BY <2>3, <2>4, FS_RemoveElement
  <2>6. max_members[r] \in Nat => Cardinality(S) <= max_members[r]
    <3>1. Cardinality(members[r]) \in Nat BY <2>4, FS_CardinalityType
    <3>2. max_members[r] \in Nat => Cardinality(members[r]) <= max_members[r]
      BY <2>3, <2>4 DEF WithinLimit
    <3> HIDE DEF S
    <3>3. QED BY <2>5, <3>1, <3>2
  <2>7. Types' /\ OneCreates' /\ WithinLimit' /\ RoomsComplete'
    <3> HIDE DEF S
    <3>1. members' = [members EXCEPT ![r] = S] BY <2>1 DEF S
    <3>2. QED BY <1>1, <2>2, <2>3, <2>4, <2>5, <2>6, <3>1, MembersChange
  <2>8. EventsAddUp'
    <3> SUFFICES ASSUME NEW s \in RoomIds, NEW b \in Agents
                 PROVE  emitted'[s][b] + Owing("joined", s, b)' - Owing("left", s, b)'
                          = IF IsMember(s, b)' THEN 1 ELSE 0
      BY DEF EventsAddUp
    <3>1. /\ c \notin Owed("joined", s, b) /\ c \notin Owed("left", s, b)
          /\ c \notin Owed("joined", s, b)'
          /\ c \in Owed("left", s, b)' <=> s = r /\ b = a
      BY <1>1, <2>2 DEF Owed, At
    <3>2. /\ Owing("joined", s, b)' = Owing("joined", s, b)
          /\ Owing("joined", s, b) \in Int /\ Owing("left", s, b) \in Int
          /\ Owing("left", s, b)' = Owing("left", s, b) + IF s = r /\ b = a THEN 1 ELSE 0
      BY <2>2, <3>1, OwingChanges
    <3>3. emitted'[s][b] = emitted[s][b] /\ emitted[s][b] \in Int BY <1>1 DEF Types
    <3>4. CASE s = r /\ b = a
      <4>1. IsMember(s, b) /\ ~ IsMember(s, b)'
        BY <2>1, <2>3, <2>4, <3>4 DEF IsMember, Types
      <4>2. QED BY <3>2, <3>3, <3>4, <4>1 DEF EventsAddUp
    <3>5. CASE ~ (s = r /\ b = a)
      <4>1. IsMember(s, b)' <=> IsMember(s, b)
        BY <2>1, <2>3, <2>4, <2>5, <3>5, AbsentAssumption DEF IsMember, Types
      <4>2. QED BY <3>2, <3>3, <3>5, <4>1 DEF EventsAddUp
    <3>6. QED BY <3>4, <3>5
  <2>9. QueueOfWaiting' BY <1>1, <2>2, QueueStays DEF Waiting, At
  <2>10. QED BY <2>7, <2>8, <2>9
<1>4. QED BY <1>2, <1>3

\* The event is emitted, and no longer owed.
LEMMA EmitKeeps ==
  ASSUME RoomsInv, NEW c \in CallIds, Emit(c)
  PROVE  RoomsInv'
<1> USE DEF RoomsInv
<1>0. PICK r, a : r = calls[c].room /\ a = calls[c].agent OBVIOUS
<1>1. PICK n : n = IF At(c, "joined") THEN emitted[r][a] + 1 ELSE emitted[r][a] - 1 OBVIOUS
<1>2. /\ calls[c] \in Call \cup {Idle} /\ calls[c].at \in {"joined", "left"} /\ Return(c)
      /\ UNCHANGED <<queue, max_members, members, tracked, abandoned>>
  BY DEF Emit, At, Types
<1>3. r \in RoomIds /\ a \in Agents BY <1>0, <1>2, CallShape
<1>4. n \in Int BY <1>1, <1>3 DEF Types
<1>5. emitted' = [emitted EXCEPT ![r] = [emitted[r] EXCEPT ![a] = n]]
  BY <1>0, <1>1 DEF Emit
<1>6. /\ emitted' \in [RoomIds -> [Agents -> Int]] /\ emitted'[r][a] = n
      /\ \A s \in RoomIds, b \in Agents : ~ (s = r /\ b = a) => emitted'[s][b] = emitted[s][b]
  BY <1>3, <1>4, <1>5 DEF Types
<1>7. /\ calls' \in [CallIds -> Call \cup {Idle}] /\ OnlyMoves(c) /\ calls'[c].at = "idle"
  BY <1>2, Returns
<1>8. Types' /\ OneCreates' /\ WithinLimit' /\ RoomsComplete'
  BY <1>2, <1>6, <1>7, MovesElsewhere
<1>9. EventsAddUp'
  <2> SUFFICES ASSUME NEW s \in RoomIds, NEW b \in Agents
               PROVE  emitted'[s][b] + Owing("joined", s, b)' - Owing("left", s, b)'
                        = IF IsMember(s, b)' THEN 1 ELSE 0
    BY DEF EventsAddUp
  <2>1. /\ IsMember(s, b)' <=> IsMember(s, b)
        /\ emitted[s][b] \in Int
        /\ emitted[s][b] + Owing("joined", s, b) - Owing("left", s, b)
              = IF IsMember(s, b) THEN 1 ELSE 0
    BY <1>2 DEF IsMember, Types, EventsAddUp
  <2>2. /\ c \notin Owed("joined", s, b)' /\ c \notin Owed("left", s, b)'
        /\ c \in Owed("joined", s, b) <=> calls[c].at = "joined" /\ s = r /\ b = a
        /\ c \in Owed("left", s, b) <=> calls[c].at = "left" /\ s = r /\ b = a
    BY <1>0, <1>7 DEF Owed, At
  <2>3. /\ Owing("joined", s, b) \in Int /\ Owing("left", s, b) \in Int
        /\ Owing("joined", s, b)' = Owing("joined", s, b)
             - IF calls[c].at = "joined" /\ s = r /\ b = a THEN 1 ELSE 0
        /\ Owing("left", s, b)' = Owing("left", s, b)
             - IF calls[c].at = "left" /\ s = r /\ b = a THEN 1 ELSE 0
    BY <1>7, <2>2, OwingChanges
  <2>4. CASE s = r /\ b = a
    BY <1>1, <1>2, <1>6, <2>1, <2>3, <2>4 DEF At
  <2>5. CASE ~ (s = r /\ b = a)
    BY <1>6, <2>1, <2>3, <2>5
  <2>6. QED BY <2>4, <2>5
<1>10. QueueOfWaiting' BY <1>2, <1>7, QueueStays DEF Waiting, At
<1>11. QED BY <1>8, <1>9, <1>10

\* A call is dropped where it waits.
LEMMA DropKeeps ==
  ASSUME RoomsInv, NEW c \in CallIds, Drop(c)
  PROVE  RoomsInv'
<1> USE DEF RoomsInv
<1>1. /\ calls[c] \in Call \cup {Idle} /\ calls[c].at \notin {"idle", "joined", "left"}
      /\ Return(c) /\ LeaveQueue(c)
      /\ UNCHANGED <<max_members, members, tracked, emitted>>
  BY DEF Drop, At, Types
<1>2. /\ abandoned' \subseteq RoomIds \X {"create_members", "init"}
      /\ \A s, w : w \in {"create_members", "init"} =>
           (<<s, w>> \in abandoned' <=>
              <<s, w>> \in abandoned \/ (calls[c].room = s /\ calls[c].at = w))
  <2>1. calls[c].room \in RoomIds BY <1>1, CallShape
  <2>2. QED BY <2>1 DEF Drop, At, Types
<1>3. /\ calls' \in [CallIds -> Call \cup {Idle}] /\ OnlyMoves(c) /\ calls'[c].at = "idle"
  BY <1>1, Returns
<1>4. Types' BY <1>1, <1>2, <1>3 DEF Types
<1>5. OneCreates'
  <2>1. \A d \in CallIds : calls'[d].at \in {"create_members", "init"} =>
          d # c /\ calls'[d] = calls[d]
    BY <1>3 DEF OnlyMoves
  <2>2. ASSUME NEW d \in CallIds, At(d, "create_members")'
        PROVE  <<calls'[d].room, "create_members">> \notin abandoned'
    BY <1>2, <2>1, <2>2 DEF OneCreates, At
  <2>3. QED BY <1>1, <2>1, <2>2 DEF OneCreates, At
<1>6. WithinLimit' BY <1>1 DEF WithinLimit
<1>7. RoomsComplete'
  <2>1. \A d \in CallIds \ {c} : calls'[d] = calls[d] BY <1>3 DEF OnlyMoves
  <2>2. \A s, w : w \in {"create_members", "init"} => (CreationAt(s, w)' <=> CreationAt(s, w))
    BY <1>2, <1>3, <2>1 DEF CreationAt, At
  <2>3. QED BY <1>1, <2>2 DEF RoomsComplete
<1>8. EventsAddUp' BY <1>1, <1>3, StaysBalanced DEF IsMember
<1>9. QueueOfWaiting' BY <1>1, <1>3, Dequeues DEF Waiting, At
<1>10. QED BY <1>4, <1>5, <1>6, <1>7, <1>8, <1>9

\* Every step of the room manager keeps the invariant.
LEMMA RoomsStep == RoomsInv /\ [Next]_vars => RoomsInv'
<1> SUFFICES ASSUME RoomsInv, [Next]_vars PROVE RoomsInv' OBVIOUS
<1>1. ASSUME NEW c \in CallIds, NEW r \in RoomIds, NEW limit \in Limits \cup {NoLimit},
             BeginCreate(c, r, limit)
      PROVE  RoomsInv'
  <2> DEFINE call == [at |-> "create", room |-> r, limit |-> limit]
  <2>1. call \in Call /\ call.at = "create" BY DEF Call
  <2>2. Begin(c, call) /\ queue' = Append(queue, c) BY <1>1 DEF BeginCreate
  <2> HIDE DEF call
  <2>3. QED BY <2>1, <2>2, BeginKeeps
<1>2. ASSUME NEW c \in CallIds, NEW r \in RoomIds, NEW a \in Agents, BeginJoin(c, r, a)
      PROVE  RoomsInv'
  <2> DEFINE call == [at |-> "join", room |-> r, agent |-> a]
  <2>1. call \in Call /\ call.at = "join" BY DEF Call
  <2>2. Begin(c, call) /\ queue' = Append(queue, c) BY <1>2 DEF BeginJoin
  <2> HIDE DEF call
  <2>3. QED BY <2>1, <2>2, BeginKeeps
<1>3. ASSUME NEW c \in CallIds, NEW r \in RoomIds, NEW a \in Agents, BeginLeave(c, r, a)
      PROVE  RoomsInv'
  <2> DEFINE call == [at |-> "leave", room |-> r, agent |-> a]
  <2>1. call \in Call /\ call.at = "leave" BY DEF Call
  <2>2. Begin(c, call) /\ UNCHANGED queue BY <1>3 DEF BeginLeave
  <2> HIDE DEF call
  <2>3. QED BY <2>1, <2>2, BeginKeeps
<1>4. ASSUME NEW c \in CallIds, Step(c) PROVE RoomsInv'
  BY <1>4, CreateRoomKeeps, CreateMembersKeeps, InitStateKeeps, LookUpRoomKeeps,
     JoinRoomKeeps, LeaveRoomKeeps, EmitKeeps DEF Step
<1>5. CASE UNCHANGED vars
  <2>1. Types' /\ OneCreates' /\ WithinLimit' /\ RoomsComplete'
    BY <1>5 DEF RoomsInv, vars, Types, OneCreates, WithinLimit, RoomsComplete, CreationAt, At
  <2>2. EventsAddUp' BY <1>5 DEF RoomsInv, vars, EventsAddUp, IsMember, Owing, At
  <2>3. QueueOfWaiting' BY <1>5 DEF RoomsInv, vars, QueueOfWaiting, Waiting, At
  <2>4. QED BY <2>1, <2>2, <2>3 DEF RoomsInv
<1>6. QED BY <1>1, <1>2, <1>3, <1>4, <1>5, DropKeeps, RestoreSnapshotKeeps DEF Next

\* The invariant holds in every reachable state.
LEMMA RoomsInvariant == Spec => []RoomsInv
BY RoomsInit, RoomsStep, PTL DEF Spec

------------------------------------------------------------------------------
\* The variables have their types, and the queue of the lock on the rooms
\* holds exactly the calls to create_room and join_room that wait for it.
THEOREM RoomsTypes == Spec => []TypeOK
<1>1. RoomsInv => TypeOK BY DEF RoomsInv, Types, QueueOfWaiting, Waiting, TypeOK
<1>2. QED BY <1>1, RoomsInvariant, PTL

\* No interleaving of joins takes a room over its limit: join_room looks at
\* the number of members and adds one under one lock.
THEOREM LimitsHold == Spec => []WithinLimit
<1>1. RoomsInv => WithinLimit BY DEF RoomsInv
<1>2. QED BY <1>1, RoomsInvariant, PTL

\* RoomJoined and RoomLeft add up: what the bus has carried and what calls
\* still have to emit is the membership.
THEOREM EventsAgree == Spec => []EventsAddUp
<1>1. RoomsInv => EventsAddUp BY DEF RoomsInv
<1>2. QED BY <1>1, RoomsInvariant, PTL

\* The two maps and the store of room states differ exactly by the creations
\* under way and by those that were dropped, whatever calls come after them.
THEOREM RoomsAreComplete == Spec => []RoomsComplete
<1>1. RoomsInv => RoomsComplete BY DEF RoomsInv
<1>2. QED BY <1>1, RoomsInvariant, PTL
=============================================================================
