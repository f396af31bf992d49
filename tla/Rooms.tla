-------------------------------- MODULE Rooms --------------------------------
(***************************************************************************)
(* Rooms and their members: RoomManager (p2p/src/room.rs), the events it   *)
(* emits on the bus (p2p/src/events.rs) and the gateway's handlers that    *)
(* create, join and leave rooms.                                           *)
(*                                                                         *)
(* Calls run at the same time.  A call that waits at an .await can be      *)
(* dropped there, which happens to a handler whose client disconnects      *)
(* (external); the locks it holds are then released.  The lock on the      *)
(* members is never held across an .await, so what happens under it is one *)
(* step.  The lock on the rooms is held while waiting for that one: for    *)
(* writing by create_room, for reading by join_room.  Events are emitted   *)
(* when the locks are gone, in a step of their own.                        *)
(***************************************************************************)
EXTENDS Integers, FiniteSets, Sequences, SequencesExt

CONSTANTS
  RoomIds,
  Agents,
  Limits,    \* values of max_members that clients ask for
  NoLimit,   \* max_members = None
  Absent,    \* no entry in a map
  CallIds    \* bounds the number of calls under way

ASSUME LimitsAssumption == Limits \subseteq Nat /\ {NoLimit, Absent} \cap Nat = {}

ASSUME AbsentAssumption == NoLimit # Absent /\ \A S \in SUBSET Agents : S # Absent

ASSUME CallsAssumption == IsFiniteSet(CallIds)

VARIABLES
  max_members, \* RoomManager.rooms: the limit of each room, Absent if none
  members,     \* RoomManager.members, Absent for a room without an entry
  tracked,     \* rooms the store of room states knows
  calls,       \* where each call is
  queue,       \* calls that wait for the lock on the rooms, first come first
  emitted,     \* RoomJoined events minus RoomLeft events, by room and agent
  abandoned    \* history: <<room, where>> for every creation dropped half-way

vars == <<max_members, members, tracked, calls, queue, emitted, abandoned>>

Idle == [at |-> "idle"]

Call == [at : {"create", "create_members", "init"}, room : RoomIds,
         limit : Limits \cup {NoLimit}]
        \cup [at : {"join", "join_members", "leave", "joined", "left"},
              room : RoomIds, agent : Agents]

Init ==
  /\ max_members = [r \in RoomIds |-> Absent]
  /\ members = [r \in RoomIds |-> Absent]
  /\ tracked = {}
  /\ calls = [c \in CallIds |-> Idle]
  /\ queue = <<>>
  /\ emitted = [r \in RoomIds |-> [a \in Agents |-> 0]]
  /\ abandoned = {}

At(c, where) == calls[c].at = where
GoTo(c, where) == calls' = [calls EXCEPT ![c].at = where]
Return(c) == calls' = [calls EXCEPT ![c] = Idle]

Begin(c, call) ==
  /\ At(c, "idle")
  /\ calls' = [calls EXCEPT ![c] = call]
  /\ UNCHANGED <<max_members, members, tracked, emitted, abandoned>>

BeginCreate(c, r, limit) ==
  /\ Begin(c, [at |-> "create", room |-> r, limit |-> limit])
  /\ queue' = Append(queue, c)

BeginJoin(c, r, a) ==
  /\ Begin(c, [at |-> "join", room |-> r, agent |-> a])
  /\ queue' = Append(queue, c)

BeginLeave(c, r, a) ==
  /\ Begin(c, [at |-> "leave", room |-> r, agent |-> a])
  /\ UNCHANGED queue

\* The lock on the rooms, granted in the order of the queue.
CanReadRooms(c) ==
  /\ queue # <<>> /\ Head(queue) = c
  /\ \A d \in CallIds : ~ At(d, "create_members")

CanWriteRooms(c) == CanReadRooms(c) /\ \A d \in CallIds : ~ At(d, "join_members")

\* c is no longer in the queue, if it was there.
LeaveQueue(c) ==
  \/ (\A i \in 1 .. Len(queue) : queue[i] # c) /\ UNCHANGED queue
  \/ \E i \in 1 .. Len(queue) : queue[i] = c /\ queue' = RemoveAt(queue, i)

------------------------------------------------------------------------------
(* create_room *)

\* Mutant: no limit is stored as a limit of zero.
LimitOrZero(c) == IF calls[c].limit = NoLimit THEN 0 ELSE calls[c].limit

\* The limit of the room that is stored, if the request has one.
LimitOf(c) == calls[c].limit

\* Under the lock on the rooms: a room that exists is left as it is.
CreateRoom(c) ==
  LET r == calls[c].room IN
  /\ At(c, "create")
  /\ CanWriteRooms(c)
  /\ LeaveQueue(c)
  /\ IF max_members[r] # Absent
     THEN Return(c) /\ UNCHANGED max_members
     ELSE /\ max_members' = [max_members EXCEPT ![r] = LimitOf(c)]
          /\ GoTo(c, "create_members")
  /\ UNCHANGED <<members, tracked, emitted, abandoned>>

\* Mutant: the handler returns without starting to track the room's state.
CreateMembersOnly(c) ==
  /\ At(c, "create_members")
  /\ members' = [members EXCEPT ![calls[c].room] = {}]
  /\ Return(c)
  /\ UNCHANGED <<queue, max_members, tracked, emitted, abandoned>>

\* Mutant: the room is read back while the lock for writing is still held.
CreateMembersReadingBack(c) ==
  /\ At(c, "create_members")
  /\ CanReadRooms(c)
  /\ members' = [members EXCEPT ![calls[c].room] = {}]
  /\ GoTo(c, "init")
  /\ UNCHANGED <<queue, max_members, tracked, emitted, abandoned>>

CreateMembers(c) ==
  /\ At(c, "create_members")
  /\ members' = [members EXCEPT ![calls[c].room] = {}]
  /\ GoTo(c, "init")
  /\ UNCHANGED <<queue, max_members, tracked, emitted, abandoned>>

\* The gateway's handler then starts tracking the room's state.
InitState(c) ==
  /\ At(c, "init")
  /\ tracked' = tracked \cup {calls[c].room}
  /\ Return(c)
  /\ UNCHANGED <<queue, max_members, members, emitted, abandoned>>

\* restore_snapshot tracks the state of its room, whether that exists or not.
RestoreSnapshot(r) ==
  /\ tracked' = tracked \cup {r}
  /\ UNCHANGED <<queue, max_members, members, calls, emitted, abandoned>>

------------------------------------------------------------------------------
(* join_room and leave_room *)

LookUpRoom(c) ==
  /\ At(c, "join")
  /\ CanReadRooms(c)
  /\ LeaveQueue(c)
  /\ IF max_members[calls[c].room] = Absent THEN Return(c) ELSE GoTo(c, "join_members")
  /\ UNCHANGED <<max_members, members, tracked, emitted, abandoned>>

\* Mutant: one too many.
HasSpaceForOneMore(r) == max_members[r] = NoLimit \/ Cardinality(members[r]) <= max_members[r]

HasSpace(r) == max_members[r] = NoLimit \/ Cardinality(members[r]) < max_members[r]

\* Mutant: joining again is not refused.
MayJoinAgain(r, a) == members[r] # Absent /\ HasSpace(r)

\* Not when the room has no set of members, or has the agent already.
MayJoin(r, a) == members[r] # Absent /\ a \notin members[r] /\ HasSpace(r)

JoinRoom(c) ==
  LET r == calls[c].room
      a == calls[c].agent
  IN  /\ At(c, "join_members")
      /\ IF MayJoin(r, a)
         THEN members' = [members EXCEPT ![r] = @ \cup {a}] /\ GoTo(c, "joined")
         ELSE Return(c) /\ UNCHANGED members
      /\ UNCHANGED <<queue, max_members, tracked, emitted, abandoned>>

LeaveRoom(c) ==
  LET r == calls[c].room
      a == calls[c].agent
  IN  /\ At(c, "leave")
      /\ IF members[r] # Absent /\ a \in members[r]
         THEN members' = [members EXCEPT ![r] = @ \ {a}] /\ GoTo(c, "left")
         ELSE Return(c) /\ UNCHANGED members
      /\ UNCHANGED <<queue, max_members, tracked, emitted, abandoned>>

\* bus.emit of RoomJoined or RoomLeft.
Emit(c) ==
  /\ At(c, "joined") \/ At(c, "left")
  /\ emitted' = [emitted EXCEPT ![calls[c].room][calls[c].agent] =
                   IF At(c, "joined") THEN @ + 1 ELSE @ - 1]
  /\ Return(c)
  /\ UNCHANGED <<queue, max_members, members, tracked, abandoned>>

------------------------------------------------------------------------------
\* The client disconnects while its call waits for a lock.  Between the
\* change of the members and the event there is no .await.
Drop(c) ==
  /\ ~ \E where \in {"idle", "joined", "left"} : At(c, where)
  /\ Return(c)
  /\ LeaveQueue(c)
  /\ abandoned' = abandoned \cup
       {x \in RoomIds \X {"create_members", "init"} : calls[c].room = x[1] /\ At(c, x[2])}
  /\ UNCHANGED <<max_members, members, tracked, emitted>>

Step(c) ==
  \/ CreateRoom(c) \/ CreateMembers(c) \/ InitState(c)
  \/ LookUpRoom(c) \/ JoinRoom(c) \/ LeaveRoom(c) \/ Emit(c)

Next ==
  \/ \E c \in CallIds :
       \/ \E r \in RoomIds, limit \in Limits \cup {NoLimit} : BeginCreate(c, r, limit)
       \/ \E r \in RoomIds, a \in Agents : BeginJoin(c, r, a) \/ BeginLeave(c, r, a)
       \/ Step(c)
       \/ Drop(c)
  \/ \E r \in RoomIds : RestoreSnapshot(r)

\* Tokio runs a call that can run.  It can once it is first in the queue of
\* the lock it waits for and the lock is free.
Spec == Init /\ [][Next]_vars /\ \A c \in CallIds : WF_vars(Step(c))

------------------------------------------------------------------------------
(* Properties *)

\* Types, and the calls in the queue are those that wait for the lock.
TypeOK ==
  /\ max_members \in [RoomIds -> Limits \cup {NoLimit, Absent}]
  /\ members \in [RoomIds -> (SUBSET Agents) \cup {Absent}]
  /\ tracked \subseteq RoomIds
  /\ abandoned \subseteq RoomIds \X {"create_members", "init"}
  /\ calls \in [CallIds -> Call \cup {Idle}]
  /\ emitted \in [RoomIds -> [Agents -> Int]]
  /\ \A i, j \in 1 .. Len(queue) : queue[i] = queue[j] => i = j
  /\ \A c \in CallIds : (At(c, "create") \/ At(c, "join")) <=> \E i \in 1 .. Len(queue) : queue[i] = c

\* No interleaving of joins takes a room over its limit.
WithinLimit ==
  \A r \in RoomIds :
    max_members[r] \in Nat /\ members[r] # Absent => Cardinality(members[r]) <= max_members[r]

\* Calls that have changed the membership of a and have yet to emit.
Owing(where, r, a) ==
  Cardinality({c \in CallIds : At(c, where) /\ calls[c].room = r /\ calls[c].agent = a})

IsMember(r, a) == members[r] # Absent /\ a \in members[r]

\* Every change of a room's members is announced exactly once, though the
\* events of calls that overlap may come out in the opposite order: what the
\* bus has carried and what calls still owe add up to the membership.
EventsAddUp ==
  \A r \in RoomIds, a \in Agents :
    emitted[r][a] + Owing("joined", r, a) - Owing("left", r, a)
      = IF IsMember(r, a) THEN 1 ELSE 0

\* The creation of r is in the hands of a call there, or was dropped there.
CreationAt(r, where) ==
  \/ <<r, where>> \in abandoned
  \/ \E c \in CallIds : At(c, where) /\ calls[c].room = r

\* The two maps of the manager and the store of room states agree except where
\* a creation is half done, and then they say how far it came.  No room has
\* members without existing.  A room lacks its set of members exactly while a
\* call is about to insert it, and for good if that call was dropped: neither
\* a second create_room nor a join completes it.  A room with members lacks
\* its state only if the handler has yet to start tracking it or was dropped.
RoomsComplete ==
  \A r \in RoomIds :
    /\ members[r] # Absent => max_members[r] # Absent
    /\ max_members[r] # Absent /\ members[r] = Absent <=> CreationAt(r, "create_members")
    /\ members[r] # Absent /\ r \notin tracked => CreationAt(r, "init")
    /\ CreationAt(r, "init") => members[r] # Absent

\* Every call returns: no two calls wait for each other's locks.
CallsReturn == \A c \in CallIds : ~ At(c, "idle") ~> At(c, "idle")
==============================================================================
