---------------------------- MODULE RoomDirectory ----------------------------
(***************************************************************************)
(* The rooms of one ChatFlow server and the locks around them              *)
(* (internal/server): rooms come into being on their first JOIN, several   *)
(* goroutines walk over all of them, and Server.Mu, every Room.Mu and      *)
(* UserRoomMu are taken one inside another.  ChatRoom takes one room as    *)
(* given and its critical sections as steps; here they are made of locks.  *)
(*                                                                         *)
(* A step takes a lock and runs to the next lock or unlock.  A critical    *)
(* section that takes no other lock and reads or writes one variable is    *)
(* one step.                                                               *)
(***************************************************************************)
EXTENDS Integers

CONSTANTS
  Handlers,   \* connections: each runs AddUserToRoom and leaves again
  Monitors,   \* goroutines that walk over the rooms
  Rooms,      \* Room objects, each with its broadcast goroutine
  RoomIds,    \* the room ids in the URLs
  UserIds,
  RoomOf,     \* the room id of each handler
  UserOf,     \* the user id of each handler
  Opened,     \* the room each id has from earlier, by now empty, or None
  Consumed,   \* the room ids that have a consumer, 1 .. ROOM_COUNT
  ServerMu,   \* Server.Mu
  UserRoomMu, \* Server.UserRoomMu; Room.Mu is named by its room
  None        \* nil

Procs == Handlers \cup Monitors \cup Rooms
Locks == {ServerMu, UserRoomMu} \cup Rooms

ASSUME RoomDirectoryAssumption ==
  /\ RoomOf \in [Handlers -> RoomIds]
  /\ UserOf \in [Handlers -> UserIds]
  /\ Opened \in [RoomIds -> Rooms \cup {None}]
  /\ \A i, j \in RoomIds : Opened[i] = Opened[j] /\ Opened[i] # None => i = j
  /\ Handlers \cap Monitors = {} /\ (Handlers \cup Monitors) \cap Rooms = {}
  /\ None \notin Procs \cup Locks
  /\ ServerMu # UserRoomMu /\ ServerMu \notin Rooms /\ UserRoomMu \notin Rooms

VARIABLES
  pc,        \* where each goroutine is
  room,      \* the *Room a handler has looked up, or a monitor is reading
  todo,      \* the rooms a monitor has yet to visit
  departing, \* the user a broadcast goroutine is removing
  rooms,     \* Server.Rooms
  consumer,  \* Rabbit.handlers: the room whose closure serves a room id
  users,     \* Room.Users
  userRooms, \* Server.UserRooms: how often a room is listed for a user
  writer,    \* RWMutex: who holds the lock, or waits for its readers to go
  readers,   \* RWMutex: who holds it for reading
  ctxDone

dataVars == <<rooms, consumer, users, userRooms>>
lockVars == <<writer, readers>>
vars == <<pc, room, todo, departing, dataVars, lockVars, ctxDone>>

-----------------------------------------------------------------------------
\* sync.RWMutex.  Lock returns when there is neither a writer nor a reader; a
\* writer that has to wait for readers keeps out new ones and other writers.

\* The lock p is about to take for writing.
WriteWant(p) ==
  CASE pc[p] = "create"                               -> ServerMu
    [] pc[p] \in {"join", "remove"}                   -> room[p]
    [] pc[p] \in {"removeInOrder", "closeAll"}        -> p
    [] pc[p] \in {"index", "unindex", "unindexInOrder"} -> UserRoomMu
    [] OTHER                                          -> None

\* p blocks in Lock behind readers.
Request(p) ==
  LET l == WriteWant(p)
  IN  /\ l # None
      /\ writer[l] = None /\ readers[l] # {}
      /\ writer' = [writer EXCEPT ![l] = p]
      /\ UNCHANGED <<pc, room, todo, departing, dataVars, readers, ctxDone>>

Locked(p, l) == writer[l] \in {None, p} /\ readers[l] = {}
Keep(p, l)   == writer' = [writer EXCEPT ![l] = p]
Unlock(S)    == writer' = [l \in Locks |-> IF l \in S THEN None ELSE writer[l]]

CanRLock(l)  == writer[l] = None
RLock(p, l)   == CanRLock(l) /\ readers' = [readers EXCEPT ![l] = @ \cup {p}]
RUnlock(p, l) == readers' = [readers EXCEPT ![l] = @ \ {p}]

Goto(p, label) == pc' = [pc EXCEPT ![p] = label]

KnownRooms == {id \in RoomIds : rooms[id] # None}

-----------------------------------------------------------------------------
Init ==
  /\ pc = [p \in Procs |-> CASE p \notin Rooms -> "idle"
                             [] \E id \in RoomIds : Opened[id] = p -> "loop"
                             [] OTHER -> "none"]
  /\ room = [p \in Handlers \cup Monitors |-> None]
  /\ todo = [m \in Monitors |-> {}]
  /\ departing = [o \in Rooms |-> None]
  /\ rooms = Opened
  /\ consumer = [id \in RoomIds |-> IF id \in Consumed THEN Opened[id] ELSE None]
  /\ users = [o \in Rooms |-> [u \in UserIds |-> None]]
  /\ userRooms = [u \in UserIds |-> [id \in RoomIds |-> 0]]
  /\ writer = [l \in Locks |-> None]
  /\ readers = [l \in Locks |-> {}]
  /\ ctxDone = FALSE

-----------------------------------------------------------------------------
\* AddUserToRoom.

\* The first lookup, under Server.Mu for reading.
Lookup(h) ==
  LET o == rooms[RoomOf[h]]
  IN  /\ pc[h] = "idle"
      /\ CanRLock(ServerMu)
      /\ room' = [room EXCEPT ![h] = o]
      /\ Goto(h, IF o = None THEN "create" ELSE "join")
      /\ UNCHANGED <<todo, departing, dataVars, lockVars, ctxDone>>

\* Mutant of Exists: AddNewRoom trusts the lookup that its caller has made.
ExistsUnchecked(id) == FALSE

\* AddNewRoom looks again under Server.Mu: another handler may have been faster.
Exists(id) == rooms[id] # None

\* The new room: Consume registers its closure, unless the room id has no
\* consumer; the broadcast goroutine starts; the room enters the directory.
Create(h) ==
  LET id == RoomOf[h]
      o  == CHOOSE fresh \in Rooms : pc[fresh] = "none"
  IN  /\ pc[h] = "create"
      /\ Locked(h, ServerMu)
      /\ IF Exists(id)
         THEN Goto(h, "relookup") /\ UNCHANGED <<rooms, consumer>>
         ELSE /\ \E fresh \in Rooms : pc[fresh] = "none"
              /\ pc' = [pc EXCEPT ![o] = "loop", ![h] = "relookup"]
              /\ rooms' = [rooms EXCEPT ![id] = o]
              /\ consumer' = IF id \in Consumed
                             THEN [consumer EXCEPT ![id] = o] ELSE consumer
      /\ Unlock({ServerMu})
      /\ UNCHANGED <<room, todo, departing, users, userRooms, readers, ctxDone>>

Relookup(h) ==
  /\ pc[h] = "relookup"
  /\ CanRLock(ServerMu)
  /\ room' = [room EXCEPT ![h] = rooms[RoomOf[h]]]
  /\ Goto(h, "join")
  /\ UNCHANGED <<todo, departing, dataVars, lockVars, ctxDone>>

\* Mutant of JoinRefused: the early return forgets the lock.
JoinRefusedLocked(h) ==
  /\ pc[h] = "join"
  /\ Locked(h, room[h])
  /\ users[room[h]][UserOf[h]] # None
  /\ Goto(h, "gone")
  /\ Keep(h, room[h])
  /\ UNCHANGED <<room, todo, departing, dataVars, readers, ctxDone>>

\* Under Room.Mu: the user is already in the room.
JoinRefused(h) ==
  /\ pc[h] = "join"
  /\ Locked(h, room[h])
  /\ users[room[h]][UserOf[h]] # None
  /\ Goto(h, "gone")
  /\ Unlock({room[h]})
  /\ UNCHANGED <<room, todo, departing, dataVars, readers, ctxDone>>

Join(h) ==
  /\ pc[h] = "join"
  /\ Locked(h, room[h])
  /\ users[room[h]][UserOf[h]] = None
  /\ users' = [users EXCEPT ![room[h]][UserOf[h]] = h]
  /\ Goto(h, "index")
  /\ Keep(h, room[h])
  /\ UNCHANGED <<room, todo, departing, rooms, consumer, userRooms, readers, ctxDone>>

\* UserRoomMu inside Room.Mu.
Index(h) ==
  /\ pc[h] = "index"
  /\ Locked(h, UserRoomMu)
  /\ userRooms' = [userRooms EXCEPT ![UserOf[h]][RoomOf[h]] = @ + 1]
  /\ Goto(h, "member")
  /\ Unlock({UserRoomMu, room[h]})
  /\ UNCHANGED <<room, todo, departing, rooms, consumer, users, readers, ctxDone>>

-----------------------------------------------------------------------------
\* Leaving: in order, through the broadcast goroutine, or directly.

ScheduleRemoveUser(h) ==
  /\ pc[h] = "member"
  /\ Goto(h, "scheduled")
  /\ UNCHANGED <<room, todo, departing, dataVars, lockVars, ctxDone>>

\* RemoveUserFromRoom looks the room up again.
LookupToRemove(h) ==
  /\ pc[h] = "member"
  /\ CanRLock(ServerMu)
  /\ room' = [room EXCEPT ![h] = rooms[RoomOf[h]]]
  /\ Goto(h, "remove")
  /\ UNCHANGED <<todo, departing, dataVars, lockVars, ctxDone>>

\* Under Room.Mu, which is kept for removeFromUserRooms.
RemoveUserFromRoom(h) ==
  LET present == users[room[h]][UserOf[h]] # None
  IN  /\ pc[h] = "remove"
      /\ Locked(h, room[h])
      /\ users' = [users EXCEPT ![room[h]][UserOf[h]] = None]
      /\ Goto(h, IF present THEN "unindex" ELSE "left")
      /\ IF present THEN Keep(h, room[h]) ELSE Unlock({room[h]})
      /\ UNCHANGED <<room, todo, departing, rooms, consumer, userRooms, readers, ctxDone>>

\* Mutant of DropFromUserRooms: the loop goes on after the first occurrence.
DropAllFromUserRooms(u, id) == userRooms' = [userRooms EXCEPT ![u][id] = 0]

\* removeFromUserRooms takes out one occurrence.
DropFromUserRooms(u, id) ==
  userRooms' = [userRooms EXCEPT ![u][id] = IF @ > 0 THEN @ - 1 ELSE @]

RemoveFromUserRooms(h) ==
  /\ pc[h] = "unindex"
  /\ Locked(h, UserRoomMu)
  /\ DropFromUserRooms(UserOf[h], RoomOf[h])
  /\ Goto(h, "left")
  /\ Unlock({UserRoomMu, room[h]})
  /\ UNCHANGED <<room, todo, departing, rooms, consumer, users, readers, ctxDone>>

-----------------------------------------------------------------------------
\* The broadcast goroutine of room o.

IdOf(o) == CHOOSE id \in RoomIds : rooms[id] = o

\* The next event is the removal that h has scheduled.
TakeRemoval(o, h) ==
  /\ pc[o] = "loop"
  /\ pc[h] = "scheduled"
  /\ room[h] = o
  /\ departing' = [departing EXCEPT ![o] = UserOf[h]]
  /\ pc' = [pc EXCEPT ![o] = "removeInOrder", ![h] = "left"]
  /\ UNCHANGED <<room, todo, dataVars, lockVars, ctxDone>>

\* Mutant of RemoveInOrder: the branch for removals forgets the index.
RemoveInOrderOnly(o) ==
  /\ pc[o] = "removeInOrder"
  /\ Locked(o, o)
  /\ users' = [users EXCEPT ![o][departing[o]] = None]
  /\ Goto(o, "loop")
  /\ Unlock({o})
  /\ UNCHANGED <<room, todo, departing, rooms, consumer, userRooms, readers, ctxDone>>

\* Room.Mu is released before UserRooms is updated.
RemoveInOrder(o) ==
  LET present == users[o][departing[o]] # None
  IN  /\ pc[o] = "removeInOrder"
      /\ Locked(o, o)
      /\ users' = [users EXCEPT ![o][departing[o]] = None]
      /\ Goto(o, IF present THEN "unindexInOrder" ELSE "loop")
      /\ Unlock({o})
      /\ UNCHANGED <<room, todo, departing, rooms, consumer, userRooms, readers, ctxDone>>

UnindexInOrder(o) ==
  /\ pc[o] = "unindexInOrder"
  /\ Locked(o, UserRoomMu)
  /\ DropFromUserRooms(departing[o], IdOf(o))
  /\ Goto(o, "loop")
  /\ Unlock({UserRoomMu})
  /\ UNCHANGED <<room, todo, departing, rooms, consumer, users, readers, ctxDone>>

\* The next event is a response: Room.Mu is held for reading while it is sent
\* to every member.
FanOut(o) ==
  /\ pc[o] = "loop"
  /\ \E u \in UserIds : users[o][u] # None
  /\ RLock(o, o)
  /\ Goto(o, "fanOut")
  /\ UNCHANGED <<room, todo, departing, dataVars, writer, ctxDone>>

FanOutDone(o) ==
  /\ pc[o] = "fanOut"
  /\ RUnlock(o, o)
  /\ Goto(o, "loop")
  /\ UNCHANGED <<room, todo, departing, dataVars, writer, ctxDone>>

\* The context is done: take Room.Mu, close every connection, return.
RoomContextDone(o) ==
  /\ pc[o] = "loop"
  /\ ctxDone
  /\ Goto(o, "closeAll")
  /\ UNCHANGED <<room, todo, departing, dataVars, lockVars, ctxDone>>

CloseAll(o) ==
  /\ pc[o] = "closeAll"
  /\ Locked(o, o)
  /\ Goto(o, "exited")
  /\ Unlock({o})
  /\ UNCHANGED <<room, todo, departing, dataVars, readers, ctxDone>>

Cancel ==
  /\ ~ctxDone
  /\ ctxDone' = TRUE
  /\ UNCHANGED <<pc, room, todo, departing, dataVars, lockVars>>

-----------------------------------------------------------------------------
\* StartMonitoring, the shutdown sweep and MetricsHandler walk over the rooms
\* under Server.Mu and read each one under its Room.Mu.

\* Mutant of WalkStart: walks over the ids a client may use.
WalkAllIds(m) ==
  /\ pc[m] = "idle"
  /\ RLock(m, ServerMu)
  /\ todo' = [todo EXCEPT ![m] = RoomIds]
  /\ Goto(m, "walk")
  /\ UNCHANGED <<room, departing, dataVars, writer, ctxDone>>

WalkStart(m) ==
  /\ pc[m] = "idle"
  /\ RLock(m, ServerMu)
  /\ todo' = [todo EXCEPT ![m] = KnownRooms]
  /\ Goto(m, "walk")
  /\ UNCHANGED <<room, departing, dataVars, writer, ctxDone>>

\* Mutant of Visit: reads Users without the lock.
VisitUnlocked(m, id) ==
  /\ pc[m] = "walk"
  /\ id \in todo[m]
  /\ room' = [room EXCEPT ![m] = rooms[id]]
  /\ todo' = [todo EXCEPT ![m] = @ \ {id}]
  /\ Goto(m, "visit")
  /\ UNCHANGED <<departing, dataVars, lockVars, ctxDone>>

\* A map is walked in any order.
Visit(m, id) ==
  /\ pc[m] = "walk"
  /\ id \in todo[m]
  /\ RLock(m, rooms[id])
  /\ room' = [room EXCEPT ![m] = rooms[id]]
  /\ todo' = [todo EXCEPT ![m] = @ \ {id}]
  /\ Goto(m, "visit")
  /\ UNCHANGED <<departing, dataVars, writer, ctxDone>>

\* Mutant of VisitDone: the unlock is deferred to the end of the function.
VisitDoneDeferred(m) ==
  /\ pc[m] = "visit"
  /\ Goto(m, "walk")
  /\ UNCHANGED <<room, todo, departing, dataVars, lockVars, ctxDone>>

VisitDone(m) ==
  /\ pc[m] = "visit"
  /\ RUnlock(m, room[m])
  /\ Goto(m, "walk")
  /\ UNCHANGED <<room, todo, departing, dataVars, writer, ctxDone>>

\* MetricsHandler goes on to UserRooms, the others are done.
WalkDone(m, metrics) ==
  /\ pc[m] = "walk"
  /\ todo[m] = {}
  /\ RUnlock(m, ServerMu)
  /\ Goto(m, IF metrics THEN "sessions" ELSE "idle")
  /\ UNCHANGED <<room, todo, departing, dataVars, writer, ctxDone>>

Sessions(m) ==
  /\ pc[m] = "sessions"
  /\ RLock(m, UserRoomMu)
  /\ Goto(m, "copy")
  /\ UNCHANGED <<room, todo, departing, dataVars, writer, ctxDone>>

SessionsDone(m) ==
  /\ pc[m] = "copy"
  /\ RUnlock(m, UserRoomMu)
  /\ Goto(m, "idle")
  /\ UNCHANGED <<room, todo, departing, dataVars, writer, ctxDone>>

-----------------------------------------------------------------------------
\* What a handler does once it has begun, and what it may leave undone.
Handler(h) ==
  \/ Create(h) \/ Relookup(h)
  \/ JoinRefused(h) \/ Join(h) \/ Index(h)
  \/ RemoveUserFromRoom(h) \/ RemoveFromUserRooms(h)

Client(h) == Lookup(h) \/ ScheduleRemoveUser(h) \/ LookupToRemove(h)

BroadcastLoop(o) ==
  \/ RemoveInOrder(o) \/ UnindexInOrder(o)
  \/ FanOutDone(o)
  \/ RoomContextDone(o) \/ CloseAll(o)

Monitor(m) ==
  \/ \E id \in RoomIds : Visit(m, id)
  \/ VisitDone(m)
  \/ \E metrics \in BOOLEAN : WalkDone(m, metrics)
  \/ Sessions(m) \/ SessionsDone(m)

Next ==
  \/ \E p \in Handlers \cup Rooms : Request(p)
  \/ \E h \in Handlers : Handler(h) \/ Client(h)
  \/ \E o \in Rooms : BroadcastLoop(o) \/ FanOut(o)
  \/ \E o \in Rooms, h \in Handlers : TakeRemoval(o, h)
  \/ \E m \in Monitors : Monitor(m) \/ WalkStart(m)
  \/ Cancel

Spec == Init /\ [][Next]_vars

\* Every goroutine goes on once it has begun.  An RWMutex passes over neither
\* the readers that wait while a writer is in nor the writers, who queue:
\* hence strong fairness.  Connections, responses and ticks owe nothing.
Fairness ==
  /\ \A h \in Handlers : SF_vars(Handler(h) \/ Request(h))
  /\ \A o \in Rooms : SF_vars(BroadcastLoop(o) \/ Request(o))
  /\ \A m \in Monitors : SF_vars(Monitor(m))

FairSpec == Spec /\ Fairness

-----------------------------------------------------------------------------
\* Properties.

HandlerPc == {"idle", "create", "relookup", "join", "index", "member",
              "scheduled", "remove", "unindex", "left", "gone"}
RoomPc    == {"none", "loop", "removeInOrder", "unindexInOrder", "fanOut",
              "closeAll", "exited"}
MonitorPc == {"idle", "walk", "visit", "sessions", "copy"}

\* Every variable has its type; a monitor visits rooms that exist.
TypeOK ==
  /\ pc \in [Procs -> HandlerPc \cup RoomPc \cup MonitorPc]
  /\ \A h \in Handlers : pc[h] \in HandlerPc
  /\ \A o \in Rooms : pc[o] \in RoomPc
  /\ \A m \in Monitors : pc[m] \in MonitorPc
  /\ room \in [Handlers \cup Monitors -> Rooms \cup {None}]
  /\ todo \in [Monitors -> SUBSET KnownRooms]
  /\ departing \in [Rooms -> UserIds \cup {None}]
  /\ rooms \in [RoomIds -> Rooms \cup {None}]
  /\ consumer \in [RoomIds -> Rooms \cup {None}]
  /\ users \in [Rooms -> [UserIds -> Handlers \cup {None}]]
  /\ userRooms \in [UserIds -> [RoomIds -> Nat]]
  /\ writer \in [Locks -> Procs \cup {None}]
  /\ readers \in [Locks -> SUBSET Procs]
  /\ ctxDone \in BOOLEAN

\* One room per id: whoever has looked a room up holds the room of the
\* directory, never nil and never a second room of the same id, and remote
\* messages for the id go to that room.  Two first JOINs may race.
OneRoomPerId ==
  /\ \A h \in Handlers :
       pc[h] \in {"join", "index", "member", "scheduled", "remove", "unindex"} =>
         room[h] # None /\ room[h] = rooms[RoomOf[h]]
  /\ \A id \in KnownRooms :
       /\ pc[rooms[id]] # "none"
       /\ consumer[id] = IF id \in Consumed THEN rooms[id] ELSE None

\* The locks a goroutine holds, and those its next step waits for.
Holds(p) ==
  {l \in Locks : p \in readers[l] \/ (writer[l] = p /\ WriteWant(p) # l)}

Wants(p) ==
  CASE pc[p] = "relookup" -> {ServerMu}
    [] pc[p] = "walk"     -> {rooms[id] : id \in todo[p]}
    [] pc[p] = "sessions" -> {UserRoomMu}
    [] OTHER              -> {WriteWant(p)} \ {None}

Rank(l) == CASE l = ServerMu -> 0 [] l = UserRoomMu -> 2 [] OTHER -> 1

\* No deadlock: Server.Mu, then one Room.Mu, then UserRoomMu.  Nobody waits
\* for a lock of a lower or the same rank as one it holds, not even to read,
\* which a waiting writer would turn into a deadlock with itself.
LockOrder ==
  \A p \in Procs : \A held \in Holds(p), wanted \in Wants(p) :
    Rank(held) < Rank(wanted)

\* Where a goroutine is in no operation and ought to hold nothing.
Resting == {"idle", "member", "scheduled", "left", "gone", "none", "loop", "exited"}

CanTake(p, l) == IF l = WriteWant(p) THEN Locked(p, l) ELSE CanRLock(l)

\* p is in an operation and no lock keeps it from its next step, whichever room
\* a walk visits next.
Runs(p) == pc[p] \notin Resting /\ \A l \in Wants(p) : CanTake(p, l)

\* Nobody waits for ever in a deadlock or for a lock that was forgotten: while a
\* lock is held or asked for, some goroutine that holds it, or a later lock in
\* the order, can run.
LocksServed ==
  \A l \in Locks : writer[l] # None \/ readers[l] # {} =>
    \E p \in Procs, k \in Locks :
      /\ Rank(k) >= Rank(l)
      /\ p = writer[k] \/ p \in readers[k]
      /\ Runs(p)

\* Iterating over a map while another goroutine writes it ends the process:
\* while a monitor or a fan-out reads a map, the map stays as it is.
NoWriteWhileReading ==
  [][/\ \A o \in Rooms :
          pc[o] = "fanOut" \/ (\E m \in Monitors : pc[m] = "visit" /\ room[m] = o)
            => users'[o] = users[o]
     /\ (\E m \in Monitors : pc[m] \in {"walk", "visit"}) => rooms' = rooms
     /\ (\E m \in Monitors : pc[m] = "copy") => userRooms' = userRooms]_vars

\* Every operation that has begun ends: no lock is kept, none is waited for
\* for ever, and walking monitors do not starve a JOIN or a removal.
OperationsEnd ==
  /\ \A h \in Handlers :
       pc[h] \in {"create", "relookup", "join", "index", "remove", "unindex"}
         ~> pc[h] \in {"member", "left", "gone"}
  /\ \A o \in Rooms : pc[o] = "removeInOrder" ~> pc[o] = "loop"
  /\ \A m \in Monitors : pc[m] = "walk" ~> pc[m] = "idle"

\* Each room id of the directory implements RoomMembership: creating rooms on
\* demand and nesting the locks keeps the promise that ChatRoom's atomic
\* critical sections keep.  A JOIN takes effect when it is indexed, at the end
\* of its critical section.
PhaseOf(label) ==
  CASE label \in {"remove", "unindex", "scheduled", "left"} -> "leaving"
    [] label = "gone"   -> "gone"
    [] label = "member" -> "in"
    [] OTHER            -> "out"

MemberOf(id, u) ==
  IF rooms[id] = None THEN None
  ELSE LET h == users[rooms[id]][u]
       IN  IF h # None /\ pc[h] = "index" THEN None ELSE h

Membership(id) ==
  INSTANCE RoomMembership WITH
    Clients <- Handlers, NoClient <- None,
    phase  <- [h \in Handlers |-> IF RoomOf[h] = id THEN PhaseOf(pc[h]) ELSE "out"],
    member <- [u \in UserIds |-> MemberOf(id, u)],
    listed <- [u \in UserIds |-> userRooms[u][id]]

ImplementsMembership ==
  /\ \A id \in RoomIds : Membership(id)!Init
  /\ [][\A id \in RoomIds :
          UNCHANGED Membership(id)!vars \/ Membership(id)!Next]_vars

\* Who has been taken out of the room and not yet out of the index: by a
\* handler, or by the room's broadcast goroutine.
Unindexing(id, u) == \E h \in Handlers : pc[h] = "unindex" /\ UserOf[h] = u /\ RoomOf[h] = id

RoomOwes(id, u) ==
  rooms[id] # None /\ pc[rooms[id]] = "unindexInOrder" /\ departing[rooms[id]] = u

Bit(b) == IF b THEN 1 ELSE 0

\* The index, which /metrics reports, lists a user once as a member and once for
\* each removal it is behind: updates under two locks, some nested and some not,
\* neither lose nor add an entry.
IndexExact ==
  \A id \in RoomIds, u \in UserIds :
    userRooms[u][id] =
      Bit(MemberOf(id, u) # None) + Bit(Unindexing(id, u)) + Bit(RoomOwes(id, u))

=============================================================================
