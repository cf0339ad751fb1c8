----------------------- MODULE RoomDirectoryRefinement -----------------------
(***************************************************************************)
(* Each room id of the directory implements RoomMembership, for any number *)
(* of handlers, monitors, room ids and users.                              *)
(***************************************************************************)
EXTENDS RoomDirectoryProofs

\* A handler that is in its room is registered there.
InRoom == {"index", "member", "scheduled", "remove"}

Registered ==
  \A h \in Handlers : pc[h] \in InRoom => users[room[h]][UserOf[h]] = h

\* Whoever is registered is a handler of that room and user that has joined and
\* not yet been removed.
MembersJoined ==
  \A o \in Rooms, u \in UserIds : users[o][u] # None =>
    LET h == users[o][u]
    IN  /\ room[h] = o /\ UserOf[h] = u /\ rooms[RoomOf[h]] = o
        /\ pc[h] \in InRoom \cup {"left"}

\* A broadcast goroutine removes whoever has scheduled the removal, and updates
\* the index for a room of the directory.
RemovalDue ==
  \A o \in Rooms :
    /\ pc[o] = "removeInOrder" =>
         /\ users[o][departing[o]] # None
         /\ pc[users[o][departing[o]]] = "left"
    /\ pc[o] \in {"removeInOrder", "unindexInOrder"} => \E id \in RoomIds : rooms[id] = o

-----------------------------------------------------------------------------
\* Who is registered.

Joined == Registered /\ MembersJoined /\ RemovalDue

\* What the invariant says of a handler in its room.
LEMMA InRoomFacts ==
  ASSUME IInv, NEW h \in Handlers
  PROVE  /\ RoomOf[h] \in RoomIds /\ UserOf[h] \in UserIds
         /\ pc[h] \in InRoom \cup {"join", "unindex"} =>
              room[h] \in Rooms /\ room[h] = rooms[RoomOf[h]]
<1>1. RoomOf[h] \in RoomIds /\ UserOf[h] \in UserIds
  BY RoomDirectoryAssumption
<1> QED
  BY <1>1 DEF IInv, LookedUp, LocalTypes, InRoom

\* Nothing changes for a step that leaves Users and those who are registered
\* where they are.
LEMMA JoinedKept ==
  ASSUME IInv, Joined, UNCHANGED users,
         \A h \in Handlers :
           /\ pc'[h] \in InRoom => pc[h] \in InRoom
           /\ pc[h] \in InRoom => pc'[h] \in InRoom
           /\ pc[h] = "left" => pc'[h] = "left"
           /\ pc[h] \in InRoom \cup {"left"} => room'[h] = room[h],
         \A o \in Rooms :
           /\ departing'[o] = departing[o]
           /\ pc'[o] = "removeInOrder" => pc[o] = "removeInOrder"
           /\ pc'[o] = "unindexInOrder" => pc[o] \in {"removeInOrder", "unindexInOrder"},
         \A id \in RoomIds : rooms[id] # None => rooms'[id] = rooms[id]
  PROVE  Joined'
<1>0. users \in [Rooms -> [UserIds -> Handlers \cup {None}]] /\ None \notin Rooms
  BY Kinds DEF IInv, DataTypes
<1>1. Registered'
  BY DEF Joined, Registered
<1>2. MembersJoined'
  <2> SUFFICES ASSUME NEW o \in Rooms, NEW u \in UserIds, users[o][u] # None
               PROVE  LET h == users[o][u]
                      IN  /\ room'[h] = o /\ UserOf[h] = u /\ rooms'[RoomOf[h]] = o
                          /\ pc'[h] \in InRoom \cup {"left"}
    BY DEF MembersJoined
  <2> DEFINE h == users[o][u]
  <2>1. h \in Handlers /\ RoomOf[h] \in RoomIds
    BY <1>0, InRoomFacts
  <2>2. /\ room[h] = o /\ UserOf[h] = u /\ rooms[RoomOf[h]] = o
        /\ pc[h] \in InRoom \cup {"left"}
    BY DEF Joined, MembersJoined
  <2> QED
    BY <1>0, <2>1, <2>2
<1>3. RemovalDue'
  <2> SUFFICES ASSUME NEW o \in Rooms
               PROVE  /\ pc'[o] = "removeInOrder" =>
                           /\ users[o][departing[o]] # None
                           /\ pc'[users[o][departing[o]]] = "left"
                      /\ pc'[o] \in {"removeInOrder", "unindexInOrder"} =>
                           \E id \in RoomIds : rooms'[id] = o
    BY DEF RemovalDue
  <2>1. CASE pc'[o] = "removeInOrder"
    <3>1. /\ users[o][departing[o]] # None /\ pc[users[o][departing[o]]] = "left"
          /\ departing[o] \in UserIds
      BY <2>1 DEF Joined, RemovalDue, IInv, LocalTypes
    <3>2. users[o][departing[o]] \in Handlers
      BY <1>0, <3>1
    <3> QED
      BY <1>0, <2>1, <3>1, <3>2 DEF Joined, RemovalDue
  <2>2. CASE pc'[o] = "unindexInOrder"
    BY <1>0, <2>2 DEF Joined, RemovalDue
  <2> QED
    BY <2>1, <2>2
<1> QED
  BY <1>1, <1>2, <1>3 DEF Joined

\* A JOIN registers the handler, under a key that was free.
LEMMA JoinedByJoin ==
  ASSUME IInv, Joined, NEW h \in Handlers, Join(h)
  PROVE  Joined'
<1>0. users \in [Rooms -> [UserIds -> Handlers \cup {None}]] /\ None \notin Handlers
  BY Kinds DEF IInv, DataTypes
<1>1. /\ pc[h] = "join" /\ pc'[h] = "index"
      /\ \A p \in Procs \ {h} : pc'[p] = pc[p]
      /\ UNCHANGED <<room, rooms, departing>>
  BY HandlerMove DEF Join, HandlerPc, IInv
<1>2. /\ room[h] \in Rooms /\ UserOf[h] \in UserIds /\ rooms[RoomOf[h]] = room[h]
      /\ users[room[h]][UserOf[h]] = None
      /\ users'[room[h]][UserOf[h]] = h
      /\ \A o \in Rooms, u \in UserIds :
           o # room[h] \/ u # UserOf[h] => users'[o][u] = users[o][u]
  BY <1>0, <1>1, InRoomFacts DEF Join
<1>3. Registered'
  <2> SUFFICES ASSUME NEW q \in Handlers, pc'[q] \in InRoom
               PROVE  users'[room[q]][UserOf[q]] = q
    BY <1>1 DEF Registered
  <2>1. CASE q # h
    <3>1. pc[q] \in InRoom
      BY <1>1, <2>1, Kinds
    <3>2. room[q] \in Rooms /\ UserOf[q] \in UserIds /\ users[room[q]][UserOf[q]] = q
      BY <3>1, InRoomFacts DEF Joined, Registered
    <3> QED
      BY <1>0, <1>2, <3>2
  <2> QED
    BY <1>2, <2>1
<1>4. MembersJoined'
  <2> SUFFICES ASSUME NEW o \in Rooms, NEW u \in UserIds, users'[o][u] # None
               PROVE  LET q == users'[o][u]
                      IN  /\ room[q] = o /\ UserOf[q] = u /\ rooms[RoomOf[q]] = o
                          /\ pc'[q] \in InRoom \cup {"left"}
    BY <1>1 DEF MembersJoined
  <2>1. CASE o = room[h] /\ u = UserOf[h]
    BY <1>1, <1>2, <2>1 DEF InRoom
  <2>2. CASE o # room[h] \/ u # UserOf[h]
    <3>1. users'[o][u] = users[o][u] /\ users[o][u] \in Handlers
      BY <1>0, <1>2, <2>2
    <3>2. /\ room[users[o][u]] = o /\ UserOf[users[o][u]] = u
          /\ rooms[RoomOf[users[o][u]]] = o /\ pc[users[o][u]] \in InRoom \cup {"left"}
      BY <3>1 DEF Joined, MembersJoined
    <3>3. users[o][u] # h
      BY <2>2, <3>2
    <3> QED
      BY <1>1, <3>1, <3>2, <3>3, Kinds
  <2> QED
    BY <2>1, <2>2
<1>5. RemovalDue'
  <2> SUFFICES ASSUME NEW o \in Rooms
               PROVE  /\ pc'[o] = "removeInOrder" =>
                           /\ users'[o][departing[o]] # None
                           /\ pc'[users'[o][departing[o]]] = "left"
                      /\ pc'[o] \in {"removeInOrder", "unindexInOrder"} =>
                           \E id \in RoomIds : rooms[id] = o
    BY <1>1 DEF RemovalDue
  <2>1. pc'[o] = pc[o]
    BY <1>1, Kinds
  <2>2. CASE pc[o] = "removeInOrder"
    <3>1. /\ departing[o] \in UserIds /\ users[o][departing[o]] # None
          /\ pc[users[o][departing[o]]] = "left"
      BY <2>2 DEF Joined, RemovalDue, IInv, LocalTypes
    <3>2. users[o][departing[o]] \in Handlers /\ users[o][departing[o]] # h
      BY <1>0, <1>1, <3>1
    <3>3. users'[o][departing[o]] = users[o][departing[o]]
      BY <1>2, <3>1
    <3>4. pc'[users[o][departing[o]]] = "left"
      BY <1>1, <3>1, <3>2, Kinds
    <3> QED
      BY <2>1, <2>2, <3>1, <3>3, <3>4 DEF Joined, RemovalDue
  <2> QED
    BY <2>1, <2>2 DEF Joined, RemovalDue
<1> QED
  BY <1>3, <1>4, <1>5 DEF Joined

\* Taking one handler, which is no longer in its room, out of Users.
LEMMA JoinedByRemoval ==
  ASSUME IInv, Joined, NEW o \in Rooms, NEW u \in UserIds, NEW h \in Handlers,
         users[o][u] = h, users' = [users EXCEPT ![o][u] = None],
         UNCHANGED <<room, rooms, departing>>,
         \A q \in Handlers : q # h => pc'[q] = pc[q],
         pc'[h] \notin InRoom,
         \A p \in Rooms : p # o => pc'[p] = pc[p],
         pc'[o] = "removeInOrder" => pc[o] = "removeInOrder" /\ pc[h] # "left",
         pc'[o] = "unindexInOrder" => pc[o] \in {"removeInOrder", "unindexInOrder"}
  PROVE  Joined'
<1>0. users \in [Rooms -> [UserIds -> Handlers \cup {None}]] /\ None \notin Handlers
  BY Kinds DEF IInv, DataTypes
<1>1. /\ users'[o][u] = None
      /\ \A p \in Rooms, v \in UserIds : p # o \/ v # u => users'[p][v] = users[p][v]
  BY <1>0
<1>2. Registered'
  <2> SUFFICES ASSUME NEW q \in Handlers, pc'[q] \in InRoom
               PROVE  users'[room[q]][UserOf[q]] = q
    BY DEF Registered
  <2>1. q # h /\ pc[q] \in InRoom
    OBVIOUS
  <2>2. room[q] \in Rooms /\ UserOf[q] \in UserIds /\ users[room[q]][UserOf[q]] = q
    BY <2>1, InRoomFacts DEF Joined, Registered
  <2> QED
    BY <1>1, <2>1, <2>2
<1>3. MembersJoined'
  <2> SUFFICES ASSUME NEW p \in Rooms, NEW v \in UserIds, users'[p][v] # None
               PROVE  LET q == users'[p][v]
                      IN  /\ room[q] = p /\ UserOf[q] = v /\ rooms[RoomOf[q]] = p
                          /\ pc'[q] \in InRoom \cup {"left"}
    BY DEF MembersJoined
  <2>1. users'[p][v] = users[p][v] /\ users[p][v] \in Handlers /\ (p # o \/ v # u)
    BY <1>0, <1>1
  <2>2. /\ room[users[p][v]] = p /\ UserOf[users[p][v]] = v
        /\ rooms[RoomOf[users[p][v]]] = p /\ pc[users[p][v]] \in InRoom \cup {"left"}
    BY <2>1 DEF Joined, MembersJoined
  <2>3. room[h] = o /\ UserOf[h] = u
    BY <1>0 DEF Joined, MembersJoined
  <2> QED
    BY <2>1, <2>2, <2>3
<1>4. RemovalDue'
  <2> SUFFICES ASSUME NEW p \in Rooms
               PROVE  /\ pc'[p] = "removeInOrder" =>
                           /\ users'[p][departing[p]] # None
                           /\ pc'[users'[p][departing[p]]] = "left"
                      /\ pc'[p] \in {"removeInOrder", "unindexInOrder"} =>
                           \E id \in RoomIds : rooms[id] = p
    BY DEF RemovalDue
  <2>1. CASE p = o /\ pc'[p] # "removeInOrder"
    BY <2>1 DEF Joined, RemovalDue
  <2>2. CASE pc[p] = "removeInOrder" /\ (p = o => pc'[p] = "removeInOrder")
    <3>1. /\ departing[p] \in UserIds /\ users[p][departing[p]] # None
          /\ pc[users[p][departing[p]]] = "left"
      BY <2>2 DEF Joined, RemovalDue, IInv, LocalTypes
    <3>2. users[p][departing[p]] \in Handlers /\ room[users[p][departing[p]]] = p /\ room[h] = o
      BY <1>0, <3>1 DEF Joined, MembersJoined
    <3>3. users[p][departing[p]] # h
      BY <2>2, <3>1, <3>2
    <3>4. users'[p][departing[p]] = users[p][departing[p]]
      BY <1>1, <3>1, <3>3
    <3> QED
      BY <2>2, <3>1, <3>2, <3>3, <3>4 DEF Joined, RemovalDue
  <2>3. CASE p # o /\ pc[p] # "removeInOrder"
    BY <2>3 DEF Joined, RemovalDue
  <2> QED
    BY <2>1, <2>2, <2>3
<1> QED
  BY <1>2, <1>3, <1>4 DEF Joined

\* The broadcast goroutine takes the removal of a handler that is registered.
LEMMA JoinedByTaking ==
  ASSUME IInv, Joined, NEW o \in Rooms, NEW h \in Handlers, TakeRemoval(o, h)
  PROVE  Joined'
<1>0. users \in [Rooms -> [UserIds -> Handlers \cup {None}]] /\ None \notin Handlers
  BY Kinds DEF IInv, DataTypes
<1>1. /\ pc[o] = "loop" /\ pc'[o] = "removeInOrder" /\ pc[h] = "scheduled" /\ pc'[h] = "left"
      /\ \A p \in Procs \ {h, o} : pc'[p] = pc[p]
      /\ UNCHANGED <<room, rooms, users>>
  BY TakeRemovalMoves DEF TakeRemoval, dataVars, IInv
<1>2. room[h] = o /\ users[o][UserOf[h]] = h /\ rooms[RoomOf[h]] = o
  BY <1>1, InRoomFacts DEF TakeRemoval, Joined, Registered, InRoom
<1>3. departing'[o] = UserOf[h] /\ \A p \in Rooms \ {o} : departing'[p] = departing[p]
  BY DEF TakeRemoval, IInv, LocalTypes
<1>4. \A q \in Handlers \ {h} : pc'[q] = pc[q]
  BY <1>1, Kinds
<1>5. Registered'
  BY <1>1, <1>4 DEF Joined, Registered, InRoom
<1>6. MembersJoined'
  <2> SUFFICES ASSUME NEW p \in Rooms, NEW v \in UserIds, users[p][v] # None
               PROVE  LET q == users[p][v]
                      IN  /\ room[q] = p /\ UserOf[q] = v /\ rooms[RoomOf[q]] = p
                          /\ pc'[q] \in InRoom \cup {"left"}
    BY <1>1 DEF MembersJoined
  <2>1. users[p][v] \in Handlers
    BY <1>0
  <2> QED
    BY <1>1, <1>4, <2>1 DEF Joined, MembersJoined
<1>7. RemovalDue'
  <2> SUFFICES ASSUME NEW p \in Rooms
               PROVE  /\ pc'[p] = "removeInOrder" =>
                           /\ users[p][departing'[p]] # None
                           /\ pc'[users[p][departing'[p]]] = "left"
                      /\ pc'[p] \in {"removeInOrder", "unindexInOrder"} =>
                           \E id \in RoomIds : rooms[id] = p
    BY <1>1 DEF RemovalDue
  <2>1. CASE p = o
    BY <1>0, <1>1, <1>2, <1>3, <2>1, InRoomFacts
  <2>2. CASE p # o
    <3>1. pc'[p] = pc[p] /\ departing'[p] = departing[p]
      BY <1>1, <1>3, <2>2, Kinds
    <3>2. CASE pc[p] = "removeInOrder"
      <4>1. /\ departing[p] \in UserIds /\ users[p][departing[p]] # None
            /\ pc[users[p][departing[p]]] = "left"
        BY <3>2 DEF Joined, RemovalDue, IInv, LocalTypes
      <4>2. users[p][departing[p]] \in Handlers \ {h}
        BY <1>0, <1>1, <4>1
      <4> QED
        BY <1>4, <3>1, <3>2, <4>1, <4>2 DEF Joined, RemovalDue
    <3> QED
      BY <3>1, <3>2 DEF Joined, RemovalDue
  <2> QED
    BY <2>1, <2>2
<1> QED
  BY <1>5, <1>6, <1>7 DEF Joined

\* A direct removal finds the handler itself registered.
LEMMA RemovesItself ==
  ASSUME IInv, Joined, NEW h \in Handlers, RemoveUserFromRoom(h)
  PROVE  /\ users[room[h]][UserOf[h]] = h /\ pc[h] = "remove" /\ pc'[h] = "unindex"
         /\ users' = [users EXCEPT ![room[h]][UserOf[h]] = None]
         /\ UNCHANGED <<room, rooms, departing, userRooms>>
         /\ \A p \in Procs \ {h} : pc'[p] = pc[p]
<1>1. users[room[h]][UserOf[h]] = h /\ h # None
  BY Kinds DEF RemoveUserFromRoom, Joined, Registered, InRoom
<1> QED
  BY <1>1, HandlerMove DEF RemoveUserFromRoom, HandlerPc, IInv

\* A removal in order finds the handler that has scheduled it.
LEMMA RemovesDeparted ==
  ASSUME IInv, Joined, NEW o \in Rooms, RemoveInOrder(o)
  PROVE  /\ departing[o] \in UserIds
         /\ users[o][departing[o]] \in Handlers /\ pc[users[o][departing[o]]] = "left"
         /\ pc[o] = "removeInOrder" /\ pc'[o] = "unindexInOrder"
         /\ users' = [users EXCEPT ![o][departing[o]] = None]
         /\ UNCHANGED <<room, rooms, departing, userRooms>>
         /\ \A p \in Procs \ {o} : pc'[p] = pc[p]
<1>1. /\ departing[o] \in UserIds /\ users[o][departing[o]] # None
      /\ pc[users[o][departing[o]]] = "left"
  BY DEF RemoveInOrder, Joined, RemovalDue, IInv, LocalTypes
<1>2. users[o][departing[o]] \in Handlers
  BY <1>1 DEF IInv, DataTypes
<1> QED
  BY <1>1, <1>2, RoomMove DEF RemoveInOrder, RoomPc, IInv

\* Every step keeps it.
LEMMA JoinedStep ==
  ASSUME IInv, Joined, Next \/ UNCHANGED vars
  PROVE  Joined'
<1>0. PcTypes /\ \A id \in RoomIds : rooms[id] # None => rooms'[id] = rooms[id]
  BY DirectoryGrows DEF IInv
<1>1. ASSUME NEW h \in Handlers, HandlerStep(h)
      PROVE  Joined'
  <2>0. \A p \in Procs \ {h} : pc'[p] = pc[p]
    BY <1>0, <1>1, HandlerStepMoves
  <2>1. CASE Join(h)
    BY <2>1, JoinedByJoin
  <2>2. CASE RemoveUserFromRoom(h)
    <3>1. /\ \A q \in Handlers : q # h => pc'[q] = pc[q]
          /\ \A p \in Rooms : pc'[p] = pc[p]
      BY <2>0, Kinds
    <3>2. /\ room[h] \in Rooms /\ UserOf[h] \in UserIds
          /\ pc[h] = "remove" /\ pc'[h] = "unindex"
      BY <2>2, RemovesItself, InRoomFacts DEF InRoom
    <3>3. /\ users[room[h]][UserOf[h]] = h
          /\ users' = [users EXCEPT ![room[h]][UserOf[h]] = None]
          /\ UNCHANGED <<room, rooms, departing>>
      BY <2>2, RemovesItself
    <3>4. pc'[h] \notin InRoom /\ pc[h] # "left"
      BY <3>2 DEF InRoom
    <3> DEFINE o == room[h]
               u == UserOf[h]
    <3>5. /\ users[o][u] = h /\ users' = [users EXCEPT ![o][u] = None]
          /\ o \in Rooms /\ u \in UserIds
          /\ \A p \in Rooms : p # o => pc'[p] = pc[p]
          /\ pc'[o] = "removeInOrder" => pc[o] = "removeInOrder" /\ pc[h] # "left"
          /\ pc'[o] = "unindexInOrder" => pc[o] \in {"removeInOrder", "unindexInOrder"}
      BY <3>1, <3>2, <3>3, <3>4
    <3>6. /\ UNCHANGED <<room, rooms, departing>>
          /\ \A q \in Handlers : q # h => pc'[q] = pc[q]
          /\ pc'[h] \notin InRoom
      BY <3>1, <3>3, <3>4
    <3> HIDE DEF o, u
    <3> QED
      BY <3>5, <3>6, JoinedByRemoval
  <2>3. ASSUME UNCHANGED <<users, departing>>,
               \/ pc[h] \notin InRoom \cup {"left"} /\ pc'[h] \notin InRoom
               \/ pc[h] \in InRoom /\ pc'[h] \in InRoom /\ room'[h] = room[h],
               \A q \in Handlers \ {h} : room'[q] = room[q]
        PROVE  Joined'
    <3>1. \A p \in Rooms : pc'[p] = pc[p]
      BY <2>0, Kinds
    <3>2. \A q \in Handlers \ {h} : pc'[q] = pc[q]
      BY <2>0, Kinds
    <3>3. /\ pc'[h] \in InRoom => pc[h] \in InRoom
          /\ pc[h] \in InRoom => pc'[h] \in InRoom
          /\ pc[h] = "left" => pc'[h] = "left"
          /\ pc[h] \in InRoom \cup {"left"} => room'[h] = room[h]
      BY <2>3 DEF InRoom
    <3> QED
      BY <1>0, <2>3, <3>1, <3>2, <3>3, JoinedKept
  <2>4. CASE Lookup(h) \/ Relookup(h)
    <3>1. /\ pc[h] \in {"idle", "relookup"} /\ pc'[h] \in {"create", "join"}
          /\ UNCHANGED <<users, departing>>
          /\ room' = [room EXCEPT ![h] = rooms[RoomOf[h]]]
      BY <2>4, <1>0, HandlerMove DEF Lookup, Relookup, dataVars, HandlerPc
    <3> QED
      BY <2>3, <3>1 DEF InRoom, IInv, LocalTypes
  <2>5. CASE JoinRefused(h) \/ Index(h) \/ ScheduleRemoveUser(h) \/ RemoveFromUserRooms(h)
    <3>1. UNCHANGED <<users, departing, room>>
      BY <2>5 DEF JoinRefused, Index, ScheduleRemoveUser, RemoveFromUserRooms, dataVars
    <3>2. <<pc[h], pc'[h]>> \in {<<"join", "gone">>, <<"index", "member">>,
                                 <<"member", "scheduled">>, <<"unindex", "left">>}
      BY <2>5, <1>0, HandlerMove
      DEF JoinRefused, Index, ScheduleRemoveUser, RemoveFromUserRooms, HandlerPc
    <3> QED
      BY <2>3, <3>1, <3>2 DEF InRoom
  <2>6. CASE LookupToRemove(h)
    <3>1. /\ pc[h] = "member" /\ pc'[h] = "remove"
          /\ UNCHANGED <<users, departing>>
          /\ room' = [room EXCEPT ![h] = rooms[RoomOf[h]]]
      BY <2>6, <1>0, HandlerMove DEF LookupToRemove, dataVars, HandlerPc
    <3>2. room[h] = rooms[RoomOf[h]]
      BY <3>1, InRoomFacts DEF InRoom
    <3> QED
      BY <2>3, <3>1, <3>2 DEF InRoom, IInv, LocalTypes
  <2> QED
    BY <1>1, <2>1, <2>2, <2>4, <2>5, <2>6 DEF HandlerStep
<1>2. ASSUME NEW h \in Handlers, Create(h)
      PROVE  Joined'
  <2>1. /\ UNCHANGED <<users, departing, room>>
        /\ pc[h] = "create" /\ pc'[h] = "relookup"
        /\ \A q \in Handlers \ {h} : pc'[q] = pc[q]
        /\ \A o \in Rooms : pc'[o] = pc[o] \/ pc'[o] = "loop"
    BY <1>0, <1>2, CreateMoves, Kinds DEF Create
  <2> QED
    BY <1>0, <2>1, JoinedKept DEF InRoom
<1>3. ASSUME NEW o \in Rooms, RoomStep(o)
      PROVE  Joined'
  <2>0. \A p \in Procs \ {o} : pc'[p] = pc[p]
    BY <1>0, <1>3, RoomStepMoves
  <2>1. CASE RemoveInOrder(o)
    <3>1. /\ \A q \in Handlers : pc'[q] = pc[q]
          /\ \A p \in Rooms : p # o => pc'[p] = pc[p]
      BY <2>0, Kinds
    <3> QED
      BY <2>1, <3>1, RemovesDeparted, JoinedByRemoval DEF InRoom
  <2>2. CASE UnindexInOrder(o) \/ FanOut(o) \/ FanOutDone(o) \/ RoomContextDone(o) \/ CloseAll(o)
    <3>1. UNCHANGED <<users, departing, room>>
      BY <2>2 DEF UnindexInOrder, FanOut, FanOutDone, RoomContextDone, CloseAll, dataVars
    <3>2. pc'[o] \in {"loop", "fanOut", "closeAll", "exited"}
      BY <2>2, <1>0, RoomMove
      DEF UnindexInOrder, FanOut, FanOutDone, RoomContextDone, CloseAll, RoomPc
    <3>3. /\ \A q \in Handlers : pc'[q] = pc[q]
          /\ \A p \in Rooms : p # o => pc'[p] = pc[p]
      BY <2>0, Kinds
    <3> QED
      BY <1>0, <3>1, <3>2, <3>3, JoinedKept
  <2> QED
    BY <1>3, <2>1, <2>2 DEF RoomStep
<1>4. ASSUME NEW o \in Rooms, NEW h \in Handlers, TakeRemoval(o, h)
      PROVE  Joined'
  BY <1>4, JoinedByTaking
<1>5. ASSUME NEW m \in Monitors, MonitorStep(m)
      PROVE  Joined'
  <2>1. /\ UNCHANGED <<users, departing>>
        /\ UNCHANGED room \/ \E id \in RoomIds : room' = [room EXCEPT ![m] = rooms[id]]
    BY <1>5 DEF MonitorStep, WalkStart, Visit, VisitDone, WalkDone, Sessions, SessionsDone, dataVars
  <2>2. \A h \in Handlers : pc'[h] = pc[h] /\ room'[h] = room[h]
    BY <1>0, <1>5, <2>1, MonitorStepMoves, Kinds DEF IInv, LocalTypes
  <2>3. \A o \in Rooms : pc'[o] = pc[o]
    BY <1>0, <1>5, MonitorStepMoves, Kinds
  <2> QED
    BY <1>0, <2>1, <2>2, <2>3, JoinedKept
<1>6. CASE UNCHANGED <<pc, room, departing, users>>
  BY <1>0, <1>6, JoinedKept
<1> QED
  BY <1>1, <1>2, <1>3, <1>4, <1>5, <1>6, NextCases DEF Request, Cancel, vars, dataVars

-----------------------------------------------------------------------------
\* Who is a member, in the sense of RoomMembership.

\* A member is in the room of its id, under its own user, and past its JOIN.
LEMMA MemberFacts ==
  ASSUME IInv, Joined, NEW id \in RoomIds, NEW u \in UserIds, MemberOf(id, u) # None
  PROVE  /\ rooms[id] \in Rooms /\ MemberOf(id, u) = users[rooms[id]][u]
         /\ MemberOf(id, u) \in Handlers /\ pc[MemberOf(id, u)] # "index"
         /\ RoomOf[MemberOf(id, u)] = id /\ UserOf[MemberOf(id, u)] = u
<1>1. /\ rooms[id] \in Rooms /\ MemberOf(id, u) = users[rooms[id]][u]
      /\ pc[MemberOf(id, u)] # "index"
  BY DEF MemberOf, IInv, DirectoryTypes
<1>2. MemberOf(id, u) \in Handlers
  BY <1>1 DEF IInv, DataTypes
<1>3. /\ UserOf[MemberOf(id, u)] = u
      /\ rooms[RoomOf[MemberOf(id, u)]] = rooms[id]
      /\ RoomOf[MemberOf(id, u)] \in RoomIds
  BY <1>1, <1>2, InRoomFacts DEF Joined, MembersJoined
<1>4. RoomOf[MemberOf(id, u)] = id
  BY <1>1, <1>3, Kinds DEF IInv, DirectoryTypes
<1> QED
  BY <1>1, <1>2, <1>3, <1>4

\* Members stay if Users does, and nobody finishes a JOIN.
LEMMA MemberKept ==
  ASSUME IInv, Joined, NEW id \in RoomIds, NEW u \in UserIds,
         rooms'[id] = rooms[id],
         rooms[id] # None => users'[rooms[id]][u] = users[rooms[id]][u],
         \A h \in Handlers : pc[h] \in InRoom \cup {"left"} => (pc'[h] = "index" <=> pc[h] = "index")
  PROVE  MemberOf(id, u)' = MemberOf(id, u)
<1>1. CASE rooms[id] = None
  BY <1>1 DEF MemberOf
<1>2. CASE rooms[id] # None
  <2>1. rooms[id] \in Rooms /\ users[rooms[id]][u] \in Handlers \cup {None}
    BY <1>2 DEF IInv, DirectoryTypes, DataTypes
  <2>2. users[rooms[id]][u] # None => pc[users[rooms[id]][u]] \in InRoom \cup {"left"}
    BY <2>1 DEF Joined, MembersJoined
  <2>3. users[rooms[id]][u] # None =>
          (pc'[users[rooms[id]][u]] = "index" <=> pc[users[rooms[id]][u]] = "index")
    BY <2>1, <2>2
  <2> QED
    BY <1>2, <2>3 DEF MemberOf
<1> QED
  BY <1>1, <1>2

\* A JOIN is not seen until it is indexed.
LEMMA MemberByJoin ==
  ASSUME IInv, Joined, NEW h \in Handlers, Join(h), NEW id \in RoomIds, NEW u \in UserIds
  PROVE  MemberOf(id, u)' = MemberOf(id, u)
<1>1. /\ pc[h] = "join" /\ pc'[h] = "index"
      /\ \A q \in Handlers \ {h} : pc'[q] = pc[q]
      /\ UNCHANGED rooms
  BY HandlerMove, Kinds DEF Join, HandlerPc, IInv
<1>2. /\ room[h] \in Rooms /\ UserOf[h] \in UserIds
      /\ users[room[h]][UserOf[h]] = None
      /\ users'[room[h]][UserOf[h]] = h
      /\ \A o \in Rooms, v \in UserIds :
           o # room[h] \/ v # UserOf[h] => users'[o][v] = users[o][v]
  BY <1>1, InRoomFacts DEF Join, IInv, DataTypes
<1>3. CASE rooms[id] = room[h] /\ u = UserOf[h]
  BY <1>1, <1>2, <1>3 DEF MemberOf
<1>4. CASE ~(rooms[id] = room[h] /\ u = UserOf[h])
  <2>1. rooms[id] # None => users'[rooms[id]][u] = users[rooms[id]][u]
    BY <1>2, <1>4 DEF IInv, DirectoryTypes
  <2>2. \A q \in Handlers : pc[q] \in InRoom \cup {"left"} => (pc'[q] = "index" <=> pc[q] = "index")
    BY <1>1 DEF InRoom
  <2> QED
    BY <1>1, <2>1, <2>2, MemberKept
<1> QED
  BY <1>3, <1>4

\* When it is, the handler becomes the member of its room and user.
LEMMA MemberByIndex ==
  ASSUME IInv, Joined, NEW h \in Handlers, Index(h), NEW id \in RoomIds, NEW u \in UserIds
  PROVE  IF id = RoomOf[h] /\ u = UserOf[h]
         THEN MemberOf(id, u) = None /\ MemberOf(id, u)' = h
         ELSE MemberOf(id, u)' = MemberOf(id, u)
<1>1. /\ pc[h] = "index" /\ pc'[h] = "member"
      /\ \A q \in Handlers \ {h} : pc'[q] = pc[q]
      /\ UNCHANGED <<rooms, users>>
  BY HandlerMove, Kinds DEF Index, HandlerPc, IInv
<1>2. /\ room[h] \in Rooms /\ room[h] = rooms[RoomOf[h]] /\ users[room[h]][UserOf[h]] = h
      /\ RoomOf[h] \in RoomIds /\ UserOf[h] \in UserIds
  BY <1>1, InRoomFacts DEF Joined, Registered, InRoom
<1>3. CASE id = RoomOf[h] /\ u = UserOf[h]
  BY <1>1, <1>2, <1>3, Kinds DEF MemberOf
<1>4. CASE ~(id = RoomOf[h] /\ u = UserOf[h])
  <2>1. ASSUME rooms[id] # None, users[rooms[id]][u] # None
        PROVE  users[rooms[id]][u] \in Handlers \ {h}
    <3>1. rooms[id] \in Rooms /\ users[rooms[id]][u] \in Handlers
      BY <2>1 DEF IInv, DirectoryTypes, DataTypes
    <3>2. CASE users[rooms[id]][u] = h
      <4>1. UserOf[h] = u /\ rooms[RoomOf[h]] = rooms[id]
        BY <2>1, <3>1, <3>2 DEF Joined, MembersJoined
      <4>2. RoomOf[h] = id
        BY <1>2, <2>1, <4>1 DEF IInv, DirectoryTypes
      <4> QED
        BY <1>4, <4>1, <4>2
    <3> QED
      BY <3>1, <3>2
  <2>2. rooms[id] # None /\ users[rooms[id]][u] # None =>
          pc'[users[rooms[id]][u]] = pc[users[rooms[id]][u]]
    BY <1>1, <2>1
  <2> QED
    BY <1>1, <1>4, <2>2 DEF MemberOf
<1> QED
  BY <1>3, <1>4

\* Taking somebody out of Users takes the member out.
LEMMA MemberByRemoval ==
  ASSUME IInv, Joined, NEW o \in Rooms, NEW v \in UserIds, users[o][v] # None,
         pc[users[o][v]] # "index", users'[o][v] = None, UNCHANGED rooms,
         \A p \in Rooms, w \in UserIds : p # o \/ w # v => users'[p][w] = users[p][w],
         \A h \in Handlers : pc[h] \in InRoom \cup {"left"} => (pc'[h] = "index" <=> pc[h] = "index"),
         NEW id \in RoomIds, NEW u \in UserIds
  PROVE  IF rooms[id] = o /\ u = v
         THEN MemberOf(id, u) = users[o][v] /\ MemberOf(id, u)' = None
         ELSE MemberOf(id, u)' = MemberOf(id, u)
<1>1. CASE rooms[id] = o /\ u = v
  BY <1>1, Kinds DEF MemberOf
<1>2. CASE ~(rooms[id] = o /\ u = v)
  <2>1. rooms[id] # None => users'[rooms[id]][u] = users[rooms[id]][u]
    BY <1>2 DEF IInv, DirectoryTypes
  <2> QED
    BY <1>2, <2>1, MemberKept
<1> QED
  BY <1>1, <1>2

\* A new room has no members.
LEMMA MemberByCreate ==
  ASSUME IInv, Joined, NEW h \in Handlers, Create(h), NEW id \in RoomIds, NEW u \in UserIds
  PROVE  MemberOf(id, u)' = MemberOf(id, u)
<1>1. /\ UNCHANGED users /\ pc[h] = "create" /\ pc'[h] = "relookup"
      /\ \A q \in Handlers \ {h} : pc'[q] = pc[q]
  BY CreateMoves, Kinds DEF Create, IInv
<1>2. \A q \in Handlers : pc[q] \in InRoom \cup {"left"} => (pc'[q] = "index" <=> pc[q] = "index")
  BY <1>1 DEF InRoom
<1>3. CASE rooms'[id] = rooms[id]
  BY <1>1, <1>2, <1>3, MemberKept
<1>4. CASE rooms'[id] # rooms[id]
  <2>1. PICK o \in Rooms : /\ ~Exists(RoomOf[h]) /\ pc[o] = "none"
                           /\ rooms' = [rooms EXCEPT ![RoomOf[h]] = o]
    BY <1>4, CreateMoves DEF IInv
  <2>2. id = RoomOf[h] /\ rooms[id] = None /\ rooms'[id] = o
    BY <1>4, <2>1 DEF Exists, IInv, DirectoryTypes
  <2>3. users[o][u] = None
    <3> SUFFICES ASSUME users[o][u] # None PROVE FALSE
      OBVIOUS
    <3>1. users[o][u] \in Handlers /\ rooms[RoomOf[users[o][u]]] = o
      BY DEF IInv, DataTypes, Joined, MembersJoined
    <3>2. RoomOf[users[o][u]] \in RoomIds
      BY <3>1, InRoomFacts
    <3> QED
      BY <2>1, <3>1, <3>2, Kinds DEF IInv, DirectoryTypes
  <2> QED
    BY <1>1, <2>2, <2>3 DEF MemberOf
<1> QED
  BY <1>3, <1>4

-----------------------------------------------------------------------------
\* Steps of the directory as steps of RoomMembership, seen from one room id.

\* Nothing that RoomMembership sees of the id changes.
LEMMA SameSeen ==
  ASSUME NEW id \in RoomIds,
         \A h \in Handlers : RoomOf[h] = id => PhaseOf(pc'[h]) = PhaseOf(pc[h]),
         \A u \in UserIds : MemberOf(id, u)' = MemberOf(id, u)
                            /\ userRooms'[u][id] = userRooms[u][id]
  PROVE  UNCHANGED Membership(id)!vars
BY DEF Membership!vars

\* One handler is refused, or departs.
LEMMA PhaseSeen ==
  ASSUME NEW id \in RoomIds, NEW h \in Handlers, RoomOf[h] = id,
         \A q \in Handlers \ {h} : pc'[q] = pc[q],
         <<PhaseOf(pc[h]), PhaseOf(pc'[h])>> \in {<<"out", "gone">>, <<"in", "leaving">>},
         \A u \in UserIds : MemberOf(id, u)' = MemberOf(id, u)
                            /\ userRooms'[u][id] = userRooms[u][id]
  PROVE  Membership(id)!Next
<1>1. CASE PhaseOf(pc[h]) = "out" /\ PhaseOf(pc'[h]) = "gone"
  BY <1>1 DEF Membership!Next, Membership!Refuse
<1>2. CASE PhaseOf(pc[h]) = "in" /\ PhaseOf(pc'[h]) = "leaving"
  BY <1>2 DEF Membership!Next, Membership!Depart
<1> QED
  BY <1>1, <1>2

\* One handler joins under a user id that nobody holds.
LEMMA JoinSeen ==
  ASSUME NEW id \in RoomIds, NEW h \in Handlers, NEW v \in UserIds, RoomOf[h] = id,
         \A q \in Handlers \ {h} : pc'[q] = pc[q],
         PhaseOf(pc[h]) = "out", PhaseOf(pc'[h]) = "in",
         MemberOf(id, v) = None, MemberOf(id, v)' = h,
         userRooms'[v][id] = userRooms[v][id] + 1,
         \A u \in UserIds \ {v} : MemberOf(id, u)' = MemberOf(id, u)
                                  /\ userRooms'[u][id] = userRooms[u][id]
  PROVE  Membership(id)!Next
<1>1. [q \in Handlers |-> IF RoomOf[q] = id THEN PhaseOf(pc'[q]) ELSE "out"]
        = [[q \in Handlers |-> IF RoomOf[q] = id THEN PhaseOf(pc[q]) ELSE "out"]
             EXCEPT ![h] = "in"]
  OBVIOUS
<1>2. [u \in UserIds |-> MemberOf(id, u)'] = [[u \in UserIds |-> MemberOf(id, u)] EXCEPT ![v] = h]
  OBVIOUS
<1>3. [u \in UserIds |-> userRooms'[u][id]]
        = [[u \in UserIds |-> userRooms[u][id]] EXCEPT ![v] = @ + 1]
  OBVIOUS
<1>4. Membership(id)!Join(h, v)
  BY <1>1, <1>2, <1>3 DEF Membership!Join
<1> QED
  BY <1>4 DEF Membership!Next

\* A member that has departed loses its user id; the index waits.
LEMMA EvictSeen ==
  ASSUME NEW id \in RoomIds, NEW v \in UserIds,
         \A h \in Handlers : RoomOf[h] = id => PhaseOf(pc'[h]) = PhaseOf(pc[h]),
         MemberOf(id, v) \in Handlers, RoomOf[MemberOf(id, v)] = id,
         PhaseOf(pc[MemberOf(id, v)]) = "leaving", MemberOf(id, v) # None,
         MemberOf(id, v)' = None,
         \A u \in UserIds \ {v} : MemberOf(id, u)' = MemberOf(id, u),
         \A u \in UserIds : userRooms'[u][id] = userRooms[u][id]
  PROVE  Membership(id)!Next
<1>1. [h \in Handlers |-> IF RoomOf[h] = id THEN PhaseOf(pc'[h]) ELSE "out"]
        = [h \in Handlers |-> IF RoomOf[h] = id THEN PhaseOf(pc[h]) ELSE "out"]
  OBVIOUS
<1>2. [u \in UserIds |-> MemberOf(id, u)'] = [[u \in UserIds |-> MemberOf(id, u)] EXCEPT ![v] = None]
  <2>1. \A u \in UserIds : MemberOf(id, u)' = IF u = v THEN None ELSE MemberOf(id, u)
    OBVIOUS
  <2> QED
    BY <2>1
<1>3. [u \in UserIds |-> userRooms'[u][id]] = [u \in UserIds |-> userRooms[u][id]]
  OBVIOUS
<1>4. Membership(id)!Evict(v)
  BY <1>1, <1>2, <1>3 DEF Membership!Evict
<1> QED
  BY <1>4 DEF Membership!Next

\* The index catches up with a removal.
LEMMA UnlistSeen ==
  ASSUME NEW id \in RoomIds, NEW v \in UserIds,
         \A h \in Handlers : RoomOf[h] = id => PhaseOf(pc'[h]) = PhaseOf(pc[h]),
         \A u \in UserIds : MemberOf(id, u)' = MemberOf(id, u),
         userRooms[v][id] > IF MemberOf(id, v) = None THEN 0 ELSE 1,
         userRooms'[v][id] = userRooms[v][id] - 1,
         \A u \in UserIds \ {v} : userRooms'[u][id] = userRooms[u][id]
  PROVE  Membership(id)!Next
<1>1. Membership(id)!Unlist(v)
  BY DEF Membership!Unlist
<1> QED
  BY <1>1 DEF Membership!Next

\* The phase of each control point of a handler.
LEMMA Phases ==
  /\ \A label \in {"idle", "create", "relookup", "join", "index"} : PhaseOf(label) = "out"
  /\ PhaseOf("member") = "in" /\ PhaseOf("gone") = "gone"
  /\ \A label \in {"scheduled", "remove", "unindex", "left"} : PhaseOf(label) = "leaving"
BY DEF PhaseOf

-----------------------------------------------------------------------------
\* One lemma per kind of step: the index stays exact, and the step refines.

Refines == \A id \in RoomIds : UNCHANGED Membership(id)!vars \/ Membership(id)!Next

\* A room owes the index what it owed.
LEMMA OwesKept ==
  ASSUME IInv, NEW id \in RoomIds, NEW u, rooms'[id] = rooms[id],
         \A o \in Rooms : /\ pc'[o] = "unindexInOrder" <=> pc[o] = "unindexInOrder"
                          /\ pc[o] = "unindexInOrder" => departing'[o] = departing[o]
  PROVE  RoomOwes(id, u)' <=> RoomOwes(id, u)
BY DEF RoomOwes, IInv, DirectoryTypes

\* The index stays exact if nothing it depends on changes.
LEMMA IndexKept ==
  ASSUME IndexExact,
         \A id \in RoomIds, u \in UserIds :
           /\ userRooms'[u][id] = userRooms[u][id]
           /\ MemberOf(id, u)' = MemberOf(id, u)
           /\ RoomOwes(id, u)' <=> RoomOwes(id, u),
         \A h \in Handlers : pc'[h] = "unindex" <=> pc[h] = "unindex"
  PROVE  IndexExact'
<1> SUFFICES ASSUME NEW id \in RoomIds, NEW u \in UserIds
             PROVE  userRooms'[u][id] = Bit(MemberOf(id, u) # None)'
                                        + Bit(Unindexing(id, u))' + Bit(RoomOwes(id, u))'
  BY DEF IndexExact
<1>1. Unindexing(id, u)' <=> Unindexing(id, u)
  BY DEF Unindexing
<1> QED
  BY <1>1 DEF IndexExact, Bit

\* A step that RoomMembership does not see.
LEMMA QuietStep ==
  ASSUME IndexExact, UNCHANGED userRooms,
         \A id \in RoomIds, u \in UserIds :
           /\ MemberOf(id, u)' = MemberOf(id, u)
           /\ RoomOwes(id, u)' <=> RoomOwes(id, u),
         \A h \in Handlers : /\ PhaseOf(pc'[h]) = PhaseOf(pc[h])
                             /\ pc'[h] = "unindex" <=> pc[h] = "unindex"
  PROVE  IndexExact' /\ Refines
<1>1. IndexExact'
  BY IndexKept
<1>2. Refines
  BY SameSeen DEF Refines
<1> QED
  BY <1>1, <1>2

\* A handler is refused, or departs.
LEMMA PhaseStep ==
  ASSUME IndexExact, NEW h \in Handlers, UNCHANGED userRooms,
         \A id \in RoomIds, u \in UserIds :
           /\ MemberOf(id, u)' = MemberOf(id, u)
           /\ RoomOwes(id, u)' <=> RoomOwes(id, u),
         \A q \in Handlers \ {h} : pc'[q] = pc[q],
         <<pc[h], pc'[h]>> \in
           {<<"join", "gone">>, <<"member", "scheduled">>, <<"member", "remove">>}
  PROVE  IndexExact' /\ Refines
<1>1. IndexExact'
  <2>1. \A q \in Handlers : pc'[q] = "unindex" <=> pc[q] = "unindex"
    OBVIOUS
  <2> QED
    BY <2>1, IndexKept
<1>2. <<PhaseOf(pc[h]), PhaseOf(pc'[h])>> \in {<<"out", "gone">>, <<"in", "leaving">>}
  BY Phases
<1>3. ASSUME NEW id \in RoomIds
      PROVE  UNCHANGED Membership(id)!vars \/ Membership(id)!Next
  <2>1. CASE RoomOf[h] = id
    BY <1>2, <2>1, PhaseSeen
  <2>2. CASE RoomOf[h] # id
    <3>1. \A q \in Handlers : RoomOf[q] = id => PhaseOf(pc'[q]) = PhaseOf(pc[q])
      BY <2>2
    <3> QED
      BY <3>1, SameSeen
  <2> QED
    BY <2>1, <2>2
<1> QED
  BY <1>1, <1>3 DEF Refines

\* Only one handler at a time is in the critical section of its room.
LEMMA OneInside ==
  ASSUME IInv, NEW h \in Handlers, NEW q \in Handlers, RoomOf[q] = RoomOf[h],
         pc[h] \in {"remove", "unindex"}, writer[room[h]] \in {None, h}, pc[q] = "unindex"
  PROVE  q = h
<1>1. room[h] = rooms[RoomOf[h]] /\ room[q] = rooms[RoomOf[q]]
  BY InRoomFacts DEF InRoom
<1>2. writer[room[q]] = q
  BY DEF IInv, WritersAt, Inside
<1> QED
  BY <1>1, <1>2, Kinds

\* The JOIN reaches the index.
LEMMA IndexStep ==
  ASSUME IInv, Joined, IndexExact, NEW h \in Handlers, Index(h)
  PROVE  IndexExact' /\ Refines
<1> DEFINE i == RoomOf[h]
           v == UserOf[h]
<1>1. /\ i \in RoomIds /\ v \in UserIds
      /\ pc[h] = "index" /\ pc'[h] = "member"
      /\ \A p \in Procs \ {h} : pc'[p] = pc[p]
      /\ UNCHANGED <<rooms, departing>>
  BY HandlerMove, InRoomFacts DEF Index, HandlerPc, IInv
<1>2. /\ \A q \in Handlers \ {h} : pc'[q] = pc[q]
      /\ \A o \in Rooms : pc'[o] = pc[o]
  BY <1>1, Kinds
<1>3. /\ userRooms[v][i] \in Nat /\ userRooms'[v][i] = userRooms[v][i] + 1
      /\ \A id \in RoomIds, u \in UserIds :
           id # i \/ u # v => userRooms'[u][id] = userRooms[u][id]
  BY <1>1 DEF Index, IInv, DataTypes
<1>4. \A id \in RoomIds, u \in UserIds :
        IF id = i /\ u = v THEN MemberOf(id, u) = None /\ MemberOf(id, u)' = h
                           ELSE MemberOf(id, u)' = MemberOf(id, u)
  BY MemberByIndex
<1>5. \A id \in RoomIds, u \in UserIds : RoomOwes(id, u)' <=> RoomOwes(id, u)
  BY <1>1, <1>2, OwesKept
<1>6. IndexExact'
  <2> SUFFICES ASSUME NEW id \in RoomIds, NEW u \in UserIds
               PROVE  userRooms'[u][id] = Bit(MemberOf(id, u) # None)'
                                          + Bit(Unindexing(id, u))' + Bit(RoomOwes(id, u))'
    BY DEF IndexExact
  <2>1. Unindexing(id, u)' <=> Unindexing(id, u)
    BY <1>1, <1>2 DEF Unindexing
  <2>2. userRooms[u][id] = Bit(MemberOf(id, u) # None) + Bit(Unindexing(id, u))
                           + Bit(RoomOwes(id, u))
    BY DEF IndexExact
  <2>3. CASE id = i /\ u = v
    BY <1>3, <1>4, <1>5, <2>1, <2>2, <2>3, Kinds DEF Bit
  <2>4. CASE ~(id = i /\ u = v)
    BY <1>3, <1>4, <1>5, <2>1, <2>2, <2>4 DEF Bit
  <2> QED
    BY <2>3, <2>4
<1>7. ASSUME NEW id \in RoomIds
      PROVE  UNCHANGED Membership(id)!vars \/ Membership(id)!Next
  <2>1. CASE id = i
    <3>1. PhaseOf(pc[h]) = "out" /\ PhaseOf(pc'[h]) = "in"
      BY <1>1, Phases
    <3>2. MemberOf(id, v) = None /\ MemberOf(id, v)' = h /\ RoomOf[h] = id
      BY <1>1, <1>4, <2>1
    <3>3. /\ userRooms'[v][id] = userRooms[v][id] + 1
          /\ \A u \in UserIds \ {v} : MemberOf(id, u)' = MemberOf(id, u)
                                      /\ userRooms'[u][id] = userRooms[u][id]
      BY <1>3, <1>4, <2>1
    <3> HIDE DEF v
    <3> QED
      BY <1>1, <1>2, <3>1, <3>2, <3>3, JoinSeen
  <2>2. CASE id # i
    <3>1. \A q \in Handlers : RoomOf[q] = id => PhaseOf(pc'[q]) = PhaseOf(pc[q])
      BY <1>2, <2>2
    <3> QED
      BY <1>3, <1>4, <2>2, <3>1, SameSeen
  <2> QED
    BY <2>1, <2>2
<1> QED
  BY <1>6, <1>7 DEF Refines


\* A handler takes itself out of Users, and has the index to update.
LEMMA RemoveStep ==
  ASSUME IInv, Joined, IndexExact, NEW h \in Handlers, RemoveUserFromRoom(h)
  PROVE  IndexExact' /\ Refines
<1> DEFINE i == RoomOf[h]
           v == UserOf[h]
<1>1. /\ i \in RoomIds /\ v \in UserIds /\ room[h] \in Rooms /\ room[h] = rooms[i]
      /\ pc[h] = "remove" /\ pc'[h] = "unindex"
      /\ users[room[h]][v] = h /\ users' = [users EXCEPT ![room[h]][v] = None]
      /\ UNCHANGED <<room, rooms, departing, userRooms>>
      /\ \A p \in Procs \ {h} : pc'[p] = pc[p]
  BY RemovesItself, InRoomFacts DEF InRoom
<1>2. /\ \A q \in Handlers \ {h} : pc'[q] = pc[q]
      /\ \A o \in Rooms : pc'[o] = pc[o]
  BY <1>1, Kinds
<1>3. \A id \in RoomIds : rooms[id] = room[h] => id = i
  BY <1>1, Kinds DEF IInv, DirectoryTypes
<1>4. \A id \in RoomIds, u \in UserIds :
        IF id = i /\ u = v THEN MemberOf(id, u) = h /\ MemberOf(id, u)' = None
                           ELSE MemberOf(id, u)' = MemberOf(id, u)
  <2> SUFFICES ASSUME NEW id \in RoomIds, NEW u \in UserIds
               PROVE  IF id = i /\ u = v THEN MemberOf(id, u) = h /\ MemberOf(id, u)' = None
                                         ELSE MemberOf(id, u)' = MemberOf(id, u)
    OBVIOUS
  <2>0. PICK o \in Rooms : o = room[h]
    BY <1>1
  <2>1. /\ users[o][v] = h /\ h # None /\ pc[h] # "index" /\ users'[o][v] = None
        /\ UNCHANGED rooms /\ v \in UserIds /\ (rooms[id] = o <=> id = i)
        /\ \A p \in Rooms, w \in UserIds : p # o \/ w # v => users'[p][w] = users[p][w]
    BY <1>1, <1>3, <2>0, Kinds DEF IInv, DataTypes
  <2>2. \A q \in Handlers :
          pc[q] \in InRoom \cup {"left"} => (pc'[q] = "index" <=> pc[q] = "index")
    BY <1>1, <1>2
  <2> HIDE DEF v
  <2>3. IF rooms[id] = o /\ u = v
        THEN MemberOf(id, u) = users[o][v] /\ MemberOf(id, u)' = None
        ELSE MemberOf(id, u)' = MemberOf(id, u)
    BY <2>1, <2>2, MemberByRemoval
  <2> QED
    BY <2>1, <2>3
<1>5. \A id \in RoomIds, u \in UserIds : RoomOwes(id, u)' <=> RoomOwes(id, u)
  BY <1>1, <1>2, OwesKept
<1>6. IndexExact'
  <2> SUFFICES ASSUME NEW id \in RoomIds, NEW u \in UserIds
               PROVE  userRooms'[u][id] = Bit(MemberOf(id, u) # None)'
                                          + Bit(Unindexing(id, u))' + Bit(RoomOwes(id, u))'
    BY DEF IndexExact
  <2>2. /\ userRooms[u][id] = Bit(MemberOf(id, u) # None) + Bit(Unindexing(id, u))
                              + Bit(RoomOwes(id, u))
        /\ userRooms'[u][id] = userRooms[u][id]
    BY <1>1 DEF IndexExact
  <2>3. CASE id = i /\ u = v
    <3>1. ~Unindexing(id, u)
      <4>1. writer[room[h]] \in {None, h}
        BY DEF RemoveUserFromRoom, Locked
      <4> QED
        BY <1>1, <2>3, <4>1, OneInside DEF Unindexing
    <3>2. Unindexing(id, u)'
      BY <1>1, <2>3 DEF Unindexing
    <3> QED
      BY <1>4, <1>5, <2>2, <2>3, <3>1, <3>2, Kinds DEF Bit
  <2>4. CASE ~(id = i /\ u = v)
    <3>1. Unindexing(id, u)' <=> Unindexing(id, u)
      BY <1>1, <1>2, <2>4 DEF Unindexing
    <3> QED
      BY <1>4, <1>5, <2>2, <2>4, <3>1 DEF Bit
  <2> QED
    BY <2>3, <2>4
<1>7. \A q \in Handlers : PhaseOf(pc'[q]) = PhaseOf(pc[q])
  BY <1>1, <1>2, Phases
<1>8. ASSUME NEW id \in RoomIds
      PROVE  UNCHANGED Membership(id)!vars \/ Membership(id)!Next
  <2>1. CASE id = i
    <3>1. PhaseOf(pc[h]) = "leaving"
      BY <1>1, Phases
    <3>2. /\ MemberOf(id, v) = h /\ MemberOf(id, v)' = None /\ RoomOf[h] = id /\ h # None
          /\ \A u \in UserIds \ {v} : MemberOf(id, u)' = MemberOf(id, u)
          /\ \A u \in UserIds : userRooms'[u][id] = userRooms[u][id]
          /\ v \in UserIds
      BY <1>1, <1>4, <2>1, Kinds
    <3> HIDE DEF v
    <3> QED
      BY <1>7, <3>1, <3>2, EvictSeen
  <2>2. CASE id # i
    BY <1>1, <1>4, <1>7, <2>2, SameSeen
  <2> QED
    BY <2>1, <2>2
<1> QED
  BY <1>6, <1>8 DEF Refines

\* Taking one occurrence of a room out of the index of a user.
LEMMA Dropped ==
  ASSUME IInv, NEW v \in UserIds, NEW i \in RoomIds, DropFromUserRooms(v, i),
         userRooms[v][i] > 0
  PROVE  /\ userRooms'[v][i] = userRooms[v][i] - 1
         /\ \A id \in RoomIds, u \in UserIds :
              id # i \/ u # v => userRooms'[u][id] = userRooms[u][id]
<1>1. userRooms \in [UserIds -> [RoomIds -> Nat]]
  BY DEF IInv, DataTypes
<1> QED
  BY <1>1 DEF DropFromUserRooms

\* The handler's removal reaches the index.
LEMMA UnindexStep ==
  ASSUME IInv, Joined, IndexExact, NEW h \in Handlers, RemoveFromUserRooms(h)
  PROVE  IndexExact' /\ Refines
<1> DEFINE i == RoomOf[h]
           v == UserOf[h]
<1>1. /\ i \in RoomIds /\ v \in UserIds
      /\ pc[h] = "unindex" /\ pc'[h] = "left"
      /\ \A p \in Procs \ {h} : pc'[p] = pc[p]
      /\ UNCHANGED <<room, rooms, departing, users>>
      /\ DropFromUserRooms(v, i)
  BY HandlerMove, InRoomFacts DEF RemoveFromUserRooms, HandlerPc, IInv
<1>2. /\ \A q \in Handlers \ {h} : pc'[q] = pc[q]
      /\ \A o \in Rooms : pc'[o] = pc[o]
  BY <1>1, Kinds
<1>3. Unindexing(i, v)
  BY <1>1 DEF Unindexing
<1>4. userRooms[v][i] > IF MemberOf(i, v) = None THEN 0 ELSE 1
  BY <1>1, <1>3 DEF IndexExact, Bit
<1>5. /\ userRooms'[v][i] = userRooms[v][i] - 1
      /\ \A id \in RoomIds, u \in UserIds :
           id # i \/ u # v => userRooms'[u][id] = userRooms[u][id]
  <2>1. userRooms[v][i] \in Nat
    BY <1>1 DEF IInv, DataTypes
  <2>2. userRooms[v][i] > 0
    BY <1>4, <2>1
  <2> HIDE DEF i, v
  <2> QED
    BY <1>1, <2>2, Dropped
<1>6. \A id \in RoomIds, u \in UserIds : MemberOf(id, u)' = MemberOf(id, u)
  <2>1. \A q \in Handlers :
          pc[q] \in InRoom \cup {"left"} => (pc'[q] = "index" <=> pc[q] = "index")
    BY <1>1, <1>2
  <2> QED
    BY <1>1, <2>1, MemberKept
<1>7. \A id \in RoomIds, u \in UserIds : RoomOwes(id, u)' <=> RoomOwes(id, u)
  BY <1>1, <1>2, OwesKept
<1>8. IndexExact'
  <2> SUFFICES ASSUME NEW id \in RoomIds, NEW u \in UserIds
               PROVE  userRooms'[u][id] = Bit(MemberOf(id, u) # None)'
                                          + Bit(Unindexing(id, u))' + Bit(RoomOwes(id, u))'
    BY DEF IndexExact
  <2>1. userRooms[u][id] = Bit(MemberOf(id, u) # None) + Bit(Unindexing(id, u))
                           + Bit(RoomOwes(id, u))
    BY DEF IndexExact
  <2>2. CASE id = i /\ u = v
    <3>1. ~Unindexing(id, u)'
      <4> SUFFICES ASSUME NEW q \in Handlers, pc'[q] = "unindex", UserOf[q] = u, RoomOf[q] = id
                   PROVE  FALSE
        BY DEF Unindexing
      <4>1. q # h /\ pc[q] = "unindex" /\ RoomOf[q] = RoomOf[h]
        BY <1>1, <1>2, <2>2
      <4>2. writer[room[h]] \in {None, h} /\ pc[h] \in {"remove", "unindex"}
        BY <1>1 DEF IInv, WritersAt, Inside
      <4> QED
        BY <4>1, <4>2, OneInside
    <3>2. userRooms'[u][id] = userRooms[u][id] - 1 /\ Unindexing(id, u)
      BY <1>3, <1>5, <2>2
    <3> QED
      BY <1>6, <1>7, <2>1, <3>1, <3>2 DEF Bit
  <2>3. CASE ~(id = i /\ u = v)
    <3>1. Unindexing(id, u)' <=> Unindexing(id, u)
      BY <1>1, <1>2, <2>3 DEF Unindexing
    <3> QED
      BY <1>5, <1>6, <1>7, <2>1, <2>3, <3>1 DEF Bit
  <2> QED
    BY <2>2, <2>3
<1>9. \A q \in Handlers : PhaseOf(pc'[q]) = PhaseOf(pc[q])
  BY <1>1, <1>2, Phases
<1>10. ASSUME NEW id \in RoomIds
       PROVE  UNCHANGED Membership(id)!vars \/ Membership(id)!Next
  <2>1. CASE id = i
    <3>1. /\ userRooms[v][id] > IF MemberOf(id, v) = None THEN 0 ELSE 1
          /\ userRooms'[v][id] = userRooms[v][id] - 1
          /\ \A u \in UserIds \ {v} : userRooms'[u][id] = userRooms[u][id]
          /\ v \in UserIds
      BY <1>1, <1>4, <1>5, <2>1
    <3> HIDE DEF v
    <3> QED
      BY <1>6, <1>9, <3>1, UnlistSeen
  <2>2. CASE id # i
    BY <1>5, <1>6, <1>9, <2>2, SameSeen
  <2> QED
    BY <2>1, <2>2
<1> QED
  BY <1>8, <1>10 DEF Refines

\* The room takes a departed member out of Users, and has the index to update.
LEMMA RemoveInOrderStep ==
  ASSUME IInv, Joined, IndexExact, NEW o \in Rooms, RemoveInOrder(o)
  PROVE  IndexExact' /\ Refines
<1>0. PICK v \in UserIds : v = departing[o]
  BY RemovesDeparted
<1>1. /\ users[o][v] \in Handlers /\ pc[users[o][v]] = "left" /\ users[o][v] # None
      /\ pc[o] = "removeInOrder" /\ pc'[o] = "unindexInOrder"
      /\ users' = [users EXCEPT ![o][v] = None]
      /\ UNCHANGED <<room, rooms, departing, userRooms>>
      /\ \A p \in Procs \ {o} : pc'[p] = pc[p]
  BY <1>0, RemovesDeparted, Kinds
<1>2. /\ \A q \in Handlers : pc'[q] = pc[q]
      /\ \A p \in Rooms \ {o} : pc'[p] = pc[p]
  BY <1>1, Kinds
<1>3. PICK i \in RoomIds : rooms[i] = o
  BY <1>1 DEF Joined, RemovalDue
<1>4. /\ \A id \in RoomIds : rooms[id] = o <=> id = i
      /\ o # None
  BY <1>3, Kinds DEF IInv, DirectoryTypes
<1>5. \A id \in RoomIds, u \in UserIds :
        IF id = i /\ u = v THEN MemberOf(id, u) = users[o][v] /\ MemberOf(id, u)' = None
                           ELSE MemberOf(id, u)' = MemberOf(id, u)
  <2> SUFFICES ASSUME NEW id \in RoomIds, NEW u \in UserIds
               PROVE  IF id = i /\ u = v
                      THEN MemberOf(id, u) = users[o][v] /\ MemberOf(id, u)' = None
                      ELSE MemberOf(id, u)' = MemberOf(id, u)
    OBVIOUS
  <2>1. /\ pc[users[o][v]] # "index" /\ users'[o][v] = None
        /\ UNCHANGED rooms
        /\ \A p \in Rooms, w \in UserIds : p # o \/ w # v => users'[p][w] = users[p][w]
    BY <1>1 DEF IInv, DataTypes
  <2>2. \A q \in Handlers :
          pc[q] \in InRoom \cup {"left"} => (pc'[q] = "index" <=> pc[q] = "index")
    BY <1>2
  <2>3. IF rooms[id] = o /\ u = v
        THEN MemberOf(id, u) = users[o][v] /\ MemberOf(id, u)' = None
        ELSE MemberOf(id, u)' = MemberOf(id, u)
    BY <1>1, <2>1, <2>2, MemberByRemoval
  <2> QED
    BY <1>4, <2>3
<1>6. IndexExact'
  <2> SUFFICES ASSUME NEW id \in RoomIds, NEW u \in UserIds
               PROVE  userRooms'[u][id] = Bit(MemberOf(id, u) # None)'
                                          + Bit(Unindexing(id, u))' + Bit(RoomOwes(id, u))'
    BY DEF IndexExact
  <2>1. /\ userRooms[u][id] = Bit(MemberOf(id, u) # None) + Bit(Unindexing(id, u))
                              + Bit(RoomOwes(id, u))
        /\ userRooms'[u][id] = userRooms[u][id]
    BY <1>1 DEF IndexExact
  <2>2. Unindexing(id, u)' <=> Unindexing(id, u)
    BY <1>2 DEF Unindexing
  <2>3. CASE id = i /\ u = v
    <3>1. ~RoomOwes(id, u) /\ RoomOwes(id, u)'
      BY <1>0, <1>1, <1>4, <2>3 DEF RoomOwes
    <3> QED
      BY <1>1, <1>5, <2>1, <2>2, <2>3, <3>1 DEF Bit
  <2>4. CASE ~(id = i /\ u = v)
    <3>1. RoomOwes(id, u)' <=> RoomOwes(id, u)
      <4>1. CASE id = i
        BY <1>0, <1>1, <1>4, <2>4, <4>1 DEF RoomOwes
      <4>2. CASE id # i /\ rooms[id] # None
        <5>1. rooms[id] \in Rooms \ {o}
          BY <1>4, <4>2 DEF IInv, DirectoryTypes
        <5> QED
          BY <1>1, <1>2, <5>1 DEF RoomOwes
      <4>3. CASE rooms[id] = None
        BY <1>1, <4>3 DEF RoomOwes
      <4> QED
        BY <4>1, <4>2, <4>3
    <3> QED
      BY <1>5, <2>1, <2>2, <2>4, <3>1 DEF Bit
  <2> QED
    BY <2>3, <2>4
<1>7. ASSUME NEW id \in RoomIds
      PROVE  UNCHANGED Membership(id)!vars \/ Membership(id)!Next
  <2>0. \A q \in Handlers : RoomOf[q] = id => PhaseOf(pc'[q]) = PhaseOf(pc[q])
    BY <1>2
  <2>1. CASE id = i
    <3>1. MemberOf(id, v) = users[o][v] /\ MemberOf(id, v)' = None
      BY <1>5, <2>1
    <3>2. /\ MemberOf(id, v) \in Handlers /\ MemberOf(id, v) # None
          /\ RoomOf[MemberOf(id, v)] = id
      BY <1>1, <3>1, MemberFacts
    <3>3. PhaseOf(pc[MemberOf(id, v)]) = "leaving"
      BY <1>1, <3>1, Phases
    <3>4. /\ \A u \in UserIds \ {v} : MemberOf(id, u)' = MemberOf(id, u)
          /\ \A u \in UserIds : userRooms'[u][id] = userRooms[u][id]
      BY <1>1, <1>5, <2>1
    <3> QED
      BY <2>0, <3>1, <3>2, <3>3, <3>4, EvictSeen
  <2>2. CASE id # i
    BY <1>1, <1>5, <2>0, <2>2, SameSeen
  <2> QED
    BY <2>1, <2>2
<1> QED
  BY <1>6, <1>7 DEF Refines

\* The removal in order reaches the index.
LEMMA UnindexInOrderStep ==
  ASSUME IInv, Joined, IndexExact, NEW o \in Rooms, UnindexInOrder(o)
  PROVE  IndexExact' /\ Refines
<1>0. PICK v \in UserIds : v = departing[o]
  BY DEF UnindexInOrder, IInv, LocalTypes
<1>1. /\ pc[o] = "unindexInOrder" /\ pc'[o] = "loop"
      /\ UNCHANGED <<room, rooms, departing, users>>
      /\ \A p \in Procs \ {o} : pc'[p] = pc[p]
      /\ DropFromUserRooms(v, IdOf(o))
  BY <1>0, RoomMove DEF UnindexInOrder, RoomPc, IInv
<1>2. /\ \A q \in Handlers : pc'[q] = pc[q]
      /\ \A p \in Rooms \ {o} : pc'[p] = pc[p]
  BY <1>1, Kinds
<1>3. PICK i \in RoomIds : i = IdOf(o) /\ rooms[i] = o
  <2>1. \E id \in RoomIds : rooms[id] = o
    BY <1>1 DEF Joined, RemovalDue
  <2> QED
    BY <2>1 DEF IdOf
<1>4. /\ \A id \in RoomIds : rooms[id] = o <=> id = i
      /\ o # None
  BY <1>3, Kinds DEF IInv, DirectoryTypes
<1>5. RoomOwes(i, v)
  BY <1>0, <1>1, <1>3, <1>4 DEF RoomOwes
<1>6. userRooms[v][i] > IF MemberOf(i, v) = None THEN 0 ELSE 1
  BY <1>5 DEF IndexExact, Bit
<1>7. /\ userRooms'[v][i] = userRooms[v][i] - 1
      /\ \A id \in RoomIds, u \in UserIds :
           id # i \/ u # v => userRooms'[u][id] = userRooms[u][id]
  <2>1. userRooms[v][i] \in Nat
    BY DEF IInv, DataTypes
  <2>2. userRooms[v][i] > 0 /\ DropFromUserRooms(v, i)
    BY <1>1, <1>3, <1>6, <2>1
  <2> QED
    BY <2>2, Dropped
<1>8. \A id \in RoomIds, u \in UserIds : MemberOf(id, u)' = MemberOf(id, u)
  <2>1. \A q \in Handlers :
          pc[q] \in InRoom \cup {"left"} => (pc'[q] = "index" <=> pc[q] = "index")
    BY <1>2
  <2> QED
    BY <1>1, <2>1, MemberKept
<1>9. IndexExact'
  <2> SUFFICES ASSUME NEW id \in RoomIds, NEW u \in UserIds
               PROVE  userRooms'[u][id] = Bit(MemberOf(id, u) # None)'
                                          + Bit(Unindexing(id, u))' + Bit(RoomOwes(id, u))'
    BY DEF IndexExact
  <2>1. userRooms[u][id] = Bit(MemberOf(id, u) # None) + Bit(Unindexing(id, u))
                           + Bit(RoomOwes(id, u))
    BY DEF IndexExact
  <2>2. Unindexing(id, u)' <=> Unindexing(id, u)
    BY <1>2 DEF Unindexing
  <2>3. CASE id = i /\ u = v
    <3>1. RoomOwes(id, u) /\ ~RoomOwes(id, u)'
      BY <1>1, <1>3, <1>5, <2>3 DEF RoomOwes
    <3> QED
      BY <1>7, <1>8, <2>1, <2>2, <2>3, <3>1 DEF Bit
  <2>4. CASE ~(id = i /\ u = v)
    <3>1. RoomOwes(id, u)' <=> RoomOwes(id, u)
      <4>1. CASE id = i
        BY <1>0, <1>1, <1>4, <2>4, <4>1 DEF RoomOwes
      <4>2. CASE id # i /\ rooms[id] # None
        <5>1. rooms[id] \in Rooms \ {o}
          BY <1>4, <4>2 DEF IInv, DirectoryTypes
        <5> QED
          BY <1>1, <1>2, <5>1 DEF RoomOwes
      <4>3. CASE rooms[id] = None
        BY <1>1, <4>3 DEF RoomOwes
      <4> QED
        BY <4>1, <4>2, <4>3
    <3> QED
      BY <1>7, <1>8, <2>1, <2>2, <2>4, <3>1 DEF Bit
  <2> QED
    BY <2>3, <2>4
<1>10. ASSUME NEW id \in RoomIds
       PROVE  UNCHANGED Membership(id)!vars \/ Membership(id)!Next
  <2>0. \A q \in Handlers : RoomOf[q] = id => PhaseOf(pc'[q]) = PhaseOf(pc[q])
    BY <1>2
  <2>1. CASE id = i
    <3>1. /\ userRooms[v][id] > IF MemberOf(id, v) = None THEN 0 ELSE 1
          /\ userRooms'[v][id] = userRooms[v][id] - 1
          /\ \A u \in UserIds \ {v} : userRooms'[u][id] = userRooms[u][id]
      BY <1>6, <1>7, <2>1
    <3>2. \A u \in UserIds : MemberOf(id, u)' = MemberOf(id, u)
      BY <1>8
    <3> QED
      BY <2>0, <3>1, <3>2, UnlistSeen
  <2>2. CASE id # i
    BY <1>7, <1>8, <2>0, <2>2, SameSeen
  <2> QED
    BY <2>1, <2>2
<1> QED
  BY <1>9, <1>10 DEF Refines

-----------------------------------------------------------------------------
\* The invariant and the refinement.

RInv == IInv /\ Joined /\ IndexExact

\* A step that leaves Users, the directory and the index alone, and moves
\* nobody where RoomMembership would see it.
LEMMA StillStep ==
  ASSUME IInv, Joined, IndexExact, UNCHANGED <<rooms, users, userRooms>>,
         \A h \in Handlers : /\ PhaseOf(pc'[h]) = PhaseOf(pc[h])
                             /\ pc'[h] = "unindex" <=> pc[h] = "unindex"
                             /\ pc'[h] = "index" <=> pc[h] = "index",
         \A o \in Rooms : /\ pc'[o] = "unindexInOrder" <=> pc[o] = "unindexInOrder"
                          /\ pc[o] = "unindexInOrder" => departing'[o] = departing[o]
  PROVE  IndexExact' /\ Refines
<1>1. \A id \in RoomIds, u \in UserIds : MemberOf(id, u)' = MemberOf(id, u)
  BY MemberKept
<1>2. \A id \in RoomIds, u \in UserIds : RoomOwes(id, u)' <=> RoomOwes(id, u)
  BY OwesKept
<1> QED
  BY <1>1, <1>2, QuietStep

\* A JOIN in Users, before the index knows.
LEMMA JoinStep ==
  ASSUME IInv, Joined, IndexExact, NEW h \in Handlers, Join(h)
  PROVE  IndexExact' /\ Refines
<1>1. /\ pc[h] = "join" /\ pc'[h] = "index"
      /\ \A p \in Procs \ {h} : pc'[p] = pc[p]
      /\ UNCHANGED <<rooms, departing, userRooms>>
  BY HandlerMove DEF Join, HandlerPc, IInv
<1>2. /\ \A q \in Handlers : PhaseOf(pc'[q]) = PhaseOf(pc[q])
      /\ \A q \in Handlers : pc'[q] = "unindex" <=> pc[q] = "unindex"
      /\ \A o \in Rooms : pc'[o] = pc[o]
  BY <1>1, Kinds, Phases
<1>3. \A id \in RoomIds, u \in UserIds : MemberOf(id, u)' = MemberOf(id, u)
  BY MemberByJoin
<1>4. \A id \in RoomIds, u \in UserIds : RoomOwes(id, u)' <=> RoomOwes(id, u)
  BY <1>1, <1>2, OwesKept
<1> QED
  BY <1>1, <1>2, <1>3, <1>4, QuietStep

\* A new room owes nothing.
LEMMA CreateStep ==
  ASSUME IInv, Joined, IndexExact, NEW h \in Handlers, Create(h)
  PROVE  IndexExact' /\ Refines
<1>1. /\ pc[h] = "create" /\ pc'[h] = "relookup"
      /\ \A q \in Handlers \ {h} : pc'[q] = pc[q]
      /\ \A o \in Rooms : pc'[o] = pc[o] \/ (pc[o] = "none" /\ pc'[o] = "loop")
      /\ UNCHANGED <<departing, userRooms>>
  BY CreateMoves, Kinds DEF Create, IInv
<1>2. /\ \A q \in Handlers : PhaseOf(pc'[q]) = PhaseOf(pc[q])
      /\ \A q \in Handlers : pc'[q] = "unindex" <=> pc[q] = "unindex"
  BY <1>1, Phases
<1>3. \A id \in RoomIds, u \in UserIds : MemberOf(id, u)' = MemberOf(id, u)
  BY MemberByCreate
<1>4. ASSUME NEW id \in RoomIds, NEW u \in UserIds
      PROVE  RoomOwes(id, u)' <=> RoomOwes(id, u)
  <2>1. CASE rooms'[id] = rooms[id]
    BY <1>1, <2>1, OwesKept
  <2>2. CASE rooms'[id] # rooms[id]
    <3>1. PICK o \in Rooms : /\ ~Exists(RoomOf[h]) /\ pc'[o] = "loop"
                             /\ rooms' = [rooms EXCEPT ![RoomOf[h]] = o]
      BY <2>2, CreateMoves DEF IInv
    <3>2. rooms[id] = None /\ rooms'[id] = o
      BY <2>2, <3>1 DEF Exists, IInv, DirectoryTypes
    <3> QED
      BY <3>1, <3>2 DEF RoomOwes
  <2> QED
    BY <2>1, <2>2
<1> QED
  BY <1>1, <1>2, <1>3, <1>4, QuietStep

\* Every step keeps the index exact and is a step or a stutter of RoomMembership.
LEMMA RefinedStep ==
  ASSUME IInv, Joined, IndexExact, Next \/ UNCHANGED vars
  PROVE  IndexExact' /\ Refines
<1>0. PcTypes
  BY DEF IInv
<1>1. ASSUME NEW h \in Handlers, HandlerStep(h)
      PROVE  IndexExact' /\ Refines
  <2>0. /\ \A q \in Handlers \ {h} : pc'[q] = pc[q]
        /\ \A o \in Rooms : pc'[o] = pc[o]
    BY <1>0, <1>1, HandlerStepMoves, Kinds
  <2>1. CASE Lookup(h) \/ Relookup(h)
    <3>1. /\ UNCHANGED <<rooms, users, userRooms, departing>>
          /\ pc[h] \in {"idle", "relookup"} /\ pc'[h] \in {"create", "join"}
      BY <2>1, <1>0, HandlerMove DEF Lookup, Relookup, dataVars, HandlerPc
    <3>2. \A q \in Handlers : /\ PhaseOf(pc'[q]) = PhaseOf(pc[q])
                              /\ pc'[q] = "unindex" <=> pc[q] = "unindex"
                              /\ pc'[q] = "index" <=> pc[q] = "index"
      BY <2>0, <3>1, Phases
    <3> QED
      BY <2>0, <3>1, <3>2, StillStep
  <2>2. CASE JoinRefused(h) \/ ScheduleRemoveUser(h) \/ LookupToRemove(h)
    <3>1. /\ UNCHANGED <<rooms, users, userRooms, departing>>
          /\ <<pc[h], pc'[h]>> \in
               {<<"join", "gone">>, <<"member", "scheduled">>, <<"member", "remove">>}
      BY <2>2, <1>0, HandlerMove
      DEF JoinRefused, ScheduleRemoveUser, LookupToRemove, dataVars, HandlerPc
    <3>2. \A q \in Handlers :
            pc[q] \in InRoom \cup {"left"} => (pc'[q] = "index" <=> pc[q] = "index")
      BY <2>0, <3>1
    <3>3. \A id \in RoomIds, u \in UserIds : MemberOf(id, u)' = MemberOf(id, u)
      BY <3>1, <3>2, MemberKept
    <3>4. \A id \in RoomIds, u \in UserIds : RoomOwes(id, u)' <=> RoomOwes(id, u)
      BY <2>0, <3>1, OwesKept
    <3> QED
      BY <2>0, <3>1, <3>3, <3>4, PhaseStep
  <2> QED
    BY <1>1, <2>1, <2>2, JoinStep, IndexStep, RemoveStep, UnindexStep DEF HandlerStep
<1>2. ASSUME NEW o \in Rooms, RoomStep(o)
      PROVE  IndexExact' /\ Refines
  <2>1. CASE FanOut(o) \/ FanOutDone(o) \/ RoomContextDone(o) \/ CloseAll(o)
    <3>1. /\ UNCHANGED <<rooms, users, userRooms, departing>>
          /\ pc[o] # "unindexInOrder" /\ pc'[o] # "unindexInOrder"
      BY <2>1, <1>0, RoomMove
      DEF FanOut, FanOutDone, RoomContextDone, CloseAll, dataVars, RoomPc
    <3>2. /\ \A q \in Handlers : pc'[q] = pc[q]
          /\ \A p \in Rooms \ {o} : pc'[p] = pc[p]
      BY <1>0, <1>2, RoomStepMoves, Kinds
    <3> QED
      BY <3>1, <3>2, StillStep
  <2> QED
    BY <1>2, <2>1, RemoveInOrderStep, UnindexInOrderStep DEF RoomStep
<1>3. ASSUME NEW o \in Rooms, NEW h \in Handlers, TakeRemoval(o, h)
      PROVE  IndexExact' /\ Refines
  <2>1. /\ pc[o] = "loop" /\ pc'[o] = "removeInOrder" /\ pc[h] = "scheduled" /\ pc'[h] = "left"
        /\ \A q \in Handlers \ {h} : pc'[q] = pc[q]
        /\ \A p \in Rooms \ {o} : pc'[p] = pc[p]
        /\ UNCHANGED <<rooms, users, userRooms>>
    <3>1. /\ pc'[o] = "removeInOrder" /\ pc'[h] = "left"
          /\ \A q \in Handlers \ {h} : pc'[q] = pc[q]
          /\ \A p \in Rooms \ {o} : pc'[p] = pc[p]
      BY <1>0, <1>3, TakeRemovalMoves, Kinds
    <3> QED
      BY <1>3, <3>1 DEF TakeRemoval, dataVars
  <2>2. \A p \in Rooms \ {o} : departing'[p] = departing[p]
    BY <1>3 DEF TakeRemoval, IInv, LocalTypes
  <2>3. \A q \in Handlers : /\ PhaseOf(pc'[q]) = PhaseOf(pc[q])
                            /\ pc'[q] = "unindex" <=> pc[q] = "unindex"
                            /\ pc'[q] = "index" <=> pc[q] = "index"
    BY <2>1, Phases
  <2>4. \A p \in Rooms : /\ pc'[p] = "unindexInOrder" <=> pc[p] = "unindexInOrder"
                         /\ pc[p] = "unindexInOrder" => departing'[p] = departing[p]
    BY <2>1, <2>2
  <2> QED
    BY <2>1, <2>3, <2>4, StillStep
<1>4. ASSUME NEW m \in Monitors, MonitorStep(m)
      PROVE  IndexExact' /\ Refines
  <2>1. UNCHANGED <<rooms, users, userRooms, departing>>
    BY <1>4 DEF MonitorStep, WalkStart, Visit, VisitDone, WalkDone, Sessions, SessionsDone, dataVars
  <2>2. /\ \A q \in Handlers : pc'[q] = pc[q]
        /\ \A o \in Rooms : pc'[o] = pc[o]
    BY <1>0, <1>4, MonitorStepMoves, Kinds
  <2> QED
    BY <2>1, <2>2, StillStep
<1>5. CASE UNCHANGED <<pc, departing, dataVars>>
  BY <1>5, StillStep DEF dataVars
<1> QED
  BY <1>1, <1>2, <1>3, <1>4, <1>5, CreateStep, NextCases DEF Request, Cancel, vars

\* The invariant holds when the server starts, and each room id begins as
\* RoomMembership does.
LEMMA InitRefined == Init => RInv /\ \A id \in RoomIds : Membership(id)!Init
<1> SUFFICES ASSUME Init
             PROVE  RInv /\ \A id \in RoomIds : Membership(id)!Init
  OBVIOUS
<1>0. IInv
  BY InitInv
<1>1. /\ users = [o \in Rooms |-> [u \in UserIds |-> None]]
      /\ userRooms = [u \in UserIds |-> [id \in RoomIds |-> 0]]
      /\ \A h \in Handlers : pc[h] = "idle"
      /\ \A o \in Rooms : pc[o] \in {"loop", "none"}
  <2>1. /\ users = [o \in Rooms |-> [u \in UserIds |-> None]]
        /\ userRooms = [u \in UserIds |-> [id \in RoomIds |-> 0]]
        /\ pc = [p \in Procs |-> CASE p \notin Rooms -> "idle"
                                   [] \E id \in RoomIds : Opened[id] = p -> "loop"
                                   [] OTHER -> "none"]
    BY DEF Init
  <2>2. \A h \in Handlers : h \in Procs /\ h \notin Rooms /\ ~\E id \in RoomIds : Opened[id] = h
    BY Kinds, RoomDirectoryAssumption
  <2>3. \A h \in Handlers : pc[h] = "idle"
    BY <2>1, <2>2
  <2>4. ASSUME NEW o \in Rooms
        PROVE  pc[o] \in {"loop", "none"}
    <3>1. o \in Procs
      BY Kinds
    <3>2. CASE \E id \in RoomIds : Opened[id] = o
      BY <2>1, <3>1, <3>2
    <3>3. CASE ~\E id \in RoomIds : Opened[id] = o
      BY <2>1, <3>1, <3>3
    <3> QED
      BY <3>2, <3>3
  <2> QED
    BY <2>1, <2>3, <2>4
<1>2. Joined
  <2>1. Registered
    BY <1>1 DEF Registered, InRoom
  <2>2. MembersJoined
    BY <1>1 DEF MembersJoined
  <2>3. RemovalDue
    BY <1>1 DEF RemovalDue
  <2> QED
    BY <2>1, <2>2, <2>3 DEF Joined
<1>3. \A id \in RoomIds, u \in UserIds :
        MemberOf(id, u) = None /\ userRooms[u][id] = 0
        /\ ~Unindexing(id, u) /\ ~RoomOwes(id, u)
  <2> SUFFICES ASSUME NEW id \in RoomIds, NEW u \in UserIds
               PROVE  MemberOf(id, u) = None /\ userRooms[u][id] = 0
                      /\ ~Unindexing(id, u) /\ ~RoomOwes(id, u)
    OBVIOUS
  <2>1. rooms[id] # None => rooms[id] \in Rooms
    BY <1>0 DEF IInv, DirectoryTypes
  <2>2. MemberOf(id, u) = None
    BY <1>1, <2>1 DEF MemberOf
  <2>3. userRooms[u][id] = 0
    BY <1>1
  <2>4. ~Unindexing(id, u)
    BY <1>1 DEF Unindexing
  <2>5. ~RoomOwes(id, u)
    BY <1>1, <2>1 DEF RoomOwes
  <2> QED
    BY <2>2, <2>3, <2>4, <2>5
<1>4. IndexExact
  BY <1>3 DEF IndexExact, Bit
<1>5. \A id \in RoomIds : Membership(id)!Init
  BY <1>1, <1>3, Phases DEF Membership!Init
<1> QED
  BY <1>0, <1>2, <1>4, <1>5 DEF RInv

\* Every step keeps the invariant, and is a step of each room id's membership or
\* leaves it alone.
LEMMA RInvStep == RInv /\ [Next]_vars => RInv' /\ Refines
BY StepInv, JoinedStep, RefinedStep DEF RInv

\* The invariant holds in every reachable state.
LEMMA RefinedInvariant == Spec => []RInv
BY InitRefined, RInvStep, PTL DEF Spec

\* Each room id of the directory implements RoomMembership.
THEOREM MembershipKept == Spec => ImplementsMembership
<1>1. Spec => [][Refines]_vars
  BY RInvStep, RefinedInvariant, PTL DEF Spec
<1>2. Spec => \A id \in RoomIds : Membership(id)!Init
  BY InitRefined DEF Spec
<1> QED
  BY <1>1, <1>2 DEF ImplementsMembership, Refines

\* The index of users is exact: an entry for each membership and for each removal
\* whose second half is still to come, by whichever goroutine and lock.
THEOREM IndexKeptExact == Spec => []IndexExact
<1>1. RInv => IndexExact
  BY DEF RInv
<1> QED
  BY <1>1, RefinedInvariant, PTL

=============================================================================
