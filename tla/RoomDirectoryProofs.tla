------------------------- MODULE RoomDirectoryProofs -------------------------
(***************************************************************************)
(* Theorems about RoomDirectory for any number of handlers, monitors, room *)
(* ids and users.                                                          *)
(***************************************************************************)
EXTENDS RoomDirectory, TLAPS

\* Where each goroutine may be, and what its local variables hold.
PcTypes ==
  /\ pc \in [Procs -> HandlerPc \cup RoomPc \cup MonitorPc]
  /\ \A h \in Handlers : pc[h] \in HandlerPc
  /\ \A o \in Rooms : pc[o] \in RoomPc
  /\ \A m \in Monitors : pc[m] \in MonitorPc

LocalTypes ==
  /\ room \in [Handlers \cup Monitors -> Rooms \cup {None}]
  /\ departing \in [Rooms -> UserIds \cup {None}]
  /\ \A o \in Rooms : pc[o] \in {"removeInOrder", "unindexInOrder"} => departing[o] \in UserIds

\* The directory, and the consumers' handlers.
DirectoryTypes ==
  /\ rooms \in [RoomIds -> Rooms \cup {None}]
  /\ consumer \in [RoomIds -> Rooms \cup {None}]
  /\ \A id \in RoomIds : /\ rooms[id] # None => pc[rooms[id]] # "none"
                         /\ consumer[id] = IF id \in Consumed THEN rooms[id] ELSE None
  /\ \A i, j \in RoomIds : rooms[i] = rooms[j] /\ rooms[i] # None => i = j

DataTypes ==
  /\ users \in [Rooms -> [UserIds -> Handlers \cup {None}]]
  /\ userRooms \in [UserIds -> [RoomIds -> Nat]]
  /\ ctxDone \in BOOLEAN

\* A goroutine past its lookup has found the room of the directory; a monitor
\* walks over rooms of the directory.
LookedUp ==
  /\ \A h \in Handlers :
       /\ pc[h] \in {"join", "index", "member", "scheduled", "remove", "unindex"} =>
            room[h] # None /\ room[h] = rooms[RoomOf[h]]
       /\ pc[h] = "relookup" => rooms[RoomOf[h]] # None
  /\ todo \in [Monitors -> SUBSET KnownRooms]
  /\ \A m \in Monitors : pc[m] = "visit" => room[m] \in Rooms

\* Where a handler keeps its room's lock from one step to the next.
Inside(h) == pc[h] \in {"index", "unindex"}

\* Who holds a lock for writing, or waits for it behind readers.
WritesAt(p, l) ==
  /\ p \in Handlers \cup Rooms
  /\ l = WriteWant(p) \/ (p \in Handlers /\ Inside(p) /\ l = room[p])

WritersAt ==
  /\ writer \in [Locks -> Procs \cup {None}]
  /\ \A l \in Locks, p \in Procs : writer[l] = p => WritesAt(p, l)
  /\ \A h \in Handlers : Inside(h) => room[h] \in Rooms /\ writer[room[h]] = h

\* Who holds a lock for reading.
ReadsAt(p, l) ==
  \/ p \in Rooms /\ pc[p] = "fanOut" /\ l = p
  \/ /\ p \in Monitors
     /\ \/ pc[p] \in {"walk", "visit"} /\ l = ServerMu
        \/ pc[p] = "visit" /\ l = room[p]
        \/ pc[p] = "copy" /\ l = UserRoomMu

ReadersAt ==
  /\ readers \in [Locks -> SUBSET Procs]
  /\ \A l \in Locks, p \in Procs : p \in readers[l] <=> ReadsAt(p, l)

-----------------------------------------------------------------------------
\* Moving one goroutine.

\* The three kinds of goroutines are told apart.
LEMMA Kinds ==
  /\ Handlers \subseteq Procs /\ Monitors \subseteq Procs /\ Rooms \subseteq Procs
  /\ \A h \in Handlers : h \notin Monitors /\ h \notin Rooms
  /\ \A m \in Monitors : m \notin Handlers /\ m \notin Rooms
  /\ \A o \in Rooms : o \notin Handlers /\ o \notin Monitors
  /\ None \notin Procs /\ None \notin Locks
BY RoomDirectoryAssumption DEF Procs, Locks

\* A step of a handler.
LEMMA HandlerMove ==
  ASSUME PcTypes, NEW h \in Handlers, NEW label \in HandlerPc, Goto(h, label)
  PROVE  /\ PcTypes' /\ pc'[h] = label /\ \A p \in Procs \ {h} : pc'[p] = pc[p]
BY Kinds DEF PcTypes, Goto

\* A step of a broadcast goroutine.
LEMMA RoomMove ==
  ASSUME PcTypes, NEW o \in Rooms, NEW label \in RoomPc, Goto(o, label)
  PROVE  /\ PcTypes' /\ pc'[o] = label /\ \A p \in Procs \ {o} : pc'[p] = pc[p]
BY Kinds DEF PcTypes, Goto

\* A step of a monitor.
LEMMA MonitorMove ==
  ASSUME PcTypes, NEW m \in Monitors, NEW label \in MonitorPc, Goto(m, label)
  PROVE  /\ PcTypes' /\ pc'[m] = label /\ \A p \in Procs \ {m} : pc'[p] = pc[p]
BY Kinds DEF PcTypes, Goto

\* What each action of a handler does to the control points.
HandlerStep(h) ==
  \/ Lookup(h) \/ Relookup(h) \/ JoinRefused(h) \/ Join(h) \/ Index(h)
  \/ ScheduleRemoveUser(h) \/ LookupToRemove(h) \/ RemoveUserFromRoom(h)
  \/ RemoveFromUserRooms(h)

RoomStep(o) ==
  \/ RemoveInOrder(o) \/ UnindexInOrder(o) \/ FanOut(o) \/ FanOutDone(o)
  \/ RoomContextDone(o) \/ CloseAll(o)

MonitorStep(m) ==
  \/ WalkStart(m) \/ \E id \in RoomIds : Visit(m, id)
  \/ VisitDone(m) \/ \E metrics \in BOOLEAN : WalkDone(m, metrics)
  \/ Sessions(m) \/ SessionsDone(m)

\* The next-state relation, by what moves.
LEMMA NextCases ==
  ASSUME Next \/ UNCHANGED vars
  PROVE  \/ \E h \in Handlers : HandlerStep(h)
         \/ \E h \in Handlers : Create(h)
         \/ \E o \in Rooms : RoomStep(o)
         \/ \E o \in Rooms, h \in Handlers : TakeRemoval(o, h)
         \/ \E m \in Monitors : MonitorStep(m)
         \/ \E p \in Handlers \cup Rooms : Request(p)
         \/ Cancel \/ UNCHANGED vars
BY DEF Next, Handler, Client, BroadcastLoop, Monitor, HandlerStep, RoomStep, MonitorStep

\* A handler's step moves that handler only.
LEMMA HandlerStepMoves ==
  ASSUME PcTypes, NEW h \in Handlers, HandlerStep(h)
  PROVE  /\ PcTypes' /\ \A p \in Procs \ {h} : pc'[p] = pc[p]
<1>1. \E label \in HandlerPc : Goto(h, label)
  BY DEF HandlerStep, HandlerPc, Lookup, Relookup, JoinRefused, Join, Index,
         ScheduleRemoveUser, LookupToRemove, RemoveUserFromRoom, RemoveFromUserRooms
<1> QED
  BY <1>1, HandlerMove

\* A broadcast goroutine's step moves that goroutine only.
LEMMA RoomStepMoves ==
  ASSUME PcTypes, NEW o \in Rooms, RoomStep(o)
  PROVE  /\ PcTypes' /\ \A p \in Procs \ {o} : pc'[p] = pc[p]
<1>1. \E label \in RoomPc : Goto(o, label)
  BY DEF RoomStep, RoomPc, RemoveInOrder, UnindexInOrder, FanOut, FanOutDone,
         RoomContextDone, CloseAll
<1> QED
  BY <1>1, RoomMove

\* A monitor's step moves that monitor only.
LEMMA MonitorStepMoves ==
  ASSUME PcTypes, NEW m \in Monitors, MonitorStep(m)
  PROVE  /\ PcTypes' /\ \A p \in Procs \ {m} : pc'[p] = pc[p]
<1>1. \E label \in MonitorPc : Goto(m, label)
  BY DEF MonitorStep, MonitorPc, WalkStart, Visit, VisitDone, WalkDone, Sessions, SessionsDone
<1> QED
  BY <1>1, MonitorMove

\* Creating a room moves the handler and the room's new goroutine.
LEMMA CreateMoves ==
  ASSUME PcTypes, NEW h \in Handlers, Create(h)
  PROVE  /\ PcTypes' /\ pc[h] = "create" /\ pc'[h] = "relookup"
         /\ \/ /\ Exists(RoomOf[h]) /\ UNCHANGED <<rooms, consumer>>
               /\ \A p \in Procs \ {h} : pc'[p] = pc[p]
            \/ \E o \in Rooms :
                 /\ ~Exists(RoomOf[h])
                 /\ pc[o] = "none" /\ pc'[o] = "loop"
                 /\ rooms' = [rooms EXCEPT ![RoomOf[h]] = o]
                 /\ consumer' = IF RoomOf[h] \in Consumed
                                THEN [consumer EXCEPT ![RoomOf[h]] = o] ELSE consumer
                 /\ \A p \in Procs \ {h, o} : pc'[p] = pc[p]
<1>1. CASE Exists(RoomOf[h])
  <2>1. Goto(h, "relookup") /\ UNCHANGED <<rooms, consumer>> /\ pc[h] = "create"
    BY <1>1 DEF Create
  <2> QED
    BY <1>1, <2>1, HandlerMove DEF HandlerPc
<1>2. CASE ~Exists(RoomOf[h])
  <2> DEFINE o == CHOOSE fresh \in Rooms : pc[fresh] = "none"
  <2>1. /\ o \in Rooms /\ pc[o] = "none" /\ pc[h] = "create"
        /\ pc' = [pc EXCEPT ![o] = "loop", ![h] = "relookup"]
        /\ rooms' = [rooms EXCEPT ![RoomOf[h]] = o]
        /\ consumer' = IF RoomOf[h] \in Consumed
                       THEN [consumer EXCEPT ![RoomOf[h]] = o] ELSE consumer
    BY <1>2 DEF Create
  <2> HIDE DEF o
  <2>2. /\ PcTypes' /\ pc'[h] = "relookup" /\ pc'[o] = "loop"
        /\ \A p \in Procs \ {h, o} : pc'[p] = pc[p]
    BY <2>1, Kinds DEF PcTypes, HandlerPc, RoomPc
  <2> QED
    BY <1>2, <2>1, <2>2
<1> QED
  BY <1>1, <1>2

\* Taking a removal moves the broadcast goroutine and the handler that scheduled it.
LEMMA TakeRemovalMoves ==
  ASSUME PcTypes, NEW o \in Rooms, NEW h \in Handlers, TakeRemoval(o, h)
  PROVE  /\ PcTypes' /\ pc'[o] = "removeInOrder" /\ pc'[h] = "left"
         /\ \A p \in Procs \ {h, o} : pc'[p] = pc[p]
BY Kinds DEF PcTypes, TakeRemoval, HandlerPc, RoomPc

\* Every goroutine stays within the control points of its kind.
LEMMA PcTypesStep ==
  ASSUME PcTypes, Next \/ UNCHANGED vars
  PROVE  PcTypes'
<1>1. CASE UNCHANGED pc
  BY <1>1 DEF PcTypes
<1> QED
  BY <1>1, NextCases, HandlerStepMoves, RoomStepMoves, MonitorStepMoves, CreateMoves,
     TakeRemovalMoves DEF Request, Cancel, vars

-----------------------------------------------------------------------------
\* The directory.

\* Rooms are created, never removed nor replaced.
LEMMA DirectoryGrows ==
  ASSUME PcTypes, DirectoryTypes, Next \/ UNCHANGED vars
  PROVE  \A id \in RoomIds : rooms[id] # None => rooms'[id] = rooms[id]
<1>1. CASE UNCHANGED rooms
  BY <1>1
<1>2. ASSUME NEW h \in Handlers, Create(h)
      PROVE  \A id \in RoomIds : rooms[id] # None => rooms'[id] = rooms[id]
  BY <1>2, CreateMoves DEF Exists, DirectoryTypes
<1> QED
  BY <1>1, <1>2, NextCases
  DEF HandlerStep, Lookup, Relookup, JoinRefused, Join, Index, ScheduleRemoveUser,
      LookupToRemove, RemoveUserFromRoom, RemoveFromUserRooms, RoomStep, RemoveInOrder,
      UnindexInOrder, FanOut, FanOutDone, RoomContextDone, CloseAll, TakeRemoval,
      MonitorStep, WalkStart, Visit, VisitDone, WalkDone, Sessions, SessionsDone, Request,
      Cancel, vars, dataVars

\* A room that has been created stays so.
LEMMA RoomsStay ==
  ASSUME PcTypes, Next \/ UNCHANGED vars, NEW o \in Rooms, pc[o] # "none"
  PROVE  pc'[o] # "none"
<1>1. CASE UNCHANGED pc
  BY <1>1
<1>2. ASSUME NEW h \in Handlers, HandlerStep(h) \/ Create(h)
      PROVE  pc'[o] # "none"
  BY <1>2, HandlerStepMoves, CreateMoves, Kinds
<1>3. ASSUME NEW q \in Rooms, RoomStep(q)
      PROVE  pc'[o] # "none"
  <2>1. \E label \in RoomPc \ {"none"} : Goto(q, label)
    BY <1>3 DEF RoomStep, RoomPc, RemoveInOrder, UnindexInOrder, FanOut, FanOutDone,
                RoomContextDone, CloseAll
  <2> QED
    BY <2>1, RoomMove, Kinds
<1>4. ASSUME NEW q \in Rooms, NEW h \in Handlers, TakeRemoval(q, h)
      PROVE  pc'[o] # "none"
  BY <1>4, TakeRemovalMoves, Kinds
<1>5. ASSUME NEW m \in Monitors, MonitorStep(m)
      PROVE  pc'[o] # "none"
  BY <1>5, MonitorStepMoves, Kinds
<1> QED
  BY <1>1, <1>2, <1>3, <1>4, <1>5, NextCases DEF Request, Cancel, vars

\* The consumers' handlers follow the directory.
LEMMA DirectoryStep ==
  ASSUME PcTypes, DirectoryTypes, Next \/ UNCHANGED vars
  PROVE  DirectoryTypes'
<1>1. CASE UNCHANGED <<rooms, consumer>>
  BY <1>1, RoomsStay DEF DirectoryTypes
<1>2. ASSUME NEW h \in Handlers, Create(h)
      PROVE  DirectoryTypes'
  <2>1. RoomOf[h] \in RoomIds
    BY RoomDirectoryAssumption
  <2>2. CASE Exists(RoomOf[h])
    BY <1>1, <1>2, <2>2, CreateMoves
  <2>3. ASSUME NEW o \in Rooms,
               ~Exists(RoomOf[h]), pc[o] = "none", pc'[o] = "loop",
               rooms' = [rooms EXCEPT ![RoomOf[h]] = o],
               consumer' = IF RoomOf[h] \in Consumed
                           THEN [consumer EXCEPT ![RoomOf[h]] = o] ELSE consumer
        PROVE  DirectoryTypes'
    <3>1. /\ rooms' \in [RoomIds -> Rooms \cup {None}]
          /\ consumer' \in [RoomIds -> Rooms \cup {None}]
      BY <2>3 DEF DirectoryTypes
    <3>2. ASSUME NEW id \in RoomIds
          PROVE  /\ rooms'[id] # None => pc'[rooms'[id]] # "none"
                 /\ consumer'[id] = IF id \in Consumed THEN rooms'[id] ELSE None
      <4>1. CASE id = RoomOf[h]
        <5>1. rooms'[id] = o
          BY <2>3, <4>1 DEF DirectoryTypes
        <5>2. CASE id \in Consumed
          BY <5>1, <5>2, <2>3, <4>1 DEF DirectoryTypes
        <5>3. CASE id \notin Consumed
          BY <5>1, <5>3, <2>3, <4>1 DEF DirectoryTypes, KnownRooms, Exists
        <5> QED
          BY <5>2, <5>3
      <4>2. CASE id # RoomOf[h]
        <5>1. rooms'[id] = rooms[id] /\ consumer'[id] = consumer[id]
          BY <2>3, <4>2 DEF DirectoryTypes
        <5> QED
          BY <5>1, RoomsStay DEF DirectoryTypes
      <4> QED
        BY <4>1, <4>2
    <3>3. \A i, j \in RoomIds : rooms'[i] = rooms'[j] /\ rooms'[i] # None => i = j
      BY <2>3 DEF DirectoryTypes
    <3> QED
      BY <3>1, <3>2, <3>3 DEF DirectoryTypes
  <2> QED
    BY <1>2, <2>2, <2>3, CreateMoves
<1> QED
  BY <1>1, <1>2, NextCases
  DEF HandlerStep, Lookup, Relookup, JoinRefused, Join, Index, ScheduleRemoveUser,
      LookupToRemove, RemoveUserFromRoom, RemoveFromUserRooms, RoomStep, RemoveInOrder,
      UnindexInOrder, FanOut, FanOutDone, RoomContextDone, CloseAll, TakeRemoval,
      MonitorStep, WalkStart, Visit, VisitDone, WalkDone, Sessions, SessionsDone, Request,
      Cancel, vars, dataVars

\* Local variables keep their types.
LEMMA LocalStep ==
  ASSUME PcTypes, DirectoryTypes, LocalTypes, Next \/ UNCHANGED vars
  PROVE  LocalTypes'
<1>0. \A h \in Handlers : RoomOf[h] \in RoomIds /\ UserOf[h] \in UserIds
  BY RoomDirectoryAssumption
<1>a. ASSUME NEW p \in Handlers \cup Monitors, NEW id \in RoomIds,
             room' = [room EXCEPT ![p] = rooms[id]]
      PROVE  room' \in [Handlers \cup Monitors -> Rooms \cup {None}]
  BY <1>a DEF LocalTypes, DirectoryTypes
<1>b. ASSUME NEW p \in Handlers \cup Monitors, NEW q \in Rooms \cup {None},
             room' = [room EXCEPT ![p] = q]
      PROVE  room' \in [Handlers \cup Monitors -> Rooms \cup {None}]
  BY <1>b DEF LocalTypes
<1>1. CASE UNCHANGED <<pc, room, departing>>
  BY <1>1 DEF LocalTypes
<1>2. ASSUME NEW h \in Handlers, HandlerStep(h)
      PROVE  LocalTypes'
  <2>1. \A o \in Rooms : pc'[o] = pc[o]
    BY <1>2, HandlerStepMoves, Kinds
  <2>2. /\ UNCHANGED departing
        /\ UNCHANGED room \/ room' = [room EXCEPT ![h] = rooms[RoomOf[h]]]
    BY <1>2 DEF HandlerStep, Lookup, Relookup, JoinRefused, Join, Index, ScheduleRemoveUser,
                LookupToRemove, RemoveUserFromRoom, RemoveFromUserRooms
  <2>3. room' \in [Handlers \cup Monitors -> Rooms \cup {None}]
    BY <2>2, <1>0, <1>a DEF LocalTypes
  <2> QED
    BY <2>1, <2>2, <2>3 DEF LocalTypes
<1>3. ASSUME NEW h \in Handlers, Create(h)
      PROVE  LocalTypes'
  <2>1. \A o \in Rooms : pc'[o] = pc[o] \/ pc'[o] = "loop"
    BY <1>3, CreateMoves, Kinds
  <2>2. UNCHANGED <<room, departing>>
    BY <1>3 DEF Create
  <2> QED
    BY <2>1, <2>2 DEF LocalTypes
<1>4. ASSUME NEW o \in Rooms, RoomStep(o)
      PROVE  LocalTypes'
  <2>1. UNCHANGED <<room, departing>>
    BY <1>4 DEF RoomStep, RemoveInOrder, UnindexInOrder, FanOut, FanOutDone,
                RoomContextDone, CloseAll
  <2>2. \E label \in RoomPc : /\ Goto(o, label)
                              /\ label \in {"removeInOrder", "unindexInOrder"} => pc[o] = "removeInOrder"
    BY <1>4 DEF RoomStep, RoomPc, RemoveInOrder, UnindexInOrder, FanOut, FanOutDone,
                RoomContextDone, CloseAll
  <2>3. \A q \in Rooms : pc'[q] \in {"removeInOrder", "unindexInOrder"} =>
                           pc[q] \in {"removeInOrder", "unindexInOrder"}
    BY <2>2, RoomMove, Kinds
  <2> QED
    BY <2>1, <2>3 DEF LocalTypes
<1>5. ASSUME NEW o \in Rooms, NEW h \in Handlers, TakeRemoval(o, h)
      PROVE  LocalTypes'
  <2>1. /\ departing' = [departing EXCEPT ![o] = UserOf[h]] /\ UNCHANGED room
        /\ \A q \in Rooms \ {o} : pc'[q] = pc[q]
    <3>1. \A q \in Rooms \ {o} : pc'[q] = pc[q]
      BY <1>5, TakeRemovalMoves, Kinds
    <3> QED
      BY <1>5, <3>1 DEF TakeRemoval
  <2> QED
    BY <2>1, <1>0 DEF LocalTypes
<1>6. ASSUME NEW m \in Monitors, MonitorStep(m)
      PROVE  LocalTypes'
  <2>1. \A o \in Rooms : pc'[o] = pc[o]
    BY <1>6, MonitorStepMoves, Kinds
  <2>2. /\ UNCHANGED departing
        /\ UNCHANGED room \/ \E id \in RoomIds : room' = [room EXCEPT ![m] = rooms[id]]
    BY <1>6 DEF MonitorStep, WalkStart, Visit, VisitDone, WalkDone, Sessions, SessionsDone
  <2>3. room' \in [Handlers \cup Monitors -> Rooms \cup {None}]
    BY <2>2, <1>a DEF LocalTypes
  <2> QED
    BY <2>1, <2>2, <2>3 DEF LocalTypes
<1> QED
  BY <1>1, <1>2, <1>3, <1>4, <1>5, <1>6, NextCases DEF Request, Cancel, vars

\* Whoever has looked a room up has found that of the directory.
LEMMA LookedUpStep ==
  ASSUME PcTypes, DirectoryTypes, LocalTypes, LookedUp, Next \/ UNCHANGED vars
  PROVE  LookedUp'
<1> DEFINE Past == {"join", "index", "member", "scheduled", "remove", "unindex"}
<1>0. \A h \in Handlers : RoomOf[h] \in RoomIds
  BY RoomDirectoryAssumption
<1>g. \A id \in RoomIds : rooms[id] # None => rooms'[id] = rooms[id]
  BY DirectoryGrows
<1>t. KnownRooms \subseteq KnownRooms'
  BY <1>g DEF KnownRooms
<1>1. ASSUME NEW h \in Handlers, pc'[h] = pc[h], room'[h] = room[h]
      PROVE  /\ pc'[h] \in Past => room'[h] # None /\ room'[h] = rooms'[RoomOf[h]]
             /\ pc'[h] = "relookup" => rooms'[RoomOf[h]] # None
  BY <1>0, <1>1, <1>g DEF LookedUp
<1>2. ASSUME UNCHANGED todo, \A m \in Monitors : pc'[m] = pc[m] /\ room'[m] = room[m]
      PROVE  /\ todo' \in [Monitors -> SUBSET KnownRooms']
             /\ \A m \in Monitors : pc'[m] = "visit" => room'[m] \in Rooms
  BY <1>2, <1>t DEF LookedUp
<1>3. ASSUME NEW h \in Handlers, HandlerStep(h)
      PROVE  LookedUp'
  <2>1. /\ UNCHANGED <<todo, rooms>>
        /\ \A p \in (Handlers \cup Monitors) \ {h} : pc'[p] = pc[p] /\ room'[p] = room[p]
    <3>1. \A p \in (Handlers \cup Monitors) \ {h} : pc'[p] = pc[p]
      BY <1>3, HandlerStepMoves DEF Procs
    <3>2. /\ UNCHANGED <<todo, rooms>>
          /\ UNCHANGED room \/ room' = [room EXCEPT ![h] = rooms[RoomOf[h]]]
      BY <1>3 DEF HandlerStep, Lookup, Relookup, JoinRefused, Join, Index,
                  ScheduleRemoveUser, LookupToRemove, RemoveUserFromRoom,
                  RemoveFromUserRooms, dataVars
    <3> QED
      BY <3>1, <3>2 DEF LocalTypes
  <2>2. /\ pc'[h] \in Past => room'[h] # None /\ room'[h] = rooms[RoomOf[h]]
        /\ pc'[h] # "relookup"
    <3>1. CASE Lookup(h)
      BY <3>1, <1>0, HandlerMove DEF Lookup, LocalTypes, HandlerPc
    <3>2. CASE Relookup(h)
      <4>1. /\ pc[h] = "relookup" /\ room' = [room EXCEPT ![h] = rooms[RoomOf[h]]]
            /\ Goto(h, "join")
        BY <3>2 DEF Relookup
      <4> QED
        BY <4>1, HandlerMove DEF LocalTypes, LookedUp, HandlerPc
    <3>3. CASE LookupToRemove(h)
      <4>1. /\ pc[h] = "member" /\ room' = [room EXCEPT ![h] = rooms[RoomOf[h]]]
            /\ Goto(h, "remove")
        BY <3>3 DEF LookupToRemove
      <4> QED
        BY <4>1, HandlerMove DEF LocalTypes, LookedUp, HandlerPc
    <3>4. CASE JoinRefused(h) \/ Join(h) \/ Index(h) \/ ScheduleRemoveUser(h)
               \/ RemoveUserFromRoom(h) \/ RemoveFromUserRooms(h)
      <4>1. /\ pc[h] \in Past /\ UNCHANGED room
            /\ \E label \in HandlerPc \ {"relookup"} : Goto(h, label)
        BY <3>4 DEF JoinRefused, Join, Index, ScheduleRemoveUser, RemoveUserFromRoom,
                    RemoveFromUserRooms, HandlerPc
      <4> QED
        BY <4>1, HandlerMove DEF LookedUp
    <3> QED
      BY <1>3, <3>1, <3>2, <3>3, <3>4 DEF HandlerStep
  <2> QED
    BY <2>1, <2>2, <1>1, <1>2, Kinds DEF LookedUp
<1>4. ASSUME NEW h \in Handlers, Create(h)
      PROVE  LookedUp'
  <2>1. /\ UNCHANGED <<room, todo>> /\ pc'[h] = "relookup"
        /\ \A p \in (Handlers \cup Monitors) \ {h} : pc'[p] = pc[p]
    BY <1>4, CreateMoves, Kinds DEF Create, Procs
  <2>2. rooms'[RoomOf[h]] # None
    <3>1. CASE Exists(RoomOf[h])
      BY <3>1, <1>0, <1>g DEF Exists
    <3>2. CASE ~Exists(RoomOf[h])
      BY <3>2, <1>0, <1>4, CreateMoves, Kinds DEF DirectoryTypes
    <3> QED
      BY <3>1, <3>2
  <2> QED
    BY <2>1, <2>2, <1>1, <1>2, Kinds DEF LookedUp
<1>5. ASSUME NEW o \in Rooms, RoomStep(o)
      PROVE  LookedUp'
  <2>1. /\ UNCHANGED <<room, todo>>
        /\ \A p \in Handlers \cup Monitors : pc'[p] = pc[p]
    BY <1>5, RoomStepMoves, Kinds
    DEF RoomStep, RemoveInOrder, UnindexInOrder, FanOut, FanOutDone, RoomContextDone,
        CloseAll, Procs
  <2> QED
    BY <2>1, <1>1, <1>2 DEF LookedUp
<1>6. ASSUME NEW o \in Rooms, NEW h \in Handlers, TakeRemoval(o, h)
      PROVE  LookedUp'
  <2>1. /\ UNCHANGED <<room, todo>> /\ pc'[h] = "left"
        /\ \A p \in (Handlers \cup Monitors) \ {h} : pc'[p] = pc[p]
    <3>1. pc'[h] = "left" /\ \A p \in (Handlers \cup Monitors) \ {h} : pc'[p] = pc[p]
      BY <1>6, TakeRemovalMoves, Kinds
    <3> QED
      BY <1>6, <3>1 DEF TakeRemoval
  <2> QED
    BY <2>1, <1>1, <1>2, Kinds DEF LookedUp
<1>7. ASSUME NEW m \in Monitors, MonitorStep(m)
      PROVE  LookedUp'
  <2>1. /\ UNCHANGED rooms
        /\ \A p \in (Handlers \cup Monitors) \ {m} : pc'[p] = pc[p] /\ room'[p] = room[p]
    <3>1. \A p \in (Handlers \cup Monitors) \ {m} : pc'[p] = pc[p]
      BY <1>7, MonitorStepMoves DEF Procs
    <3>2. /\ UNCHANGED rooms
          /\ UNCHANGED room \/ \E id \in RoomIds : room' = [room EXCEPT ![m] = rooms[id]]
      BY <1>7 DEF MonitorStep, WalkStart, Visit, VisitDone, WalkDone, Sessions,
                  SessionsDone, dataVars
    <3> QED
      BY <3>1, <3>2 DEF LocalTypes
  <2>2. todo' \in [Monitors -> SUBSET KnownRooms]
    <3>1. \/ UNCHANGED todo
          \/ todo' = [todo EXCEPT ![m] = KnownRooms]
          \/ \E id \in RoomIds : todo' = [todo EXCEPT ![m] = @ \ {id}]
      BY <1>7 DEF MonitorStep, WalkStart, Visit, VisitDone, WalkDone, Sessions, SessionsDone
    <3> QED
      BY <3>1 DEF LookedUp
  <2>3. pc'[m] = "visit" => room'[m] \in Rooms
    <3>1. ASSUME NEW id \in RoomIds, Visit(m, id)
          PROVE  room'[m] \in Rooms
      <4>1. id \in todo[m] /\ room' = [room EXCEPT ![m] = rooms[id]]
        BY <3>1 DEF Visit
      <4>2. rooms[id] \in Rooms
        BY <4>1 DEF LookedUp, KnownRooms, DirectoryTypes
      <4> QED
        BY <4>1, <4>2 DEF LocalTypes
    <3>2. CASE WalkStart(m) \/ VisitDone(m) \/ Sessions(m) \/ SessionsDone(m)
               \/ \E metrics \in BOOLEAN : WalkDone(m, metrics)
      <4>1. \E label \in MonitorPc \ {"visit"} : Goto(m, label)
        BY <3>2 DEF WalkStart, VisitDone, WalkDone, Sessions, SessionsDone, MonitorPc
      <4> QED
        BY <4>1, MonitorMove
    <3> QED
      BY <1>7, <3>1, <3>2 DEF MonitorStep
  <2>4. KnownRooms' = KnownRooms
    BY <2>1 DEF KnownRooms
  <2> QED
    BY <2>1, <2>2, <2>3, <2>4, <1>1, Kinds DEF LookedUp
<1>8. CASE UNCHANGED <<pc, room, todo>>
  BY <1>8, <1>1, <1>2 DEF LookedUp
<1> QED
  BY <1>3, <1>4, <1>5, <1>6, <1>7, <1>8, NextCases DEF Request, Cancel, vars

\* Counting up or down keeps a function's type, inside its domain or outside.
LEMMA CountersStay ==
  ASSUME NEW S, NEW f \in [S -> Nat], NEW i
  PROVE  /\ [f EXCEPT ![i] = @ + 1] \in [S -> Nat]
         /\ [f EXCEPT ![i] = IF @ > 0 THEN @ - 1 ELSE @] \in [S -> Nat]
<1>1. CASE i \in S
  <2>1. f[i] \in Nat
    BY <1>1
  <2>2. f[i] + 1 \in Nat /\ (IF f[i] > 0 THEN f[i] - 1 ELSE f[i]) \in Nat
    BY <2>1
  <2> QED
    BY <2>2, Zenon
<1>2. CASE i \notin S
  BY <1>2, Zenon
<1> QED
  BY <1>1, <1>2

\* The maps keep their types.
LEMMA DataStep ==
  ASSUME PcTypes, LocalTypes, DirectoryTypes, LookedUp, DataTypes, Next \/ UNCHANGED vars
  PROVE  DataTypes'
<1>0. \A h \in Handlers : RoomOf[h] \in RoomIds /\ UserOf[h] \in UserIds
  BY RoomDirectoryAssumption
<1>1. ASSUME NEW o \in Rooms, NEW u \in UserIds, NEW h \in Handlers \cup {None},
             users' = [users EXCEPT ![o][u] = h], UNCHANGED <<userRooms, ctxDone>>
      PROVE  DataTypes'
  BY <1>1 DEF DataTypes
<1>2. ASSUME NEW u \in UserIds, NEW id,
             \/ userRooms' = [userRooms EXCEPT ![u][id] = @ + 1]
             \/ DropFromUserRooms(u, id),
             UNCHANGED <<users, ctxDone>>
      PROVE  DataTypes'
  <2>1. userRooms[u] \in [RoomIds -> Nat]
    BY DEF DataTypes
  <2>2. [userRooms[u] EXCEPT ![id] = @ + 1] \in [RoomIds -> Nat]
    BY <2>1, CountersStay
  <2>3. [userRooms[u] EXCEPT ![id] = IF @ > 0 THEN @ - 1 ELSE @] \in [RoomIds -> Nat]
    BY <2>1, CountersStay
  <2>4. \/ userRooms' = [userRooms EXCEPT ![u] = [userRooms[u] EXCEPT ![id] = @ + 1]]
        \/ userRooms' = [userRooms EXCEPT ![u] =
                           [userRooms[u] EXCEPT ![id] = IF @ > 0 THEN @ - 1 ELSE @]]
    BY <1>2 DEF DropFromUserRooms
  <2>5. userRooms' \in [UserIds -> [RoomIds -> Nat]]
    BY <2>2, <2>3, <2>4 DEF DataTypes
  <2> QED
    BY <1>2, <2>5 DEF DataTypes
<1>3. CASE UNCHANGED <<users, userRooms, ctxDone>>
  BY <1>3 DEF DataTypes
<1>4. ASSUME NEW h \in Handlers, Join(h) \/ RemoveUserFromRoom(h)
      PROVE  DataTypes'
  <2>1. room[h] \in Rooms
    BY <1>4 DEF Join, RemoveUserFromRoom, LookedUp, LocalTypes
  <2> QED
    BY <1>0, <1>1, <1>4, <2>1 DEF Join, RemoveUserFromRoom
<1>5. ASSUME NEW h \in Handlers, Index(h) \/ RemoveFromUserRooms(h)
      PROVE  DataTypes'
  BY <1>0, <1>2, <1>5 DEF Index, RemoveFromUserRooms
<1>6. ASSUME NEW o \in Rooms, RemoveInOrder(o)
      PROVE  DataTypes'
  BY <1>1, <1>6 DEF RemoveInOrder, LocalTypes
<1>7. ASSUME NEW o \in Rooms, UnindexInOrder(o)
      PROVE  DataTypes'
  BY <1>2, <1>7 DEF UnindexInOrder, LocalTypes
<1>8. CASE Cancel
  BY <1>8 DEF Cancel, DataTypes, dataVars
<1> QED
  BY <1>3, <1>4, <1>5, <1>6, <1>7, <1>8, NextCases
  DEF HandlerStep, Lookup, Relookup, JoinRefused, ScheduleRemoveUser, LookupToRemove,
      Create, RoomStep, FanOut, FanOutDone, RoomContextDone, CloseAll, TakeRemoval,
      MonitorStep, WalkStart, Visit, VisitDone, WalkDone, Sessions, SessionsDone, Request,
      vars, dataVars

-----------------------------------------------------------------------------
\* Locks held for writing.

\* Server.Mu, UserRoomMu and the rooms' locks are different locks.
LEMMA LockKinds ==
  /\ ServerMu \in Locks /\ UserRoomMu \in Locks /\ Rooms \subseteq Locks
  /\ ServerMu # UserRoomMu /\ \A o \in Rooms : o # ServerMu /\ o # UserRoomMu
BY RoomDirectoryAssumption DEF Locks

\* What the goroutines that write wait for.
LEMMA Wanted ==
  ASSUME PcTypes, LocalTypes, LookedUp
  PROVE  /\ \A h \in Handlers :
              WriteWant(h) = CASE pc[h] = "create" -> ServerMu
                               [] pc[h] \in {"join", "remove"} -> room[h]
                               [] pc[h] \in {"index", "unindex"} -> UserRoomMu
                               [] OTHER -> None
         /\ \A o \in Rooms :
              WriteWant(o) = CASE pc[o] \in {"removeInOrder", "closeAll"} -> o
                               [] pc[o] = "unindexInOrder" -> UserRoomMu
                               [] OTHER -> None
         /\ \A h \in Handlers : pc[h] \in {"join", "index", "remove", "unindex"} => room[h] \in Rooms
<1>1. \A h \in Handlers : pc[h] \in {"join", "index", "remove", "unindex"} => room[h] \in Rooms
  BY DEF LookedUp, LocalTypes
<1>2. ASSUME NEW h \in Handlers
      PROVE  WriteWant(h) = CASE pc[h] = "create" -> ServerMu
                              [] pc[h] \in {"join", "remove"} -> room[h]
                              [] pc[h] \in {"index", "unindex"} -> UserRoomMu
                              [] OTHER -> None
  <2>1. pc[h] \in HandlerPc
    BY DEF PcTypes
  <2> QED
    BY <2>1 DEF WriteWant, HandlerPc
<1>3. ASSUME NEW o \in Rooms
      PROVE  WriteWant(o) = CASE pc[o] \in {"removeInOrder", "closeAll"} -> o
                              [] pc[o] = "unindexInOrder" -> UserRoomMu
                              [] OTHER -> None
  <2>1. pc[o] \in RoomPc
    BY DEF PcTypes
  <2> QED
    BY <2>1 DEF WriteWant, RoomPc
<1> QED
  BY <1>1, <1>2, <1>3

\* Who does not move keeps waiting for the same lock.
LEMMA WantStays ==
  ASSUME PcTypes, NEW p \in Handlers \cup Rooms, pc'[p] = pc[p],
         p \in Handlers => room'[p] = room[p]
  PROVE  WriteWant(p)' = WriteWant(p)
<1>1. CASE p \in Handlers
  BY <1>1 DEF WriteWant
<1>2. CASE p \in Rooms
  <2>1. pc[p] \in RoomPc
    BY <1>2 DEF PcTypes
  <2> QED
    BY <2>1 DEF WriteWant, RoomPc
<1> QED
  BY <1>1, <1>2

\* A step of the goroutines M: the others keep their locks, and M's locks are
\* those their next steps release or wait for.
LEMMA WriterStep ==
  ASSUME PcTypes, WritersAt, NEW M,
         writer' \in [Locks -> Procs \cup {None}],
         \A p \in Procs \ M : pc'[p] = pc[p],
         \A h \in Handlers \ M : room'[h] = room[h],
         \A l \in Locks, p \in Procs \ M : writer'[l] = p <=> writer[l] = p,
         \A l \in Locks, p \in M : writer'[l] = p => WritesAt(p, l)',
         \A h \in Handlers \cap M : Inside(h)' => room'[h] \in Rooms /\ writer'[room'[h]] = h
  PROVE  WritersAt'
<1>1. ASSUME NEW l \in Locks, NEW p \in Procs, writer'[l] = p
      PROVE  WritesAt(p, l)'
  <2>1. CASE p \in M
    BY <1>1, <2>1
  <2>2. CASE p \notin M
    <3>1. WritesAt(p, l)
      BY <1>1, <2>2 DEF WritersAt
    <3>2. pc'[p] = pc[p] /\ (p \in Handlers => room'[p] = room[p]) /\ p \in Handlers \cup Rooms
      BY <2>2, <3>1 DEF WritesAt
    <3>3. WriteWant(p)' = WriteWant(p)
      BY <3>2, WantStays
    <3> QED
      BY <3>1, <3>2, <3>3 DEF WritesAt, Inside
  <2> QED
    BY <2>1, <2>2
<1>2. ASSUME NEW h \in Handlers, Inside(h)'
      PROVE  room'[h] \in Rooms /\ writer'[room'[h]] = h
  <2>1. CASE h \in M
    BY <1>2, <2>1
  <2>2. CASE h \notin M
    <3>1. pc'[h] = pc[h] /\ room'[h] = room[h]
      BY <2>2, Kinds
    <3>2. room[h] \in Rooms /\ writer[room[h]] = h
      BY <3>1, <1>2 DEF Inside, WritersAt
    <3> QED
      BY <2>2, <3>1, <3>2, Kinds, LockKinds
  <2> QED
    BY <2>1, <2>2
<1> QED
  BY <1>1, <1>2 DEF WritersAt

\* The goroutines M release the locks S: all that they hold, and none that
\* another goroutine holds.
LEMMA ReleaseStep ==
  ASSUME PcTypes, WritersAt, NEW M, None \notin M, NEW S,
         Unlock(S),
         \A l \in Locks \cap S : writer[l] \in M \cup {None},
         \A l \in Locks \ S : writer[l] \notin M,
         \A p \in Procs \ M : pc'[p] = pc[p],
         \A h \in Handlers \ M : room'[h] = room[h],
         \A h \in Handlers \cap M : ~Inside(h)'
  PROVE  WritersAt'
<1>1. \A l \in Locks : writer'[l] = IF l \in S THEN None ELSE writer[l]
  BY DEF Unlock
<1>2. writer' \in [Locks -> Procs \cup {None}]
  BY DEF WritersAt, Unlock
<1>3. \A l \in Locks, p \in Procs \ M : writer'[l] = p <=> writer[l] = p
  BY <1>1, Kinds
<1>4. \A l \in Locks : writer'[l] \notin M
  BY <1>1
<1> QED
  BY <1>2, <1>3, <1>4, WriterStep

\* Steps that leave the writers alone are steps of goroutines that have none.
LEMMA NoWriterStep ==
  ASSUME PcTypes, WritersAt, NEW M, None \notin M, UNCHANGED writer,
         \A l \in Locks : writer[l] \notin M,
         \A p \in Procs \ M : pc'[p] = pc[p],
         \A h \in Handlers \ M : room'[h] = room[h],
         \A h \in Handlers \cap M : ~Inside(h)'
  PROVE  WritersAt'
<1>1. Unlock({})
  BY DEF Unlock, WritersAt
<1> QED
  BY <1>1, ReleaseStep

\* Where a handler is entered as the writer.
LEMMA HandlerWrites ==
  ASSUME PcTypes, LocalTypes, LookedUp, WritersAt, NEW h \in Handlers, NEW l \in Locks,
         writer[l] = h
  PROVE  \/ pc[h] = "create" /\ l = ServerMu
         \/ pc[h] \in {"join", "remove"} /\ l = room[h]
         \/ pc[h] \in {"index", "unindex"} /\ l \in {UserRoomMu, room[h]}
<1>1. l = WriteWant(h) \/ (Inside(h) /\ l = room[h])
  BY Kinds DEF WritersAt, WritesAt
<1>2. l # None
  BY Kinds
<1> QED
  BY <1>1, <1>2, Wanted DEF Inside

\* Where a broadcast goroutine is.
LEMMA RoomWrites ==
  ASSUME PcTypes, LocalTypes, LookedUp, WritersAt, NEW o \in Rooms, NEW l \in Locks,
         writer[l] = o
  PROVE  \/ pc[o] \in {"removeInOrder", "closeAll"} /\ l = o
         \/ pc[o] = "unindexInOrder" /\ l = UserRoomMu
<1>1. l = WriteWant(o)
  BY Kinds DEF WritersAt, WritesAt
<1>2. l # None
  BY Kinds
<1> QED
  BY <1>1, <1>2, Wanted

\* Handlers take and release their locks as WritersAt says.
LEMMA HandlerWriters ==
  ASSUME PcTypes, LocalTypes, LookedUp, WritersAt, NEW h \in Handlers, HandlerStep(h)
  PROVE  WritersAt'
<1> DEFINE M == {h}
<1>1. /\ None \notin M /\ \A p \in Procs \ M : pc'[p] = pc[p]
      /\ \A l \in Locks : writer[l] = h =>
           \/ pc[h] = "create" /\ l = ServerMu
           \/ pc[h] \in {"join", "remove"} /\ l = room[h]
           \/ pc[h] \in {"index", "unindex"} /\ l \in {UserRoomMu, room[h]}
  BY HandlerStepMoves, HandlerWrites, Kinds
<1>2. \A g \in Handlers \ M : room'[g] = room[g]
  <2>1. UNCHANGED room \/ room' = [room EXCEPT ![h] = rooms[RoomOf[h]]]
    BY DEF HandlerStep, Lookup, Relookup, JoinRefused, Join, Index, ScheduleRemoveUser,
           LookupToRemove, RemoveUserFromRoom, RemoveFromUserRooms
  <2> QED
    BY <2>1 DEF LocalTypes
<1>3. CASE Lookup(h) \/ Relookup(h) \/ ScheduleRemoveUser(h) \/ LookupToRemove(h)
  <2>1. /\ UNCHANGED writer /\ pc[h] \in {"idle", "relookup", "member"}
        /\ \E label \in HandlerPc \ {"index", "unindex"} : Goto(h, label)
    BY <1>3 DEF Lookup, Relookup, ScheduleRemoveUser, LookupToRemove, lockVars, HandlerPc
  <2>2. ~Inside(h)'
    BY <2>1, HandlerMove DEF Inside
  <2> QED
    BY <1>1, <1>2, <2>1, <2>2, NoWriterStep
<1>4. ASSUME NEW S, Unlock(S), \E label \in HandlerPc \ {"index", "unindex"} : Goto(h, label),
             \/ pc[h] \in {"join", "remove"} /\ S = {room[h]}
             \/ pc[h] \in {"index", "unindex"} /\ S = {UserRoomMu, room[h]},
             \A l \in S : writer[l] \in {None, h}
      PROVE  WritersAt'
  <2>1. ~Inside(h)'
    BY <1>4, HandlerMove DEF Inside
  <2>2. \A l \in Locks \ S : writer[l] \notin M
    BY <1>1, <1>4
  <2>3. \A l \in Locks \cap S : writer[l] \in M \cup {None}
    BY <1>4
  <2>4. \A g \in Handlers \cap M : ~Inside(g)'
    BY <2>1
  <2> HIDE DEF M
  <2> QED
    BY <1>1, <1>2, <1>4, <2>2, <2>3, <2>4, ReleaseStep
<1>5. ASSUME pc[h] \in {"join", "remove"}, Keep(h, room[h]), Locked(h, room[h]),
             UNCHANGED room, \E label \in {"index", "unindex"} : Goto(h, label)
      PROVE  WritersAt'
  <2>1. room[h] \in Rooms /\ room[h] \in Locks
    BY <1>5, Wanted, LockKinds
  <2>2. /\ writer' \in [Locks -> Procs \cup {None}]
        /\ writer'[room[h]] = h
        /\ \A l \in Locks \ {room[h]} : writer'[l] = writer[l]
        /\ writer[room[h]] \in {None, h}
    BY <1>5, <2>1, Kinds DEF Keep, Locked, WritersAt
  <2>3. Inside(h)' /\ room'[h] = room[h]
    BY <1>5, HandlerMove DEF Inside, HandlerPc
  <2>4. \A l \in Locks, p \in Procs \ M : writer'[l] = p <=> writer[l] = p
    BY <2>2, Kinds
  <2>5. \A l \in Locks : writer'[l] = h => l = room[h]
    BY <2>2, <1>1, <1>5
  <2>6. h \in Handlers /\ pc'[h] \in {"index", "unindex"}
    BY <2>3 DEF Inside
  <2>7. \A l \in Locks, p \in M : writer'[l] = p => WritesAt(p, l)'
    BY <2>3, <2>5, <2>6 DEF WritesAt, Inside
  <2>8. \A g \in Handlers \cap M : Inside(g)' => room'[g] \in Rooms /\ writer'[room'[g]] = g
    BY <2>1, <2>2, <2>3
  <2> HIDE DEF M
  <2> QED
    BY <1>1, <1>2, <2>2, <2>4, <2>7, <2>8, WriterStep
<1>6. CASE JoinRefused(h)
  <2>1. /\ Unlock({room[h]}) /\ pc[h] = "join" /\ Goto(h, "gone")
        /\ writer[room[h]] \in {None, h}
    BY <1>6 DEF JoinRefused, Locked
  <2> QED
    BY <2>1, <1>4 DEF HandlerPc
<1>7. CASE Index(h) \/ RemoveFromUserRooms(h)
  <2>1. /\ Unlock({UserRoomMu, room[h]}) /\ Inside(h)
        /\ \E label \in {"member", "left"} : Goto(h, label)
        /\ writer[UserRoomMu] \in {None, h}
    BY <1>7 DEF Index, RemoveFromUserRooms, Locked, Inside
  <2>2. writer[room[h]] = h
    BY <2>1 DEF WritersAt
  <2> QED
    BY <2>1, <2>2, <1>4 DEF HandlerPc, Inside
<1>8. CASE Join(h)
  BY <1>8, <1>5 DEF Join
<1>9. CASE RemoveUserFromRoom(h)
  <2>1. CASE users[room[h]][UserOf[h]] # None
    BY <1>9, <2>1, <1>5 DEF RemoveUserFromRoom
  <2>2. CASE users[room[h]][UserOf[h]] = None
    <3>1. /\ Unlock({room[h]}) /\ pc[h] = "remove" /\ Goto(h, "left")
          /\ writer[room[h]] \in {None, h}
      BY <1>9, <2>2 DEF RemoveUserFromRoom, Locked
    <3> QED
      BY <3>1, <1>4 DEF HandlerPc
  <2> QED
    BY <2>1, <2>2
<1> QED
  BY <1>3, <1>6, <1>7, <1>8, <1>9 DEF HandlerStep

\* Broadcast goroutines do.
LEMMA RoomWriters ==
  ASSUME PcTypes, LocalTypes, LookedUp, WritersAt, NEW o \in Rooms, RoomStep(o)
  PROVE  WritersAt'
<1> DEFINE M == {o}
<1>1. /\ None \notin M /\ \A p \in Procs \ M : pc'[p] = pc[p]
      /\ \A l \in Locks : writer[l] = o =>
           \/ pc[o] \in {"removeInOrder", "closeAll"} /\ l = o
           \/ pc[o] = "unindexInOrder" /\ l = UserRoomMu
      /\ Handlers \cap M = {}
  BY RoomStepMoves, RoomWrites, Kinds
<1>2. UNCHANGED room
  BY DEF RoomStep, RemoveInOrder, UnindexInOrder, FanOut, FanOutDone, RoomContextDone, CloseAll
<1>3. CASE FanOut(o) \/ FanOutDone(o) \/ RoomContextDone(o)
  <2>1. UNCHANGED writer /\ pc[o] \in {"loop", "fanOut"}
    BY <1>3 DEF FanOut, FanOutDone, RoomContextDone, lockVars
  <2> QED
    BY <1>1, <1>2, <2>1, NoWriterStep
<1>4. ASSUME NEW l \in Locks, Unlock({l}), writer[l] \in {None, o},
             \/ pc[o] \in {"removeInOrder", "closeAll"} /\ l = o
             \/ pc[o] = "unindexInOrder" /\ l = UserRoomMu
      PROVE  WritersAt'
  <2>1. \A k \in Locks \ {l} : writer[k] \notin M
    BY <1>1, <1>4
  <2>2. \A k \in Locks \cap {l} : writer[k] \in M \cup {None}
    BY <1>4
  <2> HIDE DEF M
  <2> QED
    BY <1>1, <1>2, <1>4, <2>1, <2>2, ReleaseStep
<1>5. CASE RemoveInOrder(o) \/ CloseAll(o)
  BY <1>5, <1>4, LockKinds DEF RemoveInOrder, CloseAll, Locked
<1>6. CASE UnindexInOrder(o)
  BY <1>6, <1>4, LockKinds DEF UnindexInOrder, Locked
<1> QED
  BY <1>3, <1>5, <1>6 DEF RoomStep

\* Every step does: whoever waits behind readers has entered the lock it wants.
LEMMA WritersStep ==
  ASSUME PcTypes, LocalTypes, LookedUp, WritersAt, Next \/ UNCHANGED vars
  PROVE  WritersAt'
<1>1. ASSUME NEW h \in Handlers, Create(h)
      PROVE  WritersAt'
  <2>1. /\ Unlock({ServerMu}) /\ UNCHANGED room /\ writer[ServerMu] \in {None, h}
        /\ pc[h] = "create" /\ pc'[h] = "relookup"
    BY <1>1, CreateMoves DEF Create, Locked
  <2>2. PICK o \in Rooms \cup {h} :
          /\ o \in Rooms => pc[o] = "none"
          /\ \A p \in Procs \ {h, o} : pc'[p] = pc[p]
    <3>1. CASE \A p \in Procs \ {h} : pc'[p] = pc[p]
      BY <3>1, Kinds
    <3>2. CASE \E o \in Rooms : pc[o] = "none" /\ \A p \in Procs \ {h, o} : pc'[p] = pc[p]
      BY <3>2
    <3> QED
      BY <1>1, <3>1, <3>2, CreateMoves
  <2> DEFINE M == {h, o}
  <2>3. \A l \in Locks \ {ServerMu} : writer[l] \notin M
    BY <2>1, <2>2, HandlerWrites, RoomWrites
  <2>4. \A l \in Locks \cap {ServerMu} : writer[l] \in M \cup {None}
    BY <2>1
  <2>5. None \notin M /\ \A g \in Handlers \cap M : ~Inside(g)'
    BY <2>1, Kinds DEF Inside
  <2>6. \A p \in Procs \ M : pc'[p] = pc[p]
    BY <2>2
  <2> HIDE DEF M
  <2> QED
    BY <2>1, <2>3, <2>4, <2>5, <2>6, ReleaseStep
<1>2. ASSUME NEW o \in Rooms, NEW h \in Handlers, TakeRemoval(o, h)
      PROVE  WritersAt'
  <2> DEFINE M == {h, o}
  <2>1. /\ UNCHANGED <<writer, room>> /\ pc[o] = "loop" /\ pc[h] = "scheduled" /\ pc'[h] = "left"
        /\ \A p \in Procs \ M : pc'[p] = pc[p]
    BY <1>2, TakeRemovalMoves DEF TakeRemoval, lockVars
  <2>2. \A l \in Locks : writer[l] \notin M
    BY <2>1, HandlerWrites, RoomWrites
  <2>3. None \notin M /\ \A g \in Handlers \cap M : ~Inside(g)'
    BY <2>1, Kinds DEF Inside
  <2> HIDE DEF M
  <2> QED
    BY <2>1, <2>2, <2>3, NoWriterStep
<1>3. ASSUME NEW m \in Monitors, MonitorStep(m)
      PROVE  WritersAt'
  <2> DEFINE M == {m}
  <2>1. UNCHANGED writer /\ \A p \in Procs \ M : pc'[p] = pc[p]
    BY <1>3, MonitorStepMoves
    DEF MonitorStep, WalkStart, Visit, VisitDone, WalkDone, Sessions, SessionsDone
  <2>2. \A h \in Handlers : room'[h] = room[h]
    <3>1. UNCHANGED room \/ \E id \in RoomIds : room' = [room EXCEPT ![m] = rooms[id]]
      BY <1>3 DEF MonitorStep, WalkStart, Visit, VisitDone, WalkDone, Sessions, SessionsDone
    <3> QED
      BY <3>1, Kinds DEF LocalTypes
  <2>3. /\ None \notin M /\ Handlers \cap M = {}
        /\ \A l \in Locks : writer[l] \notin M
    BY Kinds DEF WritersAt, WritesAt
  <2> HIDE DEF M
  <2> QED
    BY <2>1, <2>2, <2>3, NoWriterStep
<1>4. ASSUME NEW p \in Handlers \cup Rooms, Request(p)
      PROVE  WritersAt'
  <2> DEFINE l == WriteWant(p)
             M == {}
  <2>1. /\ l # None /\ writer[l] = None /\ writer' = [writer EXCEPT ![l] = p]
        /\ UNCHANGED <<pc, room>>
    BY <1>4 DEF Request
  <2>2. p \in Procs /\ None # p
    BY Kinds
  <2>3. WriteWant(p)' = l
    BY <2>1 DEF WriteWant
  <2> HIDE DEF l
  <2>4. \A k \in Locks : writer'[k] = IF k = l THEN p ELSE writer[k]
    BY <2>1 DEF WritersAt
  <2>5. writer' \in [Locks -> Procs \cup {None}]
    BY <2>1, <2>2 DEF WritersAt
  <2>6. ASSUME NEW k \in Locks, NEW q \in Procs, writer'[k] = q
        PROVE  WritesAt(q, k)'
    <3>1. CASE k = l
      BY <3>1, <2>3, <2>4, <2>6 DEF WritesAt
    <3>2. CASE k # l
      <4>1. WritesAt(q, k)
        BY <3>2, <2>4, <2>6 DEF WritersAt
      <4>2. WriteWant(q)' = WriteWant(q)
        BY <2>1 DEF WriteWant
      <4> QED
        BY <4>1, <4>2, <2>1 DEF WritesAt, Inside
    <3> QED
      BY <3>1, <3>2
  <2>7. ASSUME NEW h \in Handlers, Inside(h)'
        PROVE  room'[h] \in Rooms /\ writer'[room'[h]] = h
    <3>1. room[h] \in Rooms /\ writer[room[h]] = h
      BY <2>1, <2>7 DEF Inside, WritersAt
    <3> QED
      BY <3>1, <2>1, <2>4, Kinds, LockKinds
  <2> QED
    BY <2>5, <2>6, <2>7 DEF WritersAt
<1>5. CASE UNCHANGED <<pc, room, writer>>
  <2>1. \A q \in Procs : WriteWant(q)' = WriteWant(q)
    BY <1>5 DEF WriteWant
  <2> QED
    BY <1>5, <2>1 DEF WritersAt, WritesAt, Inside
<1> QED
  BY <1>1, <1>2, <1>3, <1>4, <1>5, NextCases, HandlerWriters, RoomWriters
  DEF Cancel, vars, lockVars

-----------------------------------------------------------------------------
\* Locks held for reading.

\* A step of the goroutines M, which read afterwards what their control points
\* say; the others read what they read.
LEMMA ReaderStep ==
  ASSUME ReadersAt, NEW M,
         readers' \in [Locks -> SUBSET Procs],
         \A p \in Procs \ M : pc'[p] = pc[p],
         \A m \in Monitors \ M : room'[m] = room[m],
         \A l \in Locks, p \in Procs \ M : p \in readers'[l] <=> p \in readers[l],
         \A l \in Locks, p \in Procs \cap M : p \in readers'[l] <=> ReadsAt(p, l)'
  PROVE  ReadersAt'
<1>1. ASSUME NEW l \in Locks, NEW p \in Procs
      PROVE  p \in readers'[l] <=> ReadsAt(p, l)'
  <2>1. CASE p \in M
    BY <2>1
  <2>2. CASE p \notin M
    <3>1. ReadsAt(p, l) <=> ReadsAt(p, l)'
      BY <2>2 DEF ReadsAt
    <3> QED
      BY <2>2, <3>1 DEF ReadersAt
  <2> QED
    BY <2>1, <2>2
<1> QED
  BY <1>1 DEF ReadersAt

\* A step of goroutines that read nothing before it nor after it.
LEMMA NoReaderStep ==
  ASSUME ReadersAt, NEW M, UNCHANGED readers,
         \A p \in Procs \ M : pc'[p] = pc[p],
         \A m \in Monitors \ M : room'[m] = room[m],
         \A p \in Procs \cap M : /\ p \notin Monitors
                                 /\ p \in Rooms => pc[p] # "fanOut" /\ pc'[p] # "fanOut"
  PROVE  ReadersAt'
<1>1. \A l \in Locks, p \in Procs \cap M : ~ReadsAt(p, l) /\ ~ReadsAt(p, l)'
  BY DEF ReadsAt
<1>2. readers' \in [Locks -> SUBSET Procs]
  BY DEF ReadersAt
<1>3. \A l \in Locks, p \in Procs \cap M : p \in readers'[l] <=> ReadsAt(p, l)'
  BY <1>1 DEF ReadersAt
<1> QED
  BY <1>2, <1>3, ReaderStep

\* Taking a lock for reading.
LEMMA RLockStep ==
  ASSUME ReadersAt, NEW p \in Procs, NEW l \in Locks, RLock(p, l),
         \A q \in Procs \ {p} : pc'[q] = pc[q],
         \A m \in Monitors \ {p} : room'[m] = room[m],
         \A k \in Locks : ReadsAt(p, k)' <=> k = l \/ ReadsAt(p, k)
  PROVE  ReadersAt'
<1>1. readers' = [readers EXCEPT ![l] = readers[l] \cup {p}]
  BY DEF RLock
<1>2. readers' \in [Locks -> SUBSET Procs]
  BY <1>1 DEF ReadersAt
<1>3. \A k \in Locks, q \in Procs : q \in readers'[k] <=> q \in readers[k] \/ (q = p /\ k = l)
  BY <1>1 DEF ReadersAt
<1>4. \A k \in Locks, q \in Procs \cap {p} : q \in readers'[k] <=> ReadsAt(q, k)'
  <2>1. \A k \in Locks : p \in readers'[k] <=> ReadsAt(p, k)'
    BY <1>3 DEF ReadersAt
  <2> SUFFICES ASSUME NEW k \in Locks, NEW q \in Procs, q = p
               PROVE  q \in readers'[k] <=> ReadsAt(q, k)'
    OBVIOUS
  <2> QED
    BY <2>1 DEF ReadsAt
<1> QED
  BY <1>2, <1>3, <1>4, ReaderStep

\* Releasing it.
LEMMA RUnlockStep ==
  ASSUME ReadersAt, NEW p \in Procs, NEW l \in Locks, RUnlock(p, l),
         \A q \in Procs \ {p} : pc'[q] = pc[q],
         \A m \in Monitors \ {p} : room'[m] = room[m],
         \A k \in Locks : ReadsAt(p, k)' <=> k # l /\ ReadsAt(p, k)
  PROVE  ReadersAt'
<1>1. readers' = [readers EXCEPT ![l] = readers[l] \ {p}]
  BY DEF RUnlock
<1>2. readers' \in [Locks -> SUBSET Procs]
  BY <1>1 DEF ReadersAt
<1>3. \A k \in Locks, q \in Procs : q \in readers'[k] <=> q \in readers[k] /\ ~(q = p /\ k = l)
  BY <1>1 DEF ReadersAt
<1>4. \A k \in Locks, q \in Procs \cap {p} : q \in readers'[k] <=> ReadsAt(q, k)'
  <2>1. \A k \in Locks : p \in readers'[k] <=> ReadsAt(p, k)'
    BY <1>3 DEF ReadersAt
  <2> SUFFICES ASSUME NEW k \in Locks, NEW q \in Procs, q = p
               PROVE  q \in readers'[k] <=> ReadsAt(q, k)'
    OBVIOUS
  <2> QED
    BY <2>1 DEF ReadsAt
<1> QED
  BY <1>2, <1>3, <1>4, ReaderStep

\* Monitors read Server.Mu while they walk, a room's lock while they visit it,
\* and UserRoomMu while they copy.
LEMMA MonitorReaders ==
  ASSUME PcTypes, LocalTypes, DirectoryTypes, LookedUp, ReadersAt,
         NEW m \in Monitors, MonitorStep(m)
  PROVE  ReadersAt'
<1>1. m \in Procs /\ m \notin Rooms /\ \A p \in Procs \ {m} : pc'[p] = pc[p]
  BY MonitorStepMoves, Kinds
<1>2. \A k \in Monitors \ {m} : room'[k] = room[k]
  <2>1. UNCHANGED room \/ \E id \in RoomIds : room' = [room EXCEPT ![m] = rooms[id]]
    BY DEF MonitorStep, WalkStart, Visit, VisitDone, WalkDone, Sessions, SessionsDone
  <2> QED
    BY <2>1 DEF LocalTypes
<1>3. CASE WalkStart(m)
  <2>1. pc[m] = "idle" /\ pc'[m] = "walk" /\ RLock(m, ServerMu)
    BY <1>3, MonitorMove DEF WalkStart, MonitorPc
  <2> QED
    BY <1>1, <1>2, <2>1, RLockStep, LockKinds DEF ReadsAt
<1>4. ASSUME NEW id \in RoomIds, Visit(m, id)
      PROVE  ReadersAt'
  <2>1. /\ pc[m] = "walk" /\ pc'[m] = "visit" /\ RLock(m, rooms[id]) /\ id \in todo[m]
        /\ room' = [room EXCEPT ![m] = rooms[id]]
    BY <1>4, MonitorMove DEF Visit, MonitorPc
  <2>2. rooms[id] \in Rooms /\ room'[m] = rooms[id]
    BY <2>1 DEF LookedUp, KnownRooms, DirectoryTypes, LocalTypes
  <2>3. \A k \in Locks : ReadsAt(m, k)' <=> k = rooms[id] \/ ReadsAt(m, k)
    BY <1>1, <2>1, <2>2 DEF ReadsAt
  <2> QED
    BY <1>1, <1>2, <2>1, <2>2, <2>3, RLockStep, LockKinds
<1>5. CASE VisitDone(m)
  <2>1. pc[m] = "visit" /\ pc'[m] = "walk" /\ RUnlock(m, room[m]) /\ UNCHANGED room
    BY <1>5, MonitorMove DEF VisitDone, MonitorPc
  <2>2. room[m] \in Rooms /\ room[m] # ServerMu /\ room[m] \in Locks
    BY <2>1, LockKinds DEF LookedUp
  <2>3. \A k \in Locks : ReadsAt(m, k)' <=> k # room[m] /\ ReadsAt(m, k)
    BY <1>1, <2>1, <2>2 DEF ReadsAt
  <2> QED
    BY <1>1, <1>2, <2>1, <2>2, <2>3, RUnlockStep
<1>6. ASSUME NEW metrics \in BOOLEAN, WalkDone(m, metrics)
      PROVE  ReadersAt'
  <2>1. pc[m] = "walk" /\ pc'[m] \in {"sessions", "idle"} /\ RUnlock(m, ServerMu)
    BY <1>6, MonitorMove DEF WalkDone, MonitorPc
  <2> QED
    BY <1>1, <1>2, <2>1, RUnlockStep, LockKinds DEF ReadsAt
<1>7. CASE Sessions(m)
  <2>1. pc[m] = "sessions" /\ pc'[m] = "copy" /\ RLock(m, UserRoomMu)
    BY <1>7, MonitorMove DEF Sessions, MonitorPc
  <2> QED
    BY <1>1, <1>2, <2>1, RLockStep, LockKinds DEF ReadsAt
<1>8. CASE SessionsDone(m)
  <2>1. pc[m] = "copy" /\ pc'[m] = "idle" /\ RUnlock(m, UserRoomMu)
    BY <1>8, MonitorMove DEF SessionsDone, MonitorPc
  <2> QED
    BY <1>1, <1>2, <2>1, RUnlockStep, LockKinds DEF ReadsAt
<1> QED
  BY <1>3, <1>4, <1>5, <1>6, <1>7, <1>8 DEF MonitorStep

\* Broadcast goroutines read their room's lock while they fan out.
LEMMA RoomReaders ==
  ASSUME PcTypes, ReadersAt, NEW o \in Rooms, RoomStep(o)
  PROVE  ReadersAt'
<1>1. /\ o \in Procs /\ o \notin Monitors /\ o \in Locks
      /\ \A p \in Procs \ {o} : pc'[p] = pc[p]
  BY RoomStepMoves, Kinds, LockKinds
<1>2. UNCHANGED room
  BY DEF RoomStep, RemoveInOrder, UnindexInOrder, FanOut, FanOutDone, RoomContextDone, CloseAll
<1>3. CASE FanOut(o)
  <2>1. pc[o] = "loop" /\ pc'[o] = "fanOut" /\ RLock(o, o)
    BY <1>3, RoomMove DEF FanOut, RoomPc
  <2>2. \A k \in Locks : ReadsAt(o, k)' <=> k = o \/ ReadsAt(o, k)
    BY <1>1, <2>1 DEF ReadsAt
  <2> QED
    BY <1>1, <1>2, <2>1, <2>2, RLockStep
<1>4. CASE FanOutDone(o)
  <2>1. pc[o] = "fanOut" /\ pc'[o] = "loop" /\ RUnlock(o, o)
    BY <1>4, RoomMove DEF FanOutDone, RoomPc
  <2>2. \A k \in Locks : ReadsAt(o, k)' <=> k # o /\ ReadsAt(o, k)
    BY <1>1, <2>1 DEF ReadsAt
  <2> QED
    BY <1>1, <1>2, <2>1, <2>2, RUnlockStep
<1>5. CASE RemoveInOrder(o) \/ UnindexInOrder(o) \/ RoomContextDone(o) \/ CloseAll(o)
  <2>1. /\ UNCHANGED readers
        /\ pc[o] \in {"removeInOrder", "unindexInOrder", "loop", "closeAll"}
        /\ \E label \in RoomPc \ {"fanOut"} : Goto(o, label)
    BY <1>5 DEF RemoveInOrder, UnindexInOrder, RoomContextDone, CloseAll, lockVars, RoomPc
  <2>2. pc'[o] # "fanOut"
    BY <2>1, RoomMove
  <2> DEFINE M == {o}
  <2>3. \A p \in Procs \cap M : /\ p \notin Monitors
                                /\ p \in Rooms => pc[p] # "fanOut" /\ pc'[p] # "fanOut"
    BY <1>1, <2>1, <2>2
  <2>4. \A p \in Procs \ M : pc'[p] = pc[p]
    BY <1>1
  <2>5. \A m \in Monitors \ M : room'[m] = room[m]
    BY <1>2
  <2> HIDE DEF M
  <2> QED
    BY <2>1, <2>3, <2>4, <2>5, NoReaderStep
<1> QED
  BY <1>3, <1>4, <1>5 DEF RoomStep

\* Every step keeps the record of who reads.
LEMMA ReadersStep ==
  ASSUME PcTypes, LocalTypes, DirectoryTypes, LookedUp, ReadersAt, Next \/ UNCHANGED vars
  PROVE  ReadersAt'
<1>1. ASSUME NEW h \in Handlers, HandlerStep(h)
      PROVE  ReadersAt'
  <2>1. /\ UNCHANGED readers
        /\ UNCHANGED room \/ room' = [room EXCEPT ![h] = rooms[RoomOf[h]]]
    BY <1>1 DEF HandlerStep, Lookup, Relookup, JoinRefused, Join, Index, ScheduleRemoveUser,
                LookupToRemove, RemoveUserFromRoom, RemoveFromUserRooms, lockVars
  <2>2. \A m \in Monitors : room'[m] = room[m]
    BY <2>1, Kinds DEF LocalTypes
  <2> QED
    BY <1>1, <2>1, <2>2, HandlerStepMoves, Kinds, NoReaderStep
<1>2. ASSUME NEW h \in Handlers, Create(h)
      PROVE  ReadersAt'
  <2>1. UNCHANGED <<readers, room>>
    BY <1>2 DEF Create
  <2>2. PICK M \in SUBSET Procs :
          /\ \A p \in M : p \notin Monitors /\ (p \in Rooms => pc[p] # "fanOut" /\ pc'[p] # "fanOut")
          /\ \A p \in Procs \ M : pc'[p] = pc[p]
    <3>1. CASE \A p \in Procs \ {h} : pc'[p] = pc[p]
      BY <3>1, Kinds
    <3>2. ASSUME NEW o \in Rooms, pc[o] = "none", pc'[o] = "loop",
                 \A p \in Procs \ {h, o} : pc'[p] = pc[p]
          PROVE  \E M \in SUBSET Procs :
                   /\ \A p \in M : /\ p \notin Monitors
                                   /\ p \in Rooms => pc[p] # "fanOut" /\ pc'[p] # "fanOut"
                   /\ \A p \in Procs \ M : pc'[p] = pc[p]
      <4>1. {h, o} \in SUBSET Procs
        BY Kinds
      <4>2. \A p \in {h, o} : p \notin Monitors /\ (p \in Rooms => pc[p] # "fanOut" /\ pc'[p] # "fanOut")
        BY <3>2, Kinds
      <4> QED
        BY <3>2, <4>1, <4>2
    <3> QED
      BY <1>2, <3>1, <3>2, CreateMoves
  <2> QED
    BY <2>1, <2>2, NoReaderStep
<1>3. ASSUME NEW o \in Rooms, NEW h \in Handlers, TakeRemoval(o, h)
      PROVE  ReadersAt'
  <2> DEFINE M == {h, o}
  <2>1. /\ UNCHANGED <<readers, room>> /\ pc[o] = "loop" /\ pc'[o] = "removeInOrder"
        /\ \A p \in Procs \ M : pc'[p] = pc[p]
    BY <1>3, TakeRemovalMoves DEF TakeRemoval, lockVars
  <2>2. \A p \in Procs \cap M : p \notin Monitors /\ (p \in Rooms => pc[p] # "fanOut" /\ pc'[p] # "fanOut")
    BY <2>1, Kinds
  <2> HIDE DEF M
  <2> QED
    BY <2>1, <2>2, NoReaderStep
<1>4. CASE UNCHANGED <<pc, room, readers>>
  BY <1>4 DEF ReadersAt, ReadsAt
<1> QED
  BY <1>1, <1>2, <1>3, <1>4, NextCases, MonitorReaders, RoomReaders
  DEF Request, Cancel, vars, lockVars

-----------------------------------------------------------------------------
\* The inductive invariant.  The properties speak of rooms, maps and locks;
\* what keeps them is that control points determine who is entered in which
\* lock.
IInv ==
  PcTypes /\ LocalTypes /\ DirectoryTypes /\ DataTypes /\ LookedUp /\ WritersAt /\ ReadersAt

\* It holds when the server starts.
LEMMA InitInv == Init => IInv
<1> SUFFICES ASSUME Init
             PROVE  IInv
  OBVIOUS
<1>1. /\ pc = [p \in Procs |-> CASE p \notin Rooms -> "idle"
                                 [] \E id \in RoomIds : Opened[id] = p -> "loop"
                                 [] OTHER -> "none"]
      /\ room = [p \in Handlers \cup Monitors |-> None]
      /\ todo = [m \in Monitors |-> {}] /\ departing = [o \in Rooms |-> None]
      /\ rooms = Opened
      /\ consumer = [id \in RoomIds |-> IF id \in Consumed THEN Opened[id] ELSE None]
      /\ users = [o \in Rooms |-> [u \in UserIds |-> None]]
      /\ userRooms = [u \in UserIds |-> [id \in RoomIds |-> 0]]
      /\ writer = [l \in Locks |-> None] /\ readers = [l \in Locks |-> {}]
      /\ ctxDone = FALSE
  BY DEF Init
<1>2. /\ \A h \in Handlers : pc[h] = "idle"
      /\ \A m \in Monitors : pc[m] = "idle"
      /\ \A o \in Rooms : pc[o] = IF \E id \in RoomIds : Opened[id] = o THEN "loop" ELSE "none"
      /\ \A p \in Procs : pc[p] \in {"idle", "loop", "none"}
  <2>1. ASSUME NEW p \in Procs, p \notin Rooms
        PROVE  pc[p] = "idle"
    <3>1. ~\E id \in RoomIds : Opened[id] = p
      BY <2>1, Kinds, RoomDirectoryAssumption
    <3> QED
      BY <1>1, <2>1, <3>1
  <2>2. \A o \in Rooms : o \in Procs
    BY Kinds
  <2>3. ASSUME NEW o \in Rooms, \E id \in RoomIds : Opened[id] = o
        PROVE  pc[o] = "loop"
    BY <1>1, <2>2, <2>3
  <2>4. ASSUME NEW o \in Rooms, ~\E id \in RoomIds : Opened[id] = o
        PROVE  pc[o] = "none"
    BY <1>1, <2>2, <2>4
  <2>5. \A o \in Rooms : pc[o] = IF \E id \in RoomIds : Opened[id] = o THEN "loop" ELSE "none"
    BY <2>3, <2>4
  <2>6. \A p \in Procs : pc[p] \in {"idle", "loop", "none"}
    <3>1. \A o \in Rooms : pc[o] \in {"loop", "none"}
      BY <2>3, <2>4
    <3> QED
      BY <2>1, <3>1
  <2> QED
    BY <2>1, <2>5, <2>6, Kinds
<1>3. PcTypes
  <2>1. pc \in [Procs -> HandlerPc \cup RoomPc \cup MonitorPc]
    BY <1>1 DEF HandlerPc, RoomPc, MonitorPc
  <2> QED
    BY <1>2, <2>1 DEF PcTypes, HandlerPc, RoomPc, MonitorPc
<1>4. LocalTypes
  <2>1. /\ room \in [Handlers \cup Monitors -> Rooms \cup {None}]
        /\ departing \in [Rooms -> UserIds \cup {None}]
    BY <1>1
  <2>2. \A o \in Rooms : pc[o] \in {"loop", "none"}
    BY <1>2
  <2> QED
    BY <2>1, <2>2 DEF LocalTypes
<1>5. DirectoryTypes
  <2>1. /\ rooms \in [RoomIds -> Rooms \cup {None}]
        /\ consumer \in [RoomIds -> Rooms \cup {None}]
        /\ \A i, j \in RoomIds : rooms[i] = rooms[j] /\ rooms[i] # None => i = j
    BY <1>1, RoomDirectoryAssumption
  <2>2. \A id \in RoomIds : rooms[id] # None => pc[rooms[id]] # "none"
    <3> SUFFICES ASSUME NEW id \in RoomIds, rooms[id] # None
                 PROVE  pc[rooms[id]] # "none"
      OBVIOUS
    <3>1. rooms[id] \in Rooms /\ Opened[id] = rooms[id]
      BY <1>1, <2>1
    <3> QED
      BY <1>2, <3>1
  <2>3. \A id \in RoomIds : consumer[id] = IF id \in Consumed THEN rooms[id] ELSE None
    BY <1>1
  <2> QED
    BY <2>1, <2>2, <2>3 DEF DirectoryTypes
<1>6. DataTypes
  BY <1>1 DEF DataTypes
<1>7. LookedUp
  BY <1>1, <1>2 DEF LookedUp
<1>8. WritersAt
  BY <1>1, <1>2, Kinds DEF WritersAt, Inside
<1>9. ReadersAt
  <2>1. readers \in [Locks -> SUBSET Procs] /\ \A l \in Locks : readers[l] = {}
    BY <1>1
  <2>2. \A l \in Locks, p \in Procs : ~ReadsAt(p, l)
    BY <1>2 DEF ReadsAt
  <2> QED
    BY <2>1, <2>2 DEF ReadersAt
<1> QED
  BY <1>3, <1>4, <1>5, <1>6, <1>7, <1>8, <1>9 DEF IInv

\* Every step keeps it.
LEMMA StepInv == IInv /\ [Next]_vars => IInv'
<1> SUFFICES ASSUME IInv, Next \/ UNCHANGED vars
             PROVE  IInv'
  OBVIOUS
<1> QED
  BY PcTypesStep, LocalStep, DirectoryStep, DataStep, LookedUpStep, WritersStep, ReadersStep
  DEF IInv

\* It holds in every reachable state.
LEMMA Invariant == Spec => []IInv
BY InitInv, StepInv, PTL DEF Spec

\* Every variable has its type; a monitor visits rooms that exist.
THEOREM Types == Spec => []TypeOK
<1>1. IInv => TypeOK
  BY DEF IInv, TypeOK, PcTypes, LocalTypes, DirectoryTypes, DataTypes, LookedUp, WritersAt, ReadersAt
<1> QED
  BY <1>1, Invariant, PTL

\* However many first JOINs race, a room id has one room: whoever has looked it
\* up holds that of the directory, and remote messages go there.
THEOREM OneRoom == Spec => []OneRoomPerId
<1>1. IInv => OneRoomPerId
  BY DEF IInv, OneRoomPerId, DirectoryTypes, LookedUp, KnownRooms
<1> QED
  BY <1>1, Invariant, PTL

\* A goroutine that holds a lock waits only for a later one in the order.
LEMMA OrderKept == IInv => LockOrder
<1>1. ASSUME IInv, NEW p \in Procs, NEW held \in Holds(p), NEW wanted \in Wants(p)
      PROVE  Rank(held) < Rank(wanted)
  <2>0. /\ PcTypes /\ LocalTypes /\ DirectoryTypes /\ LookedUp /\ WritersAt /\ ReadersAt
        /\ held \in Locks
        /\ p \in readers[held] => ReadsAt(p, held)
        /\ writer[held] = p => WritesAt(p, held)
        /\ p \in readers[held] \/ (writer[held] = p /\ WriteWant(p) # held)
    BY <1>1 DEF IInv, Holds, WritersAt, ReadersAt
  <2>1. \A o \in Rooms : Rank(o) = 1
    BY LockKinds DEF Rank
  <2>2. Rank(ServerMu) = 0 /\ Rank(UserRoomMu) = 2
    BY LockKinds DEF Rank
  <2>3. CASE p \in Handlers
    <3>1. /\ pc[p] \in {"index", "unindex"} /\ held = room[p] /\ room[p] \in Rooms
      BY <2>0, <2>3, Kinds, Wanted DEF WritesAt, ReadsAt, Inside
    <3>2. wanted = UserRoomMu
      BY <2>0, <2>3, <3>1, Wanted DEF Wants
    <3> QED
      BY <2>1, <2>2, <3>1, <3>2
  <2>4. CASE p \in Rooms
    <3>1. pc[p] = "fanOut"
      BY <2>0, <2>4, Kinds DEF WritesAt, ReadsAt
    <3>2. wanted = WriteWant(p) /\ WriteWant(p) # None
      BY <3>1 DEF Wants
    <3> QED
      BY <2>0, <2>4, <3>1, <3>2, Wanted
  <2>5. CASE p \in Monitors
    <3>1. ReadsAt(p, held) /\ pc[p] \in {"walk", "visit", "copy"}
      BY <2>0, <2>5, Kinds DEF WritesAt, ReadsAt
    <3>2. CASE pc[p] = "walk"
      <4>1. held = ServerMu
        BY <2>5, <3>1, <3>2, Kinds DEF ReadsAt
      <4>2. PICK id \in todo[p] : wanted = rooms[id]
        BY <3>2 DEF Wants
      <4>3. wanted \in Rooms
        BY <2>0, <2>5, <4>2 DEF LookedUp, KnownRooms, DirectoryTypes
      <4> QED
        BY <2>1, <2>2, <4>1, <4>3
    <3>3. CASE pc[p] \in {"visit", "copy"}
      <4>1. WriteWant(p) = None
        BY <3>3 DEF WriteWant
      <4>2. wanted = WriteWant(p) /\ WriteWant(p) # None
        BY <3>3 DEF Wants
      <4> QED
        BY <4>1, <4>2
    <3> QED
      BY <3>1, <3>2, <3>3
  <2> QED
    BY <2>3, <2>4, <2>5 DEF Procs
<1> QED
  BY <1>1 DEF LockOrder

\* Locks are taken in the order Server.Mu, one Room.Mu, UserRoomMu: no set of
\* goroutines can wait for each other in a circle.
THEOREM NoCircle == Spec => []LockOrder
BY OrderKept, Invariant, PTL

-----------------------------------------------------------------------------
\* Somebody can run.

Taken(l) == writer[l] # None \/ readers[l] # {}

Has(p, l) == p = writer[l] \/ p \in readers[l]

\* The lock has somebody who can run, or who waits for a later lock.
Served(l) == \E p \in Procs, k \in Locks : Rank(k) >= Rank(l) /\ Has(p, k) /\ Runs(p)

\* The order has three ranks.
LEMMA Ranks ==
  \A l \in Locks : Rank(l) \in {0, 1, 2}
BY DEF Rank

\* What a goroutine waits for is a lock, and it is taken if it cannot have it.
LEMMA WantedTaken ==
  ASSUME IInv, NEW p \in Procs, NEW w \in Wants(p), ~CanTake(p, w)
  PROVE  w \in Locks /\ Taken(w)
<1>0. PcTypes /\ LocalTypes /\ DirectoryTypes /\ LookedUp /\ WritersAt
  BY DEF IInv
<1>1. Taken(w)
  BY DEF CanTake, Locked, CanRLock, Taken
<1>2. w \in Locks
  <2>1. CASE pc[p] \in {"relookup", "sessions"}
    BY <2>1, LockKinds DEF Wants
  <2>2. CASE pc[p] = "walk"
    <3>1. p \in Monitors
      BY <1>0, <2>2 DEF PcTypes, HandlerPc, RoomPc, Procs
    <3>2. PICK id \in todo[p] : w = rooms[id]
      BY <2>2 DEF Wants
    <3> QED
      BY <1>0, <3>1, <3>2, LockKinds DEF LookedUp, KnownRooms, DirectoryTypes
  <2>3. CASE pc[p] \notin {"relookup", "sessions", "walk"}
    <3>1. w = WriteWant(p) /\ w # None
      BY <2>3 DEF Wants
    <3>2. p \notin Monitors
      BY <1>0, <3>1 DEF PcTypes, MonitorPc, WriteWant
    <3> QED
      BY <1>0, <3>1, <3>2, Wanted, LockKinds DEF Procs
  <2> QED
    BY <2>1, <2>2, <2>3
<1> QED
  BY <1>1, <1>2

\* Who has a lock is in an operation; if it cannot run, it waits for a later lock.
LEMMA HolderOrLater ==
  ASSUME IInv, NEW l \in Locks, Taken(l)
  PROVE  Served(l) \/ \E k \in Locks : Rank(k) > Rank(l) /\ Taken(k)
<1>0. /\ PcTypes /\ LocalTypes /\ LookedUp /\ WritersAt /\ ReadersAt
      /\ writer[l] \in Procs \cup {None} /\ readers[l] \subseteq Procs
  BY DEF IInv, WritersAt, ReadersAt
<1>1. ASSUME NEW p \in Procs, l \in Holds(p), pc[p] \notin Resting
      PROVE  Served(l) \/ \E k \in Locks : Rank(k) > Rank(l) /\ Taken(k)
  <2>1. CASE Runs(p)
    BY <1>1, <2>1, Ranks DEF Served, Has, Holds
  <2>2. CASE ~Runs(p)
    <3>1. PICK w \in Wants(p) : ~CanTake(p, w)
      BY <1>1, <2>2 DEF Runs
    <3>2. w \in Locks /\ Taken(w)
      BY <3>1, WantedTaken
    <3>3. Rank(l) < Rank(w)
      BY <1>1, <3>1, OrderKept DEF LockOrder
    <3> QED
      BY <3>2, <3>3, Ranks
  <2> QED
    BY <2>1, <2>2
<1>2. ASSUME NEW p \in readers[l]
      PROVE  Served(l) \/ \E k \in Locks : Rank(k) > Rank(l) /\ Taken(k)
  <2>1. p \in Procs /\ l \in Holds(p)
    BY <1>0, <1>2 DEF Holds
  <2>2. pc[p] \in {"fanOut", "walk", "visit", "copy"}
    BY <1>0, <1>2, <2>1 DEF ReadersAt, ReadsAt
  <2> QED
    BY <1>1, <2>1, <2>2 DEF Resting
<1>3. ASSUME readers[l] = {}, NEW p \in Procs, writer[l] = p
      PROVE  Served(l) \/ \E k \in Locks : Rank(k) > Rank(l) /\ Taken(k)
  <2>1. WritesAt(p, l) /\ p \in Handlers \cup Rooms /\ l # None
    BY <1>0, <1>3, Kinds DEF WritersAt, WritesAt
  <2>2. CASE l = WriteWant(p)
    <3>1. pc[p] \notin Resting \cup {"relookup", "walk", "sessions"}
      BY <2>1, <2>2 DEF WriteWant, Resting
    <3>2. Wants(p) = {l} /\ CanTake(p, l)
      BY <1>3, <2>1, <2>2, <3>1 DEF Wants, CanTake, Locked
    <3>3. Runs(p)
      BY <3>1, <3>2 DEF Runs
    <3> QED
      BY <1>3, <3>3, Ranks DEF Served, Has
  <2>3. CASE l # WriteWant(p)
    <3>1. l \in Holds(p)
      BY <1>3, <2>3 DEF Holds
    <3>2. pc[p] \notin Resting
      BY <2>1, <2>3 DEF WritesAt, Inside, Resting
    <3> QED
      BY <1>1, <3>1, <3>2
  <2> QED
    BY <2>2, <2>3
<1> QED
  BY <1>0, <1>2, <1>3 DEF Taken

\* The locks of the last rank are served, hence those before them.
LEMMA AllServed ==
  ASSUME IInv
  PROVE  LocksServed
<1>1. ASSUME NEW l \in Locks, NEW k \in Locks, Rank(k) > Rank(l), Served(k)
      PROVE  Served(l)
  BY <1>1, Ranks DEF Served
<1>2. ASSUME NEW l \in Locks, Taken(l), Rank(l) = 2
      PROVE  Served(l)
  BY <1>2, HolderOrLater, Ranks
<1>3. ASSUME NEW l \in Locks, Taken(l), Rank(l) = 1
      PROVE  Served(l)
  BY <1>1, <1>2, <1>3, HolderOrLater, Ranks
<1>4. ASSUME NEW l \in Locks, Taken(l), Rank(l) = 0
      PROVE  Served(l)
  BY <1>1, <1>2, <1>3, <1>4, HolderOrLater, Ranks
<1>5. \A l \in Locks : Taken(l) => Served(l)
  BY <1>2, <1>3, <1>4, Ranks
<1> QED
  BY <1>5 DEF LocksServed, Taken, Served, Has

\* However many goroutines, rooms and monitors there are, the locks never end in
\* a deadlock, and none is kept by a goroutine that has nothing more to do: for
\* every lock that is held or asked for there is a goroutine that can run and
\* holds it or a later one.
THEOREM NoDeadlock == Spec => []LocksServed
BY AllServed, Invariant, PTL

\* While a monitor or a fan-out iterates over a map, nobody writes that map.
THEOREM MapsSteady == Spec => NoWriteWhileReading
<1> DEFINE Steady ==
      /\ \A o \in Rooms :
           pc[o] = "fanOut" \/ (\E m \in Monitors : pc[m] = "visit" /\ room[m] = o)
             => users'[o] = users[o]
      /\ (\E m \in Monitors : pc[m] \in {"walk", "visit"}) => rooms' = rooms
      /\ (\E m \in Monitors : pc[m] = "copy") => userRooms' = userRooms
<1>1. ASSUME IInv, Next \/ UNCHANGED vars
      PROVE  Steady
  <2>0. PcTypes /\ LocalTypes /\ DataTypes /\ LookedUp /\ ReadersAt
    BY <1>1 DEF IInv
  <2>1. ASSUME NEW o \in Rooms,
               pc[o] = "fanOut" \/ (\E m \in Monitors : pc[m] = "visit" /\ room[m] = o)
        PROVE  users'[o] = users[o]
    <3>1. readers[o] # {}
      BY <2>0, <2>1, Kinds, LockKinds DEF ReadersAt, ReadsAt
    <3>2. CASE UNCHANGED users
      BY <3>2
    <3>3. ASSUME NEW r \in Rooms, readers[r] = {}, NEW v, users' = [users EXCEPT ![r] = v]
          PROVE  users'[o] = users[o]
      BY <2>0, <3>1, <3>3 DEF DataTypes
    <3>4. ASSUME NEW h \in Handlers, Join(h) \/ RemoveUserFromRoom(h)
          PROVE  users'[o] = users[o]
      <4>1. room[h] \in Rooms
        BY <2>0, <3>4 DEF Join, RemoveUserFromRoom, LookedUp, LocalTypes
      <4>2. readers[room[h]] = {}
        BY <3>4 DEF Join, RemoveUserFromRoom, Locked
      <4>3. \E v : users' = [users EXCEPT ![room[h]] = v]
        BY <3>4 DEF Join, RemoveUserFromRoom
      <4> QED
        BY <3>3, <4>1, <4>2, <4>3
    <3>5. ASSUME NEW r \in Rooms, RemoveInOrder(r)
          PROVE  users'[o] = users[o]
      <4>1. readers[r] = {} /\ \E v : users' = [users EXCEPT ![r] = v]
        BY <3>5 DEF RemoveInOrder, Locked
      <4> QED
        BY <3>3, <4>1
    <3> QED
      BY <1>1, <3>2, <3>4, <3>5, NextCases
      DEF HandlerStep, Lookup, Relookup, JoinRefused, Index, ScheduleRemoveUser,
          LookupToRemove, RemoveFromUserRooms, Create, RoomStep, UnindexInOrder, FanOut,
          FanOutDone, RoomContextDone, CloseAll, TakeRemoval, MonitorStep, WalkStart, Visit,
          VisitDone, WalkDone, Sessions, SessionsDone, Request, Cancel, vars, dataVars
  <2>2. ASSUME NEW m \in Monitors, pc[m] \in {"walk", "visit"}
        PROVE  rooms' = rooms
    <3>1. readers[ServerMu] # {}
      BY <2>0, <2>2, Kinds, LockKinds DEF ReadersAt, ReadsAt
    <3>2. \A h \in Handlers : ~Create(h)
      BY <3>1 DEF Create, Locked
    <3> QED
      BY <1>1, <3>2, NextCases
      DEF HandlerStep, Lookup, Relookup, JoinRefused, Join, Index, ScheduleRemoveUser,
          LookupToRemove, RemoveUserFromRoom, RemoveFromUserRooms, RoomStep, RemoveInOrder,
          UnindexInOrder, FanOut, FanOutDone, RoomContextDone, CloseAll, TakeRemoval,
          MonitorStep, WalkStart, Visit, VisitDone, WalkDone, Sessions, SessionsDone, Request,
          Cancel, vars, dataVars
  <2>3. ASSUME NEW m \in Monitors, pc[m] = "copy"
        PROVE  userRooms' = userRooms
    <3>1. readers[UserRoomMu] # {}
      BY <2>0, <2>3, Kinds, LockKinds DEF ReadersAt, ReadsAt
    <3>2. /\ \A h \in Handlers : ~Index(h) /\ ~RemoveFromUserRooms(h)
          /\ \A o \in Rooms : ~UnindexInOrder(o)
      BY <3>1 DEF Index, RemoveFromUserRooms, UnindexInOrder, Locked
    <3> QED
      BY <1>1, <3>2, NextCases
      DEF HandlerStep, Lookup, Relookup, JoinRefused, Join, ScheduleRemoveUser,
          LookupToRemove, RemoveUserFromRoom, Create, RoomStep, RemoveInOrder, FanOut,
          FanOutDone, RoomContextDone, CloseAll, TakeRemoval, MonitorStep, WalkStart, Visit,
          VisitDone, WalkDone, Sessions, SessionsDone, Request, Cancel, vars, dataVars
  <2> QED
    BY <2>1, <2>2, <2>3
<1>2. IInv /\ [Next]_vars => [Steady]_vars
  BY <1>1
<1> HIDE DEF Steady
<1>3. Spec => [][Steady]_vars
  BY <1>2, Invariant, PTL DEF Spec
<1> QED
  BY <1>3 DEF NoWriteWhileReading, Steady

=============================================================================
