--------------------------- MODULE ChatRoomProofs ---------------------------
(***************************************************************************)
(* Theorems about ChatRoom for every set of connections and users and      *)
(* every buffer size.                                                      *)
(***************************************************************************)
EXTENDS ChatRoom, TLAPS

\* A response built from a message is a Response of its sender or of nobody.
LEMMA NewResponseType ==
  ASSUME NEW c \in Clients, NEW u, NEW type \in {"JOIN", "TEXT", "LEAVE"},
         NEW stamped \in BOOLEAN
  PROVE  /\ NewResponse(c, u, type, stamped) \in Response
         /\ NewResponse(c, u, type, stamped).from \in {c, NoClient}
<1>1. /\ [status |-> 200, type |-> type, from |-> c] \in Response
      /\ InvalidResponse \in Response
  <2>1. [status |-> 200, type |-> type, from |-> c] \in Response
    BY DEF Response
  <2>2. InvalidResponse \in Response
    BY DEF InvalidResponse, Response
  <2> QED
    BY <2>1, <2>2
<1>2. \/ NewResponse(c, u, type, stamped) = [status |-> 200, type |-> type, from |-> c]
      \/ NewResponse(c, u, type, stamped) = InvalidResponse
  BY Zenon DEF NewResponse
<1>3. CASE NewResponse(c, u, type, stamped) = [status |-> 200, type |-> type, from |-> c]
  BY <1>1, <1>3
<1>4. CASE NewResponse(c, u, type, stamped) = InvalidResponse
  <2>1. InvalidResponse.from = NoClient
    BY DEF InvalidResponse
  <2> QED
    BY <1>1, <1>4, <2>1
<1> QED
  BY <1>2, <1>3, <1>4

\* The null response is a Response.
LEMMA NilResponseType == NilResponse \in Response
  BY DEF NilResponse, Response

\* Both kinds of room events are RoomEvents.
LEMMA EventType ==
  /\ \A r \in Response : RespEvent(r) \in RoomEvent
  /\ \A u \in UserIds \cup {EmptyId} : RemoveEvent(u) \in RoomEvent
<1>1. \A r \in Response : RespEvent(r) \in RoomEvent
  BY DEF RespEvent, RoomEvent
<1>2. \A u \in UserIds \cup {EmptyId} : RemoveEvent(u) \in RoomEvent
  BY NilResponseType DEF RemoveEvent, RoomEvent
<1> QED
  BY <1>1, <1>2

\* The non-blocking send keeps Broadcast within its capacity.
LEMMA OfferType ==
  ASSUME TypeOK, NEW e \in RoomEvent, Offer(e)
  PROVE  broadcast' \in Seq(RoomEvent) /\ Len(broadcast') <= BufferSize
  BY ChatRoomAssumption DEF TypeOK, Offer, BroadcastFull

\* Receiving from Broadcast keeps it within its capacity.
LEMMA ReceiveType ==
  ASSUME TypeOK, broadcast # <<>>, broadcast' = Tail(broadcast)
  PROVE  /\ broadcast' \in Seq(RoomEvent)
         /\ Len(broadcast') <= BufferSize
         /\ Head(broadcast) \in RoomEvent
  BY ChatRoomAssumption DEF TypeOK

\* CloseAndDelete keeps the types of what it changes.
LEMMA CloseType ==
  ASSUME TypeOK, NEW u, CloseAndDelete(u)
  PROVE  /\ sendClosed' \in [Clients -> BOOLEAN]
         /\ users' \in [UserIds -> Clients \cup {NoClient}]
<1>1. sendClosed' \in [Clients -> BOOLEAN]
  BY DEF TypeOK, CloseAndDelete
<1>2. users' \in [UserIds -> Clients \cup {NoClient}]
  BY DEF TypeOK, CloseAndDelete
<1> QED
  BY <1>1, <1>2

\* DropFromUserRooms keeps the index a function to the naturals.
LEMMA DropType ==
  ASSUME TypeOK, NEW u, DropFromUserRooms(u)
  PROVE  userRooms' \in [UserIds -> Nat]
<1>1. ASSUME NEW v \in UserIds PROVE userRooms'[v] \in Nat
  BY DEF TypeOK, DropFromUserRooms
<1>2. userRooms' = [v \in UserIds |-> userRooms'[v]]
  BY DEF TypeOK, DropFromUserRooms
<1> QED
  BY <1>1, <1>2

\* What Append does to the length and the elements of a sequence.
LEMMA AppendFacts ==
  ASSUME NEW S, NEW s \in Seq(S), NEW e \in S
  PROVE  /\ Append(s, e) \in Seq(S)
         /\ Len(Append(s, e)) = Len(s) + 1
         /\ \A i \in 1 .. Len(s) : Append(s, e)[i] = s[i]
         /\ Append(s, e)[Len(s) + 1] = e
  OBVIOUS

-----------------------------------------------------------------------------
\* Initially every variable has its type.
LEMMA TypeInit == Init => TypeOK
<1> SUFFICES ASSUME Init PROVE TypeOK
  OBVIOUS
<1>1. /\ hpc \in [Clients -> {"idle", "joining", "announce", "reading", "publish",
                               "publishLeave", "remove", "fallback", "await", "done"}]
      /\ conn \in [Clients -> {"none", "open", "closed"}]
      /\ uid \in [Clients -> UserIds \cup {EmptyId}]
      /\ resp \in [Clients -> Response]
      /\ wpc \in [Clients -> {"none", "run", "done"}]
  BY NilResponseType DEF Init
<1>2. /\ send \in [Clients -> Seq(Response)]
      /\ \A c \in Clients : Len(send[c]) <= BufferSize
      /\ broadcast \in Seq(RoomEvent)
      /\ Len(broadcast) <= BufferSize
  BY ChatRoomAssumption DEF Init
<1>3. /\ sendClosed \in [Clients -> BOOLEAN]
      /\ users \in [UserIds -> Clients \cup {NoClient}]
      /\ userRooms \in [UserIds -> Nat]
      /\ leaveEcho \in [Clients -> {"none", "pending", "echoed", "lost"}]
  BY DEF Init
<1>4. /\ bpc \in {"loop", "unindex", "exited"}
      /\ bUser \in UserIds \cup {EmptyId}
      /\ publishChan \in 0 .. PublishChanSize
      /\ inputs \in 0 .. MaxInputs
  BY ChatRoomAssumption DEF Init
<1>5. ctxDone \in BOOLEAN /\ swept \in BOOLEAN
  BY Zenon DEF Init
<1> QED
  BY <1>1, <1>2, <1>3, <1>4, <1>5 DEF TypeOK

\* Every step keeps every variable in its type, one named step per action.
LEMMA TypeStep == TypeOK /\ [Next]_vars => TypeOK'
<1> SUFFICES ASSUME TypeOK, [Next]_vars PROVE TypeOK'
  OBVIOUS
<1> USE ChatRoomAssumption
<1>1. ASSUME NEW c \in Clients, Upgrade(c) PROVE TypeOK'
  BY <1>1 DEF TypeOK, Upgrade, writerVars, roomVars, serverVars
<1>2. ASSUME NEW c \in Clients, RejectJoin(c) PROVE TypeOK'
  BY <1>2 DEF TypeOK, RejectJoin, writerVars, roomVars, serverVars
<1>3. ASSUME NEW c \in Clients, NEW u \in UserIds, JoinDuplicate(c, u) PROVE TypeOK'
  BY <1>3 DEF TypeOK, JoinDuplicate, writerVars, roomVars, serverVars
<1>4. ASSUME NEW c \in Clients, NEW u \in UserIds, NEW stamped \in Stamps,
             AddUserToRoom(c, u, stamped)
      PROVE  TypeOK'
  <2>1. NewResponse(c, u, "JOIN", stamped) \in Response
    BY NewResponseType
  <2> QED
    BY <1>4, <2>1 DEF TypeOK, AddUserToRoom, serverVars
<1>5. ASSUME NEW c \in Clients, NEW r \in Response,
             NEW next \in {"publish", "publishLeave"},
             BroadcastResponse(c, r, next),
             inputs' \in 0 .. MaxInputs,
             leaveEcho' \in [Clients -> {"none", "pending", "echoed", "lost"}]
      PROVE  TypeOK'
  <2>1. broadcast' \in Seq(RoomEvent) /\ Len(broadcast') <= BufferSize
    BY <1>5, EventType, OfferType DEF BroadcastResponse
  <2> QED
    BY <1>5, <2>1 DEF TypeOK, BroadcastResponse, writerVars
<1>6. ASSUME NEW c \in Clients, AnnounceJoin(c) PROVE TypeOK'
  BY <1>5, <1>6 DEF TypeOK, AnnounceJoin
<1>7. ASSUME NEW c \in Clients, NEW stamped \in Stamps, HandleText(c, stamped)
      PROVE  TypeOK'
  <2>1. NewResponse(c, uid[c], "TEXT", stamped) \in Response
    BY NewResponseType
  <2>2. inputs' \in 0 .. MaxInputs
    BY <1>7 DEF TypeOK, HandleText
  <2> QED
    BY <1>5, <1>7, <2>1, <2>2 DEF TypeOK, HandleText
<1>8. ASSUME NEW c \in Clients, NEW stamped \in Stamps, HandleLeave(c, stamped)
      PROVE  TypeOK'
  <2>1. NewResponse(c, uid[c], "LEAVE", stamped) \in Response
    BY NewResponseType
  <2>2. leaveEcho' \in [Clients -> {"none", "pending", "echoed", "lost"}]
    BY <1>8 DEF TypeOK, HandleLeave
  <2> QED
    BY <1>5, <1>8, <2>1, <2>2 DEF TypeOK, HandleLeave
<1>9. ASSUME NEW c \in Clients, HandleReadError(c) PROVE TypeOK'
  <2>1. NewResponse(c, uid[c], "LEAVE", FALSE) \in Response
    BY NewResponseType
  <2> QED
    BY <1>5, <1>9, <2>1 DEF TypeOK, HandleReadError
<1>10. ASSUME NEW c \in Clients, Publish(c) PROVE TypeOK'
  <2>1. publishChan' \in 0 .. PublishChanSize
    BY <1>10 DEF TypeOK, Publish
  <2>2. resp' \in [Clients -> Response]
    BY <1>10, NilResponseType DEF TypeOK, Publish
  <2> QED
    BY <1>10, <2>1, <2>2 DEF TypeOK, Publish, writerVars, roomVars
<1>11. ASSUME NEW c \in Clients, ScheduleRemoveUser(c) PROVE TypeOK'
  <2>1. broadcast' \in Seq(RoomEvent) /\ Len(broadcast') <= BufferSize
    BY <1>11, EventType, OfferType DEF TypeOK, ScheduleRemoveUser
  <2> QED
    BY <1>11, <2>1 DEF TypeOK, ScheduleRemoveUser, writerVars, serverVars
<1>12. ASSUME NEW c \in Clients, RemoveUserFromRoom(c) PROVE TypeOK'
  <2>1. /\ sendClosed' \in [Clients -> BOOLEAN]
        /\ users' \in [UserIds -> Clients \cup {NoClient}]
    BY <1>12, CloseType DEF TypeOK, RemoveUserFromRoom
  <2>2. userRooms' \in [UserIds -> Nat]
    BY <1>12, DropType DEF TypeOK, RemoveUserFromRoom
  <2> QED
    BY <1>12, <2>1, <2>2 DEF TypeOK, RemoveUserFromRoom, serverVars
<1>13. ASSUME NEW c \in Clients, Return(c) PROVE TypeOK'
  BY <1>13 DEF TypeOK, Return, writerVars, roomVars, serverVars
<1>14. ASSUME NEW c \in Clients, WriteResponse(c) PROVE TypeOK'
  BY <1>14 DEF TypeOK, WriteResponse, handlerVars, roomVars, serverVars
<1>15. ASSUME NEW c \in Clients, WriteError(c) PROVE TypeOK'
  BY <1>15 DEF TypeOK, WriteError, handlerVars, roomVars, serverVars
<1>16. ASSUME NEW c \in Clients, WriterDrained(c) PROVE TypeOK'
  BY <1>16 DEF TypeOK, WriterDrained, handlerVars, roomVars, serverVars
<1>17. ASSUME NEW c \in Clients, WriterCancelled(c) PROVE TypeOK'
  BY <1>17 DEF TypeOK, WriterCancelled, handlerVars, roomVars, serverVars
<1>18. CASE FanOut
  <2>1. broadcast' \in Seq(RoomEvent) /\ Len(broadcast') <= BufferSize
    BY <1>18, ReceiveType DEF FanOut
  <2>2. Head(broadcast).resp \in Response
    BY <1>18, ReceiveType DEF FanOut, RoomEvent
  <2>3. /\ send' \in [Clients -> Seq(Response)]
        /\ \A c \in Clients : Len(send'[c]) <= BufferSize
    <3>1. ASSUME NEW c \in Clients
          PROVE  \/ send'[c] = send[c]
                 \/ /\ Len(send[c]) < BufferSize
                    /\ send'[c] = Append(send[c], Head(broadcast).resp)
      BY <1>18 DEF FanOut
    <3>2. ASSUME NEW c \in Clients
          PROVE  send'[c] \in Seq(Response) /\ Len(send'[c]) <= BufferSize
      <4>1. send[c] \in Seq(Response) /\ Len(send[c]) <= BufferSize
        BY DEF TypeOK
      <4>2. Len(send[c]) \in Nat
        BY <4>1
      <4>3. CASE send'[c] = send[c]
        BY <4>1, <4>3
      <4>4. CASE /\ Len(send[c]) < BufferSize
                 /\ send'[c] = Append(send[c], Head(broadcast).resp)
        BY <2>2, <4>1, <4>2, <4>4, AppendFacts
      <4> QED
        BY <3>1, <4>3, <4>4
    <3>3. DOMAIN send' = Clients /\ send' = [c \in Clients |-> send'[c]]
      BY <1>18 DEF FanOut
    <3> QED
      BY <3>2, <3>3
  <2>4. leaveEcho' \in [Clients -> {"none", "pending", "echoed", "lost"}]
    BY <1>18 DEF TypeOK, FanOut
  <2> QED
    BY <1>18, <2>1, <2>3, <2>4 DEF TypeOK, FanOut, handlerVars, serverVars
<1>19. CASE RemoveInOrder
  <2>1. /\ broadcast' \in Seq(RoomEvent)
        /\ Len(broadcast') <= BufferSize
        /\ Head(broadcast).removeUserId \in UserIds \cup {EmptyId}
    BY <1>19, ReceiveType DEF RemoveInOrder, RoomEvent
  <2>2. /\ sendClosed' \in [Clients -> BOOLEAN]
        /\ users' \in [UserIds -> Clients \cup {NoClient}]
        /\ bpc' \in {"loop", "unindex", "exited"}
        /\ bUser' \in UserIds \cup {EmptyId}
    <3>1. CASE UNCHANGED <<sendClosed, users, bpc, bUser>>
      BY <3>1 DEF TypeOK
    <3>2. CASE /\ CloseAndDelete(Head(broadcast).removeUserId)
               /\ bpc' = "unindex"
               /\ bUser' = Head(broadcast).removeUserId
      BY <2>1, <3>2 DEF TypeOK, CloseAndDelete
    <3> QED
      BY <1>19, <3>1, <3>2 DEF RemoveInOrder
  <2> QED
    BY <1>19, <2>1, <2>2 DEF TypeOK, RemoveInOrder, handlerVars, serverVars
<1>20. CASE RemoveFromUserRooms
  <2>1. userRooms' \in [UserIds -> Nat]
    BY <1>20, DropType DEF RemoveFromUserRooms
  <2> QED
    BY <1>20, <2>1 DEF TypeOK, RemoveFromUserRooms, handlerVars, writerVars, serverVars
<1>21. CASE RoomContextDone
  BY <1>21 DEF TypeOK, RoomContextDone, CloseConns, handlerVars, serverVars
<1>22. CASE ConsumeMessages
  <2>1. RespEvent(RemoteResponse) \in RoomEvent
    BY EventType DEF RemoteResponse, Response
  <2>2. broadcast' \in Seq(RoomEvent) /\ Len(broadcast') <= BufferSize
    BY <1>22, <2>1, OfferType DEF ConsumeMessages
  <2> QED
    BY <1>22, <2>2 DEF TypeOK, ConsumeMessages, handlerVars, writerVars
<1>23. CASE PublishWorker
  BY <1>23 DEF TypeOK, PublishWorker, handlerVars, writerVars, roomVars
<1>24. CASE Cancel
  BY <1>24 DEF TypeOK, Cancel, handlerVars, writerVars, roomVars
<1>25. CASE ForceCloseConns
  BY <1>25 DEF TypeOK, ForceCloseConns, CloseConns, handlerVars, writerVars, roomVars
<1>26. CASE UNCHANGED vars
  BY <1>26 DEF TypeOK, vars, handlerVars, writerVars, roomVars, serverVars
<1> QED
  BY <1>1, <1>2, <1>3, <1>4, <1>6, <1>7, <1>8, <1>9, <1>10, <1>11, <1>12, <1>13,
     <1>14, <1>15, <1>16, <1>17, <1>18, <1>19, <1>20, <1>21, <1>22, <1>23, <1>24,
     <1>25, <1>26
  DEF Next, Handler, Writer, BroadcastLoop, Terminated

\* Every variable keeps its type, and Broadcast, Send and publishChan never
\* exceed their capacities, for any number of connections, users and messages.
THEOREM TypeCorrect == Spec => []TypeOK
<1>1. Init => TypeOK
  BY TypeInit
<1>2. TypeOK /\ [Next]_vars => TypeOK'
  BY TypeStep
<1> QED
  BY <1>1, <1>2, PTL DEF Spec
-----------------------------------------------------------------------------
\* The inductive invariant.

\* A member is registered under the user id of its handler, which has joined.
MembersJoined ==
  \A u \in UserIds : users[u] # NoClient =>
    /\ uid[users[u]] = u
    /\ hpc[users[u]] \notin {"idle", "joining"}

\* Until a handler has scheduled its removal its user id is its own.
HandlersRegistered ==
  \A c \in Clients :
    hpc[c] \in {"announce", "publish", "reading", "publishLeave", "remove", "fallback"}
      => uid[c] \in UserIds /\ users[uid[c]] = c

\* Send is open before the JOIN.
FreshSendOpen == \A c \in Clients : hpc[c] \in {"idle", "joining"} => ~sendClosed[c]

\* A handler announces messages of its own client only.
OwnResponses == \A c \in Clients : resp[c].from \in {c, NoClient}

IInv ==
  /\ TypeOK
  /\ MembersJoined
  /\ HandlersRegistered
  /\ FreshSendOpen
  /\ OwnResponses
  /\ NoSendOnClosed
  /\ IndexMatchesMembership
  /\ NothingBehindRemoval
-----------------------------------------------------------------------------
\* What the queue operations do to NothingBehindRemoval.

Departed(c) == hpc[c] \in {"await", "done"}

\* After an offer, every event is an old one in its old place or the new one.
LEMMA OfferIndex ==
  ASSUME TypeOK, NEW e \in RoomEvent, Offer(e)
  PROVE  /\ Len(broadcast) \in Nat
         /\ Len(broadcast') \in {Len(broadcast), Len(broadcast) + 1}
         /\ \A i \in 1 .. Len(broadcast) : broadcast'[i] = broadcast[i]
         /\ Len(broadcast') = Len(broadcast) + 1 => broadcast'[Len(broadcast) + 1] = e
<1>1. broadcast \in Seq(RoomEvent) /\ Len(broadcast) \in Nat
  BY DEF TypeOK
<1>2. CASE broadcast' = broadcast
  BY <1>1, <1>2
<1>3. CASE broadcast' = Append(broadcast, e)
  BY <1>1, <1>3, AppendFacts
<1> QED
  BY <1>2, <1>3 DEF Offer

\* Receiving moves every other event one place up.
LEMMA ReceiveIndex ==
  ASSUME TypeOK, broadcast # <<>>, broadcast' = Tail(broadcast)
  PROVE  /\ Len(broadcast) \in Nat \ {0}
         /\ Len(broadcast') = Len(broadcast) - 1
         /\ \A i \in 1 .. Len(broadcast') : broadcast'[i] = broadcast[i + 1]
         /\ Head(broadcast) = broadcast[1]
  BY DEF TypeOK

\* The queue is untouched and departed members stay so.
LEMMA KeepQueue ==
  ASSUME NothingBehindRemoval, UNCHANGED broadcast,
         \A u \in UserIds : users[u] # NoClient /\ Departed(users[u]) =>
           users'[u] = users[u] /\ Departed(users[u])'
  PROVE  NothingBehindRemoval'
  BY DEF NothingBehindRemoval, Removes, Departed

\* A response is offered whose sender has not departed.
LEMMA OfferResponse ==
  ASSUME TypeOK, NothingBehindRemoval, NEW r \in Response, Offer(RespEvent(r)),
         UNCHANGED users,
         \A u \in UserIds : users[u] # NoClient /\ Departed(users[u]) =>
           Departed(users[u])' /\ r.from # users[u]
  PROVE  NothingBehindRemoval'
<1>1. RespEvent(r) \in RoomEvent
  BY EventType
<1>2. /\ RespEvent(r).resp = r
      /\ RespEvent(r).removeUserId = EmptyId
  BY DEF RespEvent
<1>3. ASSUME NEW i \in 1 .. Len(broadcast'), NEW u \in UserIds, Removes(broadcast'[i], u)
      PROVE  i \in 1 .. Len(broadcast) /\ broadcast'[i] = broadcast[i]
  BY <1>1, <1>2, <1>3, OfferIndex DEF Removes
<1>4. ASSUME NEW i \in 1 .. Len(broadcast'), NEW u \in UserIds, Removes(broadcast'[i], u)
      PROVE  /\ users[u] # NoClient
             /\ Departed(users[u])
             /\ \A j \in i + 1 .. Len(broadcast) :
                  broadcast[j].resp.from # users[u] /\ ~Removes(broadcast[j], u)
  BY <1>3, <1>4 DEF NothingBehindRemoval, Departed
<1>5. ASSUME NEW i \in 1 .. Len(broadcast'), NEW u \in UserIds, Removes(broadcast'[i], u),
             NEW j \in i + 1 .. Len(broadcast')
      PROVE  broadcast'[j].resp.from # users[u] /\ ~Removes(broadcast'[j], u)
  <2>1. CASE j \in i + 1 .. Len(broadcast)
    BY <1>1, <1>3, <1>4, <1>5, <2>1, OfferIndex
  <2>2. CASE j \notin i + 1 .. Len(broadcast)
    <3>1. broadcast'[j] = RespEvent(r)
      BY <1>1, <1>5, <2>2, OfferIndex
    <3> QED
      BY <1>2, <1>4, <1>5, <3>1 DEF Removes
  <2> QED
    BY <2>1, <2>2
<1> QED
  BY <1>4, <1>5 DEF NothingBehindRemoval, Departed

\* The removal of a member is offered, and if it is enqueued the member, of
\* whom no removal was queued before, has departed.
LEMMA OfferRemoval ==
  ASSUME TypeOK, NothingBehindRemoval, MembersJoined,
         NEW c \in Clients, uid[c] \in UserIds, users[uid[c]] = c, ~Departed(c),
         Offer(RemoveEvent(uid[c])), UNCHANGED users,
         ~BroadcastFull => Departed(c)',
         \A d \in Clients \ {c} : Departed(d) => Departed(d)'
  PROVE  NothingBehindRemoval'
<1> DEFINE e == RemoveEvent(uid[c])
<1>1. /\ e \in RoomEvent
      /\ e.resp.from = NoClient
      /\ e.removeUserId = uid[c]
  BY EventType DEF RemoveEvent, NilResponse
<1>2. NoClient \notin Clients
  BY ChatRoomAssumption
<1>3. ASSUME NEW i \in 1 .. Len(broadcast), NEW u \in UserIds, Removes(broadcast[i], u)
      PROVE  /\ users[u] \in Clients \ {c}
             /\ Departed(users[u])
             /\ u # uid[c]
             /\ \A j \in i + 1 .. Len(broadcast) :
                  broadcast[j].resp.from # users[u] /\ ~Removes(broadcast[j], u)
  <2>1. /\ users[u] # NoClient
        /\ Departed(users[u])
        /\ \A j \in i + 1 .. Len(broadcast) :
             broadcast[j].resp.from # users[u] /\ ~Removes(broadcast[j], u)
    BY <1>3 DEF NothingBehindRemoval, Departed
  <2> QED
    BY <2>1 DEF TypeOK
<1>4. ASSUME NEW i \in 1 .. Len(broadcast), NEW u \in UserIds, Removes(broadcast'[i], u)
      PROVE  /\ users[u] # NoClient
             /\ Departed(users[u])'
             /\ \A j \in i + 1 .. Len(broadcast') :
                  broadcast'[j].resp.from # users[u] /\ ~Removes(broadcast'[j], u)
  <2>1. Removes(broadcast[i], u)
    BY <1>1, <1>4, OfferIndex
  <2>2. users[u] # NoClient /\ Departed(users[u])'
    BY <1>2, <1>3, <2>1 DEF Departed
  <2>3. ASSUME NEW j \in i + 1 .. Len(broadcast')
        PROVE  broadcast'[j].resp.from # users[u] /\ ~Removes(broadcast'[j], u)
    <3>1. CASE j \in i + 1 .. Len(broadcast)
      BY <1>1, <1>3, <2>1, <3>1, OfferIndex
    <3>2. CASE j \notin i + 1 .. Len(broadcast)
      <4>1. broadcast'[j] = e
        BY <1>1, <2>3, <3>2, OfferIndex
      <4> QED
        BY <1>1, <1>3, <2>1, <2>2, <4>1 DEF Removes
    <3> QED
      BY <3>1, <3>2
  <2> QED
    BY <2>2, <2>3
<1>5. ASSUME NEW i \in 1 .. Len(broadcast'), i \notin 1 .. Len(broadcast),
             NEW u \in UserIds, Removes(broadcast'[i], u)
      PROVE  /\ users[u] # NoClient
             /\ Departed(users[u])'
             /\ \A j \in i + 1 .. Len(broadcast') :
                  broadcast'[j].resp.from # users[u] /\ ~Removes(broadcast'[j], u)
  <2>1. i = Len(broadcast) + 1 /\ Len(broadcast') = i /\ broadcast'[i] = e
    BY <1>1, <1>5, OfferIndex
  <2>2. u = uid[c]
    BY <1>1, <1>5, <2>1 DEF Removes
  <2>3. ~BroadcastFull
    BY <2>1, OfferIndex, <1>1 DEF Offer
  <2> QED
    BY <1>2, <2>1, <2>2, <2>3, OfferIndex, <1>1 DEF Departed
<1> QED
  BY <1>4, <1>5 DEF NothingBehindRemoval, Departed

\* The head of the queue is received; if it removes a user, what follows
\* neither names the user nor comes from the connection that held the id.
LEMMA ReceiveQueue ==
  ASSUME TypeOK, NothingBehindRemoval, broadcast # <<>>, broadcast' = Tail(broadcast),
         UNCHANGED hpc,
         \A u \in UserIds : users'[u] = users[u] \/ Removes(Head(broadcast), u)
  PROVE  NothingBehindRemoval'
<1>1. ASSUME NEW i \in 1 .. Len(broadcast'), NEW u \in UserIds, Removes(broadcast'[i], u)
      PROVE  /\ i + 1 \in 1 .. Len(broadcast)
             /\ broadcast'[i] = broadcast[i + 1]
             /\ users'[u] = users[u]
  <2>1. i + 1 \in 1 .. Len(broadcast) /\ i + 1 \in 2 .. Len(broadcast) /\ 1 \in 1 .. Len(broadcast)
    BY ReceiveIndex
  <2>2. broadcast'[i] = broadcast[i + 1]
    BY ReceiveIndex
  <2>3. ~Removes(broadcast[1], u)
    BY <1>1, <2>1, <2>2 DEF NothingBehindRemoval
  <2> QED
    BY <2>1, <2>2, <2>3, ReceiveIndex
<1>2. ASSUME NEW i \in 1 .. Len(broadcast'), NEW u \in UserIds, Removes(broadcast'[i], u),
             NEW j \in i + 1 .. Len(broadcast')
      PROVE  broadcast'[j].resp.from # users[u] /\ ~Removes(broadcast'[j], u)
  <2>1. i \in Nat /\ j \in 1 .. Len(broadcast') /\ j + 1 \in i + 2 .. Len(broadcast)
    BY ReceiveIndex
  <2>2. broadcast'[j] = broadcast[j + 1]
    BY <2>1, ReceiveIndex
  <2> QED
    BY <1>1, <1>2, <2>1, <2>2 DEF NothingBehindRemoval
<1>3. ASSUME NEW i \in 1 .. Len(broadcast'), NEW u \in UserIds, Removes(broadcast'[i], u)
      PROVE  users[u] # NoClient /\ hpc[users[u]] \in {"await", "done"}
  BY <1>1, <1>3 DEF NothingBehindRemoval
<1> QED
  BY <1>1, <1>2, <1>3 DEF NothingBehindRemoval
-----------------------------------------------------------------------------
\* The invariant is inductive.

\* The inductive invariant holds initially.
LEMMA InvInit == Init => IInv
<1> SUFFICES ASSUME Init PROVE IInv
  OBVIOUS
<1>1. TypeOK
  BY TypeInit
<1>2. MembersJoined /\ HandlersRegistered /\ FreshSendOpen
  BY DEF Init, MembersJoined, HandlersRegistered, FreshSendOpen
<1>3. OwnResponses
  BY DEF Init, OwnResponses, NilResponse
<1>4. NoSendOnClosed /\ IndexMatchesMembership /\ NothingBehindRemoval
  BY DEF Init, NoSendOnClosed, IndexMatchesMembership, NothingBehindRemoval
<1> QED
  BY <1>1, <1>2, <1>3, <1>4 DEF IInv

\* The conjuncts about members, for a step that leaves Users and Send alone
\* and moves one handler forward within the room.
LEMMA HandlerStep ==
  ASSUME IInv, NEW c \in Clients, users[uid[c]] = c, uid[c] \in UserIds,
         hpc[c] \notin {"idle", "joining"},
         NEW next, next \notin {"idle", "joining"},
         hpc' = [hpc EXCEPT ![c] = next],
         UNCHANGED <<uid, users, userRooms, sendClosed, bpc, bUser>>
  PROVE  /\ MembersJoined' /\ HandlersRegistered' /\ FreshSendOpen'
         /\ NoSendOnClosed' /\ IndexMatchesMembership'
  BY DEF IInv, TypeOK, MembersJoined, HandlersRegistered, FreshSendOpen,
         NoSendOnClosed, IndexMatchesMembership

\* A step that announces a response of the handler's own client.
LEMMA BroadcastStep ==
  ASSUME IInv, TypeOK', NEW c \in Clients,
         hpc[c] \in {"announce", "reading"},
         NEW r \in Response, r.from \in {c, NoClient},
         NEW next \in {"publish", "publishLeave"}, BroadcastResponse(c, r, next)
  PROVE  IInv'
<1>1. users[uid[c]] = c /\ uid[c] \in UserIds /\ TypeOK
  BY DEF IInv, HandlersRegistered
<1>2. /\ hpc' = [hpc EXCEPT ![c] = next]
      /\ UNCHANGED <<uid, users, userRooms, sendClosed, bpc, bUser>>
  BY DEF BroadcastResponse, writerVars
<1>3. /\ MembersJoined' /\ HandlersRegistered' /\ FreshSendOpen'
      /\ NoSendOnClosed' /\ IndexMatchesMembership'
  BY <1>1, <1>2, HandlerStep
<1>4. OwnResponses'
  BY <1>1 DEF BroadcastResponse, IInv, TypeOK, OwnResponses
<1>5. \A u \in UserIds : users[u] # NoClient /\ Departed(users[u]) =>
        Departed(users[u])' /\ r.from # users[u]
  BY <1>1, <1>2 DEF Departed, TypeOK
<1>6. NothingBehindRemoval'
  BY <1>1, <1>2, <1>5, OfferResponse DEF BroadcastResponse, IInv
<1> QED
  BY <1>3, <1>4, <1>6 DEF IInv

\* The conjuncts about members, for a removal: only its handler's own entry goes.
LEMMA RemovalKeepsMembers ==
  ASSUME IInv, NEW u \in UserIds, users[u] \in Clients, CloseAndDelete(u),
         hpc[users[u]] \in {"fallback", "await", "done"},
         hpc'[users[u]] \in {"await", "done"},
         \A d \in Clients \ {users[u]} : hpc'[d] = hpc[d],
         UNCHANGED <<uid, resp>>,
         bpc' # "exited" => bpc # "exited"
  PROVE  /\ MembersJoined' /\ HandlersRegistered' /\ FreshSendOpen' /\ OwnResponses'
         /\ NoSendOnClosed'
<1> DEFINE c == users[u]
<1>1. uid[c] = u
  BY ChatRoomAssumption DEF IInv, MembersJoined
<1>2. /\ users'[u] = NoClient
      /\ \A v \in UserIds \ {u} : users'[v] = users[v] /\ users[v] # c
      /\ \A d \in Clients \ {c} : sendClosed'[d] = sendClosed[d]
  BY <1>1, ChatRoomAssumption DEF CloseAndDelete, IInv, TypeOK, MembersJoined
<1>7. ASSUME NEW v \in UserIds, users'[v] # NoClient
      PROVE  /\ v # u
             /\ users'[v] = users[v]
             /\ users[v] \in Clients \ {c}
  BY <1>2, <1>7 DEF IInv, TypeOK
<1>3. MembersJoined'
  <2>1. ASSUME NEW v \in UserIds, users'[v] # NoClient
        PROVE  uid'[users'[v]] = v /\ hpc'[users'[v]] \notin {"idle", "joining"}
    BY <1>7, <2>1 DEF IInv, MembersJoined
  <2> QED
    BY <2>1 DEF MembersJoined
<1>4. HandlersRegistered'
  BY <1>2 DEF IInv, TypeOK, HandlersRegistered
<1>5. FreshSendOpen' /\ OwnResponses'
  BY <1>2 DEF IInv, FreshSendOpen, OwnResponses
<1>6. NoSendOnClosed'
  BY <1>2, <1>7 DEF IInv, NoSendOnClosed
<1> QED
  BY <1>3, <1>4, <1>5, <1>6

\* Every step preserves the inductive invariant, one named step per action.
LEMMA InvStep == IInv /\ [Next]_vars => IInv'
<1> SUFFICES ASSUME IInv, [Next]_vars PROVE IInv'
  OBVIOUS
<1>t. TypeOK /\ TypeOK'
  BY TypeStep DEF IInv
<1>a. NoClient \notin Clients
  BY ChatRoomAssumption
\* Steps the invariant does not see.
<1>q. ASSUME UNCHANGED <<hpc, uid, resp, sendClosed, users, userRooms, broadcast, bpc, bUser>>
      PROVE  IInv'
  BY <1>q, <1>t DEF IInv, MembersJoined, HandlersRegistered, FreshSendOpen, OwnResponses,
     NoSendOnClosed, IndexMatchesMembership, NothingBehindRemoval
\* Steps of a handler that is not in the room.
<1>o. ASSUME NEW c \in Clients, hpc[c] \in {"idle", "joining"},
             NEW next \in {"joining", "done"}, hpc' = [hpc EXCEPT ![c] = next],
             UNCHANGED <<uid, resp, sendClosed, users, userRooms, broadcast, bpc, bUser>>
      PROVE  IInv'
  <2>1. \A u \in UserIds : users[u] # c
    BY <1>o, <1>a DEF IInv, MembersJoined
  <2>2. \A d \in Clients \ {c} : hpc'[d] = hpc[d]
    BY <1>o, <1>t DEF TypeOK
  <2>3. hpc'[c] = next
    BY <1>o, <1>t DEF TypeOK
  <2>4. MembersJoined' /\ HandlersRegistered' /\ FreshSendOpen' /\ OwnResponses'
    BY <1>o, <1>t, <2>1, <2>2, <2>3
    DEF IInv, TypeOK, MembersJoined, HandlersRegistered, FreshSendOpen, OwnResponses
  <2>5. NoSendOnClosed' /\ IndexMatchesMembership'
    BY <1>o DEF IInv, NoSendOnClosed, IndexMatchesMembership
  <2>6. NothingBehindRemoval'
    BY <1>o, <1>t, <2>1, <2>2, KeepQueue DEF IInv, TypeOK, Departed
  <2> QED
    BY <1>t, <2>4, <2>5, <2>6 DEF IInv
<1>1. ASSUME NEW c \in Clients, Upgrade(c) PROVE IInv'
  BY <1>1, <1>o DEF Upgrade, writerVars, roomVars
<1>2. ASSUME NEW c \in Clients, RejectJoin(c) PROVE IInv'
  BY <1>2, <1>o DEF RejectJoin, writerVars, roomVars
<1>3. ASSUME NEW c \in Clients, NEW u \in UserIds, JoinDuplicate(c, u) PROVE IInv'
  BY <1>3, <1>o DEF JoinDuplicate, writerVars, roomVars
<1>4. ASSUME NEW c \in Clients, NEW u \in UserIds, NEW stamped \in Stamps,
             AddUserToRoom(c, u, stamped)
      PROVE  IInv'
  <2>1. \A v \in UserIds : users[v] # c
    BY <1>4, <1>a DEF AddUserToRoom, IInv, MembersJoined
  <2>2. /\ users'[u] = c /\ uid'[c] = u /\ hpc'[c] = "announce"
        /\ \A v \in UserIds \ {u} : users'[v] = users[v]
        /\ \A d \in Clients \ {c} : hpc'[d] = hpc[d] /\ uid'[d] = uid[d]
        /\ users[u] = NoClient /\ ~sendClosed[c]
    BY <1>4, <1>t DEF AddUserToRoom, TypeOK, IInv, FreshSendOpen
  <2>3. MembersJoined'
    <3>1. ASSUME NEW v \in UserIds \ {u}, users[v] # NoClient
          PROVE  /\ users[v] \in Clients \ {c}
                 /\ uid[users[v]] = v
                 /\ hpc[users[v]] \notin {"idle", "joining"}
      BY <1>t, <2>1, <3>1 DEF IInv, TypeOK, MembersJoined
    <3>2. ASSUME NEW v \in UserIds \ {u}, users'[v] # NoClient
          PROVE  /\ uid'[users'[v]] = v
                 /\ hpc'[users'[v]] \notin {"idle", "joining"}
      BY <2>2, <3>1, <3>2
    <3> QED
      BY <2>2, <3>2 DEF MembersJoined
  <2>4. HandlersRegistered'
    <3>1. ASSUME NEW d \in Clients \ {c},
                 hpc[d] \in {"announce", "publish", "reading", "publishLeave", "remove",
                            "fallback"}
          PROVE  uid[d] \in UserIds \ {u} /\ users[uid[d]] = d
      BY <1>a, <2>2, <3>1 DEF IInv, HandlersRegistered
    <3>2. ASSUME NEW d \in Clients \ {c},
                 hpc'[d] \in {"announce", "publish", "reading", "publishLeave", "remove",
                             "fallback"}
          PROVE  uid'[d] \in UserIds /\ users'[uid'[d]] = d
      BY <2>2, <3>1, <3>2
    <3> QED
      BY <2>2, <3>2 DEF HandlersRegistered
  <2>5. FreshSendOpen' /\ NoSendOnClosed'
    BY <1>4, <1>t, <2>2 DEF AddUserToRoom, IInv, TypeOK, FreshSendOpen, NoSendOnClosed
  <2>6. OwnResponses'
    <3>1. NewResponse(c, u, "JOIN", stamped).from \in {c, NoClient}
      BY NewResponseType, ChatRoomAssumption
    <3> QED
      BY <1>4, <1>t, <3>1 DEF AddUserToRoom, IInv, TypeOK, OwnResponses
  <2>7. IndexMatchesMembership'
    <3>1. userRooms'[u] = userRooms[u] + 1 /\ \A v \in UserIds \ {u} : userRooms'[v] = userRooms[v]
      BY <1>4, <1>t DEF AddUserToRoom, TypeOK
    <3> QED
      <4>1. users[u] = NoClient /\ users'[u] = c /\ c # NoClient
            /\ \A v \in UserIds \ {u} : users'[v] = users[v]
        BY <1>4, <1>t, <1>a DEF AddUserToRoom, TypeOK
      <4>2. UNCHANGED <<bpc, bUser>>
        BY <1>4 DEF AddUserToRoom
      <4>3. \A v \in UserIds :
              userRooms[v] = (IF users[v] # NoClient THEN 1 ELSE 0)
                             + (IF bpc = "unindex" /\ bUser = v THEN 1 ELSE 0)
        BY DEF IInv, IndexMatchesMembership
      <4> SUFFICES ASSUME NEW v \in UserIds
                   PROVE  userRooms'[v] = (IF users'[v] # NoClient THEN 1 ELSE 0)
                                          + (IF bpc' = "unindex" /\ bUser' = v THEN 1 ELSE 0)
        BY DEF IndexMatchesMembership
      <4>4. CASE v = u
        BY <3>1, <4>1, <4>2, <4>3, <4>4
      <4>5. CASE v # u
        BY <3>1, <4>1, <4>2, <4>3, <4>5
      <4> QED
        BY <4>4, <4>5
  <2>8. NothingBehindRemoval'
    BY <1>4, <1>t, <2>1, <2>2, KeepQueue DEF AddUserToRoom, IInv, TypeOK, Departed
  <2> QED
    BY <1>t, <2>3, <2>4, <2>5, <2>6, <2>7, <2>8 DEF IInv
<1>5. ASSUME NEW c \in Clients, AnnounceJoin(c) PROVE IInv'
  <2>1. resp[c] \in Response /\ resp[c].from \in {c, NoClient}
    BY <1>t DEF TypeOK, IInv, OwnResponses
  <2> QED
    BY <1>5, <1>t, <2>1, BroadcastStep DEF AnnounceJoin
<1>6. ASSUME NEW c \in Clients, NEW stamped \in Stamps, HandleText(c, stamped)
      PROVE  IInv'
  <2>1. /\ NewResponse(c, uid[c], "TEXT", stamped) \in Response
        /\ NewResponse(c, uid[c], "TEXT", stamped).from \in {c, NoClient}
    BY NewResponseType, ChatRoomAssumption
  <2> QED
    BY <1>6, <1>t, <2>1, BroadcastStep DEF HandleText
<1>7. ASSUME NEW c \in Clients, NEW stamped \in Stamps, HandleLeave(c, stamped)
      PROVE  IInv'
  <2>1. /\ NewResponse(c, uid[c], "LEAVE", stamped) \in Response
        /\ NewResponse(c, uid[c], "LEAVE", stamped).from \in {c, NoClient}
    BY NewResponseType, ChatRoomAssumption
  <2> QED
    BY <1>7, <1>t, <2>1, BroadcastStep DEF HandleLeave
<1>8. ASSUME NEW c \in Clients, HandleReadError(c) PROVE IInv'
  <2>1. /\ NewResponse(c, uid[c], "LEAVE", FALSE) \in Response
        /\ NewResponse(c, uid[c], "LEAVE", FALSE).from \in {c, NoClient}
    BY NewResponseType
  <2> QED
    BY <1>8, <1>t, <2>1, BroadcastStep DEF HandleReadError
<1>9. ASSUME NEW c \in Clients, Publish(c) PROVE IInv'
  <2>1. users[uid[c]] = c /\ uid[c] \in UserIds
    BY <1>9 DEF Publish, IInv, HandlersRegistered
  <2>2. PICK next \in {"reading", "remove"} : hpc' = [hpc EXCEPT ![c] = next]
    BY <1>9 DEF Publish
  <2>3. /\ MembersJoined' /\ HandlersRegistered' /\ FreshSendOpen'
        /\ NoSendOnClosed' /\ IndexMatchesMembership'
    BY <1>9, <2>1, <2>2, HandlerStep DEF Publish, writerVars, roomVars
  <2>4. OwnResponses'
    <3>1. resp' = [resp EXCEPT ![c] = NilResponse] /\ NilResponse.from = NoClient
      BY <1>9 DEF Publish, NilResponse
    <3>2. \A d \in Clients : resp'[d] = IF d = c THEN NilResponse ELSE resp[d]
      BY <1>t, <3>1 DEF TypeOK
    <3> QED
      BY <3>1, <3>2 DEF IInv, OwnResponses
  <2>5. NothingBehindRemoval'
    <3>1. UNCHANGED <<broadcast, users>> /\ ~Departed(c)
      BY <1>9 DEF Publish, roomVars, Departed
    <3>2. \A d \in Clients \ {c} : hpc'[d] = hpc[d]
      BY <1>t, <2>2 DEF TypeOK
    <3>3. \A v \in UserIds : users[v] # NoClient => users[v] \in Clients
      BY <1>t DEF TypeOK
    <3>4. \A v \in UserIds : users[v] # NoClient /\ Departed(users[v]) =>
            users'[v] = users[v] /\ Departed(users[v])'
      BY <3>1, <3>2, <3>3 DEF Departed
    <3> QED
      BY <3>1, <3>4, KeepQueue DEF IInv
  <2> QED
    BY <1>t, <2>3, <2>4, <2>5 DEF IInv
<1>10. ASSUME NEW c \in Clients, ScheduleRemoveUser(c) PROVE IInv'
  <2>1. users[uid[c]] = c /\ uid[c] \in UserIds /\ hpc[c] = "remove"
    BY <1>10 DEF ScheduleRemoveUser, IInv, HandlersRegistered
  <2>2. /\ hpc' = [hpc EXCEPT ![c] = IF BroadcastFull THEN "fallback" ELSE "await"]
        /\ Offer(RemoveEvent(uid[c]))
        /\ UNCHANGED <<uid, resp, users, userRooms, sendClosed, bpc, bUser>>
    BY <1>10 DEF ScheduleRemoveUser, writerVars
  <2>3. /\ MembersJoined' /\ HandlersRegistered' /\ FreshSendOpen'
        /\ NoSendOnClosed' /\ IndexMatchesMembership'
    BY <2>1, <2>2, HandlerStep
  <2>4. OwnResponses'
    BY <2>2 DEF IInv, OwnResponses
  <2>5. /\ ~Departed(c)
        /\ ~BroadcastFull => Departed(c)'
        /\ \A d \in Clients \ {c} : Departed(d) => Departed(d)'
    BY <1>t, <2>1, <2>2 DEF Departed, TypeOK
  <2>6. NothingBehindRemoval'
    BY <1>t, <2>1, <2>2, <2>5, OfferRemoval DEF IInv
  <2> QED
    BY <1>t, <2>3, <2>4, <2>6 DEF IInv
<1>11. ASSUME NEW c \in Clients, RemoveUserFromRoom(c) PROVE IInv'
  <2> DEFINE u == uid[c]
  <2>1. users[u] = c /\ u \in UserIds /\ hpc[c] = "fallback"
    BY <1>11 DEF RemoveUserFromRoom, IInv, HandlersRegistered
  <2>2. /\ CloseAndDelete(u) /\ DropFromUserRooms(u)
        /\ UNCHANGED <<uid, resp, broadcast, bpc, bUser>>
        /\ hpc'[c] = "await" /\ \A d \in Clients \ {c} : hpc'[d] = hpc[d]
    BY <1>11, <1>a, <1>t, <2>1 DEF RemoveUserFromRoom, TypeOK
  <2>3. /\ MembersJoined' /\ HandlersRegistered' /\ FreshSendOpen' /\ OwnResponses'
        /\ NoSendOnClosed'
    BY <2>1, <2>2, RemovalKeepsMembers
  <2>4. IndexMatchesMembership'
    <3> SUFFICES ASSUME NEW v \in UserIds
                 PROVE  userRooms'[v] = (IF users'[v] # NoClient THEN 1 ELSE 0)
                                        + (IF bpc' = "unindex" /\ bUser' = v THEN 1 ELSE 0)
      BY DEF IndexMatchesMembership
    <3>1. /\ userRooms[v] \in Nat
          /\ userRooms[v] = (IF users[v] # NoClient THEN 1 ELSE 0)
                            + (IF bpc = "unindex" /\ bUser = v THEN 1 ELSE 0)
      BY <1>t DEF IInv, IndexMatchesMembership, TypeOK
    <3>2. UNCHANGED <<bpc, bUser>>
      BY <2>2
    <3>3. CASE v # u
      <4>1. users'[v] = users[v] /\ userRooms'[v] = userRooms[v]
        BY <1>t, <2>1, <2>2, <3>3 DEF CloseAndDelete, DropFromUserRooms, TypeOK
      <4> QED
        BY <3>1, <3>2, <4>1
    <3>4. CASE v = u
      <4>1. users[v] # NoClient /\ users'[v] = NoClient
        BY <1>a, <1>t, <2>1, <2>2, <3>4 DEF CloseAndDelete, TypeOK
      <4>2. userRooms'[v] = IF userRooms[v] > 0 THEN userRooms[v] - 1 ELSE userRooms[v]
        BY <1>t, <2>1, <2>2, <3>4 DEF DropFromUserRooms, TypeOK
      <4> QED
        BY <3>1, <3>2, <4>1, <4>2
    <3> QED
      BY <3>3, <3>4
  <2>5. ASSUME NEW v \in UserIds, users[v] # NoClient, Departed(users[v])
        PROVE  users'[v] = users[v] /\ Departed(users[v])'
    <3>1. v # u /\ users[v] \in Clients \ {c}
      <4>1. users[v] \in Clients
        BY <1>t, <2>5 DEF TypeOK
      <4>2. users[v] # c
        BY <2>1, <2>5 DEF Departed
      <4> QED
        BY <2>1, <4>1, <4>2
    <3> QED
      BY <1>t, <2>2, <2>5, <3>1 DEF Departed, CloseAndDelete, TypeOK
  <2>6. NothingBehindRemoval'
    BY <2>2, <2>5, KeepQueue DEF IInv
  <2> QED
    BY <1>t, <2>3, <2>4, <2>6 DEF IInv
<1>12. ASSUME NEW c \in Clients, Return(c) PROVE IInv'
  <2>1. /\ hpc'[c] = "done" /\ hpc[c] = "await"
        /\ \A d \in Clients \ {c} : hpc'[d] = hpc[d]
        /\ UNCHANGED <<uid, resp, users, userRooms, sendClosed, broadcast, bpc, bUser>>
    BY <1>12, <1>t DEF Return, TypeOK, writerVars, roomVars
  <2>2. MembersJoined' /\ HandlersRegistered' /\ FreshSendOpen' /\ OwnResponses'
    BY <1>t, <2>1
    DEF IInv, TypeOK, MembersJoined, HandlersRegistered, FreshSendOpen, OwnResponses
  <2>3. NoSendOnClosed' /\ IndexMatchesMembership'
    BY <2>1 DEF IInv, NoSendOnClosed, IndexMatchesMembership
  <2>4. NothingBehindRemoval'
    BY <1>t, <2>1, KeepQueue DEF IInv, TypeOK, Departed
  <2> QED
    BY <1>t, <2>2, <2>3, <2>4 DEF IInv
<1>13. ASSUME NEW c \in Clients, Writer(c) PROVE IInv'
  BY <1>13, <1>q DEF Writer, WriteResponse, WriteError, WriterDrained, WriterCancelled,
     handlerVars, roomVars
<1>14. CASE FanOut
  <2>1. /\ broadcast # <<>> /\ broadcast' = Tail(broadcast)
        /\ UNCHANGED <<hpc, uid, resp, sendClosed, users, userRooms, bpc, bUser>>
    BY <1>14 DEF FanOut, handlerVars
  <2>2. NothingBehindRemoval'
    BY <1>t, <2>1, ReceiveQueue DEF IInv
  <2> QED
    BY <1>t, <2>1, <2>2 DEF IInv, MembersJoined, HandlersRegistered, FreshSendOpen,
       OwnResponses, NoSendOnClosed, IndexMatchesMembership
<1>15. CASE RemoveInOrder
  <2> DEFINE u == Head(broadcast).removeUserId
  <2>1. /\ broadcast # <<>> /\ broadcast' = Tail(broadcast)
        /\ UNCHANGED <<hpc, uid, resp, userRooms>>
    BY <1>15 DEF RemoveInOrder, handlerVars
  <2>2. Removes(broadcast[1], u) /\ 1 \in 1 .. Len(broadcast) /\ u \in UserIds
    BY <1>15, <1>t, <2>1, ReceiveIndex, ReceiveType DEF RemoveInOrder, Removes, RoomEvent
  <2>3. users[u] \in Clients /\ Departed(users[u])
    BY <1>t, <2>2 DEF IInv, NothingBehindRemoval, TypeOK, Departed
  <2>4. CloseAndDelete(u) /\ bpc = "loop" /\ bpc' = "unindex" /\ bUser' = u
    BY <1>15, <1>a, <2>3 DEF RemoveInOrder
  <2>5. /\ MembersJoined' /\ HandlersRegistered' /\ FreshSendOpen' /\ OwnResponses'
        /\ NoSendOnClosed'
    BY <2>1, <2>2, <2>3, <2>4, RemovalKeepsMembers DEF Departed
  <2>6. IndexMatchesMembership'
    BY <1>a, <1>t, <2>1, <2>2, <2>3, <2>4
    DEF IInv, IndexMatchesMembership, CloseAndDelete, TypeOK
  <2>7. NothingBehindRemoval'
    <3>1. \A v \in UserIds : users'[v] = users[v] \/ Removes(Head(broadcast), v)
      BY <1>t, <2>2, <2>4, ReceiveIndex, <2>1 DEF CloseAndDelete, TypeOK
    <3> QED
      BY <1>t, <2>1, <3>1, ReceiveQueue DEF IInv
  <2> QED
    BY <1>t, <2>5, <2>6, <2>7 DEF IInv
<1>16. CASE RemoveFromUserRooms
  <2>1. /\ UNCHANGED <<hpc, uid, resp, sendClosed, users, broadcast>>
        /\ bpc = "unindex" /\ bpc' = "loop" /\ DropFromUserRooms(bUser)
    BY <1>16 DEF RemoveFromUserRooms, handlerVars, writerVars
  <2>2. MembersJoined' /\ HandlersRegistered' /\ FreshSendOpen' /\ OwnResponses'
    BY <2>1 DEF IInv, MembersJoined, HandlersRegistered, FreshSendOpen, OwnResponses
  <2>3. NoSendOnClosed' /\ NothingBehindRemoval'
    BY <2>1 DEF IInv, NoSendOnClosed, NothingBehindRemoval
  <2>4. IndexMatchesMembership'
    BY <1>t, <2>1 DEF IInv, IndexMatchesMembership, DropFromUserRooms, TypeOK
  <2> QED
    BY <1>t, <2>2, <2>3, <2>4 DEF IInv
<1>17. CASE RoomContextDone
  <2>1. /\ UNCHANGED <<hpc, uid, resp, users, userRooms, broadcast, bUser>>
        /\ bpc = "loop" /\ bpc' = "exited"
    BY <1>17 DEF RoomContextDone, handlerVars
  <2>2. MembersJoined' /\ HandlersRegistered' /\ OwnResponses' /\ NoSendOnClosed'
    BY <2>1 DEF IInv, MembersJoined, HandlersRegistered, OwnResponses, NoSendOnClosed
  <2>3. FreshSendOpen'
    BY <1>17, <1>a DEF IInv, RoomContextDone, FreshSendOpen, MembersJoined, Members, handlerVars
  <2>4. IndexMatchesMembership' /\ NothingBehindRemoval'
    BY <2>1 DEF IInv, IndexMatchesMembership, NothingBehindRemoval
  <2> QED
    BY <1>t, <2>2, <2>3, <2>4 DEF IInv
<1>18. CASE ConsumeMessages
  <2>1. /\ Offer(RespEvent(RemoteResponse))
        /\ UNCHANGED <<hpc, uid, resp, sendClosed, users, userRooms, bpc, bUser>>
    BY <1>18 DEF ConsumeMessages, handlerVars, writerVars
  <2>2. RemoteResponse \in Response /\ RemoteResponse.from = NoClient
    BY DEF RemoteResponse, Response
  <2>3. NothingBehindRemoval'
    BY <1>t, <2>1, <2>2, OfferResponse DEF IInv, Departed
  <2> QED
    BY <1>t, <2>1, <2>3 DEF IInv, MembersJoined, HandlersRegistered, FreshSendOpen,
       OwnResponses, NoSendOnClosed, IndexMatchesMembership
<1>19. CASE PublishWorker \/ Cancel \/ ForceCloseConns
  BY <1>19, <1>q DEF PublishWorker, Cancel, ForceCloseConns, handlerVars, writerVars, roomVars
<1>20. CASE UNCHANGED vars
  BY <1>20, <1>q DEF vars, handlerVars, writerVars, roomVars
<1> QED
  BY <1>1, <1>2, <1>3, <1>4, <1>5, <1>6, <1>7, <1>8, <1>9, <1>10, <1>11, <1>12, <1>13,
     <1>14, <1>15, <1>16, <1>17, <1>18, <1>19, <1>20
  DEF Next, Handler, BroadcastLoop, Terminated

\* The inductive invariant holds throughout every behaviour.
LEMMA Invariance == Spec => []IInv
<1>1. Init => IInv
  BY InvInit
<1>2. IInv /\ [Next]_vars => IInv'
  BY InvStep
<1> QED
  BY <1>1, <1>2, PTL DEF Spec

-----------------------------------------------------------------------------
\* The theorems.

\* The broadcast goroutine never sends on a closed channel.
THEOREM SendSafe == Spec => []NoSendOnClosed
<1>1. IInv => NoSendOnClosed
  BY DEF IInv
<1> QED
  BY <1>1, Invariance, PTL

\* The index of users never disagrees with the room's member map by more than
\* the one update the broadcast goroutine still owes.
THEOREM IndexCorrect == Spec => []IndexMatchesMembership
<1>1. IInv => IndexMatchesMembership
  BY DEF IInv
<1> QED
  BY <1>1, Invariance, PTL

\* Removals are in order: nothing of the leaver is queued behind its removal.
THEOREM RemovalInOrder == Spec => []NothingBehindRemoval
<1>1. IInv => NothingBehindRemoval
  BY DEF IInv
<1> QED
  BY <1>1, Invariance, PTL

\* A member is evicted only after its own handler has scheduled the removal.
THEOREM EvictionDeserved == Spec => OnlyDepartedRemoved
<1> DEFINE Step == \A u \in UserIds :
                     users[u] # NoClient /\ users'[u] # users[u] =>
                       hpc[users[u]] \in {"fallback", "await", "done"}
<1>1. IInv /\ [Next]_vars => [Step]_vars
  <2> SUFFICES ASSUME IInv, Next, NEW u \in UserIds,
                      users[u] # NoClient, users'[u] # users[u]
               PROVE  hpc[users[u]] \in {"fallback", "await", "done"}
    OBVIOUS
  <2>t. TypeOK
    BY DEF IInv
  <2>1. ASSUME NEW c \in Clients, NEW v \in UserIds, NEW stamped \in Stamps,
               AddUserToRoom(c, v, stamped)
        PROVE  FALSE
    BY <2>1, <2>t DEF AddUserToRoom, TypeOK
  <2>2. ASSUME NEW c \in Clients, RemoveUserFromRoom(c)
        PROVE  hpc[users[u]] \in {"fallback", "await", "done"}
    <3>1. users[uid[c]] = c /\ hpc[c] = "fallback"
      BY <2>2 DEF RemoveUserFromRoom, IInv, HandlersRegistered
    <3>2. u = uid[c]
      BY <2>2, <2>t DEF RemoveUserFromRoom, CloseAndDelete, TypeOK
    <3> QED
      BY <3>1, <3>2
  <2>3. CASE RemoveInOrder
    <3>1. u = Head(broadcast).removeUserId /\ u # EmptyId /\ broadcast # <<>>
      BY <2>3, <2>t DEF RemoveInOrder, CloseAndDelete, TypeOK
    <3>2. 1 \in 1 .. Len(broadcast) /\ Removes(broadcast[1], u)
      BY <2>t, <3>1 DEF TypeOK, Removes
    <3> QED
      BY <3>2 DEF IInv, NothingBehindRemoval
  <2>4. CASE UNCHANGED users
    BY <2>4
  <2>5. ASSUME NEW c \in Clients, Handler(c)
        PROVE  hpc[users[u]] \in {"fallback", "await", "done"}
    BY <2>1, <2>2, <2>4, <2>5
    DEF Handler, Upgrade, RejectJoin, JoinDuplicate, AnnounceJoin, HandleText, HandleLeave,
        HandleReadError, BroadcastResponse, Publish, ScheduleRemoveUser, Return, roomVars
  <2>6. ASSUME NEW c \in Clients, Writer(c)
        PROVE  UNCHANGED users
    BY <2>6 DEF Writer, WriteResponse, WriteError, WriterDrained, WriterCancelled, roomVars
  <2>7. CASE BroadcastLoop
    BY <2>3, <2>4, <2>7 DEF BroadcastLoop, FanOut, RemoveFromUserRooms, RoomContextDone
  <2>8. ASSUME ConsumeMessages \/ PublishWorker \/ Cancel \/ ForceCloseConns \/ Terminated
        PROVE  UNCHANGED users
    BY <2>8 DEF ConsumeMessages, PublishWorker, Cancel, ForceCloseConns, Terminated, vars, roomVars
  <2> QED
    BY <2>4, <2>5, <2>6, <2>7, <2>8 DEF Next
<1> QED
  BY <1>1, Invariance, PTL DEF Spec, OnlyDepartedRemoved

-----------------------------------------------------------------------------
\* Departures.

\* The removal of the connection's user is queued.
RemovalQueued(c) == \E i \in 1 .. Len(broadcast) : Removes(broadcast[i], uid[c])

Underway(c) == IF c \in Members THEN RemovalQueued(c) ELSE sendClosed[c]

\* A handler has no user id before its JOIN.
FreshUid == \A c \in Clients : hpc[c] \in {"idle", "joining"} => uid[c] = EmptyId

DepartureInv == IInv /\ FreshUid /\ DepartureUnderway

\* A connection is a member under the user id of its handler, and no other.
LEMMA MemberIs ==
  ASSUME TypeOK, MembersJoined, NoClient \notin Clients, NEW c \in Clients
  PROVE  c \in Members <=> uid[c] \in UserIds /\ users[uid[c]] = c
BY DEF TypeOK, MembersJoined, Members

\* A queued removal stays queued until it is received.
LEMMA RemovalKept ==
  ASSUME TypeOK, NEW c \in Clients, RemovalQueued(c), uid'[c] = uid[c],
         \/ broadcast' = broadcast
         \/ \E e \in RoomEvent : Offer(e)
         \/ /\ broadcast # <<>> /\ broadcast' = Tail(broadcast)
            /\ ~Removes(Head(broadcast), uid[c])
  PROVE  RemovalQueued(c)'
<1>1. PICK i \in 1 .. Len(broadcast) : Removes(broadcast[i], uid[c])
  BY DEF RemovalQueued
<1>2. CASE broadcast' = broadcast
  BY <1>1, <1>2 DEF RemovalQueued, Removes
<1>3. ASSUME NEW e \in RoomEvent, Offer(e)
      PROVE  RemovalQueued(c)'
  <2>1. i \in 1 .. Len(broadcast') /\ broadcast'[i] = broadcast[i]
    BY <1>3, OfferIndex
  <2> QED
    BY <1>1, <2>1 DEF RemovalQueued, Removes
<1>4. ASSUME broadcast # <<>>, broadcast' = Tail(broadcast),
             ~Removes(Head(broadcast), uid[c])
      PROVE  RemovalQueued(c)'
  <2>1. /\ Len(broadcast) \in Nat /\ Len(broadcast') = Len(broadcast) - 1
        /\ \A j \in 1 .. Len(broadcast') : broadcast'[j] = broadcast[j + 1]
        /\ Head(broadcast) = broadcast[1]
    BY <1>4, ReceiveIndex
  <2>2. i \in 1 .. Len(broadcast) /\ i # 1
    BY <1>1, <1>4, <2>1
  <2>3. i - 1 \in 1 .. Len(broadcast') /\ broadcast'[i - 1] = broadcast[i]
    BY <2>1, <2>2
  <2> QED
    BY <1>1, <2>3 DEF RemovalQueued, Removes
<1> QED
  BY <1>2, <1>3, <1>4

\* A departure goes on: the connection stays where it is, or leaves the room with
\* its Send closed.
LEMMA UnderwayKept ==
  ASSUME NEW c \in Clients, Underway(c),
         sendClosed[c] => sendClosed'[c],
         c \in Members' => c \in Members,
         c \in Members /\ c \notin Members' => sendClosed'[c],
         RemovalQueued(c) /\ c \in Members' => RemovalQueued(c)'
  PROVE  Underway(c)'
BY DEF Underway

\* Initially nobody has joined.
LEMMA DepartureInit == Init => DepartureInv
BY InvInit DEF Init, DepartureInv, FreshUid, DepartureUnderway

\* The user id comes with the JOIN.
LEMMA FreshUidStep ==
  ASSUME TypeOK, FreshUid, Next \/ UNCHANGED vars
  PROVE  FreshUid'
<1>1. CASE UNCHANGED <<hpc, uid>>
  BY <1>1 DEF FreshUid
<1>2. ASSUME NEW d \in Clients, NEW next, hpc' = [hpc EXCEPT ![d] = next], UNCHANGED uid,
             next \in {"idle", "joining"} => hpc[d] \in {"idle", "joining"}
      PROVE  FreshUid'
  BY <1>2 DEF FreshUid, TypeOK
<1>3. ASSUME NEW d \in Clients, NEW u, hpc' = [hpc EXCEPT ![d] = "announce"],
             uid' = [uid EXCEPT ![d] = u]
      PROVE  FreshUid'
  BY <1>3 DEF FreshUid, TypeOK
<1>4. ASSUME NEW d \in Clients, Handler(d)
      PROVE  FreshUid'
  <2>1. CASE Upgrade(d)
    BY <1>2, <2>1 DEF Upgrade
  <2>2. CASE RejectJoin(d) \/ (\E u \in UserIds : JoinDuplicate(d, u)) \/ Return(d)
    BY <1>2, <2>2 DEF RejectJoin, JoinDuplicate, Return
  <2>3. CASE \E u \in UserIds, stamped \in Stamps : AddUserToRoom(d, u, stamped)
    BY <1>3, <2>3 DEF AddUserToRoom
  <2>4. ASSUME NEW r, NEW next \in {"publish", "publishLeave"}, BroadcastResponse(d, r, next)
        PROVE  FreshUid'
    BY <1>2, <2>4 DEF BroadcastResponse
  <2>5. CASE AnnounceJoin(d) \/ (\E stamped \in Stamps : HandleText(d, stamped))
             \/ (\E stamped \in Stamps : HandleLeave(d, stamped)) \/ HandleReadError(d)
    BY <2>4, <2>5 DEF AnnounceJoin, HandleText, HandleLeave, HandleReadError
  <2>6. CASE Publish(d)
    <3>1. \E next \in {"reading", "remove"} : hpc' = [hpc EXCEPT ![d] = next]
      BY <2>6 DEF Publish
    <3> QED
      BY <1>2, <2>6, <3>1 DEF Publish
  <2>7. CASE ScheduleRemoveUser(d)
    <3>1. \E next \in {"fallback", "await"} : hpc' = [hpc EXCEPT ![d] = next]
      BY <2>7 DEF ScheduleRemoveUser
    <3> QED
      BY <1>2, <2>7, <3>1 DEF ScheduleRemoveUser
  <2>8. CASE RemoveUserFromRoom(d)
    BY <1>2, <2>8 DEF RemoveUserFromRoom
  <2> QED
    BY <1>4, <2>1, <2>2, <2>3, <2>5, <2>6, <2>7, <2>8 DEF Handler
<1>5. ASSUME NEW d \in Clients, Writer(d)
      PROVE  FreshUid'
  BY <1>1, <1>5
  DEF Writer, WriteResponse, WriteError, WriterDrained, WriterCancelled, handlerVars
<1>6. ASSUME BroadcastLoop \/ ConsumeMessages \/ PublishWorker \/ Cancel \/ ForceCloseConns
             \/ Terminated \/ UNCHANGED vars
      PROVE  FreshUid'
  BY <1>1, <1>6
  DEF BroadcastLoop, FanOut, RemoveInOrder, RemoveFromUserRooms, RoomContextDone,
      ConsumeMessages, PublishWorker, Cancel, ForceCloseConns, Terminated, vars, handlerVars
<1> QED
  BY <1>4, <1>5, <1>6 DEF Next

\* Every step keeps departures underway, one named step per action.
LEMMA DepartureStep == DepartureInv /\ [Next]_vars => DepartureInv'
<1> SUFFICES ASSUME DepartureInv, Next \/ UNCHANGED vars PROVE DepartureInv'
  OBVIOUS
<1>t. /\ IInv /\ IInv' /\ TypeOK /\ FreshUid /\ DepartureUnderway
      /\ MembersJoined /\ HandlersRegistered /\ NothingBehindRemoval /\ NoClient \notin Clients
  BY InvStep, ChatRoomAssumption DEF DepartureInv, IInv
<1>f. FreshUid'
  BY <1>t, FreshUidStep
<1> SUFFICES ASSUME NEW c \in Clients, hpc'[c] \in {"await", "done"}, uid'[c] # EmptyId
             PROVE  Underway(c)'
  BY <1>t, <1>f DEF DepartureInv, DepartureUnderway, Underway, RemovalQueued
<1>m. /\ c \in Members <=> uid[c] \in UserIds /\ users[uid[c]] = c
      /\ c \in Members' <=> uid'[c] \in UserIds /\ users'[uid'[c]] = c
  <2>1. TypeOK' /\ MembersJoined'
    BY <1>t DEF IInv
  <2>2. c \in Members' <=> uid'[c] \in UserIds /\ users'[uid'[c]] = c
    BY <1>t, <2>1 DEF TypeOK, MembersJoined, Members
  <2> QED
    BY <1>t, <2>2, MemberIs
<1>u. ASSUME Departed(c), uid'[c] = uid[c]
      PROVE  Underway(c)
  BY <1>t, <1>u DEF DepartureUnderway, Underway, RemovalQueued, Departed
\* A step that changes neither Users nor the closed flags, and at most adds to
\* the queue.
<1>s. ASSUME Departed(c), UNCHANGED <<uid, users, sendClosed>>,
             broadcast' = broadcast \/ \E e \in RoomEvent : Offer(e)
      PROVE  Underway(c)'
  <2>1. RemovalQueued(c) => RemovalQueued(c)'
    BY <1>t, <1>s, RemovalKept
  <2> QED
    BY <1>s, <1>u, <1>m, <2>1, UnderwayKept
\* The move of a handler, which makes no other one depart.
<1>h. ASSUME NEW d \in Clients, NEW next, hpc' = [hpc EXCEPT ![d] = next],
             c = d => Departed(d) \/ next \notin {"await", "done"}
      PROVE  Departed(c)
  BY <1>t, <1>h DEF Departed, TypeOK
<1>1. ASSUME NEW d \in Clients, Upgrade(d)
      PROVE  Underway(c)'
  BY <1>1, <1>h, <1>s DEF Upgrade, writerVars, roomVars
<1>2. ASSUME NEW d \in Clients, RejectJoin(d) \/ \E u \in UserIds : JoinDuplicate(d, u)
      PROVE  Underway(c)'
  <2>1. hpc[d] = "joining" /\ UNCHANGED <<uid, users, sendClosed, broadcast>>
        /\ hpc' = [hpc EXCEPT ![d] = "done"]
    BY <1>2 DEF RejectJoin, JoinDuplicate, writerVars, roomVars
  <2>2. c # d
    BY <1>t, <2>1 DEF FreshUid
  <2> QED
    BY <2>1, <2>2, <1>h, <1>s
<1>3. ASSUME NEW d \in Clients, NEW u \in UserIds, NEW stamped \in Stamps,
             AddUserToRoom(d, u, stamped)
      PROVE  Underway(c)'
  <2>1. c # d /\ Departed(c)
    BY <1>t, <1>3, <1>h DEF AddUserToRoom, TypeOK
  <2>2. /\ uid'[c] = uid[c] /\ UNCHANGED <<sendClosed, broadcast>>
        /\ users' = [users EXCEPT ![u] = d] /\ users[u] = NoClient
    BY <1>t, <1>3, <2>1 DEF AddUserToRoom, TypeOK
  <2>3. c \in Members' <=> c \in Members
    BY <1>t, <1>m, <2>1, <2>2 DEF TypeOK
  <2>4. RemovalQueued(c) => RemovalQueued(c)'
    BY <1>t, <2>2, RemovalKept
  <2> QED
    BY <1>u, <2>1, <2>2, <2>3, <2>4, UnderwayKept
<1>4. ASSUME NEW d \in Clients, NEW r \in Response, NEW next \in {"publish", "publishLeave"},
             BroadcastResponse(d, r, next)
      PROVE  Underway(c)'
  <2>1. RespEvent(r) \in RoomEvent /\ Offer(RespEvent(r))
    BY <1>4, EventType DEF BroadcastResponse
  <2>2. Departed(c)
    BY <1>4, <1>h DEF BroadcastResponse
  <2> QED
    BY <1>4, <1>s, <2>1, <2>2 DEF BroadcastResponse, writerVars
<1>5. ASSUME NEW d \in Clients,
             AnnounceJoin(d) \/ (\E stamped \in Stamps : HandleText(d, stamped))
             \/ (\E stamped \in Stamps : HandleLeave(d, stamped)) \/ HandleReadError(d)
      PROVE  Underway(c)'
  <2>1. \E r \in Response, next \in {"publish", "publishLeave"} : BroadcastResponse(d, r, next)
    <3>1. resp[d] \in Response /\ Stamps \subseteq BOOLEAN
      BY <1>t, ChatRoomAssumption DEF TypeOK
    <3>2. ASSUME NEW type \in {"JOIN", "TEXT", "LEAVE"}, NEW stamped \in BOOLEAN
          PROVE  NewResponse(d, uid[d], type, stamped) \in Response
      BY NewResponseType
    <3>3. CASE AnnounceJoin(d)
      BY <3>1, <3>3 DEF AnnounceJoin
    <3>4. CASE \E stamped \in Stamps : HandleText(d, stamped)
      BY <3>1, <3>2, <3>4 DEF HandleText
    <3>5. CASE \E stamped \in Stamps : HandleLeave(d, stamped)
      BY <3>1, <3>2, <3>5 DEF HandleLeave
    <3>6. CASE HandleReadError(d)
      BY <3>2, <3>6 DEF HandleReadError
    <3> QED
      BY <1>5, <3>3, <3>4, <3>5, <3>6
  <2> QED
    BY <1>4, <2>1
<1>6. ASSUME NEW d \in Clients, Publish(d)
      PROVE  Underway(c)'
  <2>1. \E next \in {"reading", "remove"} : hpc' = [hpc EXCEPT ![d] = next]
    BY <1>6 DEF Publish
  <2>2. Departed(c)
    BY <1>h, <2>1
  <2> QED
    BY <1>6, <1>s, <2>2 DEF Publish, writerVars, roomVars
<1>7. ASSUME NEW d \in Clients, ScheduleRemoveUser(d)
      PROVE  Underway(c)'
  <2>1. /\ hpc[d] = "remove" /\ UNCHANGED <<uid, users, sendClosed>>
        /\ uid[d] \in UserIds /\ users[uid[d]] = d
        /\ RemoveEvent(uid[d]) \in RoomEvent /\ Offer(RemoveEvent(uid[d]))
        /\ hpc' = [hpc EXCEPT ![d] = IF BroadcastFull THEN "fallback" ELSE "await"]
    <3>1. /\ hpc[d] = "remove" /\ UNCHANGED <<uid, users, sendClosed>>
          /\ Offer(RemoveEvent(uid[d]))
          /\ hpc' = [hpc EXCEPT ![d] = IF BroadcastFull THEN "fallback" ELSE "await"]
      BY <1>7 DEF ScheduleRemoveUser, writerVars
    <3>2. uid[d] \in UserIds /\ users[uid[d]] = d
      BY <1>t, <3>1 DEF HandlersRegistered
    <3> QED
      BY <3>1, <3>2, EventType
  <2>2. CASE c = d
    <3>1. ~BroadcastFull
      BY <1>t, <2>1, <2>2 DEF TypeOK
    <3>2. broadcast \in Seq(RoomEvent) /\ broadcast' = Append(broadcast, RemoveEvent(uid[d]))
      BY <1>t, <2>1, <3>1 DEF TypeOK, Offer
    <3>3. /\ Len(broadcast') \in 1 .. Len(broadcast')
          /\ broadcast'[Len(broadcast')] = RemoveEvent(uid[d])
      BY <2>1, <3>2, AppendFacts
    <3>4. Removes(RemoveEvent(uid[d]), uid[d])
      BY <2>1, <2>2 DEF Removes, RemoveEvent
    <3>5. \E i \in 1 .. Len(broadcast') : Removes(broadcast'[i], uid[c])
      BY <2>2, <3>3, <3>4
    <3>6. RemovalQueued(c)' /\ c \in Members'
      BY <1>m, <2>1, <2>2, <3>5 DEF RemovalQueued, Removes
    <3> QED
      BY <3>6 DEF Underway
  <2>3. CASE c # d
    <3>1. Departed(c)
      BY <1>h, <2>1, <2>3
    <3> QED
      BY <1>s, <2>1, <3>1
  <2> QED
    BY <2>2, <2>3
<1>8. ASSUME NEW d \in Clients, RemoveUserFromRoom(d)
      PROVE  Underway(c)'
  <2>1. /\ hpc[d] = "fallback" /\ UNCHANGED <<uid, broadcast>>
        /\ uid[d] \in UserIds /\ users[uid[d]] = d
        /\ hpc' = [hpc EXCEPT ![d] = "await"]
    BY <1>t, <1>8 DEF RemoveUserFromRoom, HandlersRegistered
  <2>2. /\ users' = [users EXCEPT ![uid[d]] = NoClient]
        /\ sendClosed' = [x \in Clients |-> sendClosed[x] \/ users[uid[d]] = x]
    BY <1>t, <1>8, <2>1 DEF RemoveUserFromRoom, CloseAndDelete
  <2>3. CASE c = d
    <3>1. sendClosed'[c] /\ c \notin Members'
      BY <1>t, <1>m, <2>1, <2>2, <2>3 DEF TypeOK
    <3> QED
      BY <3>1 DEF Underway
  <2>4. CASE c # d
    <3>1. Departed(c)
      BY <1>h, <2>1, <2>4
    <3>2. /\ sendClosed[c] => sendClosed'[c]
          /\ c \in Members' <=> c \in Members
      BY <1>t, <1>m, <2>1, <2>2, <2>4 DEF TypeOK
    <3>3. RemovalQueued(c) => RemovalQueued(c)'
      BY <1>t, <2>1, RemovalKept
    <3> QED
      BY <1>u, <2>1, <3>1, <3>2, <3>3, UnderwayKept
  <2> QED
    BY <2>3, <2>4
<1>9. ASSUME NEW d \in Clients, Return(d)
      PROVE  Underway(c)'
  BY <1>9, <1>h, <1>s DEF Return, Departed, writerVars, roomVars
\* The other steps move no handler.
<1>o. ASSUME UNCHANGED hpc
      PROVE  Departed(c)
  BY <1>o DEF Departed
<1>10. ASSUME NEW d \in Clients, Writer(d)
       PROVE  Underway(c)'
  <2>1. UNCHANGED <<hpc, uid, users, sendClosed, broadcast>>
    BY <1>10 DEF Writer, WriteResponse, WriteError, WriterDrained, WriterCancelled,
                 handlerVars, roomVars
  <2> QED
    BY <1>o, <1>s, <2>1
<1>11. CASE FanOut
  <2>1. /\ UNCHANGED <<hpc, uid, users, sendClosed>>
        /\ broadcast # <<>> /\ broadcast' = Tail(broadcast)
        /\ Head(broadcast).removeUserId = EmptyId
    BY <1>11 DEF FanOut, handlerVars
  <2>2. RemovalQueued(c) => RemovalQueued(c)'
    BY <1>t, <2>1, RemovalKept DEF Removes
  <2> QED
    BY <1>o, <1>u, <1>m, <2>1, <2>2, UnderwayKept
<1>12. CASE RemoveInOrder
  <2> DEFINE u == Head(broadcast).removeUserId
  <2>1. /\ UNCHANGED <<hpc, uid>> /\ u # EmptyId
        /\ broadcast # <<>> /\ broadcast' = Tail(broadcast)
    BY <1>12 DEF RemoveInOrder, handlerVars
  <2>2. u \in UserIds /\ users[u] # NoClient
    <3>1. 1 \in 1 .. Len(broadcast) /\ Head(broadcast) = broadcast[1] /\ broadcast[1] \in RoomEvent
      BY <1>t, <2>1 DEF TypeOK
    <3>2. u \in UserIds
      BY <2>1, <3>1 DEF RoomEvent
    <3>3. Removes(broadcast[1], u)
      BY <2>1, <3>1 DEF Removes
    <3> QED
      BY <1>t, <3>1, <3>2, <3>3 DEF NothingBehindRemoval
  <2>3. /\ users' = [users EXCEPT ![u] = NoClient]
        /\ sendClosed' = [x \in Clients |-> sendClosed[x] \/ users[u] = x]
    BY <1>12, <2>2 DEF RemoveInOrder, CloseAndDelete
  <2> HIDE DEF u
  <2>4. /\ sendClosed[c] => sendClosed'[c]
        /\ c \in Members' => c \in Members /\ uid[c] # u
        /\ c \in Members /\ c \notin Members' => sendClosed'[c]
    BY <1>t, <1>m, <2>1, <2>2, <2>3 DEF TypeOK
  <2>5. uid[c] # u => ~Removes(Head(broadcast), uid[c])
    BY DEF Removes, u
  <2>6. RemovalQueued(c) /\ c \in Members' => RemovalQueued(c)'
    BY <1>t, <2>1, <2>4, <2>5, RemovalKept
  <2> QED
    BY <1>o, <1>u, <2>1, <2>4, <2>6, UnderwayKept
<1>13. CASE RoomContextDone
  <2>1. /\ UNCHANGED <<hpc, uid, users, broadcast>>
        /\ sendClosed[c] => sendClosed'[c]
    BY <1>t, <1>13 DEF RoomContextDone, handlerVars, TypeOK
  <2>2. RemovalQueued(c) => RemovalQueued(c)'
    BY <1>t, <2>1, RemovalKept
  <2> QED
    BY <1>o, <1>u, <1>m, <2>1, <2>2, UnderwayKept
<1>14. CASE ConsumeMessages
  <2>1. RespEvent(RemoteResponse) \in RoomEvent
    BY EventType DEF RemoteResponse, Response
  <2>2. UNCHANGED <<hpc, uid, users, sendClosed>> /\ Offer(RespEvent(RemoteResponse))
    BY <1>14 DEF ConsumeMessages, handlerVars, writerVars
  <2> QED
    BY <1>o, <1>s, <2>1, <2>2
<1>15. CASE RemoveFromUserRooms \/ PublishWorker \/ Cancel \/ ForceCloseConns
            \/ Terminated \/ UNCHANGED vars
  <2>1. UNCHANGED <<hpc, uid, users, sendClosed, broadcast>>
    BY <1>15 DEF RemoveFromUserRooms, PublishWorker, Cancel, ForceCloseConns, Terminated, vars,
                 handlerVars, writerVars, roomVars
  <2> QED
    BY <1>o, <1>s, <2>1
<1>16. ASSUME NEW d \in Clients, Handler(d)
       PROVE  Underway(c)'
  BY <1>1, <1>2, <1>3, <1>5, <1>6, <1>7, <1>8, <1>9, <1>16 DEF Handler
<1>17. CASE BroadcastLoop
  BY <1>11, <1>12, <1>13, <1>15, <1>17 DEF BroadcastLoop
<1> QED
  BY <1>10, <1>14, <1>15, <1>16, <1>17 DEF Next

\* No departure is lost: whoever has left the loop that reads its connection is
\* out of the room with its Send closed, or has its removal queued.
THEOREM DeparturesKept == Spec => []DepartureUnderway
<1>1. DepartureInv => DepartureUnderway
  BY DEF DepartureInv
<1> QED
  BY <1>1, DepartureInit, DepartureStep, PTL DEF Spec

-----------------------------------------------------------------------------
\* The echo of a LEAVE.

\* The client's LEAVE waits in its own Send, or in Broadcast while the client is
\* a member of the room.
EchoSent(c) == \E j \in 1 .. Len(send[c]) : IsLeaveOf(send[c][j], c)

EchoEvent(e, c) == e.removeUserId = EmptyId /\ IsLeaveOf(e.resp, c)

EchoQueued(c) ==
  /\ uid[c] \in UserIds
  /\ users[uid[c]] = c
  /\ \E i \in 1 .. Len(broadcast) : EchoEvent(broadcast[i], c)

\* While an echo is pending the handler has not given up on it, and the writer,
\* which has yet to write it, runs.
EchoWaits(c) ==
  /\ hpc[c] \in {"publishLeave", "remove", "await"}
  /\ wpc[c] = "run"
  /\ EchoSent(c) \/ EchoQueued(c)

EchoPending == \A c \in Clients : leaveEcho[c] = "pending" /\ ~ctxDone => EchoWaits(c)

\* The broadcast goroutine returns at shutdown only.
ExitedCancelled == bpc = "exited" => ctxDone

EchoInv == IInv /\ ExitedCancelled /\ EchoPending

\* An offer leaves a queued echo queued.
LEMMA OfferKeepsEcho ==
  ASSUME TypeOK, NEW c \in Clients, EchoQueued(c), NEW e \in RoomEvent, Offer(e),
         uid'[c] = uid[c], users'[uid[c]] = users[uid[c]]
  PROVE  EchoQueued(c)'
<1>1. PICK i \in 1 .. Len(broadcast) : EchoEvent(broadcast[i], c)
  BY DEF EchoQueued
<1>2. i \in 1 .. Len(broadcast') /\ broadcast'[i] = broadcast[i]
  BY OfferIndex
<1>3. \E k \in 1 .. Len(broadcast') : EchoEvent(broadcast'[k], c)
  BY <1>1, <1>2
<1> QED
  BY <1>3 DEF EchoQueued

\* An accepted LEAVE of a member is queued.
LEMMA OfferQueuesEcho ==
  ASSUME TypeOK, NEW c \in Clients, NEW e \in RoomEvent, Offer(e), ~BroadcastFull,
         EchoEvent(e, c), uid[c] \in UserIds, users[uid[c]] = c, UNCHANGED <<uid, users>>
  PROVE  EchoQueued(c)'
<1>1. broadcast \in Seq(RoomEvent) /\ broadcast' = Append(broadcast, e)
  BY DEF TypeOK, Offer
<1>2. Len(broadcast') \in 1 .. Len(broadcast') /\ broadcast'[Len(broadcast')] = e
  BY <1>1, AppendFacts
<1>3. \E k \in 1 .. Len(broadcast') : EchoEvent(broadcast'[k], c)
  BY <1>2
<1> QED
  BY <1>3 DEF EchoQueued

\* A receive that is not of the echo leaves it queued.
LEMMA ReceiveKeepsEcho ==
  ASSUME TypeOK, NEW c \in Clients, EchoQueued(c),
         broadcast # <<>>, broadcast' = Tail(broadcast), ~EchoEvent(Head(broadcast), c),
         uid'[c] = uid[c], users'[uid[c]] = users[uid[c]]
  PROVE  EchoQueued(c)'
<1>1. PICK i \in 1 .. Len(broadcast) : EchoEvent(broadcast[i], c)
  BY DEF EchoQueued
<1>2. i # 1
  BY <1>1, ReceiveIndex
<1>3. i - 1 \in 1 .. Len(broadcast') /\ broadcast'[i - 1] = broadcast[i]
  BY <1>2, ReceiveIndex
<1>4. \E k \in 1 .. Len(broadcast') : EchoEvent(broadcast'[k], c)
  BY <1>1, <1>3
<1> QED
  BY <1>4 DEF EchoQueued

\* A step after which the handler is still leaving and the writer still runs,
\* and which touches neither the queue nor the client's membership and Send.
LEMMA EchoKept ==
  ASSUME NEW c \in Clients, EchoWaits(c), wpc'[c] = wpc[c], send'[c] = send[c],
         hpc'[c] \in {"publishLeave", "remove", "await"},
         broadcast' = broadcast, uid'[c] = uid[c], users'[uid[c]] = users[uid[c]]
  PROVE  EchoWaits(c)'
  BY DEF EchoWaits, EchoSent, EchoQueued

\* The same, for a step that offers an event to the room.
LEMMA EchoKeptByOffer ==
  ASSUME TypeOK, NEW c \in Clients, EchoWaits(c), wpc'[c] = wpc[c], send'[c] = send[c],
         hpc'[c] \in {"publishLeave", "remove", "await"},
         NEW e \in RoomEvent, Offer(e), uid'[c] = uid[c], users'[uid[c]] = users[uid[c]]
  PROVE  EchoWaits(c)'
<1>1. CASE EchoSent(c)
  BY <1>1 DEF EchoWaits, EchoSent
<1>2. CASE EchoQueued(c)
  BY <1>2, OfferKeepsEcho DEF EchoWaits
<1> QED
  BY <1>1, <1>2 DEF EchoWaits

\* Initially no echo is pending.
LEMMA EchoInit == Init => EchoInv
  BY InvInit DEF Init, EchoInv, ExitedCancelled, EchoPending

\* The context stays cancelled, and the broadcast goroutine exits only then.
LEMMA ServerGoesOn ==
  ASSUME Next \/ UNCHANGED vars
  PROVE  (ctxDone => ctxDone') /\ (bpc' = "exited" => bpc = "exited" \/ ctxDone)
<1>1. CASE UNCHANGED <<bpc, ctxDone>>
  BY <1>1
<1>2. ASSUME NEW c \in Clients, Handler(c)
      PROVE  UNCHANGED <<bpc, ctxDone>>
  <2>1. ASSUME NEW r, NEW next, BroadcastResponse(c, r, next)
        PROVE  UNCHANGED <<bpc, ctxDone>>
    BY <2>1 DEF BroadcastResponse
  <2>2. ASSUME AnnounceJoin(c) \/ (\E stamped \in Stamps : HandleText(c, stamped))
               \/ (\E stamped \in Stamps : HandleLeave(c, stamped)) \/ HandleReadError(c)
        PROVE  UNCHANGED <<bpc, ctxDone>>
    BY <2>1, <2>2 DEF AnnounceJoin, HandleText, HandleLeave, HandleReadError
  <2> QED
    BY <1>2, <2>2
    DEF Handler, Upgrade, RejectJoin, JoinDuplicate, AddUserToRoom, Publish,
        ScheduleRemoveUser, RemoveUserFromRoom, Return, roomVars, serverVars
<1>3. ASSUME NEW c \in Clients, Writer(c)
      PROVE  UNCHANGED <<bpc, ctxDone>>
  BY <1>3 DEF Writer, WriteResponse, WriteError, WriterDrained, WriterCancelled, roomVars, serverVars
<1>4. ASSUME BroadcastLoop
      PROVE  UNCHANGED ctxDone /\ (bpc' = "exited" => bpc = "exited" \/ ctxDone)
  BY <1>4
  DEF BroadcastLoop, FanOut, RemoveInOrder, RemoveFromUserRooms, RoomContextDone, serverVars
<1>5. ASSUME ConsumeMessages \/ PublishWorker \/ ForceCloseConns \/ Terminated \/ UNCHANGED vars
      PROVE  UNCHANGED <<bpc, ctxDone>>
  BY <1>5
  DEF ConsumeMessages, PublishWorker, ForceCloseConns, Terminated, vars, roomVars, serverVars
<1>6. ASSUME Cancel
      PROVE  ctxDone' /\ UNCHANGED bpc
  BY <1>6 DEF Cancel, roomVars
<1> QED
  BY <1>1, <1>2, <1>3, <1>4, <1>5, <1>6 DEF Next

\* Every step keeps pending echoes on their way, one named step per action.
LEMMA EchoStep == EchoInv /\ [Next]_vars => EchoInv'
<1> SUFFICES ASSUME EchoInv, Next \/ UNCHANGED vars PROVE EchoInv'
  OBVIOUS
<1>t. IInv /\ IInv' /\ TypeOK /\ TypeOK' /\ NoClient \notin Clients
  BY InvStep, ChatRoomAssumption DEF EchoInv, IInv
<1>x. ExitedCancelled'
  BY ServerGoesOn DEF EchoInv, ExitedCancelled
<1>e. ASSUME NEW c \in Clients, leaveEcho'[c] = "pending", ~ctxDone' PROVE EchoWaits(c)'
  <2>n. ~ctxDone
    BY <1>e, ServerGoesOn
  <2>w. ASSUME leaveEcho[c] = "pending" PROVE EchoWaits(c)
    BY <2>n, <2>w DEF EchoInv, EchoPending
  \* A step of another client's handler that leaves Users alone.
  <2>h. ASSUME NEW d \in Clients, NEW pc, hpc' = [hpc EXCEPT ![d] = pc],
               hpc[d] \notin {"publishLeave", "remove", "await"},
               UNCHANGED <<uid, wpc, send, users, leaveEcho>>,
               broadcast' = broadcast \/ \E e \in RoomEvent : Offer(e)
        PROVE  EchoWaits(c)'
    <3>1. EchoWaits(c)
      BY <2>h, <1>e, <2>w
    <3>2. hpc'[c] = hpc[c] /\ hpc'[c] \in {"publishLeave", "remove", "await"}
      BY <2>h, <3>1, <1>t DEF EchoWaits, TypeOK
    <3>3. CASE broadcast' = broadcast
      BY <2>h, <3>1, <3>2, <3>3, EchoKept
    <3>4. CASE \E e \in RoomEvent : Offer(e)
      BY <1>t, <2>h, <3>1, <3>2, <3>4, EchoKeptByOffer
    <3> QED
      BY <2>h, <3>3, <3>4
  <2>1. ASSUME NEW d \in Clients, Upgrade(d) \/ RejectJoin(d) PROVE EchoWaits(c)'
    BY <2>1, <2>h DEF Upgrade, RejectJoin, writerVars, roomVars
  <2>2. ASSUME NEW d \in Clients, NEW u \in UserIds, JoinDuplicate(d, u) PROVE EchoWaits(c)'
    BY <2>2, <2>h DEF JoinDuplicate, writerVars, roomVars
  <2>3. ASSUME NEW d \in Clients, NEW u \in UserIds, NEW stamped \in Stamps,
               AddUserToRoom(d, u, stamped)
        PROVE  EchoWaits(c)'
    <3>1. EchoWaits(c) /\ hpc[d] = "joining"
      BY <2>3, <1>e, <2>w DEF AddUserToRoom
    <3>2. d # c /\ hpc'[c] = hpc[c] /\ uid'[c] = uid[c] /\ wpc'[c] = wpc[c]
      BY <2>3, <1>t, <3>1 DEF AddUserToRoom, TypeOK, EchoWaits
    <3>3. users[uid[c]] = c /\ uid[c] \in UserIds => users'[uid[c]] = c
      BY <2>3, <1>t DEF AddUserToRoom, TypeOK
    <3>4. UNCHANGED <<send, broadcast>>
      BY <2>3 DEF AddUserToRoom
    <3> QED
      BY <3>1, <3>2, <3>3, <3>4 DEF EchoWaits, EchoSent, EchoQueued
  <2>4. ASSUME NEW d \in Clients, AnnounceJoin(d) PROVE EchoWaits(c)'
    <3>1. RespEvent(resp[d]) \in RoomEvent
      BY <1>t, EventType DEF TypeOK
    <3> QED
      BY <2>4, <2>h, <3>1 DEF AnnounceJoin, BroadcastResponse, writerVars
  <2>5. ASSUME NEW d \in Clients, NEW stamped \in Stamps, HandleText(d, stamped)
        PROVE  EchoWaits(c)'
    <3>1. RespEvent(NewResponse(d, uid[d], "TEXT", stamped)) \in RoomEvent
      BY NewResponseType, EventType, ChatRoomAssumption
    <3> QED
      BY <2>5, <2>h, <3>1 DEF HandleText, BroadcastResponse, writerVars
  <2>6. ASSUME NEW d \in Clients, HandleReadError(d) PROVE EchoWaits(c)'
    <3>1. RespEvent(NewResponse(d, uid[d], "LEAVE", FALSE)) \in RoomEvent
      BY NewResponseType, EventType
    <3> QED
      BY <2>6, <2>h, <3>1 DEF HandleReadError, BroadcastResponse, writerVars
  <2>7. ASSUME NEW d \in Clients, NEW stamped \in Stamps, HandleLeave(d, stamped)
        PROVE  EchoWaits(c)'
    <3> DEFINE r == NewResponse(d, uid[d], "LEAVE", stamped)
    <3>1. r \in Response /\ RespEvent(r) \in RoomEvent
      BY NewResponseType, EventType, ChatRoomAssumption
    <3>2. /\ Offer(RespEvent(r))
          /\ hpc[d] = "reading" /\ hpc' = [hpc EXCEPT ![d] = "publishLeave"]
          /\ UNCHANGED <<uid, wpc, send, users>>
      BY <2>7 DEF HandleLeave, BroadcastResponse, writerVars
    <3>3. CASE d = c
      <4>1. r.type = "LEAVE" /\ ~BroadcastFull /\ wpc[c] = "run"
        BY <2>7, <3>3, <1>e, <1>t DEF HandleLeave, TypeOK
      <4>2. r.from = c
        BY <3>3, <4>1 DEF NewResponse, InvalidResponse
      <4>3. EchoEvent(RespEvent(r), c)
        BY <4>1, <4>2 DEF EchoEvent, RespEvent, IsLeaveOf
      <4>4. uid[c] \in UserIds /\ users[uid[c]] = c
        BY <3>2, <3>3, <1>t DEF IInv, HandlersRegistered
      <4>5. EchoQueued(c)'
        BY <1>t, <3>1, <3>2, <4>1, <4>3, <4>4, OfferQueuesEcho
      <4>6. hpc'[c] = "publishLeave" /\ wpc'[c] = "run"
        BY <3>2, <3>3, <4>1, <1>t DEF TypeOK
      <4> QED
        BY <4>5, <4>6 DEF EchoWaits
    <3>4. CASE d # c
      <4>1. leaveEcho[c] = "pending" /\ hpc'[c] = hpc[c]
        BY <2>7, <3>2, <3>4, <1>e, <1>t DEF HandleLeave, TypeOK
      <4>2. EchoWaits(c)
        BY <4>1, <2>w
      <4> QED
        BY <1>t, <3>1, <3>2, <4>1, <4>2, EchoKeptByOffer DEF EchoWaits
    <3> QED
      BY <3>3, <3>4
  <2>8. ASSUME NEW d \in Clients, Publish(d) PROVE EchoWaits(c)'
    <3>1. /\ UNCHANGED <<uid, wpc, send, users, broadcast, leaveEcho>>
          /\ hpc' = [hpc EXCEPT ![d] = IF @ = "publish" THEN "reading" ELSE "remove"]
          /\ hpc[d] \in {"publish", "publishLeave"}
      BY <2>8 DEF Publish, writerVars, roomVars
    <3>2. EchoWaits(c)
      BY <3>1, <1>e, <2>w
    <3>3. hpc'[c] \in {"publishLeave", "remove", "await"}
      BY <3>1, <3>2, <1>t DEF EchoWaits, TypeOK
    <3> QED
      BY <3>1, <3>2, <3>3, EchoKept
  <2>9. ASSUME NEW d \in Clients, ScheduleRemoveUser(d) PROVE EchoWaits(c)'
    <3>1. /\ Offer(RemoveEvent(uid[d])) /\ RemoveEvent(uid[d]) \in RoomEvent
          /\ UNCHANGED <<uid, wpc, send, users>>
          /\ hpc[d] = "remove"
      BY <2>9, <1>t, EventType DEF ScheduleRemoveUser, writerVars, TypeOK
    <3>2. leaveEcho[c] = "pending" /\ hpc'[c] \in {hpc[c], "await"}
      BY <2>9, <1>e, <1>t DEF ScheduleRemoveUser, TypeOK
    <3>3. EchoWaits(c)
      BY <3>2, <2>w
    <3> QED
      BY <1>t, <3>1, <3>2, <3>3, EchoKeptByOffer DEF EchoWaits
  <2>10. ASSUME NEW d \in Clients, RemoveUserFromRoom(d) PROVE EchoWaits(c)'
    <3>1. EchoWaits(c) /\ hpc[d] = "fallback" /\ users[uid[d]] = d
      BY <2>10, <1>t, <1>e, <2>w DEF RemoveUserFromRoom, IInv, HandlersRegistered
    <3>2. d # c /\ hpc'[c] = hpc[c]
      BY <2>10, <1>t, <3>1 DEF RemoveUserFromRoom, TypeOK, EchoWaits
    <3>3. users[uid[c]] = c /\ uid[c] \in UserIds => users'[uid[c]] = c
      BY <2>10, <1>t, <3>1, <3>2 DEF RemoveUserFromRoom, CloseAndDelete, TypeOK
    <3>4. UNCHANGED <<uid, wpc, send, broadcast>>
      BY <2>10 DEF RemoveUserFromRoom
    <3> QED
      BY <3>1, <3>2, <3>3, <3>4 DEF EchoWaits, EchoSent, EchoQueued
  <2>11. ASSUME NEW d \in Clients, Return(d) PROVE EchoWaits(c)'
    <3>1. EchoWaits(c) /\ d # c
      BY <2>11, <1>e, <2>w DEF Return, EchoWaits
    <3>2. hpc'[c] = hpc[c]
      BY <2>11, <3>1, <1>t DEF Return, TypeOK
    <3> QED
      BY <2>11, <3>1, <3>2, EchoKept DEF Return, EchoWaits, writerVars, roomVars
  <2>12. ASSUME NEW d \in Clients, WriteResponse(d) PROVE EchoWaits(c)'
    <3>1. leaveEcho[c] = "pending" /\ (d = c => ~IsLeaveOf(Head(send[c]), c))
      BY <2>12, <1>e, <1>t DEF WriteResponse, TypeOK
    <3>2. EchoWaits(c) /\ UNCHANGED <<hpc, uid, wpc, users, broadcast>>
      BY <2>12, <3>1, <2>w DEF WriteResponse, handlerVars, roomVars
    <3>3. EchoSent(c) => EchoSent(c)'
      <4>1. CASE d # c
        BY <2>12, <4>1, <1>t DEF WriteResponse, TypeOK, EchoSent
      <4>2. CASE d = c /\ EchoSent(c)
        <5>1. send[c] \in Seq(Response) /\ send[c] # <<>> /\ send'[c] = Tail(send[c])
          BY <2>12, <4>2, <1>t DEF WriteResponse, TypeOK
        <5>2. PICK j \in 1 .. Len(send[c]) : IsLeaveOf(send[c][j], c)
          BY <4>2 DEF EchoSent
        <5>3. j # 1
          BY <3>1, <4>2, <5>1, <5>2
        <5>4. j - 1 \in 1 .. Len(send'[c]) /\ send'[c][j - 1] = send[c][j]
          BY <5>1, <5>3
        <5>5. \E k \in 1 .. Len(send'[c]) : IsLeaveOf(send'[c][k], c)
          BY <5>2, <5>4
        <5> QED
          BY <5>5 DEF EchoSent
      <4> QED
        BY <4>1, <4>2
    <3> QED
      BY <3>2, <3>3 DEF EchoWaits, EchoQueued
  <2>13. ASSUME NEW d \in Clients, WriteError(d) PROVE EchoWaits(c)'
    <3>1. leaveEcho[c] = "pending" /\ d # c
      BY <2>13, <1>e, <1>t DEF WriteError, TypeOK
    <3>2. EchoWaits(c) /\ UNCHANGED <<hpc, uid, users, broadcast>>
      BY <2>13, <3>1, <2>w DEF WriteError, handlerVars, roomVars
    <3>3. wpc'[c] = wpc[c] /\ send'[c] = send[c]
      BY <2>13, <3>1, <1>t DEF WriteError, TypeOK
    <3> QED
      BY <3>2, <3>3, EchoKept DEF EchoWaits
  <2>14. ASSUME NEW d \in Clients, WriterDrained(d) PROVE EchoWaits(c)'
    <3>1. UNCHANGED <<hpc, uid, users, broadcast, send, leaveEcho>>
      BY <2>14 DEF WriterDrained, handlerVars, roomVars
    <3>2. EchoWaits(c)
      BY <3>1, <1>e, <2>w
    \* A drained writer has no echo in Send, and Send is closed: then the client
    \* is no member, and no echo is queued for it either.
    <3>3. d # c
      <4> SUFFICES ASSUME d = c PROVE FALSE
        OBVIOUS
      <4>1. send[c] = <<>> /\ sendClosed[c] /\ bpc # "exited"
        BY <2>14, <2>n DEF WriterDrained, EchoInv, ExitedCancelled
      <4>2. ~EchoSent(c)
        BY <4>1 DEF EchoSent
      <4>3. ~EchoQueued(c)
        BY <4>1, <1>t DEF IInv, NoSendOnClosed, EchoQueued
      <4> QED
        BY <3>2, <4>2, <4>3 DEF EchoWaits
    <3>4. wpc'[c] = wpc[c]
      BY <2>14, <3>3, <1>t DEF WriterDrained, TypeOK
    <3> QED
      BY <3>1, <3>2, <3>4, EchoKept DEF EchoWaits
  <2>15. ASSUME NEW d \in Clients, WriterCancelled(d) PROVE EchoWaits(c)'
    BY <2>15, <2>n DEF WriterCancelled
  <2>16. CASE FanOut
    <3> DEFINE e == Head(broadcast)
               Takes(x) == x \in Members /\ wpc[x] = "run" /\ Len(send[x]) < BufferSize
    <3>1. /\ broadcast # <<>> /\ broadcast' = Tail(broadcast)
          /\ UNCHANGED <<hpc, uid, wpc, users>>
          /\ e \in RoomEvent /\ e.resp \in Response
      BY <2>16, <1>t, ReceiveType DEF FanOut, handlerVars, RoomEvent
    <3>2. /\ leaveEcho[c] = "pending"
          /\ IsLeaveOf(e.resp, c) /\ c \in Members => Takes(c)
      BY <2>16, <1>e, <1>t DEF FanOut, TypeOK
    <3>3. EchoWaits(c)
      BY <3>2, <2>w
    <3>4. send[c] \in Seq(Response) /\ (send'[c] = send[c] \/ send'[c] = Append(send[c], e.resp))
      BY <2>16, <1>t DEF FanOut, TypeOK
    <3>5. EchoSent(c) => EchoSent(c)'
      <4> SUFFICES ASSUME EchoSent(c) PROVE EchoSent(c)'
        OBVIOUS
      <4>1. PICK j \in 1 .. Len(send[c]) : IsLeaveOf(send[c][j], c)
        BY DEF EchoSent
      <4>2. j \in 1 .. Len(send'[c]) /\ send'[c][j] = send[c][j]
        BY <3>1, <3>4, AppendFacts
      <4> QED
        BY <4>1, <4>2 DEF EchoSent
    <3>6. CASE EchoQueued(c) /\ EchoEvent(e, c)
      <4>1. c \in Members
        BY <3>6, <1>t DEF EchoQueued, Members
      <4>2. send'[c] = Append(send[c], e.resp) /\ IsLeaveOf(e.resp, c)
        BY <2>16, <3>2, <3>6, <4>1 DEF FanOut, EchoEvent
      <4>3. Len(send'[c]) \in 1 .. Len(send'[c]) /\ send'[c][Len(send'[c])] = e.resp
        BY <3>1, <3>4, <4>2, AppendFacts
      <4>4. EchoSent(c)'
        BY <4>2, <4>3 DEF EchoSent
      <4> QED
        BY <3>1, <3>3, <4>4 DEF EchoWaits
    <3>7. CASE EchoQueued(c) /\ ~EchoEvent(e, c)
      <4>1. EchoQueued(c)'
        BY <1>t, <3>1, <3>7, ReceiveKeepsEcho
      <4> QED
        BY <3>1, <3>3, <4>1 DEF EchoWaits
    <3> QED
      BY <3>1, <3>3, <3>5, <3>6, <3>7 DEF EchoWaits
  <2>17. CASE RemoveInOrder
    <3> DEFINE e == Head(broadcast)
    <3>1. /\ broadcast # <<>> /\ broadcast' = Tail(broadcast)
          /\ UNCHANGED <<hpc, uid, wpc, send, leaveEcho>>
          /\ e.removeUserId # EmptyId
      BY <2>17 DEF RemoveInOrder, handlerVars
    <3>2. EchoWaits(c) /\ ~EchoEvent(e, c)
      BY <3>1, <1>e, <2>w DEF EchoEvent
    <3>3. CASE EchoSent(c)
      BY <3>1, <3>2, <3>3 DEF EchoWaits, EchoSent
    <3>4. CASE EchoQueued(c)
      \* The removal cannot be the leaver's own: its echo would be behind it.
      <4>1. e.removeUserId # uid[c]
        <5> SUFFICES ASSUME e.removeUserId = uid[c] PROVE FALSE
          OBVIOUS
        <5>1. PICK i \in 1 .. Len(broadcast) : EchoEvent(broadcast[i], c)
          BY <3>4 DEF EchoQueued
        <5>2. Len(broadcast) \in Nat /\ e = broadcast[1] /\ i \in 2 .. Len(broadcast)
          BY <1>t, <3>1, <3>2, <5>1, ReceiveIndex
        <5>3. 1 \in 1 .. Len(broadcast) /\ Removes(broadcast[1], uid[c]) /\ i \in 1 + 1 .. Len(broadcast)
          BY <3>1, <5>2 DEF Removes
        <5>4. uid[c] \in UserIds /\ users[uid[c]] = c
          BY <3>4 DEF EchoQueued
        <5>5. broadcast[i].resp.from # c
          BY <1>t, <5>3, <5>4 DEF IInv, NothingBehindRemoval
        <5> QED
          BY <5>1, <5>5 DEF EchoEvent, IsLeaveOf
      <4>2. users'[uid[c]] = users[uid[c]]
        BY <2>17, <1>t, <3>4, <4>1 DEF RemoveInOrder, CloseAndDelete, TypeOK, EchoQueued
      <4>3. EchoQueued(c)'
        BY <1>t, <3>1, <3>2, <3>4, <4>2, ReceiveKeepsEcho
      <4> QED
        BY <3>1, <3>2, <4>3 DEF EchoWaits
    <3> QED
      BY <3>2, <3>3, <3>4 DEF EchoWaits
  <2>18. CASE ConsumeMessages
    <3>1. RespEvent(RemoteResponse) \in RoomEvent
      BY EventType DEF RemoteResponse, Response
    <3>2. /\ Offer(RespEvent(RemoteResponse))
          /\ UNCHANGED <<hpc, uid, wpc, send, users, leaveEcho>>
      BY <2>18 DEF ConsumeMessages, handlerVars, writerVars
    <3>3. EchoWaits(c)
      BY <3>2, <1>e, <2>w
    <3> QED
      BY <1>t, <3>1, <3>2, <3>3, EchoKeptByOffer DEF EchoWaits
  <2>19. CASE RemoveFromUserRooms \/ PublishWorker \/ UNCHANGED vars
    <3>1. UNCHANGED <<hpc, uid, wpc, send, users, broadcast, leaveEcho>>
      BY <2>19 DEF RemoveFromUserRooms, PublishWorker, vars, handlerVars, writerVars, roomVars
    <3>2. EchoWaits(c)
      BY <3>1, <1>e, <2>w
    <3> QED
      BY <3>1, <3>2, EchoKept DEF EchoWaits
  <2>20. CASE RoomContextDone \/ Cancel \/ ForceCloseConns
    BY <2>20, <2>n, <1>e DEF RoomContextDone, Cancel, ForceCloseConns
  <2> QED
    BY <2>1, <2>2, <2>3, <2>4, <2>5, <2>6, <2>7, <2>8, <2>9, <2>10, <2>11, <2>12, <2>13,
       <2>14, <2>15, <2>16, <2>17, <2>18, <2>19, <2>20
    DEF Next, Handler, Writer, BroadcastLoop, Terminated
<1> QED
  BY <1>t, <1>x, <1>e DEF EchoInv, EchoPending

\* A LEAVE the room accepted is echoed to the leaver before its handler returns,
\* unless a full channel, a failed write or shutdown lost it.
THEOREM EchoFirst == Spec => []LeaveEchoBeforeReturn
<1>1. EchoInv => LeaveEchoBeforeReturn
  BY DEF EchoInv, EchoPending, EchoWaits, LeaveEchoBeforeReturn
<1> QED
  BY <1>1, EchoInit, EchoStep, PTL DEF Spec

-----------------------------------------------------------------------------
\* The room implements RoomMembership.

\* The phase of each handler location that a step can reach.
LEMMA PhaseValues ==
  /\ \A pc \in {"idle", "joining"} : PhaseOf(pc) = "out"
  /\ \A pc \in {"announce", "publish", "reading", "publishLeave", "remove"} :
       PhaseOf(pc) = "in"
  /\ \A pc \in {"fallback", "await"} : PhaseOf(pc) = "leaving"
  /\ PhaseOf("done") = "gone"
  BY DEF PhaseOf

\* Moving one handler changes the phase of that connection only.
LEMMA PhaseMove ==
  ASSUME TypeOK, NEW c \in Clients, NEW pc, hpc' = [hpc EXCEPT ![c] = pc]
  PROVE  /\ phase[c] = PhaseOf(hpc[c])
         /\ phase' = [phase EXCEPT ![c] = PhaseOf(pc)]
         /\ PhaseOf(pc) = PhaseOf(hpc[c]) => phase' = phase
  BY DEF TypeOK, phase

\* A step of a handler that changes neither Users nor the index, and moves it
\* on within a phase or to the next.
LEMMA HandlerRefines ==
  ASSUME TypeOK, NEW c \in Clients, NEW pc, hpc' = [hpc EXCEPT ![c] = pc],
         UNCHANGED <<users, userRooms>>,
         <<PhaseOf(hpc[c]), PhaseOf(pc)>> \in
           {<<"out", "out">>, <<"out", "gone">>, <<"in", "in">>, <<"in", "leaving">>,
            <<"leaving", "leaving">>, <<"leaving", "gone">>}
  PROVE  [Membership!Next]_(Membership!vars)
<1>1. /\ phase[c] = PhaseOf(hpc[c])
      /\ phase' = [phase EXCEPT ![c] = PhaseOf(pc)]
      /\ PhaseOf(pc) = PhaseOf(hpc[c]) => phase' = phase
  BY PhaseMove
<1>2. CASE PhaseOf(pc) = PhaseOf(hpc[c])
  BY <1>1, <1>2 DEF Membership!vars
<1>3. CASE PhaseOf(hpc[c]) = "out" /\ PhaseOf(pc) = "gone"
  BY <1>1, <1>3 DEF Membership!Next, Membership!Refuse
<1>4. CASE PhaseOf(hpc[c]) = "in" /\ PhaseOf(pc) = "leaving"
  BY <1>1, <1>4 DEF Membership!Next, Membership!Depart
<1>5. CASE PhaseOf(hpc[c]) = "leaving" /\ PhaseOf(pc) = "gone"
  BY <1>1, <1>5 DEF Membership!Next, Membership!Finish
<1> QED
  BY <1>2, <1>3, <1>4, <1>5

\* The initial states of the room are initial states of RoomMembership.
LEMMA InitRefines == Init => Membership!Init
  BY PhaseValues DEF Init, phase, Membership!Init

\* Every step of the room is a step of RoomMembership or changes nothing it sees.
LEMMA StepRefines == IInv /\ [Next]_vars => [Membership!Next]_(Membership!vars)
<1> SUFFICES ASSUME IInv, [Next]_vars PROVE [Membership!Next]_(Membership!vars)
  OBVIOUS
<1>t. TypeOK
  BY DEF IInv
<1>q. ASSUME UNCHANGED <<hpc, users, userRooms>>
      PROVE  [Membership!Next]_(Membership!vars)
  BY <1>q DEF Membership!vars, phase
<1>1. ASSUME NEW c \in Clients, Upgrade(c) PROVE [Membership!Next]_(Membership!vars)
  BY <1>1, <1>t, PhaseValues, HandlerRefines DEF Upgrade, roomVars
<1>2. ASSUME NEW c \in Clients, RejectJoin(c) PROVE [Membership!Next]_(Membership!vars)
  BY <1>2, <1>t, PhaseValues, HandlerRefines DEF RejectJoin, roomVars
<1>3. ASSUME NEW c \in Clients, NEW u \in UserIds, JoinDuplicate(c, u)
      PROVE  [Membership!Next]_(Membership!vars)
  BY <1>3, <1>t, PhaseValues, HandlerRefines DEF JoinDuplicate, roomVars
<1>4. ASSUME NEW c \in Clients, NEW u \in UserIds, NEW stamped \in Stamps,
             AddUserToRoom(c, u, stamped)
      PROVE  [Membership!Next]_(Membership!vars)
  <2>1. phase[c] = "out" /\ phase' = [phase EXCEPT ![c] = "in"]
    <3>1. hpc[c] = "joining" /\ hpc' = [hpc EXCEPT ![c] = "announce"]
      BY <1>4 DEF AddUserToRoom
    <3>2. PhaseOf(hpc[c]) = "out" /\ PhaseOf("announce") = "in"
      BY <3>1, PhaseValues
    <3> QED
      BY <1>t, <3>1, <3>2, PhaseMove
  <2> QED
    BY <1>4, <2>1 DEF AddUserToRoom, Membership!Next, Membership!Join
<1>5. ASSUME NEW c \in Clients, NEW r, NEW next \in {"publish", "publishLeave"},
             hpc[c] \in {"announce", "reading"}, BroadcastResponse(c, r, next)
      PROVE  [Membership!Next]_(Membership!vars)
  BY <1>5, <1>t, PhaseValues, HandlerRefines DEF BroadcastResponse
<1>6. ASSUME NEW c \in Clients, AnnounceJoin(c) PROVE [Membership!Next]_(Membership!vars)
  BY <1>5, <1>6 DEF AnnounceJoin
<1>7. ASSUME NEW c \in Clients, NEW stamped \in Stamps, HandleText(c, stamped)
      PROVE  [Membership!Next]_(Membership!vars)
  BY <1>5, <1>7 DEF HandleText
<1>8. ASSUME NEW c \in Clients, NEW stamped \in Stamps, HandleLeave(c, stamped)
      PROVE  [Membership!Next]_(Membership!vars)
  BY <1>5, <1>8 DEF HandleLeave
<1>9. ASSUME NEW c \in Clients, HandleReadError(c) PROVE [Membership!Next]_(Membership!vars)
  BY <1>5, <1>9 DEF HandleReadError
<1>10. ASSUME NEW c \in Clients, Publish(c) PROVE [Membership!Next]_(Membership!vars)
  <2>1. PICK next \in {"reading", "remove"} : hpc' = [hpc EXCEPT ![c] = next]
    BY <1>10 DEF Publish
  <2>2. PhaseOf(hpc[c]) = "in" /\ PhaseOf(next) = "in"
    BY <1>10, <2>1, PhaseValues DEF Publish
  <2> QED
    BY <1>10, <1>t, <2>1, <2>2, HandlerRefines DEF Publish, roomVars
<1>11. ASSUME NEW c \in Clients, ScheduleRemoveUser(c)
       PROVE  [Membership!Next]_(Membership!vars)
  <2>1. PICK next \in {"fallback", "await"} : hpc' = [hpc EXCEPT ![c] = next]
    BY <1>11 DEF ScheduleRemoveUser
  <2> QED
    BY <1>11, <1>t, <2>1, PhaseValues, HandlerRefines DEF ScheduleRemoveUser
<1>12. ASSUME NEW c \in Clients, RemoveUserFromRoom(c)
       PROVE  [Membership!Next]_(Membership!vars)
  <2> DEFINE u == uid[c]
  <2>1. users[u] = c /\ u \in UserIds /\ hpc[c] = "fallback" /\ c # NoClient
    BY <1>12, ChatRoomAssumption DEF RemoveUserFromRoom, IInv, HandlersRegistered
  <2>2. phase' = phase /\ phase[c] = "leaving"
    <3>1. hpc[c] = "fallback" /\ hpc' = [hpc EXCEPT ![c] = "await"]
      BY <1>12 DEF RemoveUserFromRoom
    <3>2. PhaseOf(hpc[c]) = "leaving" /\ PhaseOf("await") = "leaving"
      BY <3>1, PhaseValues
    <3> QED
      BY <1>t, <3>1, <3>2, PhaseMove
  <2>3. userRooms[u] \in Nat /\ userRooms[u] > 0
    BY <1>t, <2>1 DEF IInv, IndexMatchesMembership, TypeOK
  <2>4. userRooms' = [userRooms EXCEPT ![u] = @ - 1]
    BY <1>12, <2>1, <2>3 DEF RemoveUserFromRoom, DropFromUserRooms
  <2>5. Membership!Evict(u)
    BY <1>12, <2>1, <2>2, <2>4 DEF RemoveUserFromRoom, CloseAndDelete, Membership!Evict
  <2> QED
    BY <2>1, <2>5 DEF Membership!Next
<1>13. ASSUME NEW c \in Clients, Return(c) PROVE [Membership!Next]_(Membership!vars)
  BY <1>13, <1>t, PhaseValues, HandlerRefines DEF Return, roomVars
<1>14. ASSUME NEW c \in Clients, Writer(c) PROVE [Membership!Next]_(Membership!vars)
  BY <1>14, <1>q DEF Writer, WriteResponse, WriteError, WriterDrained, WriterCancelled,
     handlerVars, roomVars
<1>15. CASE RemoveInOrder
  <2> DEFINE u == Head(broadcast).removeUserId
  <2>1. Removes(broadcast[1], u) /\ 1 \in 1 .. Len(broadcast) /\ u \in UserIds
    BY <1>15, <1>t, ReceiveIndex, ReceiveType DEF RemoveInOrder, Removes, RoomEvent
  <2>2. users[u] \in Clients /\ users[u] # NoClient /\ hpc[users[u]] \in {"await", "done"}
    BY <1>t, <2>1 DEF IInv, NothingBehindRemoval, TypeOK
  <2>3. phase' = phase /\ phase[users[u]] \in {"leaving", "gone"}
    BY <1>15, <2>2, PhaseValues DEF phase, RemoveInOrder, handlerVars
  <2>4. Membership!Evict(u)
    BY <1>15, <2>2, <2>3 DEF RemoveInOrder, CloseAndDelete, Membership!Evict
  <2> QED
    BY <2>1, <2>4 DEF Membership!Next
<1>16. CASE RemoveFromUserRooms
  <2>1. phase' = phase /\ users' = users /\ bpc = "unindex"
    BY <1>16 DEF RemoveFromUserRooms, phase, handlerVars
  <2>2. CASE bUser \in UserIds
    <3>1. /\ userRooms[bUser] \in Nat /\ userRooms[bUser] > 0
          /\ userRooms[bUser] > IF users[bUser] = NoClient THEN 0 ELSE 1
      BY <1>t, <2>1, <2>2 DEF IInv, IndexMatchesMembership, TypeOK
    <3>2. userRooms' = [userRooms EXCEPT ![bUser] = @ - 1]
      BY <1>16, <3>1 DEF RemoveFromUserRooms, DropFromUserRooms
    <3>3. Membership!Unlist(bUser)
      BY <2>1, <3>1, <3>2 DEF Membership!Unlist
    <3> QED
      BY <2>2, <3>3 DEF Membership!Next
  <2>3. CASE bUser \notin UserIds
    <3>1. userRooms' = userRooms
      BY <1>16, <1>t, <2>3 DEF RemoveFromUserRooms, DropFromUserRooms, TypeOK
    <3> QED
      BY <2>1, <3>1 DEF Membership!vars
  <2> QED
    BY <2>2, <2>3
<1>17. CASE FanOut \/ RoomContextDone \/ ConsumeMessages \/ PublishWorker \/ Cancel
            \/ ForceCloseConns \/ UNCHANGED vars
  BY <1>17, <1>q DEF FanOut, RoomContextDone, ConsumeMessages, PublishWorker, Cancel,
     ForceCloseConns, vars, handlerVars, roomVars
<1> QED
  BY <1>1, <1>2, <1>3, <1>4, <1>6, <1>7, <1>8, <1>9, <1>10, <1>11, <1>12, <1>13, <1>14,
     <1>15, <1>16, <1>17
  DEF Next, Handler, BroadcastLoop, Terminated

\* Every behaviour of the room is one of RoomMembership.
THEOREM MembershipImplemented == Spec => ImplementsMembership
<1>1. Init => Membership!Init
  BY InitRefines
<1>2. IInv /\ [Next]_vars => [Membership!Next]_(Membership!vars)
  BY StepRefines
<1> QED
  BY <1>1, <1>2, Invariance, PTL DEF Spec, ImplementsMembership, Membership!Spec

=============================================================================
