------------------------------ MODULE ChatRoom ------------------------------
(***************************************************************************)
(* One chat room of one ChatFlow server (internal/server): the handler and *)
(* writer goroutines of its connections, the room's broadcast goroutine,   *)
(* the consumer that feeds it messages of other servers, and shutdown.     *)
(*                                                                         *)
(* A step is a critical section under Room.Mu or UserRoomMu, one channel   *)
(* operation, or one call on a connection.  Code that touches goroutine-   *)
(* local data only is merged with the shared access next to it.            *)
(***************************************************************************)
EXTENDS Integers, Sequences

CONSTANTS
  Clients,         \* connections: each is one run of ChatRoomHandler
  NoClient,        \* "no entry in the map", "no connection"
  UserIds,         \* the user ids a JOIN may carry
  EmptyId,         \* the empty string, roomEvent's "no removal" sentinel
  BufferSize,      \* capacity of Room.Broadcast and of each Client.Send
  PublishChanSize, \* capacity of Rabbit.publishChan
  Stamps,          \* whether client messages carry a parseable timestamp
  MaxInputs        \* bound: TEXT messages and messages of other servers, in all

ASSUME ChatRoomAssumption ==
  /\ NoClient \notin Clients
  /\ BufferSize \in Nat \ {0}
  /\ PublishChanSize \in Nat \ {0}
  /\ Stamps \subseteq BOOLEAN
  /\ MaxInputs \in Nat

VARIABLES
  hpc,         \* where each handler goroutine is
  conn,        \* the server's end of the connection
  uid,         \* the handler's userId
  resp,        \* the response the handler is announcing
  wpc,         \* where each writer goroutine is
  send,        \* Client.Send
  sendClosed,  \* whether Client.Send has been closed
  users,       \* Room.Users
  userRooms,   \* how often the room occurs in Server.UserRooms[user]
  broadcast,   \* Room.Broadcast
  bpc,         \* where the broadcast goroutine is
  bUser,       \* the user it is about to take out of UserRooms
  publishChan, \* how many messages wait in Rabbit.publishChan
  inputs,      \* TEXT messages read and remote messages delivered (bounded)
  ctxDone,     \* the server's, hence the room's, context is cancelled
  swept,       \* Start has force-closed the connections
  leaveEcho    \* history: what became of the echo of the client's LEAVE

handlerVars == <<hpc, uid, resp>>
writerVars  == <<wpc, send, sendClosed>>
roomVars    == <<users, userRooms, broadcast, bpc, bUser>>
serverVars  == <<publishChan, inputs, ctxDone, swept>>
vars == <<handlerVars, conn, writerVars, roomVars, serverVars, leaveEcho>>

-----------------------------------------------------------------------------
\* Messages and events.

\* A Response names the connection whose message it carries; the user id of
\* the code's Response is uid[from].  Responses from other servers carry none.
Response == [status : {0, 200, 422},
             type   : {"", "JOIN", "TEXT", "LEAVE"},
             from   : Clients \cup {NoClient}]

NilResponse     == [status |-> 0,   type |-> "", from |-> NoClient]
InvalidResponse == [status |-> 422, type |-> "", from |-> NoClient]

\* Message.Validate, as far as it depends on the code's own behaviour: the
\* timestamp must parse and the user id must be a number.  An invalid message
\* is replaced by a response that carries none of it.
NewResponse(c, u, type, stamped) ==
  IF stamped /\ u # EmptyId
  THEN [status |-> 200, type |-> type, from |-> c]
  ELSE InvalidResponse

RemoteResponse == [status |-> 200, type |-> "TEXT", from |-> NoClient]

\* roomEvent: a response to fan out, or a user to remove.
RoomEvent == [resp : Response, removeUserId : UserIds \cup {EmptyId}]

RespEvent(r)   == [resp |-> r, removeUserId |-> EmptyId]
RemoveEvent(u) == [resp |-> NilResponse, removeUserId |-> u]

Members == {users[u] : u \in UserIds} \ {NoClient}

BroadcastFull == Len(broadcast) >= BufferSize

\* Mutant of Offer: enqueues whatever the capacity.
OfferUnbounded(e) == broadcast' = Append(broadcast, e)

\* The non-blocking send on Room.Broadcast: a full channel drops the event.
Offer(e) == broadcast' = IF BroadcastFull THEN broadcast ELSE Append(broadcast, e)

-----------------------------------------------------------------------------
Init ==
  /\ hpc = [c \in Clients |-> "idle"]
  /\ conn = [c \in Clients |-> "none"]
  /\ uid = [c \in Clients |-> EmptyId]
  /\ resp = [c \in Clients |-> NilResponse]
  /\ wpc = [c \in Clients |-> "none"]
  /\ send = [c \in Clients |-> <<>>]
  /\ sendClosed = [c \in Clients |-> FALSE]
  /\ users = [u \in UserIds |-> NoClient]
  /\ userRooms = [u \in UserIds |-> 0]
  /\ broadcast = <<>>
  /\ bpc = "loop"
  /\ bUser = EmptyId
  /\ publishChan = 0
  /\ inputs = 0
  /\ ctxDone = FALSE
  /\ swept = FALSE
  /\ leaveEcho = [c \in Clients |-> "none"]

-----------------------------------------------------------------------------
\* The handler goroutine (ChatRoomHandler).

\* The upgrade succeeds and the handler waits for a JOIN.  Shutdown follows
\* the sweep and closes the listener.
Upgrade(c) ==
  /\ hpc[c] = "idle"
  /\ ~swept
  /\ hpc' = [hpc EXCEPT ![c] = "joining"]
  /\ conn' = [conn EXCEPT ![c] = "open"]
  /\ UNCHANGED <<uid, resp, writerVars, roomVars, serverVars, leaveEcho>>

\* Reading the JOIN fails, or the first message is not a JOIN.
RejectJoin(c) ==
  /\ hpc[c] = "joining"
  /\ hpc' = [hpc EXCEPT ![c] = "done"]
  /\ conn' = [conn EXCEPT ![c] = "closed"]
  /\ UNCHANGED <<uid, resp, writerVars, roomVars, serverVars, leaveEcho>>

\* Mutant of JoinDuplicate: lists the room before finding the user present.
JoinDuplicateListed(c, u) ==
  /\ hpc[c] = "joining"
  /\ users[u] # NoClient
  /\ hpc' = [hpc EXCEPT ![c] = "done"]
  /\ conn' = [conn EXCEPT ![c] = "closed"]
  /\ userRooms' = [userRooms EXCEPT ![u] = @ + 1]
  /\ UNCHANGED <<uid, resp, writerVars, users, broadcast, bpc, bUser, serverVars, leaveEcho>>

\* AddUserToRoom fails: the user is already in the room.
JoinDuplicate(c, u) ==
  /\ hpc[c] = "joining"
  /\ users[u] # NoClient
  /\ hpc' = [hpc EXCEPT ![c] = "done"]
  /\ conn' = [conn EXCEPT ![c] = "closed"]
  /\ UNCHANGED <<uid, resp, writerVars, roomVars, serverVars, leaveEcho>>

\* Mutant of AddUserToRoom: a second JOIN takes the user over.
AddUserReplacing(c, u, stamped) ==
  /\ hpc[c] = "joining"
  /\ users' = [users EXCEPT ![u] = c]
  /\ userRooms' = [userRooms EXCEPT ![u] = 1]
  /\ hpc' = [hpc EXCEPT ![c] = "announce"]
  /\ uid' = [uid EXCEPT ![c] = u]
  /\ resp' = [resp EXCEPT ![c] = NewResponse(c, u, "JOIN", stamped)]
  /\ wpc' = [wpc EXCEPT ![c] = "run"]
  /\ UNCHANGED <<conn, send, sendClosed, broadcast, bpc, bUser, serverVars, leaveEcho>>

\* AddUserToRoom succeeds, and the handler starts the writer goroutine.
AddUserToRoom(c, u, stamped) ==
  /\ hpc[c] = "joining"
  /\ users[u] = NoClient
  /\ users' = [users EXCEPT ![u] = c]
  /\ userRooms' = [userRooms EXCEPT ![u] = @ + 1]
  /\ hpc' = [hpc EXCEPT ![c] = "announce"]
  /\ uid' = [uid EXCEPT ![c] = u]
  /\ resp' = [resp EXCEPT ![c] = NewResponse(c, u, "JOIN", stamped)]
  /\ wpc' = [wpc EXCEPT ![c] = "run"]
  /\ UNCHANGED <<conn, send, sendClosed, broadcast, bpc, bUser,
                 serverVars, leaveEcho>>

\* The first half of broadcastAndPublish: offer r to the room without
\* blocking; the handler then blocks in Publish.
BroadcastResponse(c, r, next) ==
  /\ Offer(RespEvent(r))
  /\ resp' = [resp EXCEPT ![c] = r]
  /\ hpc' = [hpc EXCEPT ![c] = next]
  /\ UNCHANGED <<conn, uid, writerVars, users, userRooms, bpc, bUser,
                 publishChan, ctxDone, swept>>

AnnounceJoin(c) ==
  /\ hpc[c] = "announce"
  /\ BroadcastResponse(c, resp[c], "publish")
  /\ UNCHANGED <<inputs, leaveEcho>>

HandleText(c, stamped) ==
  /\ hpc[c] = "reading"
  /\ inputs < MaxInputs
  /\ inputs' = inputs + 1
  /\ BroadcastResponse(c, NewResponse(c, uid[c], "TEXT", stamped), "publish")
  /\ UNCHANGED leaveEcho

\* The client's own LEAVE.  Frames buffered before conn was closed can still
\* be read, so conn is not consulted.
HandleLeave(c, stamped) ==
  LET r == NewResponse(c, uid[c], "LEAVE", stamped)
  IN  /\ hpc[c] = "reading"
      /\ BroadcastResponse(c, r, "publishLeave")
      /\ leaveEcho' = [leaveEcho EXCEPT ![c] =
           IF r.type = "LEAVE" /\ ~BroadcastFull /\ wpc[c] = "run"
           THEN "pending" ELSE "lost"]
      /\ UNCHANGED inputs

\* ReadJSON fails.  The synthetic LEAVE is built by models.NewMessage, which
\* does not set the timestamp.
HandleReadError(c) ==
  /\ hpc[c] = "reading"
  /\ BroadcastResponse(c, NewResponse(c, uid[c], "LEAVE", FALSE), "publishLeave")
  /\ UNCHANGED <<inputs, leaveEcho>>

\* Rabbit.Publish: blocks until publishChan has room or the context is done.
\* The response is out of the handler's hands afterwards.
Publish(c) ==
  /\ hpc[c] \in {"publish", "publishLeave"}
  /\ \/ /\ publishChan < PublishChanSize
        /\ publishChan' = publishChan + 1
     \/ /\ ctxDone
        /\ UNCHANGED publishChan
  /\ hpc' = [hpc EXCEPT ![c] = IF @ = "publish" THEN "reading" ELSE "remove"]
  /\ resp' = [resp EXCEPT ![c] = NilResponse]
  /\ UNCHANGED <<uid, conn, writerVars, roomVars,
                 inputs, ctxDone, swept, leaveEcho>>

\* Mutants of ScheduleRemoveUser.  The handler goes on reading afterwards.
ScheduleAndKeepReading(c) ==
  /\ hpc[c] = "remove"
  /\ Offer(RemoveEvent(uid[c]))
  /\ hpc' = [hpc EXCEPT ![c] = "reading"]
  /\ UNCHANGED <<conn, uid, resp, writerVars, users, userRooms, bpc, bUser, serverVars, leaveEcho>>

\* The user is always removed directly, ahead of what Broadcast holds.
RemoveDirectly(c) ==
  /\ hpc[c] = "remove"
  /\ hpc' = [hpc EXCEPT ![c] = "fallback"]
  /\ UNCHANGED <<conn, uid, resp, writerVars, roomVars, serverVars, leaveEcho>>

\* The fallback closes the connection and leaves it at that.
ScheduleOrClose(c) ==
  /\ hpc[c] = "remove"
  /\ Offer(RemoveEvent(uid[c]))
  /\ conn' = [conn EXCEPT ![c] = IF BroadcastFull THEN "closed" ELSE @]
  /\ hpc' = [hpc EXCEPT ![c] = "await"]
  /\ UNCHANGED <<uid, resp, writerVars, users, userRooms, bpc, bUser, serverVars, leaveEcho>>

\* scheduleRemoveUser: enqueue the removal; if Broadcast is full, close the
\* connection and remove the user directly.
ScheduleRemoveUser(c) ==
  /\ hpc[c] = "remove"
  /\ Offer(RemoveEvent(uid[c]))
  /\ IF BroadcastFull
     THEN /\ hpc' = [hpc EXCEPT ![c] = "fallback"]
          /\ conn' = [conn EXCEPT ![c] = "closed"]
          /\ leaveEcho' = [leaveEcho EXCEPT ![c] = IF @ = "pending" THEN "lost" ELSE @]
     ELSE /\ hpc' = [hpc EXCEPT ![c] = "await"]
          /\ UNCHANGED <<conn, leaveEcho>>
  /\ UNCHANGED <<uid, resp, writerVars, users, userRooms, bpc, bUser, serverVars>>

\* Mutants of CloseAndDelete: one half of it is forgotten.
CloseOnly(u) ==
  /\ sendClosed' = [c \in Clients |-> sendClosed[c] \/ users[u] = c]
  /\ UNCHANGED users

DeleteOnly(u) ==
  /\ users' = [users EXCEPT ![u] = NoClient]
  /\ UNCHANGED sendClosed

\* Under Room.Mu: close the Send channel of whoever Users maps u to, and
\* delete the entry.
CloseAndDelete(u) ==
  /\ sendClosed' = [c \in Clients |-> sendClosed[c] \/ users[u] = c]
  /\ users' = [users EXCEPT ![u] = NoClient]

\* Mutant of DropFromUserRooms: the index keeps departed users.
KeepInUserRooms(u) == UNCHANGED userRooms

\* removeFromUserRooms takes out one occurrence of the room, if there is one.
DropFromUserRooms(u) ==
  userRooms' = [userRooms EXCEPT ![u] = IF @ > 0 THEN @ - 1 ELSE @]

RemoveUserFromRoom(c) ==
  /\ hpc[c] = "fallback"
  /\ IF users[uid[c]] = NoClient
     THEN UNCHANGED <<sendClosed, users, userRooms>>
     ELSE CloseAndDelete(uid[c]) /\ DropFromUserRooms(uid[c])
  /\ hpc' = [hpc EXCEPT ![c] = "await"]
  /\ UNCHANGED <<uid, resp, conn, wpc, send, broadcast, bpc, bUser,
                 serverVars, leaveEcho>>

\* <-writeDone, then the deferred conn.Close().
Return(c) ==
  /\ hpc[c] = "await"
  /\ wpc[c] = "done"
  /\ hpc' = [hpc EXCEPT ![c] = "done"]
  /\ conn' = [conn EXCEPT ![c] = "closed"]
  /\ UNCHANGED <<uid, resp, writerVars, roomVars, serverVars, leaveEcho>>

-----------------------------------------------------------------------------
\* The writer goroutine (handleClientWrites).

IsLeaveOf(r, c) == r.type = "LEAVE" /\ r.from = c

WriteResponse(c) ==
  /\ wpc[c] = "run"
  /\ send[c] # <<>>
  /\ conn[c] = "open"
  /\ send' = [send EXCEPT ![c] = Tail(@)]
  /\ leaveEcho' = [leaveEcho EXCEPT ![c] =
       IF IsLeaveOf(Head(send[c]), c) THEN "echoed" ELSE @]
  /\ UNCHANGED <<handlerVars, conn, wpc, sendClosed, roomVars, serverVars>>

\* The write fails or exceeds its deadline: close conn to unblock ReadJSON.
\* What is left in Send, and what FanOut still adds to it, is never read; the
\* model forgets it.
WriteError(c) ==
  /\ wpc[c] = "run"
  /\ send[c] # <<>>
  /\ send' = [send EXCEPT ![c] = <<>>]
  /\ conn' = [conn EXCEPT ![c] = "closed"]
  /\ wpc' = [wpc EXCEPT ![c] = "done"]
  /\ leaveEcho' = [leaveEcho EXCEPT ![c] = IF @ = "pending" THEN "lost" ELSE @]
  /\ UNCHANGED <<handlerVars, sendClosed, roomVars, serverVars>>

\* Send is closed and drained.
WriterDrained(c) ==
  /\ wpc[c] = "run"
  /\ send[c] = <<>>
  /\ sendClosed[c]
  /\ wpc' = [wpc EXCEPT ![c] = "done"]
  /\ UNCHANGED <<handlerVars, conn, send, sendClosed, roomVars, serverVars, leaveEcho>>

\* The room's context is done: the writer stops with Send undrained.
WriterCancelled(c) ==
  /\ wpc[c] = "run"
  /\ ctxDone
  /\ wpc' = [wpc EXCEPT ![c] = "done"]
  /\ send' = [send EXCEPT ![c] = <<>>]
  /\ leaveEcho' = [leaveEcho EXCEPT ![c] = IF @ = "pending" THEN "lost" ELSE @]
  /\ UNCHANGED <<handlerVars, conn, sendClosed, roomVars, serverVars>>

-----------------------------------------------------------------------------
\* The broadcast goroutine (AddNewRoom).

FanOut ==
  LET r == Head(broadcast).resp
      Takes(c) == c \in Members /\ wpc[c] = "run" /\ Len(send[c]) < BufferSize
  IN  /\ bpc = "loop"
      /\ broadcast # <<>>
      /\ Head(broadcast).removeUserId = EmptyId
      /\ broadcast' = Tail(broadcast)
      /\ send' = [c \in Clients |-> IF Takes(c) THEN Append(send[c], r) ELSE send[c]]
      /\ leaveEcho' = [c \in Clients |->
           IF IsLeaveOf(r, c) /\ c \in Members /\ ~Takes(c) THEN "lost" ELSE leaveEcho[c]]
      /\ UNCHANGED <<handlerVars, conn, wpc, sendClosed, users, userRooms,
                     bpc, bUser, serverVars>>

\* In-order removal.  UserRooms is updated later, outside Room.Mu.
RemoveInOrder ==
  LET u == Head(broadcast).removeUserId
  IN  /\ bpc = "loop"
      /\ broadcast # <<>>
      /\ u # EmptyId
      /\ broadcast' = Tail(broadcast)
      /\ IF users[u] = NoClient
         THEN UNCHANGED <<sendClosed, users, bpc, bUser>>
         ELSE CloseAndDelete(u) /\ bpc' = "unindex" /\ bUser' = u
      /\ UNCHANGED <<handlerVars, conn, wpc, send, userRooms, serverVars, leaveEcho>>

RemoveFromUserRooms ==
  /\ bpc = "unindex"
  /\ DropFromUserRooms(bUser)
  /\ bpc' = "loop"
  /\ bUser' = EmptyId
  /\ UNCHANGED <<handlerVars, conn, writerVars, users, broadcast, serverVars, leaveEcho>>

CloseConns(S) == conn' = [c \in Clients |-> IF c \in S THEN "closed" ELSE conn[c]]

\* The room's context is done: close everything, delete nothing, and return.
RoomContextDone ==
  /\ bpc = "loop"
  /\ ctxDone
  /\ CloseConns(Members)
  /\ sendClosed' = [c \in Clients |-> sendClosed[c] \/ c \in Members]
  /\ bpc' = "exited"
  /\ UNCHANGED <<handlerVars, wpc, send, users, userRooms, broadcast, bUser,
                 serverVars, leaveEcho>>

-----------------------------------------------------------------------------
\* The rest of the server.

\* consumeMessages: a message another server published for this room.
ConsumeMessages ==
  /\ inputs < MaxInputs
  /\ inputs' = inputs + 1
  /\ Offer(RespEvent(RemoteResponse))
  /\ UNCHANGED <<handlerVars, conn, writerVars, users, userRooms, bpc, bUser,
                 publishChan, ctxDone, swept, leaveEcho>>

\* A publish worker takes a message; what it does with it is PublishPipeline's.
PublishWorker ==
  /\ publishChan > 0
  /\ publishChan' = publishChan - 1
  /\ UNCHANGED <<handlerVars, conn, writerVars, roomVars, inputs, ctxDone, swept, leaveEcho>>

\* The interrupt signal.
Cancel ==
  /\ ~ctxDone
  /\ ctxDone' = TRUE
  /\ UNCHANGED <<handlerVars, conn, writerVars, roomVars, publishChan, inputs, swept, leaveEcho>>

\* Start's shutdown goroutine force-closes the connections of the members.
ForceCloseConns ==
  /\ ctxDone
  /\ ~swept
  /\ swept' = TRUE
  /\ CloseConns(Members)
  /\ UNCHANGED <<handlerVars, writerVars, roomVars, publishChan, inputs, ctxDone, leaveEcho>>

-----------------------------------------------------------------------------
Handler(c) ==
  \/ Upgrade(c)
  \/ RejectJoin(c)
  \/ \E u \in UserIds : JoinDuplicate(c, u)
  \/ \E u \in UserIds, stamped \in Stamps : AddUserToRoom(c, u, stamped)
  \/ AnnounceJoin(c)
  \/ \E stamped \in Stamps : HandleText(c, stamped)
  \/ \E stamped \in Stamps : HandleLeave(c, stamped)
  \/ HandleReadError(c)
  \/ Publish(c)
  \/ ScheduleRemoveUser(c)
  \/ RemoveUserFromRoom(c)
  \/ Return(c)

Writer(c) ==
  \/ WriteResponse(c)
  \/ WriteError(c)
  \/ WriterDrained(c)
  \/ WriterCancelled(c)

BroadcastLoop == FanOut \/ RemoveInOrder \/ RemoveFromUserRooms \/ RoomContextDone

\* Every connection has come and gone.
Terminated ==
  /\ \A c \in Clients : hpc[c] \in {"idle", "done"}
  /\ UNCHANGED vars

Next ==
  \/ \E c \in Clients : Handler(c) \/ Writer(c)
  \/ BroadcastLoop
  \/ ConsumeMessages
  \/ PublishWorker
  \/ Cancel
  \/ ForceCloseConns
  \/ Terminated

Spec == Init /\ [][Next]_vars

\* The scheduler runs every goroutine that can run, a closed connection makes
\* ReadJSON return, and a write ends by its deadline.  A channel serves its
\* blocked senders in turn, hence strong fairness of Publish.  Peers owe
\* nothing: no fairness on reads from an open connection, on Upgrade or on
\* Cancel.  Publish workers stop at cancellation.
Fairness ==
  /\ \A c \in Clients :
       /\ WF_vars(AnnounceJoin(c))
       /\ WF_vars(conn[c] = "closed" /\ HandleReadError(c))
       /\ SF_vars(Publish(c))
       /\ WF_vars(ScheduleRemoveUser(c))
       /\ WF_vars(RemoveUserFromRoom(c))
       /\ WF_vars(Return(c))
       /\ WF_vars(Writer(c))
  /\ WF_vars(BroadcastLoop)
  /\ WF_vars(~ctxDone /\ PublishWorker)
  /\ WF_vars(ForceCloseConns)

FairSpec == Spec /\ Fairness
-----------------------------------------------------------------------------
\* Properties.

\* Every variable has its type: the channels never exceed their capacities.
TypeOK ==
  /\ hpc \in [Clients -> {"idle", "joining", "announce", "reading", "publish",
                          "publishLeave", "remove", "fallback", "await", "done"}]
  /\ conn \in [Clients -> {"none", "open", "closed"}]
  /\ uid \in [Clients -> UserIds \cup {EmptyId}]
  /\ resp \in [Clients -> Response]
  /\ wpc \in [Clients -> {"none", "run", "done"}]
  /\ send \in [Clients -> Seq(Response)]
  /\ \A c \in Clients : Len(send[c]) <= BufferSize
  /\ sendClosed \in [Clients -> BOOLEAN]
  /\ users \in [UserIds -> Clients \cup {NoClient}]
  /\ userRooms \in [UserIds -> Nat]
  /\ broadcast \in Seq(RoomEvent)
  /\ Len(broadcast) <= BufferSize
  /\ bpc \in {"loop", "unindex", "exited"}
  /\ bUser \in UserIds \cup {EmptyId}
  /\ publishChan \in 0 .. PublishChanSize
  /\ inputs \in 0 .. MaxInputs
  /\ ctxDone \in BOOLEAN
  /\ swept \in BOOLEAN
  /\ leaveEcho \in [Clients -> {"none", "pending", "echoed", "lost"}]

\* The broadcast goroutine never sends on a closed Send channel, which would
\* panic and take every room of the server down: while it may still fan out,
\* the Send channel of every member of the room is open.
NoSendOnClosed ==
  bpc # "exited" =>
    \A u \in UserIds : users[u] # NoClient => ~sendClosed[users[u]]

\* The index Server.UserRooms agrees with the rooms' member maps, although it
\* is updated under another mutex: a user is listed once per membership, plus
\* once while the broadcast goroutine has yet to take a departed user out.
IndexMatchesMembership ==
  \A u \in UserIds :
    userRooms[u] = (IF users[u] # NoClient THEN 1 ELSE 0)
                   + (IF bpc = "unindex" /\ bUser = u THEN 1 ELSE 0)

Removes(e, u) == u # EmptyId /\ e.removeUserId = u

\* In-order removal: a queued removal of u names a member whose handler has
\* stopped reading, and nothing of that member is queued behind it, neither a
\* response the leaver would miss nor a second removal, which could hit a
\* later connection of the same user.
NothingBehindRemoval ==
  \A i \in 1 .. Len(broadcast), u \in UserIds :
    Removes(broadcast[i], u) =>
      /\ users[u] # NoClient
      /\ hpc[users[u]] \in {"await", "done"}
      /\ \A j \in i + 1 .. Len(broadcast) :
           /\ broadcast[j].resp.from # users[u]
           /\ ~Removes(broadcast[j], u)

\* A LEAVE accepted by Broadcast is written to the leaver before its handler
\* returns, unless a full channel, a failed write or shutdown lost it: closing
\* Send never overtakes the echo ("the race where the last few messages are
\* skipped for the leaving user").
LeaveEchoBeforeReturn ==
  \A c \in Clients : hpc[c] = "done" /\ ~ctxDone => leaveEcho[c] # "pending"

\* No departure gets lost between the handler and the broadcast goroutine: a
\* connection whose handler awaits its writer, or has returned, is out of the
\* room with its Send closed, or its removal is queued.  Otherwise the handler
\* would wait for ever, or its user id be taken for ever.
DepartureUnderway ==
  \A c \in Clients : hpc[c] \in {"await", "done"} /\ uid[c] # EmptyId =>
    IF c \in Members
    THEN \E i \in 1 .. Len(broadcast) : Removes(broadcast[i], uid[c])
    ELSE sendClosed[c]

\* Only a connection whose handler has scheduled its own removal is ever taken
\* out of Room.Users: a stale removal never evicts the same user's next
\* connection, and a second JOIN never replaces the first.
OnlyDepartedRemoved ==
  [][\A u \in UserIds :
       users[u] # NoClient /\ users'[u] # users[u] =>
         hpc[users[u]] \in {"fallback", "await", "done"}]_vars

\* The room implements RoomMembership: a connection is in the room from its JOIN
\* until its handler has scheduled the removal.
PhaseOf(pc) ==
  CASE pc \in {"idle", "joining"}   -> "out"
    [] pc \in {"fallback", "await"} -> "leaving"
    [] pc = "done"                  -> "gone"
    [] OTHER                        -> "in"

phase == [c \in Clients |-> PhaseOf(hpc[c])]

Membership == INSTANCE RoomMembership WITH member <- users, listed <- userRooms

\* Every step of the room is a step of RoomMembership or leaves its state
\* alone: no interleaving of joins, queued removals, direct removals and
\* shutdown gives an id to two connections or loses a member from the index.
ImplementsMembership == Membership!Spec

\* A handler that is leaving, or whose connection was closed under it, returns:
\* nothing waits for ever on Broadcast, Publish, or the writer.
HandlerReturns ==
  \A c \in Clients :
    (conn[c] = "closed" \/ hpc[c] \in {"publishLeave", "remove", "fallback", "await"})
      ~> hpc[c] = "done"

\* Once a handler has returned its user id becomes free for a new JOIN, unless
\* the server shuts down first.
UserIdFreed ==
  \A c \in Clients : hpc[c] = "done" ~> (c \notin Members \/ ctxDone)

-----------------------------------------------------------------------------
\* What the repository says, and the code does not do.

\* "Synthetic LEAVE message to notify other users when the connection is
\* dropped": a departing handler announces a LEAVE of its own user.
DepartureAnnounced ==
  \A c \in Clients : hpc[c] = "publishLeave" => IsLeaveOf(resp[c], c)

\* "Terminate when own LEAVE echo is received - one per connection": the LEAVE
\* of a user on a connection's Send channel is the LEAVE of that connection.
OneLeaveEchoPerConnection ==
  \A c \in Clients : \A i \in 1 .. Len(send[c]) :
    LET r == send[c][i]
    IN  r.type = "LEAVE" /\ r.from # NoClient /\ uid[r.from] = uid[c] => r.from = c

=============================================================================
