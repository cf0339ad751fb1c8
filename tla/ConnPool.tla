------------------------------ MODULE ConnPool ------------------------------
(***************************************************************************)
(* The load client's connection pool (client/ws/pool.go), the connections  *)
(* in it (client/ws/wsClient.go), and its caller: the fan-out load test    *)
(* (client/fanout.go), where every user opens a connection to each room in *)
(* turn, runs a session on it and removes it.                              *)
(*                                                                         *)
(* A step is a critical section under Pool.Mu, one operation on a channel, *)
(* or one call on a connection.                                            *)
(***************************************************************************)
EXTENDS Integers, FiniteSets

CONSTANTS
  Callers,  \* sessions: each is one user's turn in one room
  Keys,     \* the pool's keys, "userId:roomId"
  KeyOf,    \* the key each caller works with
  NoConn,
  PoolSize  \* capacity of Pool.Sem

ASSUME ConnPoolAssumption ==
  /\ IsFiniteSet(Callers)
  /\ IsFiniteSet(Keys)
  /\ KeyOf \in [Callers -> Keys]
  /\ NoConn \notin Callers
  /\ PoolSize \in Nat \ {0}

\* A connection is named by the caller that dialled it.
VARIABLES
  pc,         \* where each caller is
  using,      \* the connection GetOrCreateNewWsClient gave it
  removing,   \* the connection Remove took out for it
  conns,      \* Pool.Conns
  sem,        \* tokens in Pool.Sem
  conn,       \* the client's end of each connection
  sendClosed, \* WsClient.Read has returned and closed Send
  closedAll   \* CloseAll has run

poolVars == <<conns, sem>>
connVars == <<conn, sendClosed>>
vars == <<pc, using, removing, poolVars, connVars, closedAll>>

Init ==
  /\ pc = [c \in Callers |-> "idle"]
  /\ using = [c \in Callers |-> NoConn]
  /\ removing = [c \in Callers |-> NoConn]
  /\ conns = [k \in Keys |-> NoConn]
  /\ sem = 0
  /\ conn = [c \in Callers |-> "none"]
  /\ sendClosed = [c \in Callers |-> FALSE]
  /\ closedAll = FALSE

-----------------------------------------------------------------------------
\* GetOrCreateNewWsClient.

Uses(c, x) == using' = [using EXCEPT ![c] = x]

\* Under the read lock: reuse the connection of this key, or go and dial.
Lookup(c) ==
  /\ pc[c] = "idle"
  /\ IF conns[KeyOf[c]] # NoConn
     THEN Uses(c, conns[KeyOf[c]]) /\ pc' = [pc EXCEPT ![c] = "join"]
     ELSE pc' = [pc EXCEPT ![c] = "acquire"] /\ UNCHANGED using
  /\ UNCHANGED <<removing, poolVars, connVars, closedAll>>

\* Mutant of Acquire: does not wait for a slot.
AcquireUnbounded(c) ==
  /\ pc[c] = "acquire"
  /\ sem' = sem + 1
  /\ pc' = [pc EXCEPT ![c] = "dial"]
  /\ UNCHANGED <<using, removing, conns, connVars, closedAll>>

Acquire(c) ==
  /\ pc[c] = "acquire"
  /\ sem < PoolSize
  /\ sem' = sem + 1
  /\ pc' = [pc EXCEPT ![c] = "dial"]
  /\ UNCHANGED <<using, removing, conns, connVars, closedAll>>

\* Mutant of DialFails: the slot of the failed attempt is not given back.
DialFailsLeaking(c) ==
  /\ pc[c] = "dial"
  /\ pc' = [pc EXCEPT ![c] = "done"]
  /\ UNCHANGED <<using, removing, poolVars, connVars, closedAll>>

\* Every attempt failed; the caller goes on to its next room.
DialFails(c) ==
  /\ pc[c] = "dial"
  /\ sem' = sem - 1
  /\ pc' = [pc EXCEPT ![c] = "done"]
  /\ UNCHANGED <<using, removing, conns, connVars, closedAll>>

\* Connected: WsClient.Read starts.
Dial(c) ==
  /\ pc[c] = "dial"
  /\ conn' = [conn EXCEPT ![c] = "open"]
  /\ pc' = [pc EXCEPT ![c] = "insert"]
  /\ UNCHANGED <<using, removing, poolVars, sendClosed, closedAll>>

\* Mutant of Insert: a single check, the second connection replaces the first.
InsertUnchecked(c) ==
  /\ pc[c] = "insert"
  /\ conns' = [conns EXCEPT ![KeyOf[c]] = c]
  /\ pc' = [pc EXCEPT ![c] = "join"]
  /\ Uses(c, c)
  /\ UNCHANGED <<removing, sem, connVars, closedAll>>

\* Under the write lock: the second check of the double-checked lookup.
Insert(c) ==
  /\ pc[c] = "insert"
  /\ IF conns[KeyOf[c]] # NoConn
     THEN /\ Uses(c, conns[KeyOf[c]])
          /\ pc' = [pc EXCEPT ![c] = "discard"]
          /\ UNCHANGED conns
     ELSE /\ Uses(c, c)
          /\ pc' = [pc EXCEPT ![c] = "join"]
          /\ conns' = [conns EXCEPT ![KeyOf[c]] = c]
  /\ UNCHANGED <<removing, sem, connVars, closedAll>>

\* Someone else connected meanwhile: close the duplicate, return the slot.
Discard(c) ==
  /\ pc[c] = "discard"
  /\ conn' = [conn EXCEPT ![c] = "closed"]
  /\ sem' = sem - 1
  /\ pc' = [pc EXCEPT ![c] = "join"]
  /\ UNCHANGED <<using, removing, conns, sendClosed, closedAll>>

-----------------------------------------------------------------------------
\* The session.

Join(c) ==
  /\ pc[c] = "join"
  /\ pc' = [pc EXCEPT ![c] = "session"]
  /\ UNCHANGED <<using, removing, poolVars, connVars, closedAll>>

\* Writing the JOIN fails: on to the next room, without Remove.
JoinError(c) ==
  /\ pc[c] = "join"
  /\ pc' = [pc EXCEPT ![c] = "abandoned"]
  /\ UNCHANGED <<using, removing, poolVars, connVars, closedAll>>

\* TEXTs and LEAVE are written, errors only counted; the wait for the expected
\* responses ends by its 30s timeout.  Then Remove, under the lock.
Remove(c) ==
  /\ pc[c] = "session"
  /\ removing' = [removing EXCEPT ![c] = conns[KeyOf[c]]]
  /\ conns' = [conns EXCEPT ![KeyOf[c]] = NoConn]
  /\ pc' = [pc EXCEPT ![c] = IF conns[KeyOf[c]] # NoConn THEN "close" ELSE "await"]
  /\ UNCHANGED <<using, sem, connVars, closedAll>>

\* Mutants of CloseRemoved.
CloseWithoutRelease(c) ==
  /\ pc[c] = "close"
  /\ conn' = [conn EXCEPT ![removing[c]] = "closed"]
  /\ removing' = [removing EXCEPT ![c] = NoConn]
  /\ pc' = [pc EXCEPT ![c] = "await"]
  /\ UNCHANGED <<using, poolVars, sendClosed, closedAll>>

ReleaseWithoutClose(c) ==
  /\ pc[c] = "close"
  /\ removing' = [removing EXCEPT ![c] = NoConn]
  /\ sem' = sem - 1
  /\ pc' = [pc EXCEPT ![c] = "await"]
  /\ UNCHANGED <<using, conns, connVars, closedAll>>

\* Outside the lock: close the connection, return the slot.
CloseRemoved(c) ==
  /\ pc[c] = "close"
  /\ conn' = [conn EXCEPT ![removing[c]] = "closed"]
  /\ removing' = [removing EXCEPT ![c] = NoConn]
  /\ sem' = sem - 1
  /\ pc' = [pc EXCEPT ![c] = "await"]
  /\ UNCHANGED <<using, conns, sendClosed, closedAll>>

\* <-readerDone: the response reader returns once it has seen the expected
\* number of responses, at some point before this, or when Send is closed.
Done(c) ==
  /\ pc[c] = "await"
  /\ pc' = [pc EXCEPT ![c] = "done"]
  /\ UNCHANGED <<using, removing, poolVars, connVars, closedAll>>

\* WsClient.Read of connection x: ReadJSON fails because either end closed it.
ReadEnds(x) ==
  /\ conn[x] # "none"
  /\ ~sendClosed[x]
  /\ sendClosed' = [sendClosed EXCEPT ![x] = TRUE]
  /\ UNCHANGED <<pc, using, removing, poolVars, conn, closedAll>>

\* The load test is over: close whatever is left.  No slot is returned.
CloseAll ==
  /\ \A c \in Callers : pc[c] \in {"done", "abandoned"}
  /\ ~closedAll
  /\ closedAll' = TRUE
  /\ conn' = [x \in Callers |->
       IF \E k \in Keys : conns[k] = x THEN "closed" ELSE conn[x]]
  /\ conns' = [k \in Keys |-> NoConn]
  /\ UNCHANGED <<pc, using, removing, sem, sendClosed>>

-----------------------------------------------------------------------------
GetOrCreate(c) ==
  \/ Lookup(c) \/ Acquire(c) \/ DialFails(c) \/ Dial(c) \/ Insert(c) \/ Discard(c)

Session(c) == Join(c) \/ JoinError(c) \/ Remove(c) \/ CloseRemoved(c) \/ Done(c)

\* The test is over, or hangs: the slots of abandoned sessions are all taken.
Terminated ==
  /\ \A c \in Callers : pc[c] \in {"done", "abandoned", "acquire"}
  /\ closedAll \/ \E c \in Callers : pc[c] = "abandoned"
  /\ UNCHANGED vars

Next ==
  \/ \E c \in Callers : GetOrCreate(c) \/ Session(c) \/ ReadEnds(c)
  \/ CloseAll
  \/ Terminated

Spec == Init /\ [][Next]_vars

\* Goroutines that can run do; dialling ends after five attempts; a channel
\* serves its blocked senders in turn; a closed connection ends ReadJSON, and a
\* closed Send ends the response reader.  Nothing obliges the server to close a
\* connection or to send the expected responses.
Fairness ==
  /\ \A c \in Callers :
       /\ WF_vars(Lookup(c)) /\ SF_vars(Acquire(c))
       /\ WF_vars(Dial(c) \/ DialFails(c)) /\ WF_vars(Insert(c)) /\ WF_vars(Discard(c))
       /\ WF_vars(Join(c) \/ JoinError(c) \/ Remove(c) \/ CloseRemoved(c))
       /\ WF_vars(using[c] # NoConn /\ sendClosed[using[c]] /\ Done(c))
       /\ WF_vars(conn[c] = "closed" /\ ReadEnds(c))
  /\ WF_vars(CloseAll)

FairSpec == Spec /\ Fairness

-----------------------------------------------------------------------------
\* Properties.

\* Every variable has its type, and never more connections than PoolSize hold
\* a slot.
TypeOK ==
  /\ pc \in [Callers -> {"idle", "acquire", "dial", "insert", "discard", "join",
                         "session", "close", "await", "abandoned", "done"}]
  /\ using \in [Callers -> Callers \cup {NoConn}]
  /\ removing \in [Callers -> Callers \cup {NoConn}]
  /\ conns \in [Keys -> Callers \cup {NoConn}]
  /\ sem \in 0 .. PoolSize
  /\ conn \in [Callers -> {"none", "open", "closed"}]
  /\ sendClosed \in [Callers -> BOOLEAN]
  /\ closedAll \in BOOLEAN

Pooled   == {k \in Keys : conns[k] # NoConn}
InTransit == {c \in Callers : pc[c] \in {"dial", "insert", "discard", "close"}}

\* The semaphore counts what it limits: one token for every connection in the
\* pool and for every one being dialled, inserted, discarded or closed, until
\* CloseAll ends the test.
SlotsBalance ==
  ~closedAll => sem = Cardinality(Pooled) + Cardinality(InTransit)

\* No connection is forgotten: an open one is in the pool under its dialler's
\* key, or its dialler is about to insert or discard it, or a Remove is about
\* to close it.  So a key never has two connections in the pool, and the slots
\* bound the connections that are really open.
NoOrphanConnection ==
  \A x \in Callers :
    conn[x] = "open" =>
      \/ conns[KeyOf[x]] = x
      \/ pc[x] \in {"insert", "discard"}
      \/ \E c \in Callers : pc[c] = "close" /\ removing[c] = x

\* "A semaphore limits the total number of concurrent connections": never more
\* of them are open than the pool has slots, whoever dialled, shares, replaced
\* or removed them, and whether or not CloseAll has run.
OpenConns == {x \in Callers : conn[x] = "open"}

OpenWithinPoolSize == Cardinality(OpenConns) <= PoolSize

\* An abandoned session is the only leak: whenever no session is under way and
\* none has been abandoned, every slot is back and no connection is open, before
\* CloseAll as well as after it.
SlotsReturned ==
  (\A c \in Callers : pc[c] \in {"idle", "acquire", "done"}) =>
    sem = 0 /\ OpenConns = {}

\* A session that has begun ends: the reader it waits for always stops, even
\* when another caller shared, removed or replaced the connection.
SessionEnds == \A c \in Callers : pc[c] = "session" ~> pc[c] = "done"

\* As long as every session runs to its Remove, a caller that waits for a slot
\* gets one.
SlotGranted ==
  \A c \in Callers :
    pc[c] = "acquire" ~> (pc[c] # "acquire" \/ \E d \in Callers : pc[d] = "abandoned")

-----------------------------------------------------------------------------
\* What the repository says, and the code does not do.

\* Each room's turn ends with "Pool.Remove(): close + release semaphore": a
\* caller that waits for a slot gets one.
SlotAlwaysGranted == \A c \in Callers : pc[c] = "acquire" ~> pc[c] # "acquire"

=============================================================================
