------------------------ MODULE ClientPipelineProofs ------------------------
(***************************************************************************)
(* Theorems about ClientPipeline for any number of sessions and messages   *)
(* and any capacities.                                                     *)
(***************************************************************************)
EXTENDS ClientPipeline, FiniteSetTheorems, TLAPS

\* The types of the variables, in the groups the steps change.
WriterTypes ==
  /\ wpc \in [Sessions ->
       {"new", "dial", "connected", "queued", "write", "remove", "release", "done"}]
  /\ left \in [Sessions -> 0 .. Messages]
  /\ abandoned \in [Sessions -> BOOLEAN]

ConnectionTypes ==
  /\ conn \in [Sessions -> {"none", "open", "closed"}]
  /\ responses \in [Sessions -> 0 .. MaxResponses]
  /\ echo \in [Sessions -> {"none", "due", "sent"}]
  /\ sendClosed \in [Sessions -> BOOLEAN]

SendTypes ==
  /\ send \in [Sessions -> Seq({"other", "leave"})]
  /\ \A s \in Sessions : Len(send[s]) <= SendBuffer

ReaderTypes ==
  /\ rpc \in [Sessions -> {"none", "select", "metric", "stats", "done"}]
  /\ last \in [Sessions -> {"other", "leave"}]
  /\ sampled \in [Sessions -> BOOLEAN]

MainTypes ==
  /\ metricChan \in 0 .. MetricBuffer
  /\ statsChan \subseteq Sessions
  /\ Cardinality(statsChan) <= StatsBuffer
  /\ summary \subseteq Sessions
  /\ cpc \in {"run", "exited"}
  /\ mpc \in {"range", "close", "summarise", "done"}
  /\ {closed, ctxDone, panicked} \subseteq BOOLEAN

\* The sessions that hold a slot.
Holding ==
  {s \in Sessions : wpc[s] \in {"dial", "connected", "queued", "write", "remove", "release"}}

SlotsCounted == slots = Cardinality(Holding) /\ slots <= PoolSize

\* Main closes the channels when every session is done.
ClosedWhenDone ==
  /\ closed => mpc \in {"summarise", "done"}
  /\ mpc # "range" => \A s \in Sessions : wpc[s] = "done"

\* A session that main has not started has no reader; one that has ended after
\* waiting for its reader has a reader that is done.
ReaderDone ==
  \A s \in Sessions :
    /\ wpc[s] \in {"new", "dial", "connected", "queued"} => rpc[s] = "none"
    /\ wpc[s] \in {"remove", "release", "done"} /\ ~abandoned[s] => rpc[s] \in {"none", "done"}

\* The statistics of a reader that is done are in statsChan, then in the summary.
Counted ==
  \A s \in Sessions :
    rpc[s] = "done" /\ sampled[s] => s \in IF mpc = "done" THEN summary ELSE statsChan

\* The inductive invariant.  Main waits for writers; that they have waited for
\* their readers, and that readers hand over their statistics before they are
\* done, is what makes the summary complete.
IInv ==
  /\ WriterTypes /\ ConnectionTypes /\ SendTypes /\ ReaderTypes /\ MainTypes
  /\ SlotsCounted
  /\ ClosedWhenDone /\ ReaderDone /\ Counted
  /\ PanicOnlyAfterAbandon

-----------------------------------------------------------------------------
\* The next-state relation, action by action.
SessionStep(s) ==
  \/ Acquire(s) \/ Dial(s) \/ DialFails(s) \/ QueueRoom(s)
  \/ Write(s) \/ WriteFails(s) \/ WriteAbandoned(s) \/ AwaitReader(s)
  \/ CloseConnection(s) \/ ReleaseAndDone(s)
  \/ StartSession(s)

ConnectionStep(s) == Receive(s) \/ ReceiveEcho(s) \/ ReadEnds(s)

ReaderStep(s) ==
  \/ \E stamped \in BOOLEAN : TakeResponse(s, stamped)
  \/ StopReading(s) \/ WriteMetricToChan(s) \/ SendStats(s)

MainStep == Collect \/ CollectorExit \/ Wait \/ CloseChannels \/ GetOverAllStats \/ Deadline

\* Every step is one of a session's goroutines or of main and its collector.
LEMMA NextCases ==
  ASSUME Next \/ UNCHANGED vars
  PROVE  \/ \E s \in Sessions : SessionStep(s)
         \/ \E s \in Sessions : ConnectionStep(s)
         \/ \E s \in Sessions : ReaderStep(s)
         \/ MainStep \/ UNCHANGED vars
BY DEF Next, Generator, Writer, Reader, Collector, Main, Terminated, SessionStep,
       ConnectionStep, ReaderStep, MainStep

\* The bounds are numbers.
LEMMA Bounds ==
  /\ PoolSize \in Nat /\ SendBuffer \in Nat /\ MetricBuffer \in Nat /\ StatsBuffer \in Nat
  /\ SendBuffer > 0 /\ StatsBuffer > 0 /\ Messages \in Nat /\ MaxResponses \in Nat
BY ClientPipelineAssumption

-----------------------------------------------------------------------------
\* Types.

\* What the steps of a session change keeps its type.
LEMMA WriterTypesStep ==
  ASSUME WriterTypes, Next \/ UNCHANGED vars
  PROVE  WriterTypes'
<1>1. ASSUME NEW s \in Sessions, Write(s) \/ WriteFails(s)
      PROVE  WriterTypes'
  <2>1. left[s] \in 0 .. Messages /\ left[s] > 0 /\ left' = [left EXCEPT ![s] = left[s] - 1]
        /\ UNCHANGED <<wpc, abandoned>>
    BY <1>1 DEF Write, WriteFails, Wrote, WriterTypes
  <2>2. left[s] - 1 \in 0 .. Messages
    BY <2>1, Bounds
  <2> QED
    BY <2>1, <2>2 DEF WriterTypes
<1>2. ASSUME NEW s \in Sessions, WriteAbandoned(s)
      PROVE  WriterTypes'
  BY <1>2 DEF WriteAbandoned, WriterTypes
<1>3. ASSUME NEW s \in Sessions,
             \E label \in {"dial", "connected", "queued", "write", "remove", "release", "done"} :
               wpc' = [wpc EXCEPT ![s] = label],
             UNCHANGED <<left, abandoned>>
      PROVE  WriterTypes'
  BY <1>3 DEF WriterTypes
<1>4. CASE UNCHANGED <<wpc, left, abandoned>>
  BY <1>4 DEF WriterTypes
<1>5. ASSUME NEW s \in Sessions, SessionStep(s)
      PROVE  WriterTypes'
  BY <1>1, <1>2, <1>3, <1>5
  DEF SessionStep, Acquire, Dial, DialFails, QueueRoom, AwaitReader, CloseConnection,
      ReleaseAndDone, StartSession
<1> QED
  BY <1>4, <1>5, NextCases
  DEF ConnectionStep, Receive, ReceiveEcho, ReadEnds, ReaderStep, TakeResponse, StopReading,
      WriteMetricToChan, SendStats, MainStep, Collect, CollectorExit, Wait, CloseChannels,
      GetOverAllStats, Deadline, vars, sessionVars

\* What is known of the connections keeps its type.
LEMMA ConnectionTypesStep ==
  ASSUME ConnectionTypes, Next \/ UNCHANGED vars
  PROVE  ConnectionTypes'
<1>1. ASSUME NEW s \in Sessions, Receive(s)
      PROVE  ConnectionTypes'
  <2>1. /\ responses[s] \in 0 .. MaxResponses /\ responses[s] < MaxResponses
        /\ responses' = [responses EXCEPT ![s] = responses[s] + 1]
        /\ UNCHANGED <<conn, echo, sendClosed>>
    BY <1>1 DEF Receive, ConnectionTypes
  <2>2. responses[s] + 1 \in 0 .. MaxResponses
    BY <2>1, Bounds
  <2> QED
    BY <2>1, <2>2 DEF ConnectionTypes
<1>2. ASSUME NEW s \in Sessions, Write(s)
      PROVE  ConnectionTypes'
  <2>1. echo' = [echo EXCEPT ![s] = "due"] \/ echo' = [echo EXCEPT ![s] = @]
    BY <1>2 DEF Write
  <2> QED
    BY <1>2, <2>1 DEF Write, ConnectionTypes
<1>3. CASE UNCHANGED <<conn, responses, echo, sendClosed>>
  BY <1>3 DEF ConnectionTypes
<1>4. ASSUME NEW s \in Sessions, SessionStep(s) \/ ConnectionStep(s)
      PROVE  ConnectionTypes'
  <2>1. CASE Dial(s) \/ CloseConnection(s) \/ ReceiveEcho(s) \/ ReadEnds(s)
    BY <2>1 DEF Dial, CloseConnection, ReceiveEcho, ReadEnds, ConnectionTypes
  <2> QED
    BY <1>1, <1>2, <1>3, <1>4, <2>1
    DEF SessionStep, ConnectionStep, Acquire, DialFails, QueueRoom, WriteFails,
        WriteAbandoned, AwaitReader, ReleaseAndDone, StartSession, connVars
<1> QED
  BY <1>3, <1>4, NextCases
  DEF ReaderStep, TakeResponse, StopReading, WriteMetricToChan, SendStats, MainStep, Collect,
      CollectorExit, Wait, CloseChannels, GetOverAllStats, Deadline, vars, connVars

\* No Send channel exceeds its capacity.
LEMMA SendTypesStep ==
  ASSUME SendTypes, Next \/ UNCHANGED vars
  PROVE  SendTypes'
<1>1. ASSUME NEW s \in Sessions, NEW q \in Seq({"other", "leave"}), Len(q) <= SendBuffer,
             send' = [send EXCEPT ![s] = q]
      PROVE  SendTypes'
  BY <1>1 DEF SendTypes
<1>2. ASSUME NEW s \in Sessions, NEW r \in {"other", "leave"}, Forward(s, r)
      PROVE  SendTypes'
  <2>1. send[s] \in Seq({"other", "leave"}) /\ Len(send[s]) \in Nat
    BY DEF SendTypes
  <2>2. Append(send[s], r) \in Seq({"other", "leave"}) /\ Len(Append(send[s], r)) = Len(send[s]) + 1
    BY <2>1
  <2>3. CASE Len(send[s]) < SendBuffer
    <3>1. send' = [send EXCEPT ![s] = Append(send[s], r)]
      BY <1>2, <2>3 DEF Forward
    <3>2. Len(Append(send[s], r)) <= SendBuffer
      BY <2>1, <2>2, <2>3, Bounds
    <3> QED
      BY <1>1, <2>2, <3>1, <3>2
  <2>4. CASE ~(Len(send[s]) < SendBuffer)
    BY <1>2, <2>4 DEF Forward, SendTypes
  <2> QED
    BY <2>3, <2>4
<1>3. ASSUME NEW s \in Sessions, NEW stamped \in BOOLEAN, TakeResponse(s, stamped)
      PROVE  SendTypes'
  <2>1. send[s] \in Seq({"other", "leave"}) /\ send[s] # <<>> /\ Len(send[s]) <= SendBuffer
        /\ send' = [send EXCEPT ![s] = Tail(send[s])]
    BY <1>3 DEF TakeResponse, SendTypes
  <2>2. Tail(send[s]) \in Seq({"other", "leave"}) /\ Len(Tail(send[s])) <= SendBuffer
    BY <2>1, Bounds
  <2> QED
    BY <1>1, <2>1, <2>2
<1>4. ASSUME NEW s \in Sessions, SendStats(s)
      PROVE  SendTypes'
  <2>1. UNCHANGED send \/ send' = [send EXCEPT ![s] = <<>>]
    BY <1>4 DEF SendStats
  <2>2. <<>> \in Seq({"other", "leave"}) /\ Len(<<>>) <= SendBuffer
    BY Bounds
  <2> QED
    BY <1>1, <2>1, <2>2 DEF SendTypes
<1>5. CASE UNCHANGED send
  BY <1>5 DEF SendTypes
<1> QED
  BY <1>2, <1>3, <1>4, <1>5, NextCases
  DEF SessionStep, Acquire, Dial, DialFails, QueueRoom, Write, WriteFails, WriteAbandoned,
      AwaitReader, CloseConnection, ReleaseAndDone, StartSession, ConnectionStep, Receive,
      ReceiveEcho, ReadEnds, ReaderStep, StopReading, WriteMetricToChan, MainStep, Collect,
      CollectorExit, Wait, CloseChannels, GetOverAllStats, Deadline, vars, connVars

\* What the readers keep has its type.
LEMMA ReaderTypesStep ==
  ASSUME ReaderTypes, SendTypes, Next \/ UNCHANGED vars
  PROVE  ReaderTypes'
<1>1. ASSUME NEW s \in Sessions, NEW stamped \in BOOLEAN, TakeResponse(s, stamped)
      PROVE  ReaderTypes'
  <2>1. Head(send[s]) \in {"other", "leave"}
    <3>1. send[s] \in Seq({"other", "leave"}) /\ send[s] # <<>>
      BY <1>1 DEF TakeResponse, SendTypes
    <3> QED
      BY <3>1
  <2>2. /\ \E label \in {"metric", "stats", "select"} : rpc' = [rpc EXCEPT ![s] = label]
        /\ \E r \in {"other", "leave"} : last' = [last EXCEPT ![s] = r]
    <3>1. last[s] \in {"other", "leave"}
      BY DEF ReaderTypes
    <3> QED
      BY <1>1, <2>1, <3>1 DEF TakeResponse
  <2>3. sampled' \in [Sessions -> BOOLEAN]
    BY <1>1 DEF TakeResponse, ReaderTypes
  <2> QED
    BY <2>2, <2>3 DEF ReaderTypes
<1>2. CASE UNCHANGED readerVars
  BY <1>2 DEF ReaderTypes, readerVars
<1>3. ASSUME NEW s \in Sessions, StopReading(s) \/ StartSession(s) \/ SendStats(s)
      PROVE  ReaderTypes'
  <2>1. /\ UNCHANGED <<last, sampled>>
        /\ \/ UNCHANGED rpc
           \/ \E label \in {"stats", "select", "done"} : rpc' = [rpc EXCEPT ![s] = label]
    BY <1>3 DEF StopReading, StartSession, SendStats
  <2> QED
    BY <2>1 DEF ReaderTypes
<1>4. ASSUME NEW s \in Sessions, WriteMetricToChan(s)
      PROVE  ReaderTypes'
  <2>1. /\ UNCHANGED sampled
        /\ \/ UNCHANGED <<rpc, last>>
           \/ /\ \E label \in {"stats", "select"} : rpc' = [rpc EXCEPT ![s] = label]
              /\ last' = [last EXCEPT ![s] = "other"]
    BY <1>4 DEF WriteMetricToChan
  <2> QED
    BY <2>1 DEF ReaderTypes
<1> QED
  BY <1>1, <1>2, <1>3, <1>4, NextCases
  DEF SessionStep, Acquire, Dial, DialFails, QueueRoom, Write, WriteFails, WriteAbandoned,
      AwaitReader, CloseConnection, ReleaseAndDone, ConnectionStep, Receive, ReceiveEcho,
      ReadEnds, ReaderStep, MainStep, Collect, CollectorExit, Wait, CloseChannels,
      GetOverAllStats, Deadline, vars

\* What main and the collector keep has its type; neither channel exceeds its
\* capacity.
LEMMA MainTypesStep ==
  ASSUME MainTypes, Next \/ UNCHANGED vars
  PROVE  MainTypes'
<1>1. ASSUME NEW s \in Sessions, WriteMetricToChan(s)
      PROVE  MainTypes'
  <2>1. /\ panicked' \in BOOLEAN /\ UNCHANGED <<statsChan, mainVars>>
        /\ \/ UNCHANGED metricChan
           \/ metricChan < MetricBuffer /\ metricChan' = metricChan + 1
    BY <1>1 DEF WriteMetricToChan, MainTypes
  <2>2. metricChan' \in 0 .. MetricBuffer
    BY <2>1, Bounds DEF MainTypes
  <2> QED
    BY <2>1, <2>2 DEF MainTypes, mainVars
<1>2. ASSUME NEW s \in Sessions, SendStats(s)
      PROVE  MainTypes'
  <2>1. /\ panicked' \in BOOLEAN /\ UNCHANGED <<metricChan, mainVars>>
        /\ \/ UNCHANGED statsChan
           \/ Cardinality(statsChan) < StatsBuffer /\ statsChan' = statsChan \cup {s}
    BY <1>2 DEF SendStats, MainTypes
  <2>2. IsFiniteSet(statsChan)
    BY ClientPipelineAssumption, FS_Subset DEF MainTypes
  <2>3. /\ Cardinality(statsChan) \in Nat
        /\ \/ Cardinality(statsChan \cup {s}) = Cardinality(statsChan) + 1
           \/ Cardinality(statsChan \cup {s}) = Cardinality(statsChan)
    BY <2>2, FS_CardinalityType, FS_AddElement
  <2>4. statsChan' \subseteq Sessions /\ Cardinality(statsChan') <= StatsBuffer
    BY <2>1, <2>3, Bounds DEF MainTypes
  <2> QED
    BY <2>1, <2>4 DEF MainTypes, mainVars
<1>3. CASE Collect
  <2>1. metricChan' \in 0 .. MetricBuffer
    BY <1>3, Bounds DEF Collect, MainTypes
  <2> QED
    BY <1>3, <2>1 DEF Collect, MainTypes, mainVars
<1>4. CASE GetOverAllStats
  <2>1. statsChan' = {} /\ summary' = statsChan /\ mpc' = "done"
        /\ UNCHANGED <<metricChan, cpc, closed, ctxDone, panicked>>
    BY <1>4 DEF GetOverAllStats
  <2>2. Cardinality({}) = 0
    BY FS_EmptySet
  <2> QED
    BY <2>1, <2>2, Bounds DEF MainTypes
<1>5. CASE CollectorExit \/ Wait \/ CloseChannels \/ Deadline
  BY <1>5 DEF CollectorExit, Wait, CloseChannels, Deadline, MainTypes, chanVars
<1>6. CASE UNCHANGED <<chanVars, mainVars, panicked>>
  BY <1>6 DEF MainTypes, chanVars, mainVars
<1> QED
  BY <1>1, <1>2, <1>3, <1>4, <1>5, <1>6, NextCases
  DEF SessionStep, Acquire, Dial, DialFails, QueueRoom, Write, WriteFails, WriteAbandoned,
      AwaitReader, CloseConnection, ReleaseAndDone, StartSession, ConnectionStep, Receive,
      ReceiveEcho, ReadEnds, ReaderStep, TakeResponse, StopReading, MainStep, vars

-----------------------------------------------------------------------------
\* Slots.

\* A session that enters or leaves the pool changes the count by one.
LEMMA SlotsStep ==
  ASSUME WriterTypes, SlotsCounted, Next \/ UNCHANGED vars
  PROVE  SlotsCounted'
<1>0. IsFiniteSet(Holding) /\ Cardinality(Holding) \in Nat
  BY ClientPipelineAssumption, FS_Subset, FS_CardinalityType DEF Holding
<1>1. CASE UNCHANGED slots /\ UNCHANGED Holding
  BY <1>1 DEF SlotsCounted
<1>2. ASSUME NEW s \in Sessions, Acquire(s)
      PROVE  SlotsCounted'
  <2>1. s \notin Holding /\ slots < PoolSize /\ slots' = slots + 1
    BY <1>2 DEF Acquire, Holding
  <2>2. Holding' = Holding \cup {s}
    BY <1>2 DEF Acquire, Holding, WriterTypes
  <2>3. Cardinality(Holding') = Cardinality(Holding) + 1
    BY <1>0, <2>1, <2>2, FS_AddElement
  <2>4. slots' = Cardinality(Holding') /\ slots' <= PoolSize
    BY <1>0, <2>1, <2>3, Bounds DEF SlotsCounted
  <2> QED
    BY <2>4 DEF SlotsCounted
<1>3. ASSUME NEW s \in Sessions, DialFails(s) \/ ReleaseAndDone(s)
      PROVE  SlotsCounted'
  <2>1. s \in Holding /\ slots' = slots - 1
    BY <1>3 DEF DialFails, ReleaseAndDone, Holding
  <2>2. Holding' = Holding \ {s}
    BY <1>3 DEF DialFails, ReleaseAndDone, Holding, WriterTypes
  <2>3. Cardinality(Holding') = Cardinality(Holding) - 1
    BY <1>0, <2>1, <2>2, FS_RemoveElement
  <2>4. slots' = Cardinality(Holding') /\ slots' <= PoolSize
    BY <1>0, <2>1, <2>3, Bounds DEF SlotsCounted
  <2> QED
    BY <2>4 DEF SlotsCounted
<1>4. ASSUME NEW s \in Sessions,
             \/ Dial(s) \/ QueueRoom(s) \/ WriteAbandoned(s) \/ AwaitReader(s)
             \/ CloseConnection(s) \/ StartSession(s)
      PROVE  UNCHANGED slots /\ UNCHANGED Holding
  BY <1>4 DEF Dial, QueueRoom, WriteAbandoned, AwaitReader, CloseConnection, StartSession,
              Holding, WriterTypes
<1>5. CASE UNCHANGED <<wpc, slots>>
  BY <1>1, <1>5 DEF Holding
<1> QED
  BY <1>1, <1>2, <1>3, <1>4, <1>5, NextCases
  DEF SessionStep, Write, WriteFails, ConnectionStep, Receive, ReceiveEcho, ReadEnds,
      ReaderStep, TakeResponse, StopReading, WriteMetricToChan, SendStats, MainStep, Collect,
      CollectorExit, Wait, CloseChannels, GetOverAllStats, Deadline, vars, sessionVars

\* A session has an open connection from its dial to its close, and so within
\* the time it holds a token.
OpenWhileConnected ==
  \A s \in Sessions :
    conn[s] = "open" <=> wpc[s] \in {"connected", "queued", "write", "remove"}

\* Nothing but dialling and closing opens or closes one.
LEMMA OpenStep ==
  ASSUME WriterTypes, ConnectionTypes, OpenWhileConnected, Next \/ UNCHANGED vars
  PROVE  OpenWhileConnected'
<1>1. ASSUME NEW s \in Sessions, NEW label, wpc' = [wpc EXCEPT ![s] = label], UNCHANGED conn,
             wpc[s] \in {"connected", "queued", "write", "remove"}
               <=> label \in {"connected", "queued", "write", "remove"}
      PROVE  OpenWhileConnected'
  BY <1>1 DEF OpenWhileConnected, WriterTypes
<1>2. ASSUME NEW s \in Sessions, Dial(s) \/ CloseConnection(s)
      PROVE  OpenWhileConnected'
  BY <1>2 DEF Dial, CloseConnection, OpenWhileConnected, WriterTypes, ConnectionTypes
<1>3. ASSUME NEW s \in Sessions, Acquire(s) \/ DialFails(s) \/ ReleaseAndDone(s)
      PROVE  OpenWhileConnected'
  BY <1>1, <1>3 DEF Acquire, DialFails, ReleaseAndDone, connVars
<1>4. ASSUME NEW s \in Sessions,
             QueueRoom(s) \/ StartSession(s) \/ WriteAbandoned(s) \/ AwaitReader(s)
      PROVE  OpenWhileConnected'
  BY <1>1, <1>4 DEF QueueRoom, StartSession, WriteAbandoned, AwaitReader, connVars
<1>5. CASE UNCHANGED <<wpc, conn>>
  BY <1>5 DEF OpenWhileConnected
<1> QED
  BY <1>2, <1>3, <1>4, <1>5, NextCases
  DEF SessionStep, Write, WriteFails, ConnectionStep, Receive, ReceiveEcho, ReadEnds,
      ReaderStep, TakeResponse, StopReading, WriteMetricToChan, SendStats, MainStep, Collect,
      CollectorExit, Wait, CloseChannels, GetOverAllStats, Deadline, vars, sessionVars,
      connVars

-----------------------------------------------------------------------------
\* The end of the test.

\* Sessions that are done stay so, and main closes nothing before.
LEMMA ClosedStep ==
  ASSUME WriterTypes, MainTypes, ClosedWhenDone, Next \/ UNCHANGED vars
  PROVE  ClosedWhenDone'
<1>1. CASE UNCHANGED <<wpc, mpc, closed>>
  BY <1>1 DEF ClosedWhenDone
<1>2. ASSUME NEW s \in Sessions, SessionStep(s)
      PROVE  ClosedWhenDone'
  <2>1. wpc[s] # "done" /\ UNCHANGED <<mpc, closed>>
    BY <1>2 DEF SessionStep, Acquire, Dial, DialFails, QueueRoom, Write, WriteFails,
                WriteAbandoned, AwaitReader, CloseConnection, ReleaseAndDone, StartSession, mainVars
  <2>2. mpc = "range" /\ ~closed
    BY <2>1 DEF ClosedWhenDone, MainTypes
  <2> QED
    BY <2>1, <2>2 DEF ClosedWhenDone
<1>3. CASE Wait \/ CloseChannels \/ GetOverAllStats
  <2>1. UNCHANGED wpc
    BY <1>3 DEF Wait, CloseChannels, GetOverAllStats, sessionVars
  <2>2. CASE Wait
    BY <2>1, <2>2 DEF Wait, ClosedWhenDone
  <2>3. CASE CloseChannels
    BY <2>1, <2>3 DEF CloseChannels, ClosedWhenDone
  <2>4. CASE GetOverAllStats
    BY <2>1, <2>4 DEF GetOverAllStats, ClosedWhenDone
  <2> QED
    BY <1>3, <2>2, <2>3, <2>4
<1> QED
  BY <1>1, <1>2, <1>3, NextCases
  DEF ConnectionStep, Receive, ReceiveEcho, ReadEnds, ReaderStep, TakeResponse, StopReading,
      WriteMetricToChan, SendStats, MainStep, Collect, CollectorExit, Deadline, vars,
      sessionVars, mainVars

\* A writer that ends without giving up has a reader that is done.
LEMMA ReaderDoneStep ==
  ASSUME WriterTypes, ReaderTypes, ReaderDone, Next \/ UNCHANGED vars
  PROVE  ReaderDone'
<1>1. CASE UNCHANGED <<wpc, abandoned, rpc>>
  BY <1>1 DEF ReaderDone
<1>2. ASSUME NEW s \in Sessions, SessionStep(s)
      PROVE  ReaderDone'
  <2>1. CASE \/ Acquire(s) \/ Dial(s) \/ DialFails(s) \/ QueueRoom(s) \/ AwaitReader(s)
             \/ CloseConnection(s) \/ ReleaseAndDone(s)
    BY <2>1 DEF Acquire, Dial, DialFails, QueueRoom, AwaitReader, CloseConnection,
                ReleaseAndDone, ReaderDone,
                WriterTypes, readerVars
  <2>2. CASE Write(s) \/ WriteFails(s)
    BY <1>1, <2>2 DEF Write, WriteFails, readerVars
  <2>3. CASE WriteAbandoned(s)
    BY <2>3 DEF WriteAbandoned, ReaderDone, WriterTypes, readerVars
  <2>4. CASE StartSession(s)
    BY <2>4 DEF StartSession, ReaderDone, WriterTypes, ReaderTypes
  <2> QED
    BY <1>2, <2>1, <2>2, <2>3, <2>4 DEF SessionStep
<1>3. ASSUME NEW s \in Sessions, ReaderStep(s)
      PROVE  ReaderDone'
  <2>1. /\ rpc[s] \in {"select", "metric", "stats"} /\ UNCHANGED <<wpc, abandoned>>
        /\ UNCHANGED rpc \/ \E label : rpc' = [rpc EXCEPT ![s] = label]
    BY <1>3 DEF ReaderStep, TakeResponse, StopReading, WriteMetricToChan, SendStats, sessionVars
  <2> QED
    BY <2>1 DEF ReaderDone, ReaderTypes, WriterTypes
<1> QED
  BY <1>1, <1>2, <1>3, NextCases
  DEF ConnectionStep, Receive, ReceiveEcho, ReadEnds, MainStep, Collect, CollectorExit, Wait,
      CloseChannels, GetOverAllStats, Deadline, vars, sessionVars, readerVars

\* The statistics of a reader that is done are not lost.
LEMMA CountedStep ==
  ASSUME ReaderTypes, MainTypes, Counted, Next \/ UNCHANGED vars
  PROVE  Counted'
<1>1. CASE UNCHANGED <<rpc, sampled, mpc, summary, statsChan>>
  BY <1>1 DEF Counted
<1>2. ASSUME NEW s \in Sessions, NEW stamped \in BOOLEAN, TakeResponse(s, stamped)
      PROVE  Counted'
  <2>1. /\ \E label \in {"metric", "stats", "select"} : rpc' = [rpc EXCEPT ![s] = label]
        /\ \E v \in BOOLEAN : sampled' = [sampled EXCEPT ![s] = v]
        /\ UNCHANGED <<mpc, summary, statsChan>>
    BY <1>2 DEF TakeResponse, ReaderTypes, chanVars, mainVars
  <2> QED
    BY <2>1 DEF Counted, ReaderTypes
<1>3. ASSUME NEW s \in Sessions, StopReading(s) \/ StartSession(s) \/ WriteMetricToChan(s)
      PROVE  Counted'
  <2>1. /\ UNCHANGED rpc \/ \E label \in {"stats", "select"} : rpc' = [rpc EXCEPT ![s] = label]
        /\ UNCHANGED <<sampled, mpc, summary, statsChan>>
    BY <1>3 DEF StopReading, StartSession, WriteMetricToChan, chanVars, mainVars
  <2> QED
    BY <2>1 DEF Counted, ReaderTypes
<1>4. ASSUME NEW s \in Sessions, SendStats(s)
      PROVE  Counted'
  <2>1. mpc # "done" /\ UNCHANGED <<sampled, mpc, summary>>
    BY <1>4 DEF SendStats, Running, mainVars
  <2>2. CASE UNCHANGED <<rpc, statsChan>>
    BY <2>1, <2>2 DEF Counted
  <2>3. CASE /\ statsChan' = IF sampled[s] THEN statsChan \cup {s} ELSE statsChan
             /\ rpc' = [rpc EXCEPT ![s] = "done"]
    BY <2>1, <2>3 DEF Counted, ReaderTypes
  <2> QED
    BY <1>4, <2>2, <2>3 DEF SendStats
<1>5. CASE Wait \/ CloseChannels
  BY <1>5 DEF Wait, CloseChannels, Counted, readerVars, chanVars
<1>6. CASE GetOverAllStats
  BY <1>6 DEF GetOverAllStats, Running, Counted, readerVars
<1> QED
  BY <1>1, <1>2, <1>3, <1>4, <1>5, <1>6, NextCases
  DEF SessionStep, Acquire, Dial, DialFails, QueueRoom, Write, WriteFails, WriteAbandoned,
      AwaitReader, CloseConnection, ReleaseAndDone, ConnectionStep, Receive, ReceiveEcho,
      ReadEnds, ReaderStep, MainStep, Collect, CollectorExit, Deadline, vars, readerVars,
      chanVars, mainVars

\* A reader that meets a closed channel belongs to a writer that gave up.
LEMMA PanicStep ==
  ASSUME WriterTypes, ClosedWhenDone, ReaderDone, PanicOnlyAfterAbandon, Next \/ UNCHANGED vars
  PROVE  PanicOnlyAfterAbandon'
<1>1. ASSUME NEW s \in Sessions, abandoned[s]
      PROVE  abandoned'[s]
  <2>1. UNCHANGED abandoned \/ \E q \in Sessions : abandoned' = [abandoned EXCEPT ![q] = TRUE]
    BY NextCases
    DEF SessionStep, Acquire, Dial, DialFails, QueueRoom, Write, WriteFails, WriteAbandoned,
        AwaitReader, CloseConnection, ReleaseAndDone, StartSession, ConnectionStep, Receive,
        ReceiveEcho, ReadEnds, ReaderStep, TakeResponse, StopReading, WriteMetricToChan,
        SendStats, MainStep, Collect, CollectorExit, Wait, CloseChannels, GetOverAllStats,
        Deadline, vars, sessionVars
  <2> QED
    BY <1>1, <2>1 DEF WriterTypes
<1>2. ASSUME NEW s \in Sessions, WriteMetricToChan(s) \/ SendStats(s), closed
      PROVE  abandoned[s]
  <2>1. rpc[s] \in {"metric", "stats"}
    BY <1>2 DEF WriteMetricToChan, SendStats
  <2>2. wpc[s] = "done"
    BY <1>2 DEF ClosedWhenDone
  <2> QED
    BY <2>1, <2>2 DEF ReaderDone
<1>3. ASSUME panicked', ~panicked
      PROVE  \E s \in Sessions : closed /\ (WriteMetricToChan(s) \/ SendStats(s))
  BY <1>3, NextCases
  DEF SessionStep, Acquire, Dial, DialFails, QueueRoom, Write, WriteFails, WriteAbandoned,
      AwaitReader, CloseConnection, ReleaseAndDone, StartSession, ConnectionStep, Receive,
      ReceiveEcho, ReadEnds, ReaderStep, TakeResponse, StopReading, WriteMetricToChan,
      SendStats, MainStep, Collect, CollectorExit, Wait, CloseChannels, GetOverAllStats,
      Deadline, vars
<1> QED
  BY <1>1, <1>2, <1>3 DEF PanicOnlyAfterAbandon

-----------------------------------------------------------------------------
\* The test starts with it.
LEMMA InitInv == Init => IInv
<1> SUFFICES ASSUME Init
             PROVE  IInv
  OBVIOUS
<1>1. WriterTypes
  BY Bounds DEF Init, WriterTypes
<1>2. ConnectionTypes
  BY Bounds DEF Init, ConnectionTypes
<1>3. SendTypes
  <2>1. <<>> \in Seq({"other", "leave"}) /\ Len(<<>>) <= SendBuffer
    BY Bounds
  <2> QED
    BY <2>1 DEF Init, SendTypes
<1>4. ReaderTypes
  BY DEF Init, ReaderTypes
<1>5. MainTypes
  <2>1. Cardinality({}) = 0
    BY FS_EmptySet
  <2>2. 0 \in 0 .. MetricBuffer /\ Cardinality({}) <= StatsBuffer
    BY <2>1, Bounds
  <2>3. /\ metricChan = 0 /\ statsChan = {} /\ summary = {} /\ cpc = "run" /\ mpc = "range"
        /\ closed = FALSE /\ ctxDone = FALSE /\ panicked = FALSE
    BY DEF Init
  <2> QED
    BY <2>2, <2>3 DEF MainTypes
<1>6. SlotsCounted
  <2>1. Holding = {}
    BY DEF Init, Holding
  <2> QED
    BY <2>1, FS_EmptySet, Bounds DEF Init, SlotsCounted
<1>7. ClosedWhenDone /\ ReaderDone /\ Counted /\ PanicOnlyAfterAbandon
  BY DEF Init, ClosedWhenDone, ReaderDone, Counted, PanicOnlyAfterAbandon
<1> QED
  BY <1>1, <1>2, <1>3, <1>4, <1>5, <1>6, <1>7 DEF IInv

\* Every step keeps it.
LEMMA StepInv == IInv /\ [Next]_vars => IInv'
<1> SUFFICES ASSUME IInv, Next \/ UNCHANGED vars
             PROVE  IInv'
  OBVIOUS
<1> QED
  BY WriterTypesStep, ConnectionTypesStep, SendTypesStep, ReaderTypesStep, MainTypesStep,
     SlotsStep, ClosedStep, ReaderDoneStep, CountedStep, PanicStep DEF IInv

\* It holds in every reachable state.
LEMMA Invariant == Spec => []IInv
BY InitInv, StepInv, PTL DEF Spec

-----------------------------------------------------------------------------
\* Every variable has its type, and no channel nor the pool exceeds its
\* capacity.
THEOREM Types == Spec => []TypeOK
<1>1. ASSUME SlotsCounted
      PROVE  slots \in 0 .. PoolSize
  <2>1. Cardinality(Holding) \in Nat
    BY ClientPipelineAssumption, FS_Subset, FS_CardinalityType DEF Holding
  <2> QED
    BY <1>1, <2>1, Bounds DEF SlotsCounted
<1>2. IInv => TypeOK
  BY <1>1 DEF IInv, TypeOK, WriterTypes, ConnectionTypes, SendTypes, ReaderTypes, MainTypes
<1> QED
  BY <1>2, Invariant, PTL

\* The summary counts every session that wrote all its messages and measured
\* anything, although main waits for writers and the statistics come from
\* readers.
THEOREM Summary == Spec => []SummaryComplete
<1>1. IInv => SummaryComplete
  BY DEF IInv, ClosedWhenDone, ReaderDone, Counted, ReaderTypes, SummaryComplete
<1> QED
  BY <1>1, Invariant, PTL

\* No more connections are open than tokens are taken, and when every writer is
\* done there are none of either: the pipeline test leaves nothing for CloseAll.
THEOREM OpenLimited == Spec => []OpenHoldSlots
<1>1. Init => OpenWhileConnected
  BY DEF Init, OpenWhileConnected
<1>2. IInv /\ OpenWhileConnected /\ [Next]_vars => OpenWhileConnected'
  BY OpenStep DEF IInv
<1>3. IInv /\ OpenWhileConnected => OpenHoldSlots
  <2> SUFFICES ASSUME IInv, OpenWhileConnected
               PROVE  OpenHoldSlots
    OBVIOUS
  <2>1. OpenSessions \subseteq Holding
    BY DEF OpenWhileConnected, OpenSessions, Holding
  <2>2. IsFiniteSet(Holding)
    BY ClientPipelineAssumption, FS_Subset DEF Holding
  <2>3. Cardinality(OpenSessions) <= slots
    BY <2>1, <2>2, FS_Subset DEF IInv, SlotsCounted
  <2>4. mpc # "range" => Holding = {}
    BY DEF IInv, ClosedWhenDone, Holding
  <2> QED
    BY <2>1, <2>3, <2>4, FS_EmptySet DEF IInv, SlotsCounted, OpenHoldSlots
<1> QED
  BY <1>1, <1>2, <1>3, Invariant, PTL DEF Spec

\* A hang is final: once a writer awaits a reader that sends to the collector
\* that has stopped, no goroutine ever frees it, not the end of other sessions
\* nor that of main.
THEOREM HangIsFinal == Spec => [](Stuck => []Stuck)
<1>1. IInv /\ Stuck /\ [Next]_vars => Stuck'
  <2> SUFFICES ASSUME IInv, Stuck, Next \/ UNCHANGED vars
               PROVE  Stuck'
    OBVIOUS
  <2>1. PICK s \in Sessions : wpc[s] = "write" /\ left[s] = 0 /\ rpc[s] = "metric"
    BY DEF Stuck
  <2>2. mpc = "range" /\ ~closed /\ cpc = "exited" /\ metricChan = MetricBuffer
    BY <2>1 DEF Stuck, IInv, ClosedWhenDone
  <2>3. wpc'[s] = "write" /\ left'[s] = 0 /\ rpc'[s] = "metric"
    <3>1. ASSUME NEW q \in Sessions, SessionStep(q)
          PROVE  q # s \/ UNCHANGED <<wpc, left, rpc>>
      BY <2>1, <3>1
      DEF SessionStep, Acquire, Dial, DialFails, QueueRoom, Write, WriteFails, WriteAbandoned,
          AwaitReader, CloseConnection, ReleaseAndDone, StartSession
    <3>2. ASSUME NEW q \in Sessions, SessionStep(q)
          PROVE  /\ UNCHANGED rpc \/ \E to : rpc' = [rpc EXCEPT ![q] = to]
                 /\ UNCHANGED wpc \/ \E to : wpc' = [wpc EXCEPT ![q] = to]
                 /\ UNCHANGED left \/ \E to : left' = [left EXCEPT ![q] = to]
      BY <3>2
      DEF SessionStep, Acquire, Dial, DialFails, QueueRoom, Write, WriteFails, Wrote,
          WriteAbandoned, AwaitReader, CloseConnection, ReleaseAndDone, StartSession,
          readerVars
    <3>3. ASSUME NEW q \in Sessions, ReaderStep(q)
          PROVE  /\ q # s /\ UNCHANGED <<wpc, left>>
                 /\ UNCHANGED rpc \/ \E to : rpc' = [rpc EXCEPT ![q] = to]
      <4>1. ~(metricChan < MetricBuffer)
        BY <2>2, Bounds
      <4> QED
        BY <2>1, <2>2, <3>3, <4>1
        DEF ReaderStep, TakeResponse, StopReading, WriteMetricToChan, SendStats, sessionVars
    <3>4. CASE UNCHANGED <<wpc, left, rpc>>
      BY <2>1, <3>4
    <3>5. ASSUME NEW q \in Sessions, SessionStep(q)
          PROVE  wpc'[s] = "write" /\ left'[s] = 0 /\ rpc'[s] = "metric"
      BY <2>1, <3>1, <3>2, <3>4, <3>5 DEF IInv, WriterTypes, ReaderTypes
    <3>6. ASSUME NEW q \in Sessions, ReaderStep(q)
          PROVE  wpc'[s] = "write" /\ left'[s] = 0 /\ rpc'[s] = "metric"
      BY <2>1, <3>3, <3>6 DEF IInv, ReaderTypes
    <3> QED
      BY <3>4, <3>5, <3>6, NextCases
      DEF ConnectionStep, Receive, ReceiveEcho, ReadEnds, MainStep, Collect, CollectorExit,
          Wait, CloseChannels, GetOverAllStats, Deadline, vars, sessionVars, readerVars
  <2>4. cpc' = "exited" /\ metricChan' = MetricBuffer /\ ~closed'
    <3>1. ~(metricChan < MetricBuffer)
      BY <2>2, Bounds
    <3>2. ASSUME NEW q \in Sessions, SessionStep(q) \/ ConnectionStep(q)
          PROVE  UNCHANGED <<cpc, metricChan, closed>>
      BY <3>2
      DEF SessionStep, Acquire, Dial, DialFails, QueueRoom, Write, WriteFails, WriteAbandoned,
          AwaitReader, CloseConnection, ReleaseAndDone, StartSession, ConnectionStep, Receive,
          ReceiveEcho, ReadEnds, chanVars, mainVars
    <3>3. ASSUME NEW q \in Sessions, ReaderStep(q)
          PROVE  UNCHANGED <<cpc, metricChan, closed>>
      BY <2>2, <3>1, <3>3
      DEF ReaderStep, TakeResponse, StopReading, WriteMetricToChan, SendStats, chanVars, mainVars
    <3>4. CASE MainStep
      BY <2>2, <3>4
      DEF MainStep, Collect, CollectorExit, Wait, CloseChannels, GetOverAllStats, Deadline, chanVars
    <3>5. CASE UNCHANGED vars
      BY <2>2, <3>5 DEF vars, chanVars, mainVars
    <3> QED
      BY <2>2, <3>2, <3>3, <3>4, <3>5, NextCases
  <2> QED
    BY <2>3, <2>4 DEF Stuck
<1> QED
  BY <1>1, Invariant, PTL DEF Spec

\* Only a session whose writer gave up can send on a closed channel.
THEOREM Panic == Spec => []PanicOnlyAfterAbandon
<1>1. IInv => PanicOnlyAfterAbandon
  BY DEF IInv
<1> QED
  BY <1>1, Invariant, PTL

=============================================================================
