--------------------------- MODULE ClientPipeline ---------------------------
(***************************************************************************)
(* The pipeline load test (client/pipeline.go, client/ws/client.go):       *)
(* generators open the connections and queue them, the main goroutine      *)
(* starts a writer and a reader for each, readers feed the collector of    *)
(* metrics and the summary, and main closes the channels when every writer *)
(* is done.  Sending on a closed channel panics and ends the process.      *)
(*                                                                         *)
(* A step is one channel operation, one write, or one call on a connection.*)
(***************************************************************************)
EXTENDS Integers, Sequences, FiniteSets

CONSTANTS
  Sessions,     \* one per user and room
  PoolSize,     \* capacity of Pool.Sem
  RoomBuffer,   \* capacity of roomChan (MessageBuffer, like the next three)
  SendBuffer,   \* capacity of each WsClient.Send
  MetricBuffer, \* capacity of metricChan
  StatsBuffer,  \* capacity of statsChan
  Messages,     \* messages a session writes: JOIN, TEXTs, LEAVE
  MaxResponses  \* bound: responses a session receives besides its LEAVE echo

ASSUME ClientPipelineAssumption ==
  /\ IsFiniteSet(Sessions)
  /\ {PoolSize, RoomBuffer, SendBuffer, MetricBuffer, StatsBuffer} \subseteq Nat \ {0}
  /\ Messages \in Nat \ {0, 1}
  /\ MaxResponses \in Nat

VARIABLES
  wpc,         \* where each session is: its generator's turn, then its writer
  left,        \* messages its writer has yet to write
  abandoned,   \* its writer gave up before writing everything
  conn,        \* its connection, as the client has it
  responses,   \* responses received besides the echo (bounded)
  echo,        \* "none", "due" once the LEAVE is written, or "sent"
  send,        \* WsClient.Send
  sendClosed,
  rpc,         \* where its reader is
  last,        \* the response the reader is handling
  sampled,     \* the reader has measured a latency
  slots,       \* tokens in Pool.Sem
  metricChan,  \* metrics waiting for the collector
  statsChan,   \* sessions whose RoomStats wait in statsChan
  summary,     \* sessions the summary has counted
  cpc,         \* where the collector is
  mpc,         \* where main is
  closed,      \* CloseChannels has run
  ctxDone,     \* the test's deadline has passed
  panicked

sessionVars == <<wpc, left, abandoned, slots>>
connVars    == <<conn, responses, echo, send, sendClosed>>
readerVars  == <<rpc, last, sampled>>
chanVars    == <<metricChan, statsChan>>
mainVars    == <<summary, cpc, mpc, closed, ctxDone>>
vars == <<sessionVars, connVars, readerVars, chanVars, mainVars, panicked>>

Init ==
  /\ wpc = [s \in Sessions |-> "new"]
  /\ left = [s \in Sessions |-> Messages]
  /\ abandoned = [s \in Sessions |-> FALSE]
  /\ conn = [s \in Sessions |-> "none"]
  /\ responses = [s \in Sessions |-> 0]
  /\ echo = [s \in Sessions |-> "none"]
  /\ send = [s \in Sessions |-> <<>>]
  /\ sendClosed = [s \in Sessions |-> FALSE]
  /\ rpc = [s \in Sessions |-> "none"]
  /\ last = [s \in Sessions |-> "other"]
  /\ sampled = [s \in Sessions |-> FALSE]
  /\ slots = 0
  /\ metricChan = 0
  /\ statsChan = {}
  /\ summary = {}
  /\ cpc = "run"
  /\ mpc = "range"
  /\ closed = FALSE
  /\ ctxDone = FALSE
  /\ panicked = FALSE

\* main's return and a panic both end the process.
Running == mpc # "done" /\ ~panicked

-----------------------------------------------------------------------------
\* GenerateConnElements: connect, then queue the session for main.

\* Sem <- struct{}{}
Acquire(s) ==
  /\ Running
  /\ wpc[s] = "new"
  /\ slots < PoolSize
  /\ slots' = slots + 1
  /\ wpc' = [wpc EXCEPT ![s] = "dial"]
  /\ UNCHANGED <<left, abandoned, connVars, readerVars, chanVars, mainVars, panicked>>

\* One of up to five attempts succeeds; the token has been held all the while.
Dial(s) ==
  /\ Running
  /\ wpc[s] = "dial"
  /\ conn' = [conn EXCEPT ![s] = "open"]
  /\ wpc' = [wpc EXCEPT ![s] = "connected"]
  /\ UNCHANGED <<left, abandoned, slots, responses, echo, send, sendClosed, readerVars,
                 chanVars, mainVars, panicked>>

\* Every attempt has failed; the token is given back: no session.
DialFails(s) ==
  /\ Running
  /\ wpc[s] = "dial"
  /\ slots' = slots - 1
  /\ wpc' = [wpc EXCEPT ![s] = "done"]
  /\ UNCHANGED <<left, abandoned, connVars, readerVars, chanVars, mainVars, panicked>>

Queued == {s \in Sessions : wpc[s] = "queued"}

QueueRoom(s) ==
  /\ Running
  /\ wpc[s] = "connected"
  /\ Cardinality(Queued) < RoomBuffer
  /\ wpc' = [wpc EXCEPT ![s] = "queued"]
  /\ UNCHANGED <<left, abandoned, slots, connVars, readerVars, chanVars, mainVars, panicked>>

-----------------------------------------------------------------------------
\* The writer of a session (WriteMessages).

Wrote(s) == left' = [left EXCEPT ![s] = @ - 1]

\* The last message is the LEAVE, which the server may echo.
Write(s) ==
  /\ Running
  /\ wpc[s] = "write"
  /\ left[s] > 0
  /\ conn[s] = "open"
  /\ Wrote(s)
  /\ echo' = [echo EXCEPT ![s] = IF left[s] = 1 THEN "due" ELSE @]
  /\ UNCHANGED <<wpc, abandoned, slots, conn, responses, send, sendClosed,
                 readerVars, chanVars, mainVars, panicked>>

\* Every retry of one message failed: it is counted and skipped.
WriteFails(s) ==
  /\ Running
  /\ wpc[s] = "write"
  /\ left[s] > 0
  /\ Wrote(s)
  /\ UNCHANGED <<wpc, abandoned, slots, connVars, readerVars, chanVars, mainVars, panicked>>

\* The connection is lost, or the deadline passes between retries: return
\* without waiting for the reader.
WriteAbandoned(s) ==
  /\ Running
  /\ wpc[s] = "write"
  /\ left[s] > 0
  /\ abandoned' = [abandoned EXCEPT ![s] = TRUE]
  /\ wpc' = [wpc EXCEPT ![s] = "remove"]
  /\ UNCHANGED <<left, slots, connVars, readerVars, chanVars, mainVars, panicked>>

\* Mutant of AwaitReader: does not wait.
NoAwait(s) ==
  /\ Running
  /\ wpc[s] = "write"
  /\ left[s] = 0
  /\ wpc' = [wpc EXCEPT ![s] = "remove"]
  /\ UNCHANGED <<left, abandoned, slots, connVars, readerVars, chanVars, mainVars, panicked>>

\* <-readDone
AwaitReader(s) ==
  /\ Running
  /\ wpc[s] = "write"
  /\ left[s] = 0
  /\ rpc[s] = "done"
  /\ wpc' = [wpc EXCEPT ![s] = "remove"]
  /\ UNCHANGED <<left, abandoned, slots, connVars, readerVars, chanVars, mainVars, panicked>>

\* Mutant of CloseConnection: the connection stays open.
KeepConnection(s) ==
  /\ Running
  /\ wpc[s] = "remove"
  /\ wpc' = [wpc EXCEPT ![s] = "release"]
  /\ UNCHANGED <<left, abandoned, slots, connVars, readerVars, chanVars, mainVars, panicked>>

\* The deferred Pool.Remove: close the connection ...
CloseConnection(s) ==
  /\ Running
  /\ wpc[s] = "remove"
  /\ conn' = [conn EXCEPT ![s] = "closed"]
  /\ wpc' = [wpc EXCEPT ![s] = "release"]
  /\ UNCHANGED <<left, abandoned, slots, responses, echo, send, sendClosed, readerVars,
                 chanVars, mainVars, panicked>>

\* Mutant of ReleaseAndDone: the token stays taken.
DoneKeepingSlot(s) ==
  /\ Running
  /\ wpc[s] = "release"
  /\ wpc' = [wpc EXCEPT ![s] = "done"]
  /\ UNCHANGED <<left, abandoned, slots, connVars, readerVars, chanVars, mainVars, panicked>>

\* ... and give the token back; then Wg.Done.
ReleaseAndDone(s) ==
  /\ Running
  /\ wpc[s] = "release"
  /\ slots' = slots - 1
  /\ wpc' = [wpc EXCEPT ![s] = "done"]
  /\ UNCHANGED <<left, abandoned, connVars, readerVars, chanVars, mainVars, panicked>>

-----------------------------------------------------------------------------
\* WsClient.Read: forwards responses, dropping them when Send is full.  What it
\* forwards after the reader has stopped is never read; the model forgets it.

\* Mutant of Forward: forwards whatever the capacity.
ForwardAll(s, r) == send' = [send EXCEPT ![s] = Append(@, r)]

Forward(s, r) ==
  send' = IF Len(send[s]) < SendBuffer THEN [send EXCEPT ![s] = Append(@, r)] ELSE send

Receive(s) ==
  /\ Running
  /\ conn[s] = "open"
  /\ rpc[s] # "done"
  /\ ~sendClosed[s]
  /\ responses[s] < MaxResponses
  /\ responses' = [responses EXCEPT ![s] = @ + 1]
  /\ Forward(s, "other")
  /\ UNCHANGED <<sessionVars, conn, echo, sendClosed, readerVars, chanVars, mainVars, panicked>>

ReceiveEcho(s) ==
  /\ Running
  /\ conn[s] = "open"
  /\ rpc[s] # "done"
  /\ ~sendClosed[s]
  /\ echo[s] = "due"
  /\ echo' = [echo EXCEPT ![s] = "sent"]
  /\ Forward(s, "leave")
  /\ UNCHANGED <<sessionVars, conn, responses, sendClosed, readerVars, chanVars, mainVars, panicked>>

\* ReadJSON fails: either end closed the connection.
ReadEnds(s) ==
  /\ Running
  /\ conn[s] # "none"
  /\ ~sendClosed[s]
  /\ sendClosed' = [sendClosed EXCEPT ![s] = TRUE]
  /\ UNCHANGED <<sessionVars, conn, responses, echo, send, readerVars, chanVars, mainVars, panicked>>

-----------------------------------------------------------------------------
\* The reader of a session.

\* A response that carries a timestamp gives a latency and a metric.  The echo
\* of the LEAVE is the last one.
TakeResponse(s, stamped) ==
  LET r == Head(send[s])
  IN  /\ Running
      /\ rpc[s] = "select"
      /\ send[s] # <<>>
      /\ send' = [send EXCEPT ![s] = Tail(@)]
      /\ last' = [last EXCEPT ![s] = IF stamped THEN r ELSE @]
      /\ sampled' = [sampled EXCEPT ![s] = @ \/ stamped]
      /\ rpc' = [rpc EXCEPT ![s] =
           IF stamped THEN "metric" ELSE IF r = "leave" THEN "stats" ELSE "select"]
      /\ UNCHANGED <<sessionVars, conn, responses, echo, sendClosed, chanVars, mainVars, panicked>>

\* Send is closed and drained, or the deadline has passed.
StopReading(s) ==
  /\ Running
  /\ rpc[s] = "select"
  /\ ctxDone \/ (sendClosed[s] /\ send[s] = <<>>)
  /\ rpc' = [rpc EXCEPT ![s] = "stats"]
  /\ UNCHANGED <<sessionVars, connVars, last, sampled, chanVars, mainVars, panicked>>

WriteMetricToChan(s) ==
  /\ Running
  /\ rpc[s] = "metric"
  /\ IF closed
     THEN /\ panicked' = TRUE
          /\ UNCHANGED <<rpc, last, metricChan>>
     ELSE /\ metricChan < MetricBuffer
          /\ metricChan' = metricChan + 1
          /\ rpc' = [rpc EXCEPT ![s] = IF last[s] = "leave" THEN "stats" ELSE "select"]
          /\ last' = [last EXCEPT ![s] = "other"]
          /\ UNCHANGED panicked
  /\ UNCHANGED <<sessionVars, connVars, sampled, statsChan, mainVars>>

\* sendStats: nothing to send without a sample.
SendStats(s) ==
  /\ Running
  /\ rpc[s] = "stats"
  /\ IF sampled[s] /\ closed
     THEN /\ panicked' = TRUE
          /\ UNCHANGED <<rpc, send, statsChan>>
     ELSE /\ sampled[s] => Cardinality(statsChan) < StatsBuffer
          /\ statsChan' = IF sampled[s] THEN statsChan \cup {s} ELSE statsChan
          /\ rpc' = [rpc EXCEPT ![s] = "done"]
          /\ send' = [send EXCEPT ![s] = <<>>]
          /\ UNCHANGED panicked
  /\ UNCHANGED <<sessionVars, conn, responses, echo, sendClosed, last, sampled, metricChan, mainVars>>

-----------------------------------------------------------------------------
\* CollectMetrics.

Collect ==
  /\ Running
  /\ cpc = "run"
  /\ metricChan > 0
  /\ metricChan' = metricChan - 1
  /\ UNCHANGED <<sessionVars, connVars, readerVars, statsChan, mainVars, panicked>>

CollectorExit ==
  /\ Running
  /\ cpc = "run"
  /\ ctxDone \/ (closed /\ metricChan = 0)
  /\ cpc' = "exited"
  /\ UNCHANGED <<sessionVars, connVars, readerVars, chanVars, summary, mpc, closed, ctxDone, panicked>>

-----------------------------------------------------------------------------
\* The main goroutine (RunPipelineLoadTest).

\* WriteMessages takes a session and starts its writer and reader.
StartSession(s) ==
  /\ Running
  /\ mpc = "range"
  /\ wpc[s] = "queued"
  /\ wpc' = [wpc EXCEPT ![s] = "write"]
  /\ rpc' = [rpc EXCEPT ![s] = "select"]
  /\ UNCHANGED <<left, abandoned, slots, connVars, last, sampled, chanVars, mainVars, panicked>>

\* Mutant of Wait: does not wait for the writers it has started.
WaitForGenerators ==
  /\ Running
  /\ mpc = "range"
  /\ \A s \in Sessions : wpc[s] \notin {"new", "dial", "connected", "queued"}
  /\ mpc' = "close"
  /\ UNCHANGED <<sessionVars, connVars, readerVars, chanVars, summary, cpc, closed, ctxDone, panicked>>

\* Every generator has returned and closed roomChan, and Wg.Wait returns.
Wait ==
  /\ Running
  /\ mpc = "range"
  /\ \A s \in Sessions : wpc[s] = "done"
  /\ mpc' = "close"
  /\ UNCHANGED <<sessionVars, connVars, readerVars, chanVars, summary, cpc, closed, ctxDone, panicked>>

CloseChannels ==
  /\ Running
  /\ mpc = "close"
  /\ closed' = TRUE
  /\ mpc' = "summarise"
  /\ UNCHANGED <<sessionVars, connVars, readerVars, chanVars, summary, cpc, ctxDone, panicked>>

\* GetOverAllStats ranges over the closed statsChan; main then returns.
GetOverAllStats ==
  /\ Running
  /\ mpc = "summarise"
  /\ summary' = statsChan
  /\ statsChan' = {}
  /\ mpc' = "done"
  /\ UNCHANGED <<sessionVars, connVars, readerVars, metricChan, cpc, closed, ctxDone, panicked>>

Deadline ==
  /\ Running
  /\ ~ctxDone
  /\ ctxDone' = TRUE
  /\ UNCHANGED <<sessionVars, connVars, readerVars, chanVars, summary, cpc, mpc, closed, panicked>>

-----------------------------------------------------------------------------
Generator(s) == Acquire(s) \/ Dial(s) \/ DialFails(s) \/ QueueRoom(s)

Writer(s) ==
  \/ Write(s) \/ WriteFails(s) \/ WriteAbandoned(s) \/ AwaitReader(s)
  \/ CloseConnection(s) \/ ReleaseAndDone(s)

Reader(s) ==
  \/ \E stamped \in BOOLEAN : TakeResponse(s, stamped)
  \/ StopReading(s) \/ WriteMetricToChan(s) \/ SendStats(s)

Collector == Collect \/ CollectorExit

Main ==
  (\E s \in Sessions : StartSession(s)) \/ Wait \/ CloseChannels \/ GetOverAllStats

\* A writer at <-readDone waits for its reader, the reader for room in
\* metricChan, and nobody reads metricChan any more: the deadline has stopped
\* the collector.  Main waits for that writer for ever.
Stuck ==
  /\ cpc = "exited" /\ metricChan = MetricBuffer /\ ~closed
  /\ \E s \in Sessions : wpc[s] = "write" /\ left[s] = 0 /\ rpc[s] = "metric"

\* The process has ended, or hangs.
Terminated == (~Running \/ Stuck) /\ UNCHANGED vars

Next ==
  \/ \E s \in Sessions :
       Generator(s) \/ Writer(s) \/ Receive(s) \/ ReceiveEcho(s) \/ ReadEnds(s) \/ Reader(s)
  \/ Collector
  \/ Main
  \/ Deadline
  \/ Terminated

Spec == Init /\ [][Next]_vars

\* Goroutines that can run do, dialling ends after five attempts, a write
\* returns, a closed connection ends ReadJSON, and the deadline passes.  Every
\* session takes each channel's room a bounded number of times, so weak fairness
\* is enough.  The server owes no response.
Fairness ==
  /\ \A s \in Sessions :
       /\ WF_vars(Generator(s))
       /\ WF_vars(Writer(s))
       /\ WF_vars(conn[s] = "closed" /\ ReadEnds(s))
       /\ WF_vars(Reader(s))
  /\ WF_vars(Collector)
  /\ WF_vars(Main)
  /\ WF_vars(Deadline)

FairSpec == Spec /\ Fairness

-----------------------------------------------------------------------------
\* Properties.

\* Every variable has its type, and no channel exceeds its capacity.
TypeOK ==
  /\ wpc \in [Sessions ->
       {"new", "dial", "connected", "queued", "write", "remove", "release", "done"}]
  /\ left \in [Sessions -> 0 .. Messages]
  /\ abandoned \in [Sessions -> BOOLEAN]
  /\ conn \in [Sessions -> {"none", "open", "closed"}]
  /\ responses \in [Sessions -> 0 .. MaxResponses]
  /\ echo \in [Sessions -> {"none", "due", "sent"}]
  /\ send \in [Sessions -> Seq({"other", "leave"})]
  /\ \A s \in Sessions : Len(send[s]) <= SendBuffer
  /\ sendClosed \in [Sessions -> BOOLEAN]
  /\ rpc \in [Sessions -> {"none", "select", "metric", "stats", "done"}]
  /\ last \in [Sessions -> {"other", "leave"}]
  /\ sampled \in [Sessions -> BOOLEAN]
  /\ slots \in 0 .. PoolSize
  /\ metricChan \in 0 .. MetricBuffer
  /\ statsChan \subseteq Sessions
  /\ Cardinality(statsChan) <= StatsBuffer
  /\ summary \subseteq Sessions
  /\ cpc \in {"run", "exited"}
  /\ mpc \in {"range", "close", "summarise", "done"}
  /\ {closed, ctxDone, panicked} \subseteq BOOLEAN

\* The summary is complete: a session that wrote all its messages and measured
\* anything is in it, although its statistics come from another goroutine than
\* the one main waits for.
SummaryComplete ==
  mpc = "done" =>
    \A s \in Sessions : rpc[s] # "none" /\ ~abandoned[s] /\ sampled[s] => s \in summary

\* An open connection holds a token: the semaphore limits them, although it is
\* taken before dialling and returned after closing, by different goroutines,
\* through failed dials, writers that give up and readers that outlive them.
\* When main stops waiting nothing is left of either, so the deferred CloseAll
\* finds nothing to close.
OpenSessions == {s \in Sessions : conn[s] = "open"}

OpenHoldSlots ==
  /\ Cardinality(OpenSessions) <= slots
  /\ mpc # "range" => OpenSessions = {} /\ slots = 0

\* No goroutine sends on a channel main has closed, unless some writer gave up.
PanicOnlyAfterAbandon == panicked => \E s \in Sessions : abandoned[s]

\* The test ends: generators waiting for slots, writers waiting for readers and
\* readers waiting for an echo that never comes all finish by the deadline.
\* What can keep it from ending is one thing only, the channel the collector has
\* abandoned.
EndsUnlessStuck == <>(~Running \/ Stuck)

-----------------------------------------------------------------------------
\* What the repository says, and the code does not do.

\* WriteMessages "waits for the reader to finish": when a session's writer is
\* done, so is its reader.
WriterWaitsForReader ==
  \A s \in Sessions : wpc[s] = "done" => rpc[s] \in {"none", "done"}

\* "CollectMetrics drains metricChan", and aggregate statistics are "printed on
\* completion": the test completes.
TestCompletes == <>~Running

=============================================================================
