--------------------------- MODULE PublishPipeline ---------------------------
(***************************************************************************)
(* How one server gets its messages to RabbitMQ (internal/rabbitmq): the   *)
(* publish queue, the publish workers behind a gobreaker circuit breaker,  *)
(* the secondary buffer the breaker's rejections go to, and the goroutine  *)
(* that drains that buffer when the connection recovers.                   *)
(*                                                                         *)
(* A step is one channel operation, one critical section of the breaker,   *)
(* or the outcome of one AMQP publish.                                     *)
(***************************************************************************)
EXTENDS Integers, Sequences, FiniteSets

CONSTANTS
  Msgs,             \* the messages the handlers publish
  NoMsg,
  Workers,          \* the publish workers
  PublishChanSize,  \* capacity of publishChan
  TempBufferSize,   \* capacity of tempBuffer
  StateBuffer,      \* capacity of stateChanged (8 in the code)
  FailureThreshold, \* consecutive failures that trip the breaker (5)
  MaxRequests,      \* requests admitted, and successes needed, half-open (5)
  MaxOutages,       \* bound: times one of the two connections is lost
  Observed          \* the messages PublishReturns is checked for

ASSUME PublishPipelineAssumption ==
  /\ NoMsg \notin Msgs
  /\ IsFiniteSet(Workers)
  /\ PublishChanSize \in Nat \ {0}
  /\ TempBufferSize \in Nat
  /\ StateBuffer \in Nat \ {0}
  /\ FailureThreshold \in Nat \ {0}
  /\ MaxRequests \in Nat \ {0}
  /\ MaxOutages \in Nat
  /\ Observed \subseteq Msgs

VARIABLES
  fate,         \* what has become of each message
  attempts,     \* history: how often a worker handed the message to AMQP
  publishChan,  \* Rabbit.publishChan
  tempBuffer,   \* Rabbit.tempBuffer
  dropped,      \* Rabbit.droppedMessages
  worker,       \* per worker: where it is and the message it holds
  stale,        \* workers whose request belongs to an old breaker generation
  breaker,      \* the circuit breaker
  up,           \* the publisher connection is up
  outages,      \* times a connection has been lost (bounded)
  stateChanged, \* unread StateOpen events in Rabbit.stateChanged
  watcher,      \* where the state watcher is, and the message it holds
  ctxDone

queueVars   == <<fate, publishChan, tempBuffer, dropped>>
workerVars  == <<worker, stale, breaker, attempts>>
connVars    == <<up, outages, stateChanged>>
vars == <<queueVars, workerVars, connVars, watcher, ctxDone>>

-----------------------------------------------------------------------------
\* The circuit breaker (gobreaker), as far as its counts are read: the
\* consecutive failures while closed, the requests and consecutive successes
\* while half-open.  expired: the interval (closed) or the timeout (open) of
\* the current generation has elapsed.

NewGeneration(state) ==
  [state |-> state, failures |-> 0, requests |-> 0, successes |-> 0, expired |-> FALSE]

\* currentState: a new generation starts lazily, when the breaker is next used.
CurrentState ==
  CASE breaker.expired /\ breaker.state = "closed" -> NewGeneration("closed")
    [] breaker.expired /\ breaker.state = "open"   -> NewGeneration("halfOpen")
    [] OTHER                                       -> breaker

InFlight == {w \in Workers : worker[w].pc = "attempt"}

\* Installs b; requests of an earlier generation become stale.
SetBreaker(b, newGeneration) ==
  /\ breaker' = b
  /\ stale' = IF newGeneration THEN InFlight ELSE stale

Admitting(b) == b.state = "closed" \/ (b.state = "halfOpen" /\ b.requests < MaxRequests)

Admitted(b) == IF b.state = "halfOpen" THEN [b EXCEPT !.requests = @ + 1] ELSE b

OnSuccess(b) ==
  CASE b.state = "closed" -> [b EXCEPT !.failures = 0]
    [] b.state = "halfOpen" /\ b.successes + 1 >= MaxRequests -> NewGeneration("closed")
    [] OTHER -> [b EXCEPT !.successes = @ + 1]

OnFailure(b) ==
  IF b.state = "halfOpen" \/ b.failures + 1 >= FailureThreshold
  THEN NewGeneration("open")
  ELSE [b EXCEPT !.failures = @ + 1]

\* The interval or the timeout elapses.
Expire ==
  /\ breaker.state # "halfOpen"
  /\ ~breaker.expired
  /\ breaker' = [breaker EXCEPT !.expired = TRUE]
  /\ UNCHANGED <<queueVars, worker, stale, attempts, connVars, watcher, ctxDone>>

-----------------------------------------------------------------------------
Init ==
  /\ fate = [m \in Msgs |-> "new"]
  /\ attempts = [m \in Msgs |-> 0]
  /\ publishChan = <<>>
  /\ tempBuffer = <<>>
  /\ dropped = 0
  /\ worker = [w \in Workers |-> [pc |-> "idle", msg |-> NoMsg]]
  /\ stale = {}
  /\ breaker = NewGeneration("closed")
  /\ up = TRUE
  /\ outages = 0
  /\ stateChanged = 0
  /\ watcher = [pc |-> "select", msg |-> NoMsg]
  /\ ctxDone = FALSE

-----------------------------------------------------------------------------
\* Publish, called by a connection's handler: it blocks until publishChan has
\* room or the context is cancelled.

CallPublish(m) ==
  /\ fate[m] = "new"
  /\ fate' = [fate EXCEPT ![m] = "calling"]
  /\ UNCHANGED <<publishChan, tempBuffer, dropped, workerVars, connVars, watcher, ctxDone>>

\* Mutant of Enqueue: a channel without a bound.
EnqueueUnbounded(m) == publishChan' = Append(publishChan, m)

Enqueue(m) ==
  /\ Len(publishChan) < PublishChanSize
  /\ publishChan' = Append(publishChan, m)

Enqueued(m) ==
  /\ fate[m] = "calling"
  /\ Enqueue(m)
  /\ fate' = [fate EXCEPT ![m] = "accepted"]
  /\ UNCHANGED <<tempBuffer, dropped, workerVars, connVars, watcher, ctxDone>>

Drop(m) ==
  /\ fate' = [fate EXCEPT ![m] = "dropped"]
  /\ dropped' = dropped + 1

PublishCancelled(m) ==
  /\ fate[m] = "calling"
  /\ ctxDone
  /\ Drop(m)
  /\ UNCHANGED <<publishChan, tempBuffer, workerVars, connVars, watcher, ctxDone>>

-----------------------------------------------------------------------------
\* publishWorker and publishDirect.

Take(w) ==
  /\ worker[w].pc = "idle"
  /\ publishChan # <<>>
  /\ worker' = [worker EXCEPT ![w] = [pc |-> "execute", msg |-> Head(publishChan)]]
  /\ publishChan' = Tail(publishChan)
  /\ UNCHANGED <<fate, tempBuffer, dropped, stale, breaker, attempts, connVars, watcher, ctxDone>>

\* Execute's beforeRequest admits the request, or refuses it with ErrOpenState
\* or ErrTooManyRequests.
BeforeRequest(w) ==
  LET b == CurrentState
      renewed == b # breaker
  IN  /\ worker[w].pc = "execute"
      /\ IF Admitting(b)
         THEN /\ SetBreaker(Admitted(b), renewed)
              /\ worker' = [worker EXCEPT ![w].pc = "attempt"]
              /\ attempts' = [attempts EXCEPT ![worker[w].msg] = @ + 1]
         ELSE /\ SetBreaker(b, renewed)
              /\ worker' = [worker EXCEPT ![w].pc = "rebuffer"]
              /\ UNCHANGED attempts
      /\ UNCHANGED <<queueVars, connVars, watcher, ctxDone>>

\* Mutant of AfterRequest: a failed message goes to the secondary buffer too.
AfterRequestRetry(w, ok) ==
  LET b == CurrentState
      next == IF w \in stale THEN b ELSE IF ok THEN OnSuccess(b) ELSE OnFailure(b)
  IN  /\ worker[w].pc = "attempt"
      /\ ok => up
      /\ breaker' = next
      /\ stale' = stale \ {w}
      /\ IF ok
         THEN /\ fate' = [fate EXCEPT ![worker[w].msg] = "published"]
              /\ worker' = [worker EXCEPT ![w] = [pc |-> "idle", msg |-> NoMsg]]
         ELSE /\ worker' = [worker EXCEPT ![w].pc = "rebuffer"]
              /\ UNCHANGED fate
      /\ UNCHANGED <<publishChan, tempBuffer, dropped, attempts, connVars, watcher, ctxDone>>

\* Mutant of AfterRequest: an error ends the worker.
AfterRequestReturning(w, ok) ==
  LET b == CurrentState
      next == IF w \in stale THEN b ELSE IF ok THEN OnSuccess(b) ELSE OnFailure(b)
  IN  /\ worker[w].pc = "attempt"
      /\ ok => up
      /\ breaker' = next
      /\ stale' = stale \ {w}
      /\ fate' = [fate EXCEPT ![worker[w].msg] = IF ok THEN "published" ELSE "failed"]
      /\ worker' = [worker EXCEPT ![w] = [pc |-> IF ok THEN "idle" ELSE "exited", msg |-> NoMsg]]
      /\ UNCHANGED <<publishChan, tempBuffer, dropped, attempts, connVars, watcher, ctxDone>>

\* The publish succeeds or fails, and afterRequest counts it unless a new
\* generation has begun.  A failure may be a timeout after the broker took the
\* message.  A failed message is logged and forgotten.
AfterRequest(w, ok) ==
  LET b == CurrentState
      counts == w \notin stale /\ b = breaker
      next == CASE ~counts -> b
                [] counts /\ ok -> OnSuccess(b)
                [] counts /\ ~ok -> OnFailure(b)
      renewed == b # breaker \/ next.state # b.state
  IN  /\ worker[w].pc = "attempt"
      /\ ok => up
      /\ breaker' = next
      /\ stale' = (IF renewed THEN InFlight ELSE stale) \ {w}
      /\ fate' = [fate EXCEPT ![worker[w].msg] = IF ok THEN "published" ELSE "failed"]
      /\ worker' = [worker EXCEPT ![w] = [pc |-> "idle", msg |-> NoMsg]]
      /\ UNCHANGED <<publishChan, tempBuffer, dropped, attempts, connVars, watcher, ctxDone>>

\* A refused message goes to tempBuffer, or is dropped when that is full.
Rebuffer(w) ==
  /\ worker[w].pc = "rebuffer"
  /\ IF Len(tempBuffer) < TempBufferSize
     THEN /\ tempBuffer' = Append(tempBuffer, worker[w].msg)
          /\ UNCHANGED <<fate, dropped>>
     ELSE /\ Drop(worker[w].msg)
          /\ UNCHANGED tempBuffer
  /\ worker' = [worker EXCEPT ![w] = [pc |-> "idle", msg |-> NoMsg]]
  /\ UNCHANGED <<publishChan, stale, breaker, attempts, connVars, watcher, ctxDone>>

WorkerExit(w) ==
  /\ worker[w].pc = "idle"
  /\ ctxDone
  /\ worker' = [worker EXCEPT ![w].pc = "exited"]
  /\ UNCHANGED <<queueVars, stale, breaker, attempts, connVars, watcher, ctxDone>>

-----------------------------------------------------------------------------
\* The connection, and the goroutine that watches its state.

Disconnect ==
  /\ up
  /\ outages < MaxOutages
  /\ up' = FALSE
  /\ outages' = outages + 1
  /\ UNCHANGED <<queueVars, workerVars, stateChanged, watcher, ctxDone>>

\* The AMQP client reports StateOpen, blocking while the channel is full.  The
\* other events are read and ignored: left out.
ReportOpen ==
  /\ stateChanged < StateBuffer
  /\ stateChanged' = stateChanged + 1

Reconnect ==
  /\ ~up
  /\ up' = TRUE
  /\ ReportOpen
  /\ UNCHANGED <<queueVars, workerVars, outages, watcher, ctxDone>>

\* The consumers' connection is lost and comes back: publishing goes on, and the
\* watcher reads a StateOpen it takes for the publishers'.
ConsumerReconnect ==
  /\ outages < MaxOutages
  /\ outages' = outages + 1
  /\ ReportOpen
  /\ UNCHANGED <<queueVars, workerVars, up, watcher, ctxDone>>

WatchOpen ==
  /\ watcher.pc = "select"
  /\ stateChanged > 0
  /\ stateChanged' = stateChanged - 1
  /\ watcher' = [watcher EXCEPT !.pc = "waitClosed"]
  /\ UNCHANGED <<queueVars, workerVars, up, outages, ctxDone>>

\* One round of the wait for the breaker to close: State() may move it on.
PollBreaker ==
  LET b == CurrentState
  IN  /\ watcher.pc = "waitClosed"
      /\ SetBreaker(b, b # breaker)
      /\ watcher' = [watcher EXCEPT !.pc = IF b.state = "closed" THEN "drain" ELSE @]
      /\ UNCHANGED <<queueVars, worker, attempts, connVars, ctxDone>>

\* Mutant of Drain: forgets to take the message out of tempBuffer.
DrainPeek ==
  /\ watcher.pc = "drain"
  /\ watcher' = IF tempBuffer = <<>>
                THEN [watcher EXCEPT !.pc = "select"]
                ELSE [pc |-> "publish", msg |-> Head(tempBuffer)]
  /\ UNCHANGED <<queueVars, workerVars, connVars, ctxDone>>

\* Drains tempBuffer into publishChan, one blocking Publish at a time.
Drain ==
  /\ watcher.pc = "drain"
  /\ IF tempBuffer = <<>>
     THEN /\ watcher' = [watcher EXCEPT !.pc = "select"]
          /\ UNCHANGED tempBuffer
     ELSE /\ watcher' = [pc |-> "publish", msg |-> Head(tempBuffer)]
          /\ tempBuffer' = Tail(tempBuffer)
  /\ UNCHANGED <<fate, publishChan, dropped, workerVars, connVars, ctxDone>>

\* Mutant of Republish: the error branch of the drain loop counts the message
\* that Publish has counted already.
RepublishCountingTwice ==
  /\ watcher.pc = "publish"
  /\ \/ /\ Enqueue(watcher.msg)
        /\ UNCHANGED <<fate, dropped>>
     \/ /\ ctxDone
        /\ fate' = [fate EXCEPT ![watcher.msg] = "dropped"]
        /\ dropped' = dropped + 2
        /\ UNCHANGED publishChan
  /\ watcher' = [pc |-> "drain", msg |-> NoMsg]
  /\ UNCHANGED <<tempBuffer, workerVars, connVars, ctxDone>>

Republish ==
  /\ watcher.pc = "publish"
  /\ \/ /\ Enqueue(watcher.msg)
        /\ UNCHANGED <<fate, dropped>>
     \/ /\ ctxDone
        /\ Drop(watcher.msg)
        /\ UNCHANGED publishChan
  /\ watcher' = [pc |-> "drain", msg |-> NoMsg]
  /\ UNCHANGED <<tempBuffer, workerVars, connVars, ctxDone>>

WatcherExit ==
  /\ watcher.pc \in {"select", "waitClosed"}
  /\ ctxDone
  /\ watcher' = [watcher EXCEPT !.pc = "exited"]
  /\ UNCHANGED <<queueVars, workerVars, connVars, ctxDone>>

Cancel ==
  /\ ~ctxDone
  /\ ctxDone' = TRUE
  /\ UNCHANGED <<queueVars, workerVars, connVars, watcher>>

-----------------------------------------------------------------------------
Worker(w) ==
  \/ Take(w)
  \/ BeforeRequest(w)
  \/ \E ok \in BOOLEAN : AfterRequest(w, ok)
  \/ Rebuffer(w)
  \/ WorkerExit(w)

Watcher == WatchOpen \/ PollBreaker \/ Drain \/ Republish \/ WatcherExit

\* Shut down: every goroutine has returned.
Terminated ==
  /\ watcher.pc = "exited"
  /\ \A w \in Workers : worker[w].pc = "exited"
  /\ UNCHANGED vars

Next ==
  \/ \E m \in Msgs : CallPublish(m) \/ Enqueued(m) \/ PublishCancelled(m)
  \/ \E w \in Workers : Worker(w)
  \/ Watcher
  \/ Expire \/ Disconnect \/ Reconnect \/ ConsumerReconnect \/ Cancel
  \/ Terminated

Spec == Init /\ [][Next]_vars

\* Goroutines that can run do; an AMQP publish ends by its 30s deadline; the
\* breaker's clocks run.  A channel serves its blocked senders in turn: some
\* handler's send, and the watcher's, is not passed over for ever.
\* Nothing obliges a handler to publish, the connection to come back, or a
\* publish to succeed.
Fairness ==
  /\ SF_vars(\E m \in Msgs : Enqueued(m))
  /\ WF_vars(\E m \in Msgs : PublishCancelled(m))
  /\ \A w \in Workers : WF_vars(Worker(w))
  /\ WF_vars(WatchOpen \/ Drain \/ WatcherExit)
  /\ WF_vars(PollBreaker)
  /\ SF_vars(Republish)
  /\ WF_vars(Expire)

FairSpec == Spec /\ Fairness

-----------------------------------------------------------------------------
\* Properties.

Held(m) == {w \in Workers : worker[w].msg = m}
PlacesIn(q, m) == {i \in 1 .. Len(q) : q[i] = m}

\* Every variable has its type: no channel exceeds its capacity.
TypeOK ==
  /\ fate \in [Msgs -> {"new", "calling", "accepted", "published", "failed", "dropped"}]
  /\ attempts \in [Msgs -> Nat]
  /\ publishChan \in Seq(Msgs) /\ Len(publishChan) <= PublishChanSize
  /\ tempBuffer \in Seq(Msgs) /\ Len(tempBuffer) <= TempBufferSize
  /\ dropped \in Nat
  /\ worker \in [Workers -> [pc : {"idle", "execute", "attempt", "rebuffer", "exited"},
                             msg : Msgs \cup {NoMsg}]]
  /\ stale \subseteq Workers
  /\ breaker \in [state : {"closed", "open", "halfOpen"},
                  failures : 0 .. FailureThreshold,
                  requests : 0 .. MaxRequests,
                  successes : 0 .. MaxRequests,
                  expired : BOOLEAN]
  /\ up \in BOOLEAN
  /\ outages \in 0 .. MaxOutages
  /\ stateChanged \in 0 .. StateBuffer
  /\ watcher \in [pc : {"select", "waitClosed", "drain", "publish", "exited"},
                  msg : Msgs \cup {NoMsg}]
  /\ ctxDone \in BOOLEAN

\* Conservation: an accepted message is in exactly one place, the queue, a
\* worker, the secondary buffer or the watcher, and any other message in none:
\* cycling between the two buffers neither loses nor duplicates it.
OnePlace ==
  \A m \in Msgs :
    Cardinality(PlacesIn(publishChan, m)) + Cardinality(PlacesIn(tempBuffer, m))
      + Cardinality(Held(m)) + (IF watcher.msg = m THEN 1 ELSE 0)
      = IF fate[m] = "accepted" THEN 1 ELSE 0

\* DroppedMessages reports what was dropped, no more and no less: a message that
\* cycles between the queue and the secondary buffer, and is seen by a handler,
\* a worker and the watcher in turn, is counted by one of them at most.
Dropped == {m \in Msgs : fate[m] = "dropped"}

DropsCounted == dropped = Cardinality(Dropped)

\* At most once: however often a message was buffered and drained, it is
\* handed to AMQP at most once, so a consumer never sees it twice.
AtMostOneAttempt == \A m \in Msgs : attempts[m] <= 1

\* The pipeline keeps what Publisher promises: a message is handed to AMQP once
\* or counted as dropped, never both, and a failed publish is neither dropped
\* nor tried again.
Stage == [m \in Msgs |->
  CASE fate[m] \in {"new", "dropped"} -> fate[m]
    [] fate[m] \notin {"new", "dropped"} /\ attempts[m] = 0 -> "pending"
    [] fate[m] \notin {"new", "dropped"} /\ attempts[m] = 1 -> "handed"
    [] OTHER -> "twice"]

Promise == INSTANCE Publisher WITH stage <- Stage

ImplementsPublisher ==
  /\ Promise!PublisherInit
  /\ [][UNCHANGED <<fate, attempts>> \/ UNCHANGED Stage \/ Promise!PublisherNext]_vars

\* Publish returns: back-pressure never turns into a deadlock between handlers,
\* workers and the watcher, whatever the broker does.  Messages are alike: what
\* holds for those observed holds for all.
PublishReturns == \A m \in Observed : fate[m] = "calling" ~> fate[m] # "calling"

-----------------------------------------------------------------------------
\* What the repository says, and the code does not do.

\* "Buffered for retry once the connection is restored": once the watcher has
\* learnt that the connection is open again, a buffered message is retried.
BufferedRetried ==
  \A m \in Msgs :
    (PlacesIn(tempBuffer, m) # {} /\ watcher.pc = "waitClosed")
      ~> (PlacesIn(tempBuffer, m) = {} \/ ctxDone)

\* "HALF-OPEN: single probe attempt, success -> CLOSED, failure -> OPEN again":
\* half-open lets one request through, and a success closes the breaker.
SingleProbe ==
  breaker.state = "halfOpen" => breaker.requests <= 1 /\ breaker.successes = 0

\* "At-least-once delivery" with "failed delivery retry logic": until shutdown a
\* message AMQP did not take is still somewhere in the pipeline.
FailedKept ==
  \A m \in Msgs :
    attempts[m] > 0 /\ fate[m] # "published" =>
      \/ Held(m) # {} \/ watcher.msg = m
      \/ PlacesIn(publishChan, m) # {} \/ PlacesIn(tempBuffer, m) # {}
      \/ ctxDone

=============================================================================
