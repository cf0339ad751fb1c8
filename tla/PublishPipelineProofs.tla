------------------------ MODULE PublishPipelineProofs ------------------------
(***************************************************************************)
(* Theorems about PublishPipeline for any messages, any number of workers, *)
(* any capacities and any settings of the breaker.                         *)
(***************************************************************************)
EXTENDS PublishPipeline, ChannelCounts

\* The types of the variables, in the groups the steps change.
MessageTypes ==
  /\ fate \in [Msgs -> {"new", "calling", "accepted", "published", "failed", "dropped"}]
  /\ attempts \in [Msgs -> Nat]
  /\ dropped \in Nat

ChannelTypes ==
  /\ publishChan \in Seq(Msgs) /\ Len(publishChan) <= PublishChanSize
  /\ tempBuffer \in Seq(Msgs) /\ Len(tempBuffer) <= TempBufferSize

GoroutineTypes ==
  /\ worker \in [Workers -> [pc : {"idle", "execute", "attempt", "rebuffer", "exited"},
                             msg : Msgs \cup {NoMsg}]]
  /\ watcher \in [pc : {"select", "waitClosed", "drain", "publish", "exited"},
                  msg : Msgs \cup {NoMsg}]

ConnTypes ==
  /\ up \in BOOLEAN
  /\ outages \in 0 .. MaxOutages
  /\ stateChanged \in 0 .. StateBuffer
  /\ ctxDone \in BOOLEAN

\* The types of the breaker and of the set of stale requests.  That its counts
\* stay within the settings rests on the two last conjuncts: an open breaker has
\* no request in flight that it would count, and a half-open one is closed by the
\* success that reaches the limit.
BreakerTypes ==
  /\ stale \subseteq InFlight
  /\ breaker \in [state : {"closed", "open", "halfOpen"},
                  failures : 0 .. FailureThreshold,
                  requests : 0 .. MaxRequests,
                  successes : 0 .. MaxRequests,
                  expired : BOOLEAN]
  /\ breaker.state = "closed" => breaker.failures < FailureThreshold
  /\ breaker.state = "halfOpen" => ~breaker.expired
  /\ breaker.state = "open" => InFlight \subseteq stale
  /\ breaker.state = "halfOpen" => breaker.successes < MaxRequests

\* A goroutine holds a message exactly while it is busy with one.
HoldersBusy ==
  /\ \A w \in Workers : worker[w].msg = NoMsg <=> worker[w].pc \in {"idle", "exited"}
  /\ watcher.msg = NoMsg <=> watcher.pc # "publish"

\* A message has been handed to AMQP at most once, and then its publish has an
\* outcome or is being attempted.
AttemptedOnce ==
  \A m \in Msgs :
    /\ attempts[m] \in {0, 1}
    /\ attempts[m] = 1 <=> \/ fate[m] \in {"published", "failed"}
                           \/ \E w \in Workers : worker[w] = [pc |-> "attempt", msg |-> m]

-----------------------------------------------------------------------------
\* Counting the workers that hold a message.

\* The workers of f that hold m.
HeldIn(f, m) == {v \in Workers : f[v].msg = m}

\* When one worker changes what it holds, only its own place is affected.
LEMMA HeldChange ==
  ASSUME NEW f, NEW g, NEW w \in Workers, NEW m,
         \A v \in Workers \ {w} : g[v].msg = f[v].msg
  PROVE  Cardinality(HeldIn(f, m)) - One(f[w].msg, m)
           = Cardinality(HeldIn(g, m)) - One(g[w].msg, m)
<1> DEFINE F == HeldIn(f, m)
           G == HeldIn(g, m)
<1>1. IsFiniteSet(F) /\ IsFiniteSet(G)
  BY PublishPipelineAssumption, FS_Subset DEF HeldIn
<1>2. Cardinality(F) \in Nat /\ Cardinality(G) \in Nat
  BY <1>1, FS_CardinalityType
<1>3. F \ {w} = G \ {w}
  BY DEF HeldIn
<1>4. /\ Cardinality(F \ {w}) = IF w \in F THEN Cardinality(F) - 1 ELSE Cardinality(F)
      /\ Cardinality(G \ {w}) = IF w \in G THEN Cardinality(G) - 1 ELSE Cardinality(G)
  BY <1>1, FS_RemoveElement
<1>5. (w \in F <=> f[w].msg = m) /\ (w \in G <=> g[w].msg = m)
  BY DEF HeldIn
<1>6. Cardinality(F \ {w}) = Cardinality(G \ {w})
  BY <1>3
<1> HIDE DEF F, G
<1>7. Cardinality(F) - (IF w \in F THEN 1 ELSE 0)
        = Cardinality(G) - (IF w \in G THEN 1 ELSE 0)
  BY <1>2, <1>4, <1>6
<1>8. Cardinality(F) - One(f[w].msg, m) = Cardinality(G) - One(g[w].msg, m)
  BY <1>5, <1>7 DEF One
<1> QED
  BY <1>8 DEF F, G

-----------------------------------------------------------------------------
\* Types, and who holds a message.

\* A busy worker, and the watcher while it republishes, hold a message.
LEMMA BusyHolds ==
  ASSUME GoroutineTypes, HoldersBusy
  PROVE  /\ \A w \in Workers : worker[w].pc \notin {"idle", "exited"} => worker[w].msg \in Msgs
         /\ watcher.pc = "publish" => watcher.msg \in Msgs
BY DEF GoroutineTypes, HoldersBusy

\* Every step keeps the types of the messages' state.
LEMMA MessageTypesStep ==
  ASSUME MessageTypes, Next \/ UNCHANGED vars
  PROVE  MessageTypes'
<1>1. ASSUME NEW m \in Msgs, CallPublish(m) \/ Enqueued(m)
      PROVE  MessageTypes'
  BY <1>1 DEF MessageTypes, CallPublish, Enqueued, workerVars
<1>2. ASSUME NEW m, Drop(m), UNCHANGED attempts
      PROVE  MessageTypes'
  <2>1. fate' = [fate EXCEPT ![m] = "dropped"] /\ dropped' = dropped + 1
    BY <1>2 DEF Drop
  <2>2. dropped' \in Nat
    BY <2>1 DEF MessageTypes
  <2> QED
    BY <1>2, <2>1, <2>2, Zenon DEF MessageTypes
<1>3. ASSUME NEW w \in Workers, BeforeRequest(w)
      PROVE  MessageTypes'
  <2>1. UNCHANGED <<fate, dropped>>
    BY <1>3 DEF BeforeRequest, queueVars
  <2>2. UNCHANGED attempts \/ attempts' = [attempts EXCEPT ![worker[w].msg] = @ + 1]
    BY <1>3 DEF BeforeRequest
  <2>3. attempts' \in [Msgs -> Nat]
    BY <2>2 DEF MessageTypes
  <2> QED
    BY <2>1, <2>3 DEF MessageTypes
<1>4. ASSUME NEW w \in Workers, NEW ok \in BOOLEAN, AfterRequest(w, ok)
      PROVE  MessageTypes'
  <2>1. /\ fate' = [fate EXCEPT ![worker[w].msg] = IF ok THEN "published" ELSE "failed"]
        /\ UNCHANGED <<attempts, dropped>>
    BY <1>4 DEF AfterRequest
  <2> QED
    BY <2>1 DEF MessageTypes
<1>5. CASE UNCHANGED <<fate, attempts, dropped>>
  BY <1>5 DEF MessageTypes
<1> QED
  BY <1>1, <1>2, <1>3, <1>4, <1>5
  DEF Next, Worker, Watcher, Terminated, vars, queueVars, workerVars, PublishCancelled,
      Take, Rebuffer, WorkerExit, WatchOpen, PollBreaker, Drain, Republish, WatcherExit,
      Expire, Disconnect, Reconnect, ConsumerReconnect, Cancel

\* Every step keeps the channels within their capacities.
LEMMA ChannelTypesStep ==
  ASSUME ChannelTypes, GoroutineTypes, HoldersBusy, Next \/ UNCHANGED vars
  PROVE  ChannelTypes'
<1>0. PublishChanSize \in Nat /\ TempBufferSize \in Nat
  BY PublishPipelineAssumption
<1>1. ASSUME NEW m \in Msgs, Enqueue(m), UNCHANGED tempBuffer
      PROVE  ChannelTypes'
  BY <1>0, <1>1, ChannelOps DEF ChannelTypes, Enqueue
<1>2. ASSUME NEW w \in Workers, Take(w)
      PROVE  ChannelTypes'
  <2>1. publishChan # <<>> /\ publishChan' = Tail(publishChan) /\ UNCHANGED tempBuffer
    BY <1>2 DEF Take
  <2> QED
    BY <1>0, <2>1, ChannelOps DEF ChannelTypes
<1>3. ASSUME NEW w \in Workers, Rebuffer(w)
      PROVE  ChannelTypes'
  <2>1. worker[w].msg \in Msgs
    BY <1>3, BusyHolds DEF Rebuffer
  <2>2. /\ UNCHANGED publishChan
        /\ \/ UNCHANGED tempBuffer
           \/ Len(tempBuffer) < TempBufferSize /\ tempBuffer' = Append(tempBuffer, worker[w].msg)
    BY <1>3 DEF Rebuffer
  <2> QED
    BY <1>0, <2>1, <2>2, ChannelOps DEF ChannelTypes
<1>4. CASE Drain
  <2>1. /\ UNCHANGED publishChan
        /\ UNCHANGED tempBuffer \/ (tempBuffer # <<>> /\ tempBuffer' = Tail(tempBuffer))
    BY <1>4 DEF Drain
  <2>2. CASE UNCHANGED tempBuffer
    BY <2>1, <2>2 DEF ChannelTypes
  <2>3. CASE tempBuffer # <<>> /\ tempBuffer' = Tail(tempBuffer)
    BY <1>0, <2>1, <2>3, ChannelOps DEF ChannelTypes
  <2> QED
    BY <2>1, <2>2, <2>3
<1>5. CASE Republish
  <2>1. watcher.msg \in Msgs
    BY <1>5, BusyHolds DEF Republish
  <2>2. UNCHANGED tempBuffer /\ (Enqueue(watcher.msg) \/ UNCHANGED publishChan)
    BY <1>5 DEF Republish
  <2> QED
    BY <1>1, <2>1, <2>2 DEF ChannelTypes
<1>6. CASE UNCHANGED <<publishChan, tempBuffer>>
  BY <1>6 DEF ChannelTypes
<1> QED
  BY <1>1, <1>2, <1>3, <1>4, <1>5, <1>6
  DEF Next, Worker, Watcher, Terminated, vars, queueVars, CallPublish, Enqueued,
      PublishCancelled, BeforeRequest, AfterRequest, WorkerExit, WatchOpen, PollBreaker,
      WatcherExit, Expire, Disconnect, Reconnect,
      ConsumerReconnect, Cancel

\* Every step moves at most one goroutine, to where it holds a message exactly
\* if it is busy with it.
LEMMA HoldersStep ==
  ASSUME ChannelTypes, GoroutineTypes, HoldersBusy, Next \/ UNCHANGED vars
  PROVE  GoroutineTypes' /\ HoldersBusy'
<1>0. NoMsg \notin Msgs
  BY PublishPipelineAssumption
<1>1. ASSUME NEW w \in Workers, Take(w)
      PROVE  GoroutineTypes' /\ HoldersBusy'
  <2>1. /\ Head(publishChan) \in Msgs
        /\ worker' = [worker EXCEPT ![w] = [pc |-> "execute", msg |-> Head(publishChan)]]
        /\ UNCHANGED watcher
    BY <1>1, ChannelOps DEF ChannelTypes, Take
  <2> QED
    BY <1>0, <2>1 DEF GoroutineTypes, HoldersBusy
<1>2. ASSUME NEW w \in Workers, BeforeRequest(w)
      PROVE  GoroutineTypes' /\ HoldersBusy'
  <2>1. /\ worker[w].pc = "execute"
        /\ \E p \in {"attempt", "rebuffer"} : worker' = [worker EXCEPT ![w].pc = p]
        /\ UNCHANGED watcher
    BY <1>2 DEF BeforeRequest
  <2> QED
    BY <2>1 DEF GoroutineTypes, HoldersBusy
<1>3. ASSUME NEW w \in Workers, worker' = [worker EXCEPT ![w] = [pc |-> "idle", msg |-> NoMsg]],
             UNCHANGED watcher
      PROVE  GoroutineTypes' /\ HoldersBusy'
  BY <1>3 DEF GoroutineTypes, HoldersBusy
<1>4. ASSUME NEW w \in Workers, WorkerExit(w)
      PROVE  GoroutineTypes' /\ HoldersBusy'
  <2>1. worker[w].pc = "idle" /\ worker' = [worker EXCEPT ![w].pc = "exited"] /\ UNCHANGED watcher
    BY <1>4 DEF WorkerExit
  <2> QED
    BY <2>1 DEF GoroutineTypes, HoldersBusy
<1>5. CASE WatchOpen
  BY <1>5 DEF GoroutineTypes, HoldersBusy, WatchOpen, workerVars
<1>6. CASE PollBreaker
  BY <1>6 DEF GoroutineTypes, HoldersBusy, PollBreaker
<1>7. CASE Drain
  <2>1. /\ tempBuffer # <<>> => Head(tempBuffer) \in Msgs
        /\ UNCHANGED worker
        /\ watcher.pc = "drain"
        /\ \/ watcher' = [watcher EXCEPT !.pc = "select"]
           \/ tempBuffer # <<>> /\ watcher' = [pc |-> "publish", msg |-> Head(tempBuffer)]
    BY <1>7, ChannelOps DEF ChannelTypes, Drain, workerVars
  <2> QED
    BY <1>0, <2>1 DEF GoroutineTypes, HoldersBusy
<1>8. CASE Republish
  BY <1>8 DEF GoroutineTypes, HoldersBusy, Republish, workerVars
<1>9. CASE WatcherExit
  BY <1>9 DEF GoroutineTypes, HoldersBusy, WatcherExit, workerVars
<1>10. CASE UNCHANGED <<worker, watcher>>
  BY <1>10 DEF GoroutineTypes, HoldersBusy
<1> QED
  BY <1>1, <1>2, <1>3, <1>4, <1>5, <1>6, <1>7, <1>8, <1>9, <1>10
  DEF Next, Worker, Watcher, Terminated, vars, workerVars, CallPublish, Enqueued,
      PublishCancelled, AfterRequest, Rebuffer, Expire, Disconnect, Reconnect,
      ConsumerReconnect, Cancel

\* Every step keeps the types of the connection's state.
LEMMA ConnTypesStep ==
  ASSUME ConnTypes, Next \/ UNCHANGED vars
  PROVE  ConnTypes'
<1>0. MaxOutages \in Nat /\ StateBuffer \in Nat
  BY PublishPipelineAssumption
<1>1. CASE WatchOpen
  BY <1>0, <1>1 DEF ConnTypes, WatchOpen
<1>2. CASE Disconnect
  <2>1. outages' \in 0 .. MaxOutages
    BY <1>0, <1>2 DEF ConnTypes, Disconnect
  <2>2. up' = FALSE /\ UNCHANGED <<stateChanged, ctxDone>>
    BY <1>2 DEF Disconnect
  <2> QED
    BY <2>1, <2>2, Zenon DEF ConnTypes
<1>3. CASE Reconnect \/ ConsumerReconnect
  <2>1. outages' \in 0 .. MaxOutages /\ stateChanged' \in 0 .. StateBuffer
    BY <1>0, <1>3 DEF ConnTypes, Reconnect, ConsumerReconnect, ReportOpen
  <2>2. (up' = TRUE \/ UNCHANGED up) /\ UNCHANGED ctxDone
    BY <1>3 DEF Reconnect, ConsumerReconnect
  <2> QED
    BY <2>1, <2>2, Zenon DEF ConnTypes
<1>4. CASE Cancel
  BY <1>4 DEF ConnTypes, Cancel, connVars
<1>5. CASE UNCHANGED <<connVars, ctxDone>>
  BY <1>5 DEF ConnTypes, connVars
<1> QED
  BY <1>1, <1>2, <1>3, <1>4, <1>5
  DEF Next, Worker, Watcher, Terminated, vars, connVars, CallPublish, Enqueued,
      PublishCancelled, Take, BeforeRequest, AfterRequest, Rebuffer, WorkerExit,
      PollBreaker, Drain, Republish, WatcherExit, Expire

-----------------------------------------------------------------------------
\* Conservation.

\* How many workers hold m.
Holders(m) == Cardinality(Held(m))

\* OnePlace in these terms.
LEMMA OnePlaceSum ==
  OnePlace <=> \A m \in Msgs :
    Count(publishChan, m) + Count(tempBuffer, m) + Holders(m) + One(watcher.msg, m)
      = One(fate[m], "accepted")
BY DEF OnePlace, One, Count, Holders, PlacesIn, Occurrences

\* The same, of the next state.
LEMMA OnePlaceSumNext ==
  OnePlace' <=> \A m \in Msgs :
    Count(publishChan', m) + Count(tempBuffer', m) + Holders(m)' + One(watcher'.msg, m)
      = One(fate'[m], "accepted")
BY DEF OnePlace, One, Count, Holders, PlacesIn, Occurrences, Held

\* The workers that hold a message are finitely many.
LEMMA HoldersFinite ==
  \A m : Holders(m) \in Nat
<1>1. \A m : Held(m) \in SUBSET Workers
  BY DEF Held
<1> QED
  BY <1>1, PublishPipelineAssumption, FS_Subset, FS_CardinalityType DEF Holders

\* The same after a step.
LEMMA HoldersFiniteNext ==
  \A m : Holders(m)' \in Nat
<1>1. \A m : Held(m)' \in SUBSET Workers
  BY DEF Held
<1>2. \A m : Holders(m)' = Cardinality(Held(m)')
  BY DEF Holders
<1> QED
  BY <1>1, <1>2, PublishPipelineAssumption, FS_Subset, FS_CardinalityType

\* What a step of one worker does to the number of holders of a message.
LEMMA HoldersMove ==
  ASSUME NEW w \in Workers, NEW m, \A v \in Workers \ {w} : worker'[v].msg = worker[v].msg
  PROVE  Holders(m) - One(worker[w].msg, m) = Holders(m)' - One(worker'[w].msg, m)
<1>1. Holders(m) = Cardinality(HeldIn(worker, m)) /\ Holders(m)' = Cardinality(HeldIn(worker', m))
  BY DEF Holders, Held, HeldIn
<1> QED
  BY <1>1, HeldChange

\* A worker that goes on holds what it held.
LEMMA HoldersKept ==
  ASSUME GoroutineTypes, NEW w \in Workers, NEW p, worker' = [worker EXCEPT ![w].pc = p]
  PROVE  \A m : Holders(m)' = Holders(m)
<1>1. \A v \in Workers : worker'[v].msg = worker[v].msg
  BY DEF GoroutineTypes
<1> QED
  BY <1>1 DEF Holders, Held

\* No step loses or duplicates a message.
LEMMA OnePlaceStep ==
  ASSUME MessageTypes, ChannelTypes, GoroutineTypes, HoldersBusy, OnePlace,
         Next \/ UNCHANGED vars
  PROVE  OnePlace'
<1> SUFFICES ASSUME NEW m \in Msgs
             PROVE  Count(publishChan', m) + Count(tempBuffer', m) + Holders(m)'
                      + One(watcher'.msg, m) = One(fate'[m], "accepted")
  BY OnePlaceSumNext
<1> DEFINE Goal == Count(publishChan', m) + Count(tempBuffer', m) + Holders(m)'
                     + One(watcher'.msg, m) = One(fate'[m], "accepted")
<1>a. NoMsg \notin Msgs
  BY PublishPipelineAssumption
<1>b. publishChan \in Seq(Msgs) /\ tempBuffer \in Seq(Msgs)
  BY DEF ChannelTypes
<1>c. /\ Count(publishChan, m) \in Nat /\ Count(tempBuffer, m) \in Nat
      /\ Holders(m) \in Nat /\ Holders(m)' \in Nat
  BY <1>b, CountOps, HoldersFinite, HoldersFiniteNext
<1>s. Count(publishChan, m) + Count(tempBuffer, m) + Holders(m) + One(watcher.msg, m)
        = One(fate[m], "accepted")
  BY OnePlaceSum
<1>d. One(NoMsg, m) = 0
  BY <1>a DEF One
<1>e. \A x, y : One(x, y) \in {0, 1} /\ (x = y => One(x, y) = 1) /\ (x # y => One(x, y) = 0)
  BY DEF One
<1>k. worker' = worker => Holders(m)' = Holders(m)
  BY DEF Holders, Held
<1>1. ASSUME UNCHANGED <<publishChan, tempBuffer, watcher>>, Holders(m)' = Holders(m),
             fate'[m] = "accepted" <=> fate[m] = "accepted"
      PROVE  Goal
  BY <1>1, <1>s DEF One
<1>2. ASSUME NEW x \in Msgs, Enqueued(x)
      PROVE  Goal
  <2>1. /\ fate[x] = "calling" /\ fate' = [fate EXCEPT ![x] = "accepted"]
        /\ publishChan' = Append(publishChan, x)
        /\ UNCHANGED <<tempBuffer, worker, watcher>>
    BY <1>2 DEF Enqueued, Enqueue, workerVars
  <2>2. Count(publishChan', m) = Count(publishChan, m) + One(x, m)
    BY <2>1, <1>b, CountOps
  <2>3. One(fate'[m], "accepted") = One(fate[m], "accepted") + One(x, m)
    BY <2>1 DEF One, MessageTypes
  <2>4. Holders(m)' = Holders(m) /\ UNCHANGED <<tempBuffer, watcher>>
    BY <2>1, <1>k
  <2> QED
    BY <2>2, <2>3, <2>4, <1>s, <1>c, <1>e
<1>3. ASSUME NEW w \in Workers, Take(w)
      PROVE  Goal
  <2> DEFINE x == Head(publishChan)
  <2>1. /\ publishChan # <<>> /\ worker[w].msg = NoMsg
        /\ publishChan' = Tail(publishChan)
        /\ worker' = [worker EXCEPT ![w] = [pc |-> "execute", msg |-> x]]
        /\ UNCHANGED <<fate, tempBuffer, watcher>>
    BY <1>3 DEF Take, HoldersBusy
  <2>2. Count(publishChan, m) = Count(publishChan', m) + One(x, m)
    BY <2>1, <1>b, CountOps
  <2>3. Holders(m) - One(NoMsg, m) = Holders(m)' - One(x, m)
    <3>1. worker'[w].msg = x /\ \A v \in Workers \ {w} : worker'[v].msg = worker[v].msg
      BY <2>1 DEF GoroutineTypes
    <3> QED
      BY <2>1, <3>1, HoldersMove
  <2>4. Count(publishChan', m) \in Nat
    BY <2>1, <1>b, ChannelOps, CountOps
  <2>5. UNCHANGED <<fate, tempBuffer, watcher>>
    BY <2>1
  <2> HIDE DEF x
  <2> QED
    BY <2>2, <2>3, <2>4, <2>5, <1>s, <1>c, <1>d, <1>e
<1>f. ASSUME NEW w \in Workers,
             worker' = [worker EXCEPT ![w] = [pc |-> "idle", msg |-> NoMsg]]
      PROVE  Holders(m) - One(worker[w].msg, m) = Holders(m)'
  <2>1. worker'[w].msg = NoMsg /\ \A v \in Workers \ {w} : worker'[v].msg = worker[v].msg
    BY <1>f DEF GoroutineTypes
  <2>2. Holders(m) - One(worker[w].msg, m) = Holders(m)' - One(worker'[w].msg, m)
    BY <2>1, HoldersMove
  <2> QED
    BY <2>1, <2>2, <1>c, <1>d
<1>4. ASSUME NEW w \in Workers, worker[w].msg \in Msgs,
             worker' = [worker EXCEPT ![w] = [pc |-> "idle", msg |-> NoMsg]],
             UNCHANGED <<publishChan, tempBuffer, watcher>>,
             NEW s \in {"published", "failed", "dropped"},
             fate' = [fate EXCEPT ![worker[w].msg] = s]
      PROVE  Goal
  <2>1. Holders(m) - One(worker[w].msg, m) = Holders(m)'
    BY <1>f, <1>4
  <2>2. CASE worker[w].msg = m
    <3>1. One(fate'[m], "accepted") = 0 /\ One(worker[w].msg, m) = 1
      BY <1>4, <2>2 DEF MessageTypes, One
    <3> QED
      BY <3>1, <2>1, <1>4, <1>s, <1>c, <1>e
  <2>3. CASE worker[w].msg # m
    <3>1. fate'[m] = fate[m] /\ One(worker[w].msg, m) = 0
      BY <1>4, <2>3 DEF MessageTypes, One
    <3> QED
      BY <3>1, <2>1, <1>4, <1>s, <1>c
  <2> QED
    BY <2>2, <2>3
<1>g. ASSUME NEW w \in Workers, worker[w].msg \in Msgs,
             worker' = [worker EXCEPT ![w] = [pc |-> "idle", msg |-> NoMsg]],
             UNCHANGED <<fate, publishChan, watcher>>,
             tempBuffer' = Append(tempBuffer, worker[w].msg)
      PROVE  Goal
  <2>1. Holders(m) - One(worker[w].msg, m) = Holders(m)'
    BY <1>f, <1>g
  <2>2. Count(tempBuffer', m) = Count(tempBuffer, m) + One(worker[w].msg, m)
    BY <1>g, <1>b, CountOps
  <2> QED
    BY <2>1, <2>2, <1>g, <1>s, <1>c, <1>e
<1>5. ASSUME NEW w \in Workers, NEW ok \in BOOLEAN, AfterRequest(w, ok)
      PROVE  Goal
  <2>1. worker[w].msg \in Msgs
    BY <1>5, BusyHolds DEF AfterRequest
  <2>2. /\ worker' = [worker EXCEPT ![w] = [pc |-> "idle", msg |-> NoMsg]]
        /\ fate' = [fate EXCEPT ![worker[w].msg] = IF ok THEN "published" ELSE "failed"]
        /\ UNCHANGED <<publishChan, tempBuffer, watcher>>
    BY <1>5 DEF AfterRequest
  <2> QED
    BY <2>1, <2>2, <1>4
<1>6. ASSUME NEW w \in Workers, Rebuffer(w)
      PROVE  Goal
  <2>1. worker[w].msg \in Msgs
    BY <1>6, BusyHolds DEF Rebuffer
  <2>2. /\ worker' = [worker EXCEPT ![w] = [pc |-> "idle", msg |-> NoMsg]]
        /\ UNCHANGED <<publishChan, watcher>>
        /\ \/ tempBuffer' = Append(tempBuffer, worker[w].msg) /\ UNCHANGED fate
           \/ fate' = [fate EXCEPT ![worker[w].msg] = "dropped"] /\ UNCHANGED tempBuffer
    BY <1>6 DEF Rebuffer, Drop
  <2> QED
    BY <2>1, <2>2, <1>4, <1>g
<1>7. CASE Drain
  <2>1. UNCHANGED <<fate, publishChan>> /\ Holders(m)' = Holders(m) /\ One(watcher.msg, m) = 0
    BY <1>7, <1>d, <1>k DEF Drain, workerVars, HoldersBusy
  <2>2. CASE UNCHANGED tempBuffer /\ watcher' = [watcher EXCEPT !.pc = "select"]
    <3>1. watcher'.msg = watcher.msg
      BY <2>2 DEF GoroutineTypes
    <3> QED
      BY <3>1, <2>1, <2>2, <1>s
  <2>3. CASE /\ tempBuffer # <<>> /\ tempBuffer' = Tail(tempBuffer)
             /\ watcher' = [pc |-> "publish", msg |-> Head(tempBuffer)]
    <3>1. Count(tempBuffer, m) = Count(tempBuffer', m) + One(watcher'.msg, m)
      BY <2>3, <1>b, CountOps
    <3>2. Count(tempBuffer', m) \in Nat
      BY <2>3, <1>b, ChannelOps, CountOps
    <3> QED
      BY <3>1, <3>2, <2>1, <1>s, <1>c, <1>e
  <2> QED
    BY <1>7, <2>2, <2>3 DEF Drain
<1>8. CASE Republish
  <2> DEFINE x == watcher.msg
  <2>1. x \in Msgs
    BY <1>8, BusyHolds DEF Republish
  <2>2. UNCHANGED tempBuffer /\ Holders(m)' = Holders(m) /\ One(watcher'.msg, m) = 0
    BY <1>8, <1>d, <1>k DEF Republish, workerVars
  <2>3. CASE publishChan' = Append(publishChan, x) /\ UNCHANGED fate
    <3>1. Count(publishChan', m) = Count(publishChan, m) + One(x, m)
      BY <2>3, <2>1, <1>b, CountOps
    <3> QED
      BY <3>1, <2>2, <2>3, <1>s, <1>c, <1>e
  <2>4. CASE fate' = [fate EXCEPT ![x] = "dropped"] /\ UNCHANGED publishChan
    <3>1. CASE x = m
      <4>1. One(fate'[m], "accepted") = 0 /\ One(watcher.msg, m) = 1
        BY <2>4, <3>1 DEF MessageTypes, One
      <4> HIDE DEF x
      <4> QED
        BY <4>1, <2>2, <2>4, <1>s, <1>c, <1>e
    <3>2. CASE x # m
      <4>1. One(fate'[m], "accepted") = One(fate[m], "accepted") /\ One(watcher.msg, m) = 0
        BY <2>4, <3>2 DEF MessageTypes, One
      <4> HIDE DEF x
      <4> QED
        BY <4>1, <2>2, <2>4, <1>s
    <3> QED
      BY <3>1, <3>2
  <2> QED
    BY <1>8, <2>3, <2>4 DEF Republish, Enqueue, Drop
<1>9. ASSUME NEW w \in Workers, NEW p, worker' = [worker EXCEPT ![w].pc = p],
             UNCHANGED <<fate, publishChan, tempBuffer, watcher>>
      PROVE  Goal
  BY <1>1, <1>9, HoldersKept
<1>10. ASSUME NEW p, watcher' = [watcher EXCEPT !.pc = p],
              UNCHANGED <<fate, publishChan, tempBuffer, worker>>
       PROVE  Goal
  <2>1. watcher'.msg = watcher.msg
    BY <1>10 DEF GoroutineTypes
  <2> QED
    BY <1>10, <2>1, <1>k, <1>s
<1>11. ASSUME NEW x \in Msgs, CallPublish(x) \/ PublishCancelled(x)
       PROVE  Goal
  <2>1. /\ UNCHANGED <<publishChan, tempBuffer, worker, watcher>>
        /\ fate[x] \in {"new", "calling"}
        /\ \E s \in {"calling", "dropped"} : fate' = [fate EXCEPT ![x] = s]
    BY <1>11 DEF CallPublish, PublishCancelled, Drop, workerVars
  <2>2. fate'[m] = "accepted" <=> fate[m] = "accepted"
    BY <2>1 DEF MessageTypes
  <2> QED
    BY <1>1, <2>1, <2>2, <1>k
<1>12. ASSUME NEW w \in Workers, BeforeRequest(w)
       PROVE  Goal
  BY <1>9, <1>12 DEF BeforeRequest, queueVars
<1>13. ASSUME NEW w \in Workers, WorkerExit(w)
       PROVE  Goal
  BY <1>9, <1>13 DEF WorkerExit, queueVars
<1>14. CASE WatchOpen \/ WatcherExit
  BY <1>10, <1>14 DEF WatchOpen, WatcherExit, queueVars, workerVars
<1>15. CASE PollBreaker
  BY <1>10, <1>15 DEF PollBreaker, queueVars
<1>16. CASE UNCHANGED <<fate, publishChan, tempBuffer, worker, watcher>>
  BY <1>1, <1>16, <1>k
<1> QED
  BY <1>2, <1>3, <1>5, <1>6, <1>7, <1>8, <1>11, <1>12, <1>13, <1>14, <1>15, <1>16
  DEF Next, Worker, Watcher, Terminated, vars, queueVars, workerVars, Expire, Disconnect,
      Reconnect, ConsumerReconnect, Cancel

-----------------------------------------------------------------------------
\* At most one attempt.

\* A message somebody holds is accepted, and nobody else holds it.
LEMMA HeldOnce ==
  ASSUME ChannelTypes, OnePlace
  PROVE  /\ \A w \in Workers : worker[w].msg \in Msgs =>
              /\ fate[worker[w].msg] = "accepted"
              /\ \A v \in Workers \ {w} : worker[v].msg # worker[w].msg
         /\ watcher.msg \in Msgs => /\ fate[watcher.msg] = "accepted"
                                    /\ \A v \in Workers : worker[v].msg # watcher.msg
<1>1. ASSUME NEW m \in Msgs
      PROVE  /\ Count(publishChan, m) \in Nat /\ Count(tempBuffer, m) \in Nat
             /\ Holders(m) \in Nat
             /\ Count(publishChan, m) + Count(tempBuffer, m) + Holders(m) + One(watcher.msg, m)
                  = One(fate[m], "accepted")
  BY CountOps, HoldersFinite, OnePlaceSum DEF ChannelTypes
<1>2. ASSUME NEW w \in Workers, worker[w].msg \in Msgs
      PROVE  /\ fate[worker[w].msg] = "accepted"
             /\ \A v \in Workers \ {w} : worker[v].msg # worker[w].msg
  <2> DEFINE m == worker[w].msg
  <2>1. w \in Held(m) /\ IsFiniteSet(Held(m))
    BY PublishPipelineAssumption, FS_Subset DEF Held
  <2>2. Holders(m) # 0
    BY <2>1, FS_EmptySet DEF Holders
  <2>3. Holders(m) = 1 /\ One(fate[m], "accepted") = 1
    <3>1. One(watcher.msg, m) \in {0, 1} /\ One(fate[m], "accepted") \in {0, 1}
      BY DEF One
    <3>2. /\ Count(publishChan, m) \in Nat /\ Count(tempBuffer, m) \in Nat
          /\ Holders(m) \in Nat
          /\ Count(publishChan, m) + Count(tempBuffer, m) + Holders(m) + One(watcher.msg, m)
               = One(fate[m], "accepted")
      BY <1>1, <1>2
    <3> HIDE DEF m
    <3> QED
      BY <3>1, <3>2, <2>2
  <2>4. \E v : Held(m) = {v}
    BY <2>1, <2>3, FS_Singleton DEF Holders
  <2> QED
    BY <2>1, <2>3, <2>4 DEF Held, One
<1>3. ASSUME watcher.msg \in Msgs
      PROVE  /\ fate[watcher.msg] = "accepted"
             /\ \A v \in Workers : worker[v].msg # watcher.msg
  <2>1. One(watcher.msg, watcher.msg) = 1 /\ One(fate[watcher.msg], "accepted") \in {0, 1}
    BY DEF One
  <2>2. One(fate[watcher.msg], "accepted") = 1 /\ Holders(watcher.msg) = 0
    BY <1>1, <1>3, <2>1
  <2>3. Held(watcher.msg) = {}
    <3>1. IsFiniteSet(Held(watcher.msg))
      BY PublishPipelineAssumption, FS_Subset DEF Held
    <3> QED
      BY <3>1, <2>2, FS_EmptySet DEF Holders
  <2> QED
    BY <2>2, <2>3 DEF One, Held
<1> QED
  BY <1>2, <1>3

\* Some worker is handing m to AMQP.
Attempting(m) == \E w \in Workers : worker[w] = [pc |-> "attempt", msg |-> m]

\* No step attempts a message that has been attempted.
LEMMA AttemptedOnceStep ==
  ASSUME MessageTypes, ChannelTypes, GoroutineTypes, HoldersBusy, OnePlace, AttemptedOnce,
         Next \/ UNCHANGED vars
  PROVE  AttemptedOnce'
<1> SUFFICES ASSUME NEW m \in Msgs
             PROVE  /\ attempts'[m] \in {0, 1}
                    /\ attempts'[m] = 1 <=> fate'[m] \in {"published", "failed"} \/ Attempting(m)'
  BY DEF AttemptedOnce, Attempting
<1> DEFINE Goal == /\ attempts'[m] \in {0, 1}
                   /\ attempts'[m] = 1
                        <=> fate'[m] \in {"published", "failed"} \/ Attempting(m)'
<1>a. /\ attempts[m] \in {0, 1}
      /\ attempts[m] = 1 <=> fate[m] \in {"published", "failed"} \/ Attempting(m)
  BY DEF AttemptedOnce, Attempting
<1>1. ASSUME UNCHANGED attempts, Attempting(m)' <=> Attempting(m),
             fate'[m] \in {"published", "failed"} <=> fate[m] \in {"published", "failed"}
      PROVE  Goal
  BY <1>1, <1>a
<1>2. ASSUME NEW w \in Workers, worker[w].pc # "attempt", worker'[w].pc # "attempt",
             \A v \in Workers \ {w} : worker'[v] = worker[v]
      PROVE  Attempting(m)' <=> Attempting(m)
  BY <1>2 DEF Attempting
<1>3. UNCHANGED worker => (Attempting(m)' <=> Attempting(m))
  BY DEF Attempting
<1>4. ASSUME NEW x \in Msgs, CallPublish(x) \/ Enqueued(x) \/ PublishCancelled(x)
      PROVE  Goal
  <2>1. /\ UNCHANGED <<worker, attempts>>
        /\ fate[x] \in {"new", "calling"}
        /\ \E s \in {"calling", "accepted", "dropped"} : fate' = [fate EXCEPT ![x] = s]
    BY <1>4 DEF CallPublish, Enqueued, PublishCancelled, Drop, workerVars
  <2>2. fate'[m] \in {"published", "failed"} <=> fate[m] \in {"published", "failed"}
    BY <2>1 DEF MessageTypes
  <2> QED
    BY <2>1, <2>2, <1>1, <1>3
<1>5. ASSUME NEW w \in Workers, Take(w) \/ WorkerExit(w)
      PROVE  Goal
  <2>1. /\ UNCHANGED <<fate, attempts>> /\ worker[w].pc = "idle"
        /\ \/ worker' = [worker EXCEPT ![w] = [pc |-> "execute", msg |-> Head(publishChan)]]
           \/ worker' = [worker EXCEPT ![w].pc = "exited"]
    BY <1>5 DEF Take, WorkerExit, queueVars
  <2>2. worker'[w].pc # "attempt" /\ \A v \in Workers \ {w} : worker'[v] = worker[v]
    BY <2>1 DEF GoroutineTypes
  <2> QED
    BY <2>1, <2>2, <1>1, <1>2
<1>6. ASSUME NEW w \in Workers, BeforeRequest(w)
      PROVE  Goal
  <2>1. UNCHANGED fate /\ worker[w].pc = "execute"
    BY <1>6 DEF BeforeRequest, queueVars
  <2>2. CASE worker' = [worker EXCEPT ![w].pc = "rebuffer"] /\ UNCHANGED attempts
    <3>1. worker'[w].pc # "attempt" /\ \A v \in Workers \ {w} : worker'[v] = worker[v]
      BY <2>2 DEF GoroutineTypes
    <3> QED
      BY <3>1, <2>1, <2>2, <1>1, <1>2
  <2>3. CASE /\ worker' = [worker EXCEPT ![w].pc = "attempt"]
             /\ attempts' = [attempts EXCEPT ![worker[w].msg] = @ + 1]
    <3>1. /\ worker'[w] = [pc |-> "attempt", msg |-> worker[w].msg]
          /\ \A v \in Workers \ {w} : worker'[v] = worker[v]
      BY <2>3 DEF GoroutineTypes
    <3>2. worker[w].msg \in Msgs
      BY <2>1, BusyHolds
    <3>3. CASE worker[w].msg = m
      <4>1. /\ fate[m] = "accepted"
            /\ \A v \in Workers \ {w} : worker[v].msg # m
        BY <3>2, <3>3, HeldOnce
      <4>2. ~Attempting(m)
        BY <4>1, <2>1 DEF Attempting
      <4>3. attempts[m] = 0
        BY <4>1, <4>2, <1>a
      <4>4. attempts'[m] = 1
        BY <4>3, <2>3, <3>3 DEF MessageTypes
      <4>5. Attempting(m)'
        BY <3>1, <3>3 DEF Attempting
      <4> QED
        BY <4>4, <4>5
    <3>4. CASE worker[w].msg # m
      <4>1. attempts'[m] = attempts[m]
        BY <2>3, <3>4 DEF MessageTypes
      <4>2. Attempting(m)' <=> Attempting(m)
        BY <3>1, <3>4, <2>1 DEF Attempting
      <4> QED
        BY <4>1, <4>2, <2>1, <1>a
    <3> QED
      BY <3>3, <3>4
  <2> QED
    BY <1>6, <2>2, <2>3 DEF BeforeRequest
<1>7. ASSUME NEW w \in Workers, NEW ok \in BOOLEAN, AfterRequest(w, ok)
      PROVE  Goal
  <2>1. /\ worker[w].pc = "attempt" /\ UNCHANGED attempts
        /\ worker' = [worker EXCEPT ![w] = [pc |-> "idle", msg |-> NoMsg]]
        /\ fate' = [fate EXCEPT ![worker[w].msg] = IF ok THEN "published" ELSE "failed"]
    BY <1>7 DEF AfterRequest
  <2>2. worker'[w].pc # "attempt" /\ \A v \in Workers \ {w} : worker'[v] = worker[v]
    BY <2>1 DEF GoroutineTypes
  <2>3. worker[w] = [pc |-> "attempt", msg |-> worker[w].msg]
    BY <2>1 DEF GoroutineTypes
  <2>4. CASE worker[w].msg = m
    <3>1. Attempting(m)
      BY <2>3, <2>4 DEF Attempting
    <3>2. fate'[m] \in {"published", "failed"}
      BY <2>1, <2>4 DEF MessageTypes
    <3> QED
      BY <3>1, <3>2, <2>1, <1>a
  <2>5. CASE worker[w].msg # m
    <3>1. fate'[m] = fate[m]
      BY <2>1, <2>5 DEF MessageTypes
    <3>2. Attempting(m)' <=> Attempting(m)
      BY <2>2, <2>3, <2>5 DEF Attempting
    <3> QED
      BY <3>1, <3>2, <2>1, <1>1
  <2> QED
    BY <2>4, <2>5
<1>8. ASSUME NEW w \in Workers, Rebuffer(w)
      PROVE  Goal
  <2>1. /\ worker[w].pc = "rebuffer" /\ UNCHANGED attempts
        /\ worker' = [worker EXCEPT ![w] = [pc |-> "idle", msg |-> NoMsg]]
        /\ UNCHANGED fate \/ fate' = [fate EXCEPT ![worker[w].msg] = "dropped"]
    BY <1>8 DEF Rebuffer, Drop
  <2>2. worker'[w].pc # "attempt" /\ \A v \in Workers \ {w} : worker'[v] = worker[v]
    BY <2>1 DEF GoroutineTypes
  <2>3. fate[worker[w].msg] = "accepted"
    BY <2>1, BusyHolds, HeldOnce
  <2>4. fate'[m] \in {"published", "failed"} <=> fate[m] \in {"published", "failed"}
    BY <2>1, <2>3 DEF MessageTypes
  <2> QED
    BY <2>1, <2>2, <2>4, <1>1, <1>2
<1>9. CASE Republish
  <2>1. /\ UNCHANGED <<worker, attempts>>
        /\ UNCHANGED fate \/ fate' = [fate EXCEPT ![watcher.msg] = "dropped"]
    BY <1>9 DEF Republish, Drop, workerVars
  <2>2. fate[watcher.msg] = "accepted"
    BY <1>9, BusyHolds, HeldOnce DEF Republish
  <2>3. fate'[m] \in {"published", "failed"} <=> fate[m] \in {"published", "failed"}
    BY <2>1, <2>2 DEF MessageTypes
  <2> QED
    BY <2>1, <2>3, <1>1, <1>3
<1>10. CASE UNCHANGED <<fate, attempts, worker>>
  BY <1>1, <1>3, <1>10
<1> QED
  BY <1>4, <1>5, <1>6, <1>7, <1>8, <1>9, <1>10
  DEF Next, Worker, Watcher, Terminated, vars, queueVars, workerVars, WatchOpen,
      PollBreaker, Drain, WatcherExit, Expire, Disconnect, Reconnect,
      ConsumerReconnect, Cancel

-----------------------------------------------------------------------------
\* The breaker.

\* Using the breaker starts a new generation, closed or half-open, or leaves
\* it as it is; the new generation has no requests.
LEMMA Renewal ==
  ASSUME BreakerTypes
  PROVE  \/ CurrentState = breaker
         \/ /\ CurrentState # breaker
            /\ CurrentState \in {NewGeneration("closed"), NewGeneration("halfOpen")}
<1>1. breaker.state \in {"closed", "open", "halfOpen"}
  BY DEF BreakerTypes
<1>2. \A t : NewGeneration(t).expired = FALSE
  BY DEF NewGeneration
<1> QED
  BY <1>1, <1>2 DEF CurrentState

\* A fresh generation has the types of a breaker, and all requests are stale.
LEMMA FreshGeneration ==
  ASSUME NEW t \in {"closed", "open", "halfOpen"}, breaker' = NewGeneration(t),
         stale' = InFlight'
  PROVE  BreakerTypes'
<1>1. FailureThreshold \in Nat \ {0} /\ MaxRequests \in Nat \ {0}
  BY PublishPipelineAssumption
<1> QED
  BY <1>1 DEF BreakerTypes, NewGeneration

\* Nothing changes for the breaker.
LEMMA BreakerKept ==
  ASSUME BreakerTypes, InFlight' = InFlight, UNCHANGED <<stale, breaker>>
  PROVE  BreakerTypes'
BY DEF BreakerTypes

\* Admitting a request.
LEMMA BeforeRequestTypes ==
  ASSUME GoroutineTypes, BreakerTypes, NEW w \in Workers, BeforeRequest(w)
  PROVE  BreakerTypes'
<1>0. FailureThreshold \in Nat \ {0} /\ MaxRequests \in Nat \ {0}
  BY PublishPipelineAssumption
<1>1. w \notin InFlight /\ worker[w].pc = "execute"
  BY DEF BeforeRequest, InFlight
<1>2. CASE ~Admitting(CurrentState)
  <2>1. CurrentState = breaker
    BY <1>0, <1>2, Renewal DEF Admitting, NewGeneration
  <2>2. /\ UNCHANGED <<stale, breaker>>
        /\ worker' = [worker EXCEPT ![w].pc = "rebuffer"]
    BY <1>2, <2>1 DEF BeforeRequest, SetBreaker
  <2>3. InFlight' = InFlight
    BY <2>2, <1>1 DEF InFlight, GoroutineTypes
  <2> QED
    BY <2>2, <2>3, BreakerKept
<1>3. CASE Admitting(CurrentState)
  <2>1. /\ breaker' = Admitted(CurrentState)
        /\ stale' = IF CurrentState # breaker THEN InFlight ELSE stale
        /\ worker' = [worker EXCEPT ![w].pc = "attempt"]
    BY <1>3 DEF BeforeRequest, SetBreaker
  <2>2. InFlight' = InFlight \cup {w}
    BY <2>1, <1>1 DEF InFlight, GoroutineTypes
  <2>3. CASE CurrentState = breaker
    <3>1. UNCHANGED stale /\ stale \subseteq InFlight
      BY <2>1, <2>3 DEF BreakerTypes
    <3>2. CASE breaker.state = "closed"
      <4>1. UNCHANGED breaker
        BY <2>1, <2>3, <3>2 DEF Admitted
      <4> QED
        BY <4>1, <3>1, <3>2, <2>2 DEF BreakerTypes
    <3>3. CASE breaker.state = "halfOpen" /\ breaker.requests < MaxRequests
      <4>1. breaker' = [breaker EXCEPT !.requests = @ + 1]
        BY <2>1, <2>3, <3>3 DEF Admitted
      <4> QED
        BY <4>1, <3>1, <3>3, <2>2, <1>0 DEF BreakerTypes
    <3> QED
      BY <1>3, <2>3, <3>2, <3>3 DEF Admitting
  <2>4. CASE CurrentState = NewGeneration("closed") /\ CurrentState # breaker
    <3>1. breaker' = NewGeneration("closed") /\ stale' = InFlight
      BY <2>1, <2>4 DEF Admitted, NewGeneration
    <3> QED
      BY <3>1, <2>2, <1>0 DEF BreakerTypes, NewGeneration
  <2>5. CASE CurrentState = NewGeneration("halfOpen") /\ CurrentState # breaker
    <3> DEFINE n == NewGeneration("halfOpen")
    <3>1. /\ n \in [state : {"closed", "open", "halfOpen"}, failures : 0 .. FailureThreshold,
                    requests : 0 .. MaxRequests, successes : 0 .. MaxRequests,
                    expired : BOOLEAN]
          /\ n.state = "halfOpen" /\ n.requests = 0 /\ n.successes = 0 /\ ~n.expired
      BY <1>0 DEF NewGeneration
    <3>2. breaker' = [n EXCEPT !.requests = @ + 1] /\ stale' = InFlight
      BY <3>1, <2>1, <2>5 DEF Admitted
    <3> HIDE DEF n
    <3> QED
      BY <3>1, <3>2, <2>2, <1>0 DEF BreakerTypes
  <2> QED
    BY <2>3, <2>4, <2>5, Renewal
<1> QED
  BY <1>2, <1>3

\* Counting the outcome of a request.
LEMMA AfterRequestTypes ==
  ASSUME GoroutineTypes, BreakerTypes,
         NEW w \in Workers, NEW ok \in BOOLEAN, AfterRequest(w, ok)
  PROVE  BreakerTypes'
<1>0. FailureThreshold \in Nat \ {0} /\ MaxRequests \in Nat \ {0}
  BY PublishPipelineAssumption
<1>1. /\ w \in InFlight /\ stale \subseteq InFlight
      /\ worker' = [worker EXCEPT ![w] = [pc |-> "idle", msg |-> NoMsg]]
  BY DEF AfterRequest, InFlight, BreakerTypes
<1>2. InFlight' = InFlight \ {w}
  BY <1>1 DEF InFlight, GoroutineTypes
<1>3. CASE CurrentState # breaker
  <2>1. breaker' = CurrentState /\ stale' = InFlight \ {w}
    BY <1>3 DEF AfterRequest
  <2> QED
    BY <2>1, <1>2, <1>3, Renewal, FreshGeneration
<1>4. CASE CurrentState = breaker /\ w \in stale
  <2>1. breaker' = breaker /\ stale' = stale \ {w}
    BY <1>4 DEF AfterRequest
  <2> QED
    BY <2>1, <1>1, <1>2 DEF BreakerTypes
<1>5. CASE CurrentState = breaker /\ w \notin stale
  <2>1. /\ breaker' = IF ok THEN OnSuccess(breaker) ELSE OnFailure(breaker)
        /\ stale' = (IF breaker'.state # breaker.state THEN InFlight ELSE stale) \ {w}
    BY <1>5 DEF AfterRequest
  <2>2. breaker.state \in {"closed", "halfOpen"}
    BY <1>1, <1>5 DEF BreakerTypes
  <2>3. ASSUME NEW t \in {"closed", "open"}, t # breaker.state, breaker' = NewGeneration(t)
        PROVE  BreakerTypes'
    <3>1. stale' = InFlight'
      BY <2>1, <2>3, <1>2 DEF NewGeneration
    <3> QED
      BY <3>1, <2>3, FreshGeneration
  <2>4. breaker'.state = breaker.state => stale' = stale \ {w}
    BY <2>1
  <2>5. CASE breaker.state = "closed" /\ ok
    <3>1. breaker' = [breaker EXCEPT !.failures = 0]
      BY <2>1, <2>5 DEF OnSuccess
    <3> QED
      BY <3>1, <2>4, <2>5, <1>0, <1>1, <1>2 DEF BreakerTypes
  <2>6. CASE breaker.state = "closed" /\ ~ok
    <3>1. CASE breaker.failures + 1 >= FailureThreshold
      <4>1. breaker' = NewGeneration("open")
        BY <2>1, <2>6, <3>1 DEF OnFailure
      <4> QED
        BY <4>1, <2>3, <2>6
    <3>2. CASE ~(breaker.failures + 1 >= FailureThreshold)
      <4>1. breaker' = [breaker EXCEPT !.failures = @ + 1]
        BY <2>1, <2>6, <3>2 DEF OnFailure
      <4> QED
        BY <4>1, <3>2, <2>4, <2>6, <1>0, <1>1, <1>2 DEF BreakerTypes
    <3> QED
      BY <3>1, <3>2
  <2>7. CASE breaker.state = "halfOpen" /\ ~ok
    <3>1. breaker' = NewGeneration("open")
      BY <2>1, <2>7 DEF OnFailure
    <3> QED
      BY <3>1, <2>3, <2>7
  <2>8. CASE breaker.state = "halfOpen" /\ ok
    <3>1. CASE breaker.successes + 1 >= MaxRequests
      <4>1. breaker' = NewGeneration("closed")
        BY <2>1, <2>8, <3>1 DEF OnSuccess
      <4> QED
        BY <4>1, <2>3, <2>8
    <3>2. CASE ~(breaker.successes + 1 >= MaxRequests)
      <4>1. breaker' = [breaker EXCEPT !.successes = @ + 1]
        BY <2>1, <2>8, <3>2 DEF OnSuccess
      <4> QED
        BY <4>1, <3>2, <2>4, <2>8, <1>0, <1>1, <1>2 DEF BreakerTypes
    <3> QED
      BY <3>1, <3>2
  <2> QED
    BY <2>2, <2>5, <2>6, <2>7, <2>8
<1> QED
  BY <1>3, <1>4, <1>5

\* Every step keeps the breaker's types.
LEMMA BreakerTypesStep ==
  ASSUME GoroutineTypes, BreakerTypes, Next \/ UNCHANGED vars
  PROVE  BreakerTypes'
<1>1. ASSUME NEW w \in Workers, Take(w) \/ Rebuffer(w) \/ WorkerExit(w)
      PROVE  BreakerTypes'
  <2>1. /\ UNCHANGED <<stale, breaker>> /\ worker[w].pc # "attempt"
        /\ \/ \E r : worker' = [worker EXCEPT ![w] = r] /\ r.pc # "attempt"
           \/ worker' = [worker EXCEPT ![w].pc = "exited"]
    BY <1>1 DEF Take, Rebuffer, WorkerExit
  <2>2. worker'[w].pc # "attempt" /\ \A v \in Workers \ {w} : worker'[v] = worker[v]
    BY <2>1 DEF GoroutineTypes
  <2>3. InFlight' = InFlight
    BY <2>1, <2>2 DEF InFlight
  <2> QED
    BY <2>1, <2>3, BreakerKept
<1>2. ASSUME NEW w \in Workers, BeforeRequest(w)
      PROVE  BreakerTypes'
  BY <1>2, BeforeRequestTypes
<1>3. ASSUME NEW w \in Workers, NEW ok \in BOOLEAN, AfterRequest(w, ok)
      PROVE  BreakerTypes'
  BY <1>3, AfterRequestTypes
<1>4. CASE PollBreaker
  <2>1. /\ breaker' = CurrentState /\ InFlight' = InFlight
        /\ stale' = IF CurrentState # breaker THEN InFlight ELSE stale
    BY <1>4 DEF PollBreaker, SetBreaker, InFlight
  <2>2. CASE CurrentState = breaker
    BY <2>1, <2>2, BreakerKept
  <2>3. CASE CurrentState # breaker
    BY <2>1, <2>3, Renewal, FreshGeneration
  <2> QED
    BY <2>2, <2>3
<1>5. CASE Expire
  <2>1. /\ breaker' = [breaker EXCEPT !.expired = TRUE] /\ breaker.state # "halfOpen"
        /\ InFlight' = InFlight /\ UNCHANGED stale
    BY <1>5 DEF Expire, InFlight
  <2> QED
    BY <2>1 DEF BreakerTypes
<1>6. CASE UNCHANGED <<worker, stale, breaker>>
  BY <1>6, BreakerKept DEF InFlight
<1> QED
  BY <1>1, <1>2, <1>3, <1>4, <1>5, <1>6
  DEF Next, Worker, Watcher, Terminated, vars, workerVars, CallPublish, Enqueued,
      PublishCancelled, WatchOpen, Drain, Republish, WatcherExit, Disconnect, Reconnect,
      ConsumerReconnect, Cancel

-----------------------------------------------------------------------------
\* The inductive invariant.  Conservation needs to know who holds a message;
\* that there is one attempt follows from conservation.
IInv ==
  /\ MessageTypes /\ ChannelTypes /\ GoroutineTypes /\ ConnTypes /\ BreakerTypes
  /\ HoldersBusy
  /\ OnePlace
  /\ AttemptedOnce

\* It holds of the initial states.
LEMMA InitInv == Init => IInv
<1> SUFFICES ASSUME Init PROVE IInv
  OBVIOUS
<1> USE PublishPipelineAssumption
<1>1. MessageTypes /\ ChannelTypes /\ GoroutineTypes /\ ConnTypes /\ HoldersBusy
  <2>1. MessageTypes /\ GoroutineTypes /\ HoldersBusy
    BY DEF Init, MessageTypes, GoroutineTypes, HoldersBusy
  <2>2. ChannelTypes
    BY DEF Init, ChannelTypes
  <2>3. ConnTypes
    <3>1. 0 \in 0 .. MaxOutages /\ 0 \in 0 .. StateBuffer
      OBVIOUS
    <3> QED
      BY <3>1 DEF Init, ConnTypes
  <2> QED
    BY <2>1, <2>2, <2>3
<1>2. InFlight = {}
  BY DEF Init, InFlight
<1>3. BreakerTypes
  BY <1>2 DEF Init, BreakerTypes, NewGeneration
<1>4. AttemptedOnce
  BY DEF Init, AttemptedOnce
<1>5. OnePlace
  <2>1. ASSUME NEW m \in Msgs
        PROVE  /\ PlacesIn(publishChan, m) = {} /\ PlacesIn(tempBuffer, m) = {}
               /\ Held(m) = {} /\ watcher.msg # m /\ fate[m] # "accepted"
    BY DEF Init, PlacesIn, Held
  <2> QED
    BY <2>1, FS_EmptySet DEF OnePlace
<1> QED
  BY <1>1, <1>3, <1>4, <1>5 DEF IInv

\* Every step keeps it.
LEMMA StepInv == IInv /\ [Next]_vars => IInv'
BY MessageTypesStep, ChannelTypesStep, HoldersStep, ConnTypesStep, OnePlaceStep,
   AttemptedOnceStep, BreakerTypesStep DEF IInv

\* It holds in every reachable state.
LEMMA Invariant == Spec => []IInv
BY InitInv, StepInv, PTL DEF Spec

-----------------------------------------------------------------------------
\* Counting drops.

\* Finitely many messages have been dropped, and the counter says how many.
Counted == IsFiniteSet(Dropped) /\ dropped = Cardinality(Dropped)

\* A message that has not been dropped adds one.
LEMMA OneMoreDropped ==
  ASSUME MessageTypes, Counted, NEW m \in Msgs, fate[m] # "dropped", Drop(m)
  PROVE  Counted'
<1>1. fate' = [fate EXCEPT ![m] = "dropped"] /\ dropped' = dropped + 1
  BY DEF Drop
<1>2. m \notin Dropped /\ Dropped' = Dropped \cup {m}
  BY <1>1 DEF MessageTypes, Dropped
<1>3. IsFiniteSet(Dropped \cup {m}) /\ Cardinality(Dropped \cup {m}) = Cardinality(Dropped) + 1
  BY <1>2, FS_AddElement DEF Counted
<1> QED
  BY <1>1, <1>2, <1>3 DEF Counted

\* A step that drops nothing counts nothing.
LEMMA SameDropped ==
  ASSUME Counted, UNCHANGED dropped,
         \A m \in Msgs : fate'[m] = "dropped" <=> fate[m] = "dropped"
  PROVE  Counted'
<1>1. Dropped' = Dropped
  BY DEF Dropped
<1> QED
  BY <1>1 DEF Counted

\* Every drop is counted once: whoever drops a message holds it, and nobody
\* holds one that has been dropped.
LEMMA CountedStep ==
  ASSUME IInv, Counted, Next \/ UNCHANGED vars
  PROVE  Counted'
<1>t. MessageTypes /\ fate \in [Msgs -> {"new", "calling", "accepted", "published", "failed",
                                        "dropped"}]
  BY DEF IInv, MessageTypes
<1>h. /\ \A w \in Workers : worker[w].msg \in Msgs => fate[worker[w].msg] = "accepted"
      /\ watcher.msg \in Msgs => fate[watcher.msg] = "accepted"
  BY HeldOnce DEF IInv
<1>b. /\ \A w \in Workers : worker[w].pc \notin {"idle", "exited"} => worker[w].msg \in Msgs
      /\ watcher.pc = "publish" => watcher.msg \in Msgs
  BY BusyHolds DEF IInv
<1>1. ASSUME NEW m \in Msgs, CallPublish(m) \/ Enqueued(m)
      PROVE  Counted'
  <2>1. \A n \in Msgs : fate'[n] = "dropped" <=> fate[n] = "dropped"
    BY <1>1, <1>t DEF CallPublish, Enqueued
  <2> QED
    BY <1>1, <2>1, SameDropped DEF CallPublish, Enqueued
<1>2. ASSUME NEW m \in Msgs, PublishCancelled(m)
      PROVE  Counted'
  BY <1>2, <1>t, OneMoreDropped DEF PublishCancelled
<1>3. ASSUME NEW w \in Workers, NEW ok \in BOOLEAN, AfterRequest(w, ok)
      PROVE  Counted'
  <2>1. /\ worker[w].msg \in Msgs /\ UNCHANGED dropped
        /\ fate' = [fate EXCEPT ![worker[w].msg] = IF ok THEN "published" ELSE "failed"]
    BY <1>3, <1>b DEF AfterRequest
  <2>2. \A n \in Msgs : fate'[n] = "dropped" <=> fate[n] = "dropped"
    BY <2>1, <1>h, <1>t
  <2> QED
    BY <2>1, <2>2, SameDropped
<1>4. ASSUME NEW w \in Workers, Rebuffer(w)
      PROVE  Counted'
  <2>1. /\ worker[w].msg \in Msgs
        /\ Drop(worker[w].msg) \/ UNCHANGED <<fate, dropped>>
    BY <1>4, <1>b DEF Rebuffer
  <2>2. fate[worker[w].msg] # "dropped"
    BY <2>1, <1>h
  <2> QED
    BY <2>1, <2>2, <1>t, OneMoreDropped, SameDropped
<1>5. CASE Republish
  <2>1. /\ watcher.msg \in Msgs
        /\ Drop(watcher.msg) \/ UNCHANGED <<fate, dropped>>
    BY <1>5, <1>b DEF Republish
  <2>2. fate[watcher.msg] # "dropped"
    BY <2>1, <1>h
  <2> QED
    BY <2>1, <2>2, <1>t, OneMoreDropped, SameDropped
<1>6. CASE UNCHANGED <<fate, dropped>>
  BY <1>6, SameDropped
<1> QED
  BY <1>1, <1>2, <1>3, <1>4, <1>5, <1>6
  DEF Next, Worker, Watcher, Terminated, vars, queueVars, Take, BeforeRequest, WorkerExit,
      WatchOpen, PollBreaker, Drain, WatcherExit, Expire, Disconnect, Reconnect,
      ConsumerReconnect, Cancel

-----------------------------------------------------------------------------
\* Every variable has its type: neither channel ever exceeds its capacity, and
\* the breaker's counts stay within the settings.
THEOREM Types == Spec => []TypeOK
<1>1. IInv => TypeOK
  BY DEF IInv, MessageTypes, ChannelTypes, GoroutineTypes, ConnTypes, BreakerTypes, InFlight,
         TypeOK
<1> QED
  BY <1>1, Invariant, PTL

\* Conservation: whatever the workers, the watcher, the breaker and shutdown
\* do, an accepted message is in exactly one place and no other is anywhere.
THEOREM Conservation == Spec => []OnePlace
<1>1. IInv => OnePlace
  BY DEF IInv
<1> QED
  BY <1>1, Invariant, PTL

\* DroppedMessages counts every dropped message once, wherever it was dropped:
\* in a handler's Publish, in the watcher's, or at a full secondary buffer.
THEOREM DropCount == Spec => []DropsCounted
<1>1. Init => Counted
  <2>1. Init => Dropped = {} /\ dropped = 0
    BY DEF Init, Dropped
  <2> QED
    BY <2>1, FS_EmptySet DEF Counted
<1>2. IInv /\ Counted /\ [Next]_vars => Counted'
  BY CountedStep
<1>3. Counted => DropsCounted
  BY DEF Counted, DropsCounted
<1> QED
  BY <1>1, <1>2, <1>3, Invariant, PTL DEF Spec

\* publishDirect is reached at most once for a message.
THEOREM AtMostOnce == Spec => []AtMostOneAttempt
<1>1. IInv => AtMostOneAttempt
  <2>1. IInv => \A m \in Msgs : attempts[m] \in {0, 1}
    BY DEF IInv, AttemptedOnce
  <2>2. \A n \in {0, 1} : n <= 1
    OBVIOUS
  <2> QED
    BY <2>1, <2>2 DEF AtMostOneAttempt
<1> QED
  BY <1>1, Invariant, PTL

-----------------------------------------------------------------------------
\* Refinement.

StageOf(f, a) ==
  CASE f \in {"new", "dropped"} -> f
    [] f \notin {"new", "dropped"} /\ a = 0 -> "pending"
    [] f \notin {"new", "dropped"} /\ a = 1 -> "handed"
    [] OTHER -> "twice"

\* The stage of a message depends on its fate and its attempts only.
LEMMA StageIs ==
  /\ Stage = [m \in Msgs |-> StageOf(fate[m], attempts[m])]
  /\ Stage' = [m \in Msgs |-> StageOf(fate'[m], attempts'[m])]
BY DEF Stage, StageOf

\* A step that changes one message's stage is a move of Publisher.
LEMMA MoveOne ==
  ASSUME NEW x \in Msgs, NEW from, NEW to,
         StageOf(fate[x], attempts[x]) = from, StageOf(fate'[x], attempts'[x]) = to,
         \A m \in Msgs \ {x} : fate'[m] = fate[m] /\ attempts'[m] = attempts[m]
  PROVE  Promise!Move(x, from, to)
BY StageIs DEF Promise!Move

\* Nothing has been attempted of a message nobody is attempting and that has
\* no outcome yet.
LEMMA Unattempted ==
  ASSUME IInv, NEW m \in Msgs, fate[m] \notin {"published", "failed"},
         \A w \in Workers : worker[w].msg = m => worker[w].pc # "attempt"
  PROVE  attempts[m] = 0
<1>1. ~Attempting(m)
  BY DEF Attempting
<1>2. /\ attempts[m] \in {0, 1}
      /\ attempts[m] = 1 <=> fate[m] \in {"published", "failed"} \/ Attempting(m)
  BY DEF IInv, AttemptedOnce, Attempting
<1> QED
  BY <1>1, <1>2

\* A message no worker may hold has not been attempted.
LEMMA UnacceptedUnattempted ==
  ASSUME IInv, NEW m \in Msgs, fate[m] \in {"new", "calling"}
  PROVE  attempts[m] = 0
BY HeldOnce, Unattempted DEF IInv

\* Every step is a step of Publisher or changes no stage.
LEMMA PublisherStep ==
  ASSUME IInv, Next \/ UNCHANGED vars
  PROVE  UNCHANGED <<fate, attempts>> \/ UNCHANGED Stage \/ Promise!PublisherNext
<1> DEFINE Goal == UNCHANGED <<fate, attempts>> \/ UNCHANGED Stage \/ Promise!PublisherNext
<1>0. fate \in [Msgs -> {"new", "calling", "accepted", "published", "failed", "dropped"}]
      /\ attempts \in [Msgs -> Nat]
  BY DEF IInv, MessageTypes
<1>1. ASSUME NEW m \in Msgs, CallPublish(m)
      PROVE  Goal
  <2>1. /\ fate[m] = "new" /\ fate' = [fate EXCEPT ![m] = "calling"] /\ UNCHANGED attempts
    BY <1>1 DEF CallPublish, workerVars
  <2>2. attempts[m] = 0
    BY <2>1, UnacceptedUnattempted
  <2>3. Promise!Move(m, "new", "pending")
    <3>1. StageOf(fate[m], attempts[m]) = "new" /\ StageOf(fate'[m], attempts'[m]) = "pending"
      BY <2>1, <2>2, <1>0 DEF StageOf
    <3> QED
      BY <3>1, <2>1, <1>0, MoveOne
  <2> QED
    BY <2>3 DEF Promise!PublisherNext, Promise!Publish
<1>2. ASSUME NEW m \in Msgs, Enqueued(m)
      PROVE  Goal
  <2>1. fate[m] = "calling" /\ fate' = [fate EXCEPT ![m] = "accepted"] /\ UNCHANGED attempts
    BY <1>2 DEF Enqueued, workerVars
  <2>2. \A n \in Msgs : StageOf(fate'[n], attempts'[n]) = StageOf(fate[n], attempts[n])
    BY <2>1, <1>0 DEF StageOf
  <2> QED
    BY <2>2, StageIs
<1>3. ASSUME NEW x \in Msgs, attempts[x] = 0, fate[x] \in {"calling", "accepted"},
             fate' = [fate EXCEPT ![x] = "dropped"], UNCHANGED attempts
      PROVE  Goal
  <2>1. Promise!Move(x, "pending", "dropped")
    <3>1. StageOf(fate[x], attempts[x]) = "pending" /\ StageOf(fate'[x], attempts'[x]) = "dropped"
      BY <1>3, <1>0 DEF StageOf
    <3> QED
      BY <3>1, <1>3, <1>0, MoveOne
  <2> QED
    BY <2>1 DEF Promise!PublisherNext, Promise!Discard
<1>4. ASSUME NEW m \in Msgs, PublishCancelled(m)
      PROVE  Goal
  <2>1. fate[m] = "calling" /\ fate' = [fate EXCEPT ![m] = "dropped"] /\ UNCHANGED attempts
    BY <1>4 DEF PublishCancelled, Drop, workerVars
  <2> QED
    BY <2>1, <1>3, UnacceptedUnattempted
<1>5. ASSUME NEW w \in Workers, BeforeRequest(w)
      PROVE  Goal
  <2> DEFINE x == worker[w].msg
  <2>1. x \in Msgs /\ UNCHANGED fate /\ worker[w].pc = "execute"
    BY <1>5, BusyHolds DEF IInv, BeforeRequest, queueVars
  <2>2. fate[x] = "accepted" /\ attempts[x] = 0
    BY <2>1, HeldOnce, Unattempted DEF IInv
  <2>3. CASE attempts' = [attempts EXCEPT ![x] = @ + 1]
    <3>1. StageOf(fate[x], attempts[x]) = "pending" /\ StageOf(fate'[x], attempts'[x]) = "handed"
      BY <2>1, <2>2, <2>3, <1>0 DEF StageOf
    <3>2. Promise!Move(x, "pending", "handed")
      BY <3>1, <2>1, <2>3, <1>0, MoveOne
    <3> QED
      BY <3>2, <2>1 DEF Promise!PublisherNext, Promise!HandOver
  <2>4. CASE UNCHANGED attempts
    BY <2>1, <2>4
  <2> QED
    BY <1>5, <2>3, <2>4 DEF BeforeRequest
<1>6. ASSUME NEW w \in Workers, NEW ok \in BOOLEAN, AfterRequest(w, ok)
      PROVE  Goal
  <2>1. /\ worker[w].msg \in Msgs /\ UNCHANGED attempts
        /\ fate' = [fate EXCEPT ![worker[w].msg] = IF ok THEN "published" ELSE "failed"]
    BY <1>6, BusyHolds DEF IInv, AfterRequest
  <2>2. fate[worker[w].msg] = "accepted"
    BY <2>1, HeldOnce DEF IInv
  <2>3. \A n \in Msgs : StageOf(fate'[n], attempts'[n]) = StageOf(fate[n], attempts[n])
    BY <2>1, <2>2, <1>0 DEF StageOf
  <2> QED
    BY <2>3, StageIs
<1>7. ASSUME NEW w \in Workers, Rebuffer(w)
      PROVE  Goal
  <2>1. /\ worker[w].msg \in Msgs /\ worker[w].pc = "rebuffer" /\ UNCHANGED attempts
        /\ UNCHANGED fate \/ fate' = [fate EXCEPT ![worker[w].msg] = "dropped"]
    BY <1>7, BusyHolds DEF IInv, Rebuffer, Drop
  <2>2. fate[worker[w].msg] = "accepted" /\ attempts[worker[w].msg] = 0
    BY <2>1, HeldOnce, Unattempted DEF IInv
  <2> QED
    BY <2>1, <2>2, <1>3
<1>8. CASE Republish
  <2>1. /\ watcher.msg \in Msgs /\ UNCHANGED attempts
        /\ UNCHANGED fate \/ fate' = [fate EXCEPT ![watcher.msg] = "dropped"]
    BY <1>8, BusyHolds DEF IInv, Republish, Drop, workerVars
  <2>2. fate[watcher.msg] = "accepted" /\ attempts[watcher.msg] = 0
    BY <2>1, HeldOnce, Unattempted DEF IInv
  <2> QED
    BY <2>1, <2>2, <1>3
<1>9. CASE UNCHANGED <<fate, attempts>>
  BY <1>9
<1> QED
  BY <1>1, <1>2, <1>4, <1>5, <1>6, <1>7, <1>8, <1>9
  DEF Next, Worker, Watcher, Terminated, vars, queueVars, workerVars, Take, WorkerExit,
      WatchOpen, PollBreaker, Drain, WatcherExit, Expire, Disconnect, Reconnect,
      ConsumerReconnect, Cancel

\* The pipeline keeps what Publisher promises: every message is handed to AMQP
\* once or counted as dropped, never both and never twice.
THEOREM Refinement == Spec => ImplementsPublisher
<1>1. Init => Promise!PublisherInit
  <2>1. ASSUME Init
        PROVE  \A m \in Msgs : StageOf(fate[m], attempts[m]) = "new"
    BY <2>1 DEF Init, StageOf
  <2> QED
    BY <2>1, StageIs DEF Promise!PublisherInit
<1>2. IInv /\ [Next]_vars
        => [UNCHANGED <<fate, attempts>> \/ UNCHANGED Stage \/ Promise!PublisherNext]_vars
  BY PublisherStep
<1> QED
  BY <1>1, <1>2, Invariant, PTL DEF Spec, ImplementsPublisher

\* In other words the pipeline, seen through Stage, is a Publisher: what Delivery
\* assumes of publishing is what PublishPipeline does.
THEOREM PipelineIsPublisher == Spec => Promise!PublisherSpec
<1>1. UNCHANGED <<fate, attempts>> => UNCHANGED Stage
  BY DEF Stage
<1>2. UNCHANGED vars => UNCHANGED <<fate, attempts>>
  BY DEF vars, queueVars, workerVars
<1>3. [UNCHANGED <<fate, attempts>> \/ UNCHANGED Stage \/ Promise!PublisherNext]_vars
        => [Promise!PublisherNext]_Stage
  BY <1>1, <1>2
<1> QED
  BY <1>3, Refinement, PTL DEF ImplementsPublisher, Promise!PublisherSpec

=============================================================================
