------------------------------ MODULE Delivery ------------------------------
(***************************************************************************)
(* A message's way from one server to the rooms of all of them             *)
(* (internal/rabbitmq, broadcastAndPublish and consumeMessages in          *)
(* internal/server): the servers come and go; the broker keeps a queue for *)
(* each; on each server the consumer goroutine of the room, the counters   *)
(* of its lag and the goroutine that reports them.                         *)
(*                                                                         *)
(* One room.  Publishing is what Publisher promises and PublishPipeline    *)
(* keeps.  A message is followed until it is offered to Room.Broadcast:    *)
(* ChatRoom takes it from there.  A lag sample is one millisecond.         *)
(***************************************************************************)
EXTENDS Publisher, Integers, Sequences, FiniteSets

CONSTANTS
  NoMsg,
  Servers,  \* server processes: each has an id of its own
  Origin,   \* the server whose client sends each message
  Credits   \* InitialCredits of a consumer (1000)

ASSUME DeliveryAssumption ==
  /\ NoMsg \notin Msgs
  /\ Origin \in [Msgs -> Servers]
  /\ Credits \in Nat \ {0}

VARIABLES
  server,     \* "new", "up", "stopping" (its context is cancelled) or "down"
  sender,     \* per message: where its handler is in broadcastAndPublish
  routed,     \* the messages the broker has taken
  queue,      \* the broker's queue of the room for each server
  registered, \* the room is in Rabbit.handlers
  consumer,   \* per server: where the consumer is, its message and handler
  credits,    \* deliveries the broker may still make to the consumer
  accepting,  \* goroutines that accept a delivery
  unacked,    \* deliveries whose Accept has failed or never returns
  offered,    \* history: how often each message was offered to Room.Broadcast
  lagTotal,   \* Rabbit.totalLagMs
  lagCount,   \* Rabbit.lagSampleCount
  monitor,    \* where the lag monitor is
  drift       \* history: the lag it has reported less the number of samples

sendVars     == <<sender, stage>>
brokerVars   == <<sendVars, routed, queue>>
creditVars   == <<credits, accepting, unacked>>
lagVars      == <<lagTotal, lagCount, monitor, drift>>
vars == <<server, brokerVars, registered, consumer, creditVars, offered, lagVars>>

Alive(s) == server[s] \in {"up", "stopping"}

Receiving == [pc |-> "receive", msg |-> NoMsg, found |-> FALSE]

Init ==
  /\ PublisherInit
  /\ sender = [m \in Msgs |-> "broadcast"]
  /\ server = [s \in Servers |-> "new"]
  /\ routed = {}
  /\ queue = [s \in Servers |-> <<>>]
  /\ registered = [s \in Servers |-> FALSE]
  /\ consumer = [s \in Servers |-> Receiving]
  /\ credits = [s \in Servers |-> Credits]
  /\ accepting = [s \in Servers |-> 0]
  /\ unacked = [s \in Servers |-> 0]
  /\ offered = [s \in Servers |-> [m \in Msgs |-> 0]]
  /\ lagTotal = [s \in Servers |-> 0]
  /\ lagCount = [s \in Servers |-> 0]
  /\ monitor = [s \in Servers |-> "ticker"]
  /\ drift = [s \in Servers |-> 0]

-----------------------------------------------------------------------------
\* The servers.

\* A server declares and binds its queues and starts its consumers before it
\* lets a client in.
NewRabbitMQ(s) ==
  /\ server[s] = "new"
  /\ server' = [server EXCEPT ![s] = "up"]
  /\ UNCHANGED <<brokerVars, registered, consumer, creditVars, offered, lagVars>>

\* The first JOIN: AddNewRoom registers the room's closure.
Consume(s) ==
  /\ Alive(s)
  /\ ~registered[s]
  /\ registered' = [registered EXCEPT ![s] = TRUE]
  /\ UNCHANGED <<server, brokerVars, consumer, creditVars, offered, lagVars>>

Cancel(s) ==
  /\ server[s] = "up"
  /\ server' = [server EXCEPT ![s] = "stopping"]
  /\ UNCHANGED <<brokerVars, registered, consumer, creditVars, offered, lagVars>>

\* The process ends, at whatever point its goroutines are.  Its queues are
\* auto-delete: they go with their consumers.
Exit(s) ==
  /\ Alive(s)
  /\ server' = [server EXCEPT ![s] = "down"]
  /\ queue' = [queue EXCEPT ![s] = <<>>]
  /\ UNCHANGED <<sendVars, routed, registered, consumer, creditVars, offered, lagVars>>

-----------------------------------------------------------------------------
\* Publishing.

\* broadcastAndPublish: a handler offers the message to its own room, and then
\* publishes it.  Nothing stops between the two but the process.
Offer(m) ==
  /\ offered' = [offered EXCEPT ![Origin[m]][m] = @ + 1]
  /\ UNCHANGED stage

PublishRemote(m) ==
  /\ Publish(m)
  /\ UNCHANGED offered

\* Mutant of BroadcastAndPublish: the other way round.
PublishAndBroadcast(m) ==
  /\ Alive(Origin[m]) /\ registered[Origin[m]]
  /\ \/ sender[m] = "broadcast" /\ sender' = [sender EXCEPT ![m] = "publish"] /\ PublishRemote(m)
     \/ sender[m] = "publish" /\ sender' = [sender EXCEPT ![m] = "returned"] /\ Offer(m)
  /\ UNCHANGED <<server, routed, queue, registered, consumer, creditVars, lagVars>>

BroadcastAndPublish(m) ==
  /\ Alive(Origin[m]) /\ registered[Origin[m]]
  /\ \/ sender[m] = "broadcast" /\ sender' = [sender EXCEPT ![m] = "publish"] /\ Offer(m)
     \/ sender[m] = "publish" /\ sender' = [sender EXCEPT ![m] = "returned"] /\ PublishRemote(m)
  /\ UNCHANGED <<server, routed, queue, registered, consumer, creditVars, lagVars>>

\* The pipeline of the server hands the message over or drops it.
Pipeline(m) ==
  /\ Alive(Origin[m])
  /\ HandOver(m) \/ Discard(m)
  /\ UNCHANGED <<server, sender, routed, queue, registered, consumer, creditVars, offered, lagVars>>

\* The broker takes a message that was handed over and copies it to the queue
\* of every server.  It may do so after the publisher has given up, and never:
\* publishDirect does not look at the outcome that comes with a nil error.
Route(m) ==
  /\ stage[m] = "handed" /\ m \notin routed
  /\ routed' = routed \cup {m}
  /\ queue' = [s \in Servers |-> IF Alive(s) THEN Append(queue[s], m) ELSE queue[s]]
  /\ UNCHANGED <<server, sendVars, registered, consumer, creditVars, offered, lagVars>>

-----------------------------------------------------------------------------
\* The consumer goroutine.

\* Receive, and the lookup of the room's handler.
Receive(s) ==
  /\ consumer[s].pc = "receive"
  /\ queue[s] # <<>> /\ credits[s] > 0
  /\ credits' = [credits EXCEPT ![s] = @ - 1]
  /\ consumer' = [consumer EXCEPT ![s] =
       [pc |-> "addLag", msg |-> Head(queue[s]), found |-> registered[s]]]
  /\ queue' = [queue EXCEPT ![s] = Tail(@)]
  /\ UNCHANGED <<server, sendVars, routed, registered, accepting, unacked, offered, lagVars>>

AddLag(s) ==
  /\ consumer[s].pc = "addLag"
  /\ lagTotal' = [lagTotal EXCEPT ![s] = @ + 1]
  /\ consumer' = [consumer EXCEPT ![s].pc = "countLag"]
  /\ UNCHANGED <<server, brokerVars, registered, creditVars, offered, lagCount, monitor, drift>>

CountLag(s) ==
  /\ consumer[s].pc = "countLag"
  /\ lagCount' = [lagCount EXCEPT ![s] = @ + 1]
  /\ consumer' = [consumer EXCEPT ![s].pc = "handle"]
  /\ UNCHANGED <<server, brokerVars, registered, creditVars, offered, lagTotal, monitor, drift>>

\* Mutant of ConsumeMessages: no self-filter.
ConsumeMessagesUnfiltered(s, m) == offered' = [offered EXCEPT ![s][m] = @ + 1]

\* consumeMessages passes over what its own server has published.
ConsumeMessages(s, m) ==
  offered' = IF s = Origin[m] THEN offered ELSE [offered EXCEPT ![s][m] = @ + 1]

\* Mutant of Handle: a delivery without a handler is not accepted.
HandleOrSkip(s) ==
  /\ consumer[s].pc = "handle"
  /\ IF consumer[s].found
     THEN /\ ConsumeMessages(s, consumer[s].msg)
          /\ accepting' = [accepting EXCEPT ![s] = @ + 1]
     ELSE UNCHANGED <<offered, accepting>>
  /\ consumer' = [consumer EXCEPT ![s] = Receiving]
  /\ UNCHANGED <<server, brokerVars, registered, credits, unacked, lagVars>>

\* Mutant of Handle: the handler accepts the delivery as well.
HandleAcceptingTwice(s) ==
  /\ consumer[s].pc = "handle"
  /\ IF consumer[s].found
     THEN /\ ConsumeMessages(s, consumer[s].msg)
          /\ accepting' = [accepting EXCEPT ![s] = @ + 2]
     ELSE /\ accepting' = [accepting EXCEPT ![s] = @ + 1]
          /\ UNCHANGED offered
  /\ consumer' = [consumer EXCEPT ![s] = Receiving]
  /\ UNCHANGED <<server, brokerVars, registered, credits, unacked, lagVars>>

\* Calls the handler that was found, if any; a goroutine accepts the delivery.
Handle(s) ==
  /\ consumer[s].pc = "handle"
  /\ IF consumer[s].found THEN ConsumeMessages(s, consumer[s].msg)
                          ELSE UNCHANGED offered
  /\ accepting' = [accepting EXCEPT ![s] = @ + 1]
  /\ consumer' = [consumer EXCEPT ![s] = Receiving]
  /\ UNCHANGED <<server, brokerVars, registered, credits, unacked, lagVars>>

\* Receive fails once the context is cancelled.
ConsumerExit(s) ==
  /\ consumer[s].pc = "receive"
  /\ server[s] = "stopping"
  /\ consumer' = [consumer EXCEPT ![s].pc = "exited"]
  /\ UNCHANGED <<server, brokerVars, registered, creditVars, offered, lagVars>>

\* Mutant of Accept: whatever its outcome, the credit is spent.
AcceptSpent(s, ok) ==
  /\ accepting[s] > 0
  /\ accepting' = [accepting EXCEPT ![s] = @ - 1]
  /\ IF ok THEN UNCHANGED unacked ELSE unacked' = [unacked EXCEPT ![s] = @ + 1]
  /\ UNCHANGED <<server, brokerVars, registered, consumer, credits, offered, lagVars>>

\* An Accept that succeeds returns the credit.  One that fails is only logged,
\* and one the broker does not confirm waits for ever: its context has no
\* deadline.
Accept(s, ok) ==
  /\ accepting[s] > 0
  /\ accepting' = [accepting EXCEPT ![s] = @ - 1]
  /\ IF ok THEN credits' = [credits EXCEPT ![s] = @ + 1] /\ UNCHANGED unacked
           ELSE unacked' = [unacked EXCEPT ![s] = @ + 1] /\ UNCHANGED credits
  /\ UNCHANGED <<server, brokerVars, registered, consumer, offered, lagVars>>

-----------------------------------------------------------------------------
\* startMonitoring, at each tick.

\* Mutant of SwapCount: Load, and Store(0) in a second step.
LoadAndStoreCount(s) ==
  /\ \/ /\ monitor[s] = "ticker"
        /\ lagCount[s] > 0
        /\ drift' = [drift EXCEPT ![s] = @ - lagCount[s]]
        /\ monitor' = [monitor EXCEPT ![s] = "store"]
        /\ UNCHANGED lagCount
     \/ /\ monitor[s] = "store"
        /\ lagCount' = [lagCount EXCEPT ![s] = 0]
        /\ monitor' = [monitor EXCEPT ![s] = "swapTotal"]
        /\ UNCHANGED drift
  /\ UNCHANGED <<server, brokerVars, registered, consumer, creditVars, offered, lagTotal>>

\* The count is read and reset in one operation; a tick that finds no sample
\* does nothing more.
SwapCount(s) ==
  /\ monitor[s] = "ticker"
  /\ lagCount[s] > 0
  /\ drift' = [drift EXCEPT ![s] = @ - lagCount[s]]
  /\ lagCount' = [lagCount EXCEPT ![s] = 0]
  /\ monitor' = [monitor EXCEPT ![s] = "swapTotal"]
  /\ UNCHANGED <<server, brokerVars, registered, consumer, creditVars, offered, lagTotal>>

SwapTotal(s) ==
  /\ monitor[s] = "swapTotal"
  /\ drift' = [drift EXCEPT ![s] = @ + lagTotal[s]]
  /\ lagTotal' = [lagTotal EXCEPT ![s] = 0]
  /\ monitor' = [monitor EXCEPT ![s] = "ticker"]
  /\ UNCHANGED <<server, brokerVars, registered, consumer, creditVars, offered, lagCount>>

-----------------------------------------------------------------------------
Consumer(s) ==
  /\ Alive(s)
  /\ Receive(s) \/ AddLag(s) \/ CountLag(s) \/ Handle(s) \/ ConsumerExit(s)

Accepting(s) == Alive(s) /\ \E ok \in BOOLEAN : Accept(s, ok)

Monitor(s) == Alive(s) /\ (SwapCount(s) \/ SwapTotal(s))

Next ==
  \/ \E m \in Msgs : BroadcastAndPublish(m) \/ Pipeline(m) \/ Route(m)
  \/ \E s \in Servers : \/ NewRabbitMQ(s) \/ Consume(s) \/ Cancel(s) \/ Exit(s)
                        \/ Consumer(s) \/ Accepting(s) \/ Monitor(s)

Spec == Init /\ [][Next]_vars

\* The consumer goroutines run, and an Accept comes to one of its outcomes, of
\* which one is that it never returns.
Fairness ==
  \A s \in Servers : WF_vars(Consumer(s)) /\ WF_vars(Accepting(s))

FairSpec == Spec /\ Fairness

-----------------------------------------------------------------------------
\* Properties.

\* Every variable has its type.
TypeOK ==
  /\ stage \in [Msgs -> {"new", "pending", "handed", "dropped"}]
  /\ sender \in [Msgs -> {"broadcast", "publish", "returned"}]
  /\ server \in [Servers -> {"new", "up", "stopping", "down"}]
  /\ routed \subseteq Msgs
  /\ queue \in [Servers -> Seq(Msgs)]
  /\ registered \in [Servers -> BOOLEAN]
  /\ consumer \in [Servers ->
       [pc : {"receive", "addLag", "countLag", "handle", "exited"},
        msg : Msgs \cup {NoMsg}, found : BOOLEAN]]
  /\ credits \in [Servers -> 0 .. Credits]
  /\ accepting \in [Servers -> Nat]
  /\ unacked \in [Servers -> Nat]
  /\ offered \in [Servers -> [Msgs -> Nat]]
  /\ lagTotal \in [Servers -> Nat]
  /\ lagCount \in [Servers -> Nat]
  /\ monitor \in [Servers -> {"ticker", "swapTotal"}]
  /\ drift \in [Servers -> Int]

\* End to end, no room sees a message twice, neither through the broker's
\* copies nor on the server it came from, whose own copy comes back to it.
AtMostOnceInRoom == \A s \in Servers, m \in Msgs : offered[s][m] <= 1

\* Cause before effect: a room on another server is offered a message only after
\* the sender's own room was, however early a worker, the broker and the other
\* server's consumer take it, while the sender's handler is still running.
RemoteFollowsLocal ==
  \A s \in Servers, m \in Msgs :
    s # Origin[m] /\ offered[s][m] > 0 => offered[Origin[m]][m] = 1

\* No credit leaks but by an Accept that fails or never returns: a delivery
\* without a handler and an own message are accepted like any other.
CreditsConserved ==
  \A s \in Servers :
    credits[s] + accepting[s] + unacked[s]
      + (IF consumer[s].msg = NoMsg THEN 0 ELSE 1) = Credits

\* No lag sample is lost between the consumer and the monitor that resets its
\* counters: reported and pending, lag and samples agree but for the one sample
\* that is being added.
LagConserved ==
  \A s \in Servers :
    lagTotal[s] - lagCount[s] + drift[s] =
      IF consumer[s].pc = "countLag" THEN 1 ELSE 0

\* Queues stall for one reason only: what the broker has queued for a server is
\* received, unless the server stops or Accepts that failed or never return hold
\* every credit, which is how the load tests froze the consumers.
QueuesDrain ==
  \A s \in Servers, m \in Msgs :
    (\E i \in 1 .. Len(queue[s]) : queue[s][i] = m)
      ~> \/ \A i \in 1 .. Len(queue[s]) : queue[s][i] # m
         \/ consumer[s].pc = "exited"
         \/ unacked[s] = Credits

-----------------------------------------------------------------------------
\* What the repository says, and the code does not do.

\* "Keeping AMQP credits flowing back to the broker": a consumer that has used
\* up its credits gets one back, while the server lives.
CreditsFlow ==
  \A s \in Servers :
    credits[s] = 0 ~> credits[s] > 0 \/ consumer[s].pc = "exited" \/ ~Alive(s)

=============================================================================
