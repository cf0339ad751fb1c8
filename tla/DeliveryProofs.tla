---------------------------- MODULE DeliveryProofs ----------------------------
(***************************************************************************)
(* Theorems about Delivery for any servers, any messages and any number of *)
(* credits.                                                                *)
(***************************************************************************)
EXTENDS Delivery, ChannelCounts

\* The types of the variables, in the groups the steps change.
BrokerTypes ==
  /\ sender \in [Msgs -> {"broadcast", "publish", "returned"}]
  /\ stage \in [Msgs -> {"new", "pending", "handed", "dropped"}]
  /\ routed \subseteq Msgs
  /\ queue \in [Servers -> Seq(Msgs)]

ServerTypes ==
  /\ server \in [Servers -> {"new", "up", "stopping", "down"}]
  /\ registered \in [Servers -> BOOLEAN]

ConsumerTypes ==
  /\ consumer \in [Servers ->
       [pc : {"receive", "addLag", "countLag", "handle", "exited"},
        msg : Msgs \cup {NoMsg}, found : BOOLEAN]]
  /\ offered \in [Servers -> [Msgs -> Nat]]

CreditTypes ==
  /\ credits \in [Servers -> Nat]
  /\ accepting \in [Servers -> Nat]
  /\ unacked \in [Servers -> Nat]

LagTypes ==
  /\ lagTotal \in [Servers -> Nat]
  /\ lagCount \in [Servers -> Nat]
  /\ monitor \in [Servers -> {"ticker", "swapTotal"}]
  /\ drift \in [Servers -> Int]

\* A consumer holds a delivery exactly while it handles one.
HandlesOne ==
  \A s \in Servers : consumer[s].msg = NoMsg <=> consumer[s].pc \in {"receive", "exited"}

\* The copies of a message a server has seen or will see: on the server it
\* came from the one its handler offered, elsewhere at most the one the broker
\* made.
Copies ==
  \A s \in Servers, m \in Msgs :
    /\ s = Origin[m] => offered[s][m] = IF sender[m] = "broadcast" THEN 0 ELSE 1
    /\ s # Origin[m] =>
         offered[s][m] + Count(queue[s], m) + One(consumer[s].msg, m)
           <= IF m \in routed THEN 1 ELSE 0

-----------------------------------------------------------------------------
\* Types.

\* Every step keeps the types of the broker's state.
LEMMA BrokerTypesStep ==
  ASSUME BrokerTypes, Next \/ UNCHANGED vars
  PROVE  BrokerTypes'
<1>1. ASSUME NEW m \in Msgs, BroadcastAndPublish(m)
      PROVE  BrokerTypes'
  <2>1. /\ \E p \in {"publish", "returned"} : sender' = [sender EXCEPT ![m] = p]
        /\ UNCHANGED stage \/ stage' = [stage EXCEPT ![m] = "pending"]
        /\ UNCHANGED <<routed, queue>>
    BY <1>1 DEF BroadcastAndPublish, Offer, PublishRemote, Publish, Move
  <2> QED
    BY <2>1 DEF BrokerTypes
<1>2. ASSUME NEW m \in Msgs, Pipeline(m)
      PROVE  BrokerTypes'
  <2>1. /\ \E to \in {"handed", "dropped"} : stage' = [stage EXCEPT ![m] = to]
        /\ UNCHANGED <<sender, routed, queue>>
    BY <1>2 DEF Pipeline, HandOver, Discard, Move
  <2> QED
    BY <2>1 DEF BrokerTypes
<1>3. ASSUME NEW m \in Msgs, Route(m)
      PROVE  BrokerTypes'
  <2>1. /\ routed' = routed \cup {m} /\ UNCHANGED sendVars
        /\ queue' = [s \in Servers |-> IF Alive(s) THEN Append(queue[s], m) ELSE queue[s]]
    BY <1>3 DEF Route
  <2>2. \A s \in Servers : queue[s] \in Seq(Msgs) /\ Append(queue[s], m) \in Seq(Msgs)
    BY ChannelOps DEF BrokerTypes
  <2> QED
    BY <2>1, <2>2 DEF BrokerTypes, sendVars
<1>4. ASSUME NEW s \in Servers, Receive(s)
      PROVE  BrokerTypes'
  <2>1. /\ UNCHANGED <<sendVars, routed>> /\ queue[s] # <<>>
        /\ queue' = [queue EXCEPT ![s] = Tail(@)]
    BY <1>4 DEF Receive
  <2>2. Tail(queue[s]) \in Seq(Msgs)
    BY <2>1, ChannelOps DEF BrokerTypes
  <2> QED
    BY <2>1, <2>2 DEF BrokerTypes, sendVars
<1>5. ASSUME NEW s \in Servers, Exit(s)
      PROVE  BrokerTypes'
  <2>1. UNCHANGED <<sendVars, routed>> /\ queue' = [queue EXCEPT ![s] = <<>>]
    BY <1>5 DEF Exit
  <2>2. <<>> \in Seq(Msgs)
    OBVIOUS
  <2> QED
    BY <2>1, <2>2 DEF BrokerTypes, sendVars
<1>6. CASE UNCHANGED brokerVars
  BY <1>6 DEF BrokerTypes, brokerVars, sendVars
<1> QED
  BY <1>1, <1>2, <1>3, <1>4, <1>5, <1>6
  DEF Next, vars, Consumer, Accepting, Monitor, NewRabbitMQ, Consume, Cancel, AddLag,
      CountLag, Handle, ConsumerExit, Accept, SwapCount, SwapTotal

\* Every step keeps the types of the servers' state.
LEMMA ServerTypesStep ==
  ASSUME ServerTypes, Next \/ UNCHANGED vars
  PROVE  ServerTypes'
<1>1. ASSUME NEW s \in Servers, NewRabbitMQ(s) \/ Cancel(s) \/ Exit(s) \/ Consume(s)
      PROVE  ServerTypes'
  BY <1>1 DEF ServerTypes, NewRabbitMQ, Cancel, Exit, Consume
<1>2. CASE UNCHANGED <<server, registered>>
  BY <1>2 DEF ServerTypes
<1> QED
  BY <1>1, <1>2
  DEF Next, vars, Consumer, Accepting, Monitor, BroadcastAndPublish, Pipeline, Route,
      Receive, AddLag, CountLag, Handle, ConsumerExit, Accept, SwapCount, SwapTotal

\* Every step keeps the types of the consumers' state, and its deliveries with
\* the consumers that handle them.
LEMMA ConsumerStep ==
  ASSUME BrokerTypes, ServerTypes, ConsumerTypes, HandlesOne, Next \/ UNCHANGED vars
  PROVE  ConsumerTypes' /\ HandlesOne'
<1>0. NoMsg \notin Msgs
  BY DeliveryAssumption
<1>1. ASSUME NEW s \in Servers, NEW m \in Msgs, offered' = [offered EXCEPT ![s][m] = @ + 1]
      PROVE  offered' \in [Servers -> [Msgs -> Nat]]
  BY <1>1 DEF ConsumerTypes
<1>2. ASSUME NEW m \in Msgs, BroadcastAndPublish(m)
      PROVE  ConsumerTypes' /\ HandlesOne'
  <2>1. Origin[m] \in Servers
    BY DeliveryAssumption
  <2> QED
    BY <1>1, <1>2, <2>1 DEF BroadcastAndPublish, Offer, PublishRemote, ConsumerTypes, HandlesOne
<1>3. ASSUME NEW s \in Servers, Receive(s)
      PROVE  ConsumerTypes' /\ HandlesOne'
  <2>1. /\ queue[s] # <<>> /\ UNCHANGED offered
        /\ consumer' = [consumer EXCEPT ![s] =
             [pc |-> "addLag", msg |-> Head(queue[s]), found |-> registered[s]]]
    BY <1>3 DEF Receive
  <2>2. Head(queue[s]) \in Msgs /\ registered[s] \in BOOLEAN
    BY <2>1, ChannelOps DEF BrokerTypes, ServerTypes
  <2> QED
    BY <1>0, <2>1, <2>2 DEF ConsumerTypes, HandlesOne
<1>4. ASSUME NEW s \in Servers, AddLag(s) \/ CountLag(s) \/ ConsumerExit(s)
      PROVE  ConsumerTypes' /\ HandlesOne'
  <2>1. /\ UNCHANGED offered
        /\ \/ /\ consumer[s].pc \in {"addLag", "countLag"}
              /\ \E p \in {"countLag", "handle"} : consumer' = [consumer EXCEPT ![s].pc = p]
           \/ /\ consumer[s].pc = "receive"
              /\ consumer' = [consumer EXCEPT ![s].pc = "exited"]
    BY <1>4 DEF AddLag, CountLag, ConsumerExit
  <2>2. /\ consumer'[s].msg = consumer[s].msg /\ consumer'[s].found = consumer[s].found
        /\ consumer'[s].pc \in {"countLag", "handle", "exited"}
        /\ consumer'[s].pc = "exited" <=> consumer[s].pc = "receive"
        /\ \A t \in Servers \ {s} : consumer'[t] = consumer[t]
    BY <2>1 DEF ConsumerTypes
  <2>3. ConsumerTypes'
    <3>1. ASSUME NEW p \in {"countLag", "handle", "exited"},
                 consumer' = [consumer EXCEPT ![s].pc = p]
          PROVE  ConsumerTypes'
      BY <2>1, <3>1 DEF ConsumerTypes
    <3> QED
      BY <2>1, <3>1
  <2>4. HandlesOne'
    BY <2>1, <2>2 DEF HandlesOne
  <2> QED
    BY <2>3, <2>4
<1>5. ASSUME NEW s \in Servers, Handle(s)
      PROVE  ConsumerTypes' /\ HandlesOne'
  <2> DEFINE m == consumer[s].msg
  <2>1. /\ consumer[s].pc = "handle"
        /\ consumer' = [consumer EXCEPT ![s] = Receiving]
        /\ UNCHANGED offered \/ offered' = [offered EXCEPT ![s][m] = @ + 1]
    BY <1>5 DEF Handle, ConsumeMessages
  <2>2. m \in Msgs
    BY <2>1 DEF ConsumerTypes, HandlesOne
  <2> HIDE DEF m
  <2>3. offered' \in [Servers -> [Msgs -> Nat]]
    BY <1>1, <2>1, <2>2 DEF ConsumerTypes
  <2> QED
    BY <2>1, <2>3 DEF ConsumerTypes, HandlesOne, Receiving
<1>6. CASE UNCHANGED <<consumer, offered>>
  BY <1>6 DEF ConsumerTypes, HandlesOne
<1> QED
  BY <1>2, <1>3, <1>4, <1>5, <1>6
  DEF Next, vars, Consumer, Accepting, Monitor, Pipeline, Route, NewRabbitMQ, Consume,
      Cancel, Exit, Accept, SwapCount, SwapTotal

-----------------------------------------------------------------------------
\* Credits.

\* Every step keeps the sum of the credits, the deliveries being handled or
\* accepted, and the Accepts that failed.
LEMMA CreditStep ==
  ASSUME BrokerTypes, ConsumerTypes, HandlesOne, CreditTypes, CreditsConserved,
         Next \/ UNCHANGED vars
  PROVE  CreditTypes' /\ CreditsConserved'
<1>0. NoMsg \notin Msgs
  BY DeliveryAssumption
<1>1. ASSUME NEW s \in Servers, Receive(s)
      PROVE  CreditTypes' /\ CreditsConserved'
  <2>1. /\ queue[s] # <<>> /\ credits[s] > 0 /\ UNCHANGED <<accepting, unacked>>
        /\ consumer[s].pc = "receive"
        /\ credits' = [credits EXCEPT ![s] = @ - 1]
        /\ consumer' = [consumer EXCEPT ![s] =
             [pc |-> "addLag", msg |-> Head(queue[s]), found |-> registered[s]]]
    BY <1>1 DEF Receive
  <2>2. Head(queue[s]) \in Msgs
    BY <2>1, ChannelOps DEF BrokerTypes
  <2>3. /\ consumer[s].msg = NoMsg /\ consumer'[s].msg # NoMsg
        /\ \A t \in Servers \ {s} : consumer'[t] = consumer[t]
    BY <1>0, <2>1, <2>2 DEF HandlesOne, ConsumerTypes
  <2>4. CreditTypes'
    BY <2>1 DEF CreditTypes
  <2>5. CreditsConserved'
    BY <2>1, <2>3 DEF CreditsConserved, CreditTypes
  <2> QED
    BY <2>4, <2>5
<1>2. ASSUME NEW s \in Servers, AddLag(s) \/ CountLag(s) \/ ConsumerExit(s)
      PROVE  CreditTypes' /\ CreditsConserved'
  <2>1. /\ \E p : consumer' = [consumer EXCEPT ![s].pc = p]
        /\ UNCHANGED <<credits, accepting, unacked>>
    BY <1>2 DEF AddLag, CountLag, ConsumerExit, creditVars
  <2>2. \A t \in Servers : consumer'[t].msg = consumer[t].msg
    BY <2>1 DEF ConsumerTypes
  <2> QED
    BY <2>1, <2>2 DEF CreditTypes, CreditsConserved
<1>3. ASSUME NEW s \in Servers, Handle(s)
      PROVE  CreditTypes' /\ CreditsConserved'
  <2>1. /\ consumer[s].pc = "handle" /\ UNCHANGED <<credits, unacked>>
        /\ accepting' = [accepting EXCEPT ![s] = @ + 1]
        /\ consumer' = [consumer EXCEPT ![s] = Receiving]
    BY <1>3 DEF Handle
  <2>2. /\ consumer[s].msg # NoMsg /\ consumer'[s].msg = NoMsg
        /\ \A t \in Servers \ {s} : consumer'[t] = consumer[t]
    BY <2>1 DEF HandlesOne, ConsumerTypes, Receiving
  <2>3. CreditTypes'
    BY <2>1 DEF CreditTypes
  <2>4. CreditsConserved'
    BY <2>1, <2>2 DEF CreditsConserved, CreditTypes
  <2> QED
    BY <2>3, <2>4
<1>4. ASSUME NEW s \in Servers, NEW ok \in BOOLEAN, Accept(s, ok)
      PROVE  CreditTypes' /\ CreditsConserved'
  <2>1. /\ accepting[s] > 0 /\ accepting' = [accepting EXCEPT ![s] = @ - 1] /\ UNCHANGED consumer
        /\ \/ credits' = [credits EXCEPT ![s] = @ + 1] /\ UNCHANGED unacked
           \/ unacked' = [unacked EXCEPT ![s] = @ + 1] /\ UNCHANGED credits
    BY <1>4 DEF Accept
  <2>2. CreditTypes'
    BY <2>1 DEF CreditTypes
  <2>3. CreditsConserved'
    BY <2>1 DEF CreditsConserved, CreditTypes
  <2> QED
    BY <2>2, <2>3
<1>5. CASE UNCHANGED <<consumer, creditVars>>
  BY <1>5 DEF CreditTypes, CreditsConserved, creditVars
<1> QED
  BY <1>1, <1>2, <1>3, <1>4, <1>5
  DEF Next, vars, Consumer, Accepting, Monitor, BroadcastAndPublish, Pipeline, Route,
      NewRabbitMQ, Consume, Cancel, Exit, SwapCount, SwapTotal

-----------------------------------------------------------------------------
\* Lag samples.

\* Every step keeps reported and pending lag equal to reported and pending
\* samples, but for the sample that is being added.
LEMMA LagStep ==
  ASSUME ConsumerTypes, LagTypes, LagConserved, Next \/ UNCHANGED vars
  PROVE  LagTypes' /\ LagConserved'
<1>2. ASSUME NEW s \in Servers, Receive(s)
      PROVE  LagTypes' /\ LagConserved'
  <2>1. /\ consumer[s].pc = "receive" /\ UNCHANGED lagVars
        /\ consumer' = [consumer EXCEPT ![s] =
             [pc |-> "addLag", msg |-> Head(queue[s]), found |-> registered[s]]]
    BY <1>2 DEF Receive
  <2>2. \A t \in Servers : consumer'[t].pc = "countLag" <=> consumer[t].pc = "countLag"
    BY <2>1 DEF ConsumerTypes
  <2> QED
    BY <2>1, <2>2 DEF LagTypes, LagConserved, lagVars
<1>3. ASSUME NEW s \in Servers, Handle(s) \/ ConsumerExit(s)
      PROVE  LagTypes' /\ LagConserved'
  <2>1. /\ consumer[s].pc \in {"handle", "receive"} /\ UNCHANGED lagVars
        /\ \/ consumer' = [consumer EXCEPT ![s] = Receiving]
           \/ consumer' = [consumer EXCEPT ![s].pc = "exited"]
    BY <1>3 DEF Handle, ConsumerExit
  <2>2. \A t \in Servers : consumer'[t].pc = "countLag" <=> consumer[t].pc = "countLag"
    BY <2>1 DEF ConsumerTypes, Receiving
  <2> QED
    BY <2>1, <2>2 DEF LagTypes, LagConserved, lagVars
<1>4. ASSUME NEW s \in Servers, AddLag(s)
      PROVE  LagTypes' /\ LagConserved'
  <2>1. /\ consumer[s].pc = "addLag" /\ UNCHANGED <<lagCount, monitor, drift>>
        /\ lagTotal' = [lagTotal EXCEPT ![s] = @ + 1]
        /\ consumer' = [consumer EXCEPT ![s].pc = "countLag"]
    BY <1>4 DEF AddLag
  <2>2. consumer'[s].pc = "countLag" /\ \A t \in Servers \ {s} : consumer'[t] = consumer[t]
    BY <2>1 DEF ConsumerTypes
  <2>3. LagTypes'
    BY <2>1 DEF LagTypes
  <2>4. LagConserved'
    BY <2>1, <2>2 DEF LagConserved, LagTypes
  <2> QED
    BY <2>3, <2>4
<1>5. ASSUME NEW s \in Servers, CountLag(s)
      PROVE  LagTypes' /\ LagConserved'
  <2>1. /\ consumer[s].pc = "countLag" /\ UNCHANGED <<lagTotal, monitor, drift>>
        /\ lagCount' = [lagCount EXCEPT ![s] = @ + 1]
        /\ consumer' = [consumer EXCEPT ![s].pc = "handle"]
    BY <1>5 DEF CountLag
  <2>2. consumer'[s].pc = "handle" /\ \A t \in Servers \ {s} : consumer'[t] = consumer[t]
    BY <2>1 DEF ConsumerTypes
  <2>3. LagTypes'
    BY <2>1 DEF LagTypes
  <2>4. LagConserved'
    BY <2>1, <2>2 DEF LagConserved, LagTypes
  <2> QED
    BY <2>3, <2>4
<1>6. ASSUME NEW s \in Servers, SwapCount(s)
      PROVE  LagTypes' /\ LagConserved'
  <2>1. /\ UNCHANGED <<consumer, lagTotal>>
        /\ drift' = [drift EXCEPT ![s] = @ - lagCount[s]]
        /\ lagCount' = [lagCount EXCEPT ![s] = 0]
        /\ monitor' = [monitor EXCEPT ![s] = "swapTotal"]
    BY <1>6 DEF SwapCount
  <2>2. LagTypes'
    BY <2>1 DEF LagTypes
  <2>3. LagConserved'
    BY <2>1 DEF LagConserved, LagTypes
  <2> QED
    BY <2>2, <2>3
<1>7. ASSUME NEW s \in Servers, SwapTotal(s)
      PROVE  LagTypes' /\ LagConserved'
  <2>1. /\ UNCHANGED <<consumer, lagCount>>
        /\ drift' = [drift EXCEPT ![s] = @ + lagTotal[s]]
        /\ lagTotal' = [lagTotal EXCEPT ![s] = 0]
        /\ monitor' = [monitor EXCEPT ![s] = "ticker"]
    BY <1>7 DEF SwapTotal
  <2>2. LagTypes'
    BY <2>1 DEF LagTypes
  <2>3. LagConserved'
    BY <2>1 DEF LagConserved, LagTypes
  <2> QED
    BY <2>2, <2>3
<1>8. CASE UNCHANGED <<consumer, lagVars>>
  BY <1>8 DEF LagTypes, LagConserved, lagVars
<1> QED
  BY <1>2, <1>3, <1>4, <1>5, <1>6, <1>7, <1>8
  DEF Next, vars, Consumer, Accepting, Monitor, BroadcastAndPublish, Pipeline, Route,
      NewRabbitMQ, Consume, Cancel, Exit, Accept

-----------------------------------------------------------------------------
\* At most once.

\* No step makes a second copy of a message for a server.
LEMMA CopiesStep ==
  ASSUME BrokerTypes, ConsumerTypes, HandlesOne, Copies, Next \/ UNCHANGED vars
  PROVE  Copies'
<1> SUFFICES ASSUME NEW t \in Servers, NEW m \in Msgs
             PROVE  /\ t = Origin[m] =>
                         offered'[t][m] = IF sender'[m] = "broadcast" THEN 0 ELSE 1
                    /\ t # Origin[m] =>
                         offered'[t][m] + Count(queue'[t], m) + One(consumer'[t].msg, m)
                           <= IF m \in routed' THEN 1 ELSE 0
  BY DEF Copies
<1> DEFINE Goal == /\ t = Origin[m] =>
                        offered'[t][m] = IF sender'[m] = "broadcast" THEN 0 ELSE 1
                   /\ t # Origin[m] =>
                        offered'[t][m] + Count(queue'[t], m) + One(consumer'[t].msg, m)
                          <= IF m \in routed' THEN 1 ELSE 0
<1>a. /\ t = Origin[m] => offered[t][m] = IF sender[m] = "broadcast" THEN 0 ELSE 1
      /\ t # Origin[m] => offered[t][m] + Count(queue[t], m) + One(consumer[t].msg, m)
                            <= IF m \in routed THEN 1 ELSE 0
  BY DEF Copies
<1>b. offered[t][m] \in Nat /\ queue[t] \in Seq(Msgs) /\ Count(queue[t], m) \in Nat
  BY CountOps DEF ConsumerTypes, BrokerTypes
<1>c. \A x, y : One(x, y) \in {0, 1} /\ (x = y => One(x, y) = 1) /\ (x # y => One(x, y) = 0)
  BY DEF One
<1>d. NoMsg \notin Msgs
  BY DeliveryAssumption
<1>1. ASSUME UNCHANGED <<sender, routed, offered>>, queue'[t] = queue[t],
             consumer'[t].msg = consumer[t].msg
      PROVE  Goal
  BY <1>a, <1>1
<1>2. ASSUME NEW x \in Msgs, BroadcastAndPublish(x)
      PROVE  Goal
  <2>1. UNCHANGED <<routed, queue, consumer>>
    BY <1>2 DEF BroadcastAndPublish
  <2>2. CASE /\ sender[x] = "broadcast" /\ sender' = [sender EXCEPT ![x] = "publish"]
             /\ Offer(x)
    <3>1. offered' = [offered EXCEPT ![Origin[x]][x] = @ + 1]
      BY <2>2 DEF Offer
    <3>2. CASE t = Origin[m] /\ m = x
      <4>1. offered'[t][m] = offered[t][m] + 1 /\ sender'[m] = "publish"
        BY <3>1, <3>2, <2>2 DEF ConsumerTypes, BrokerTypes
      <4> QED
        BY <4>1, <2>2, <3>2, <1>a
    <3>3. CASE ~(t = Origin[m] /\ m = x)
      <4>1. offered'[t][m] = offered[t][m] /\ (m # x => sender'[m] = sender[m])
        BY <3>1, <3>3, <2>2 DEF ConsumerTypes, BrokerTypes
      <4> QED
        BY <4>1, <2>1, <3>3, <1>a
    <3> QED
      BY <3>2, <3>3
  <2>3. CASE /\ sender[x] = "publish" /\ sender' = [sender EXCEPT ![x] = "returned"]
             /\ PublishRemote(x)
    <3>1. UNCHANGED offered /\ (sender'[m] = "broadcast" <=> sender[m] = "broadcast")
      BY <2>3 DEF PublishRemote, BrokerTypes
    <3> QED
      BY <3>1, <2>1, <1>a
  <2> QED
    BY <1>2, <2>2, <2>3 DEF BroadcastAndPublish
<1>4. ASSUME NEW x \in Msgs, Route(x)
      PROVE  Goal
  <2>1. /\ x \notin routed /\ routed' = routed \cup {x}
        /\ queue'[t] = queue[t] \/ queue'[t] = Append(queue[t], x)
        /\ UNCHANGED <<sender, consumer, offered>>
    BY <1>4 DEF Route, sendVars
  <2>2. Count(queue'[t], m) = Count(queue[t], m) \/ Count(queue'[t], m) = Count(queue[t], m) + One(x, m)
    <3>1. Count(Append(queue[t], x), m) = Count(queue[t], m) + One(x, m)
      BY <1>b, CountOps
    <3> QED
      BY <2>1, <3>1
  <2>3. One(x, m) = IF x = m THEN 1 ELSE 0
    BY DEF One
  <2>4. One(consumer[t].msg, m) \in {0, 1}
    BY <1>c
  <2>5. Count(queue'[t], m) \in {Count(queue[t], m), Count(queue[t], m) + One(x, m)}
    BY <2>2
  <2>6. CASE x = m
    BY <2>1, <2>3, <2>4, <2>5, <2>6, <1>a, <1>b
  <2>7. CASE x # m
    BY <2>1, <2>3, <2>4, <2>5, <2>7, <1>a, <1>b
  <2> QED
    BY <2>6, <2>7
<1>5. ASSUME NEW s \in Servers, Exit(s)
      PROVE  Goal
  <2>1. /\ UNCHANGED <<sender, routed, consumer, offered>>
        /\ queue'[t] = queue[t] \/ queue'[t] = <<>>
    BY <1>5 DEF Exit, BrokerTypes, sendVars
  <2>2. Count(queue'[t], m) = Count(queue[t], m) \/ Count(queue'[t], m) = 0
    BY <2>1, CountEmpty
  <2>3. One(consumer[t].msg, m) \in {0, 1}
    BY <1>c
  <2> QED
    BY <2>1, <2>2, <2>3, <1>a, <1>b
<1>6. ASSUME NEW s \in Servers, Receive(s)
      PROVE  Goal
  <2>1. /\ queue[s] # <<>> /\ queue' = [queue EXCEPT ![s] = Tail(@)]
        /\ consumer[s].pc = "receive"
        /\ consumer' = [consumer EXCEPT ![s] =
             [pc |-> "addLag", msg |-> Head(queue[s]), found |-> registered[s]]]
        /\ UNCHANGED <<sender, routed, offered>>
    BY <1>6 DEF Receive, sendVars
  <2>2. CASE t # s
    BY <2>1, <2>2, <1>1 DEF ConsumerTypes, BrokerTypes
  <2>3. CASE t = s
    <3>1. /\ consumer[t].msg = NoMsg /\ consumer'[t].msg = Head(queue[t])
          /\ queue'[t] = Tail(queue[t]) /\ queue[t] # <<>>
      BY <2>1, <2>3 DEF HandlesOne, ConsumerTypes, BrokerTypes
    <3>2. Count(queue[t], m) = Count(queue'[t], m) + One(consumer'[t].msg, m)
      BY <3>1, <1>b, CountOps
    <3>3. Count(queue'[t], m) \in Nat
      BY <3>1, <1>b, ChannelOps, CountOps
    <3>4. One(consumer'[t].msg, m) \in {0, 1} /\ One(consumer[t].msg, m) = 0
      BY <3>1, <1>c, <1>d
    <3> QED
      BY <3>2, <3>3, <3>4, <2>1, <1>a, <1>b
  <2> QED
    BY <2>2, <2>3
<1>7. ASSUME NEW s \in Servers, AddLag(s) \/ CountLag(s) \/ ConsumerExit(s)
      PROVE  Goal
  <2>1. /\ UNCHANGED <<sender, routed, queue, offered>>
        /\ \E p : consumer' = [consumer EXCEPT ![s].pc = p]
    BY <1>7 DEF AddLag, CountLag, ConsumerExit, brokerVars, sendVars
  <2>2. consumer'[t].msg = consumer[t].msg
    BY <2>1 DEF ConsumerTypes
  <2> QED
    BY <2>1, <2>2, <1>1
<1>8. ASSUME NEW s \in Servers, Handle(s)
      PROVE  Goal
  <2> DEFINE x == consumer[s].msg
  <2>1. /\ UNCHANGED <<sender, routed, queue>> /\ consumer[s].pc = "handle"
        /\ consumer' = [consumer EXCEPT ![s] = Receiving]
        /\ \/ UNCHANGED offered
           \/ s # Origin[x] /\ offered' = [offered EXCEPT ![s][x] = @ + 1]
    BY <1>8 DEF Handle, ConsumeMessages, brokerVars, sendVars
  <2>2. x \in Msgs
    BY <2>1 DEF ConsumerTypes, HandlesOne
  <2>3. CASE t # s
    <3>1. offered'[t] = offered[t] /\ consumer'[t] = consumer[t]
      BY <2>1, <2>3 DEF ConsumerTypes
    <3> QED
      BY <3>1, <2>1, <1>a
  <2>4. CASE t = s /\ x # m
    <3>1. consumer'[t].msg = NoMsg /\ offered'[t][m] = offered[t][m]
      BY <2>1, <2>2, <2>4 DEF ConsumerTypes, Receiving
    <3>2. One(consumer'[t].msg, m) = 0 /\ One(consumer[t].msg, m) = 0
      BY <3>1, <2>4, <1>c, <1>d
    <3> QED
      BY <3>1, <3>2, <2>1, <1>a
  <2>5. CASE t = s /\ x = m
    <3>1. /\ consumer'[t].msg = NoMsg
          /\ offered'[t][m] = offered[t][m]
             \/ (t # Origin[m] /\ offered'[t][m] = offered[t][m] + 1)
      BY <2>1, <2>2, <2>5 DEF ConsumerTypes, Receiving
    <3>2. One(consumer'[t].msg, m) = 0 /\ One(consumer[t].msg, m) = 1
      BY <3>1, <2>5, <1>c, <1>d
    <3>3. UNCHANGED <<sender, routed>> /\ queue'[t] = queue[t]
      BY <2>1
    <3> QED
      BY <3>1, <3>2, <3>3, <1>a, <1>b
  <2> QED
    BY <2>3, <2>4, <2>5
<1>9. CASE UNCHANGED <<brokerVars, consumer, offered>>
  BY <1>1, <1>9 DEF brokerVars, sendVars
<1> QED
  BY <1>1, <1>2, <1>4, <1>5, <1>6, <1>7, <1>8, <1>9
  DEF Next, vars, Consumer, Accepting, Monitor, NewRabbitMQ, Consume, Cancel, Pipeline,
      Accept, SwapCount, SwapTotal

-----------------------------------------------------------------------------
\* What the broker has taken was handed over, and what has left its handler's
\* hands was published by it.
RoutedPublished ==
  /\ \A m \in routed : stage[m] = "handed"
  /\ \A m \in Msgs : sender[m] # "returned" => stage[m] = "new"

\* The publisher takes nothing back, and has nothing that its handler has not
\* published.
LEMMA RoutedStep ==
  ASSUME BrokerTypes, RoutedPublished, Next \/ UNCHANGED vars
  PROVE  RoutedPublished'
<1>1. ASSUME NEW x \in Msgs, BroadcastAndPublish(x)
      PROVE  RoutedPublished'
  <2>1. UNCHANGED routed
    BY <1>1 DEF BroadcastAndPublish
  <2>2. CASE sender' = [sender EXCEPT ![x] = "publish"] /\ sender[x] = "broadcast" /\ Offer(x)
    BY <2>1, <2>2 DEF Offer, BrokerTypes, RoutedPublished
  <2>3. CASE sender' = [sender EXCEPT ![x] = "returned"] /\ PublishRemote(x)
    <3>1. stage[x] = "new" /\ stage' = [stage EXCEPT ![x] = "pending"]
      BY <2>3 DEF PublishRemote, Publish, Move
    <3> QED
      BY <3>1, <2>1, <2>3 DEF BrokerTypes, RoutedPublished
  <2> QED
    BY <1>1, <2>2, <2>3 DEF BroadcastAndPublish
<1>2. ASSUME NEW x \in Msgs, Pipeline(x)
      PROVE  RoutedPublished'
  <2>1. /\ stage[x] = "pending" /\ UNCHANGED <<sender, routed>>
        /\ \E to : stage' = [stage EXCEPT ![x] = to]
    BY <1>2 DEF Pipeline, HandOver, Discard, Move
  <2> QED
    BY <2>1 DEF BrokerTypes, RoutedPublished
<1>3. ASSUME NEW x \in Msgs, Route(x)
      PROVE  RoutedPublished'
  BY <1>3 DEF Route, RoutedPublished, sendVars
<1>4. CASE UNCHANGED <<sender, stage, routed>>
  BY <1>4 DEF RoutedPublished
<1> QED
  BY <1>1, <1>2, <1>3, <1>4
  DEF Next, vars, brokerVars, sendVars, Consumer, Accepting, Monitor, NewRabbitMQ, Consume,
      Cancel, Exit, Receive, AddLag, CountLag, Handle, ConsumerExit, Accept, SwapCount,
      SwapTotal

-----------------------------------------------------------------------------
\* The inductive invariant.
IInv ==
  /\ BrokerTypes /\ ServerTypes /\ ConsumerTypes /\ CreditTypes /\ LagTypes
  /\ HandlesOne
  /\ Copies
  /\ CreditsConserved
  /\ LagConserved

\* It holds of the initial states.
LEMMA InitInv == Init => IInv
<1> SUFFICES ASSUME Init PROVE IInv
  OBVIOUS
<1>0. NoMsg \notin Msgs /\ Credits \in Nat \ {0}
  BY DeliveryAssumption
<1>1. <<>> \in Seq(Msgs)
  OBVIOUS
<1>2. BrokerTypes /\ ServerTypes
  BY <1>1 DEF Init, PublisherInit, BrokerTypes, ServerTypes
<1>3. ConsumerTypes /\ HandlesOne
  BY DEF Init, Receiving, ConsumerTypes, HandlesOne
<1>4. CreditTypes /\ CreditsConserved
  BY <1>0 DEF Init, Receiving, CreditTypes, CreditsConserved
<1>5. LagTypes /\ LagConserved
  BY DEF Init, Receiving, LagTypes, LagConserved
<1>6. Copies
  <2>1. ASSUME NEW s \in Servers, NEW m \in Msgs
        PROVE  /\ offered[s][m] = 0 /\ sender[m] = "broadcast" /\ routed = {}
               /\ Count(queue[s], m) = 0 /\ One(consumer[s].msg, m) = 0
    BY <1>0, CountEmpty DEF Init, PublisherInit, Receiving, One
  <2> QED
    BY <2>1 DEF Copies
<1> QED
  BY <1>2, <1>3, <1>4, <1>5, <1>6 DEF IInv

\* Every step keeps it.
LEMMA StepInv == IInv /\ [Next]_vars => IInv'
BY BrokerTypesStep, ServerTypesStep, ConsumerStep, CreditStep, LagStep, CopiesStep DEF IInv

\* It holds in every reachable state.
LEMMA Invariant == Spec => []IInv
BY InitInv, StepInv, PTL DEF Spec

-----------------------------------------------------------------------------
\* Every variable has its type; a consumer never has more than its credits.
THEOREM Types == Spec => []TypeOK
<1>1. ASSUME IInv
      PROVE  credits \in [Servers -> 0 .. Credits]
  <2>1. ASSUME NEW s \in Servers
        PROVE  credits[s] \in 0 .. Credits
    <3>1. credits[s] \in Nat /\ accepting[s] \in Nat /\ unacked[s] \in Nat
      BY <1>1 DEF IInv, CreditTypes
    <3>2. credits[s] + accepting[s] + unacked[s]
            + (IF consumer[s].msg = NoMsg THEN 0 ELSE 1) = Credits
      BY <1>1 DEF IInv, CreditsConserved
    <3> QED
      BY <3>1, <3>2, DeliveryAssumption
  <2> QED
    BY <1>1, <2>1 DEF IInv, CreditTypes
<1>2. IInv => TypeOK
  BY <1>1 DEF IInv, BrokerTypes, ServerTypes, ConsumerTypes, CreditTypes, LagTypes, TypeOK
<1> QED
  BY <1>2, Invariant, PTL

\* From a handler's broadcastAndPublish to the rooms of all servers: no room is
\* offered a message twice, whatever the broker and shutdown do.
THEOREM AtMostOnce == Spec => []AtMostOnceInRoom
<1>1. ASSUME IInv, NEW s \in Servers, NEW m \in Msgs
      PROVE  offered[s][m] <= 1
  <2>1. offered[s][m] \in Nat /\ Count(queue[s], m) \in Nat
    BY <1>1, CountOps DEF IInv, ConsumerTypes, BrokerTypes
  <2>2. One(consumer[s].msg, m) \in {0, 1}
    BY DEF One
  <2>3. CASE s = Origin[m]
    <3>1. offered[s][m] = IF sender[m] = "broadcast" THEN 0 ELSE 1
      BY <1>1, <2>3 DEF IInv, Copies
    <3> QED
      BY <3>1
  <2>4. CASE s # Origin[m]
    <3>1. offered[s][m] + Count(queue[s], m) + One(consumer[s].msg, m)
            <= IF m \in routed THEN 1 ELSE 0
      BY <1>1, <2>4 DEF IInv, Copies
    <3> QED
      BY <3>1, <2>1, <2>2
  <2> QED
    BY <2>3, <2>4
<1>2. IInv => AtMostOnceInRoom
  BY <1>1 DEF AtMostOnceInRoom
<1> QED
  BY <1>2, Invariant, PTL

\* Another server's room sees a message only after its sender's room has been
\* offered it: the broker has it from a worker, the worker from the handler, and
\* the handler publishes last.
THEOREM CauseFirst == Spec => []RemoteFollowsLocal
<1>1. Init => RoutedPublished
  BY DEF Init, PublisherInit, RoutedPublished
<1>2. IInv /\ RoutedPublished /\ [Next]_vars => RoutedPublished'
  BY RoutedStep DEF IInv
<1>3. ASSUME IInv, RoutedPublished, NEW s \in Servers, NEW m \in Msgs,
             s # Origin[m], offered[s][m] > 0
      PROVE  offered[Origin[m]][m] = 1
  <2>1. offered[s][m] \in Nat /\ Count(queue[s], m) \in Nat /\ One(consumer[s].msg, m) \in {0, 1}
    BY <1>3, CountOps DEF IInv, ConsumerTypes, BrokerTypes, One
  <2>2. offered[s][m] + Count(queue[s], m) + One(consumer[s].msg, m)
          <= IF m \in routed THEN 1 ELSE 0
    BY <1>3 DEF IInv, Copies
  <2>3. m \in routed
    BY <1>3, <2>1, <2>2
  <2>4. sender[m] = "returned"
    BY <1>3, <2>3 DEF RoutedPublished
  <2>5. Origin[m] \in Servers
    BY DeliveryAssumption
  <2>6. offered[Origin[m]][m] = IF sender[m] = "broadcast" THEN 0 ELSE 1
    BY <1>3, <2>5 DEF IInv, Copies
  <2> QED
    BY <2>4, <2>6
<1>4. IInv /\ RoutedPublished => RemoteFollowsLocal
  BY <1>3 DEF RemoteFollowsLocal
<1> QED
  BY <1>1, <1>2, <1>4, Invariant, PTL DEF Spec

\* The consumer goroutines lose no credit but through Accepts that fail.
THEOREM CreditsKept == Spec => []CreditsConserved
<1>1. IInv => CreditsConserved
  BY DEF IInv
<1> QED
  BY <1>1, Invariant, PTL

\* The lag monitor's two swaps lose no sample.
THEOREM LagKept == Spec => []LagConserved
<1>1. IInv => LagConserved
  BY DEF IInv
<1> QED
  BY <1>1, Invariant, PTL

=============================================================================
