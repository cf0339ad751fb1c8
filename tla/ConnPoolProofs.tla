--------------------------- MODULE ConnPoolProofs ---------------------------
(***************************************************************************)
(* Theorems about ConnPool for any callers, any keys, shared or not, and   *)
(* any number of slots.                                                    *)
(***************************************************************************)
EXTENDS ConnPool, FiniteSetTheorems, TLAPS

\* The types of the variables, the semaphore's range apart: that one rests on
\* SlotsBalance.
Types ==
  /\ pc \in [Callers -> {"idle", "acquire", "dial", "insert", "discard", "join",
                         "session", "close", "await", "abandoned", "done"}]
  /\ using \in [Callers -> Callers \cup {NoConn}]
  /\ removing \in [Callers -> Callers \cup {NoConn}]
  /\ conns \in [Keys -> Callers \cup {NoConn}]
  /\ conn \in [Callers -> {"none", "open", "closed"}]
  /\ sendClosed \in [Callers -> BOOLEAN]
  /\ closedAll \in BOOLEAN

\* CloseAll runs when every session is over.
OverWhenClosed == closedAll => \A c \in Callers : pc[c] \in {"done", "abandoned"}

IInv ==
  /\ Types
  /\ sem \in 0 .. PoolSize
  /\ OverWhenClosed
  /\ SlotsBalance
  /\ NoOrphanConnection

-----------------------------------------------------------------------------
\* Counting connections.

\* The counted sets are finite, so their sizes are numbers.
LEMMA CountedFinite ==
  /\ IsFiniteSet(Pooled) /\ Cardinality(Pooled) \in Nat
  /\ IsFiniteSet(InTransit) /\ Cardinality(InTransit) \in Nat
<1>1. Pooled \in SUBSET Keys /\ InTransit \in SUBSET Callers
  BY DEF Pooled, InTransit
<1>2. IsFiniteSet(Pooled) /\ IsFiniteSet(InTransit)
  BY <1>1, FS_Subset, ConnPoolAssumption
<1> QED
  BY <1>2, FS_CardinalityType

\* A connection that holds a slot outside the pool is counted in sem.
LEMMA TransitCounted ==
  ASSUME IInv, NEW c \in InTransit
  PROVE  /\ ~closedAll
         /\ sem > 0
         /\ sem = Cardinality(Pooled) + Cardinality(InTransit)
<1>1. ~closedAll
  BY DEF IInv, OverWhenClosed, InTransit
<1>2. Cardinality(InTransit \ {c}) = Cardinality(InTransit) - 1
      /\ Cardinality(InTransit \ {c}) \in Nat
  BY CountedFinite, FS_RemoveElement, FS_CardinalityType
<1> QED
  BY <1>1, <1>2, CountedFinite DEF IInv, SlotsBalance

\* A caller that returns its slot keeps the count.
LEMMA LeaveTransit ==
  ASSUME IInv, NEW c \in InTransit,
         sem' = sem - 1, Pooled' = Pooled, InTransit' = InTransit \ {c}
  PROVE  sem' \in 0 .. PoolSize /\ SlotsBalance'
<1>1. Cardinality(InTransit \ {c}) = Cardinality(InTransit) - 1
  BY CountedFinite, FS_RemoveElement
<1> QED
  BY <1>1, TransitCounted, CountedFinite, ConnPoolAssumption DEF IInv, SlotsBalance

\* A step that moves no connection and leaves sem alone keeps the count.
LEMMA SameCount ==
  ASSUME IInv, sem' = sem, Pooled' = Pooled, InTransit' = InTransit,
         closedAll' = closedAll
  PROVE  sem' \in 0 .. PoolSize /\ SlotsBalance'
  BY DEF IInv, SlotsBalance

-----------------------------------------------------------------------------
\* The inductive invariant.

\* The invariant holds initially: nothing is connected and no slot is taken.
LEMMA InvInit == Init => IInv
<1> SUFFICES ASSUME Init PROVE IInv
  OBVIOUS
<1>1. Types /\ OverWhenClosed
  BY DEF Init, Types, OverWhenClosed
<1>4. sem \in 0 .. PoolSize
  BY ConnPoolAssumption DEF Init
<1>5. NoOrphanConnection
  BY DEF Init, NoOrphanConnection
<1>2. Pooled = {} /\ InTransit = {} /\ sem = 0
  BY DEF Init, Pooled, InTransit
<1>3. SlotsBalance
  BY <1>2, FS_EmptySet DEF SlotsBalance
<1> QED
  BY <1>1, <1>3, <1>4, <1>5 DEF IInv

\* Every step keeps the types, and the test stays over once CloseAll has run.
LEMMA TypeStep == IInv /\ [Next]_vars => Types' /\ OverWhenClosed'
<1> SUFFICES ASSUME IInv, [Next]_vars PROVE Types' /\ OverWhenClosed'
  OBVIOUS
<1> USE DEF IInv, Types, OverWhenClosed, poolVars, connVars
<1>1. ASSUME NEW c \in Callers, GetOrCreate(c) PROVE Types' /\ OverWhenClosed'
  BY <1>1, ConnPoolAssumption
  DEF GetOrCreate, Lookup, Acquire, DialFails, Dial, Insert, Discard, Uses
<1>2. ASSUME NEW c \in Callers, Session(c) PROVE Types' /\ OverWhenClosed'
  BY <1>2, ConnPoolAssumption DEF Session, Join, JoinError, Remove, CloseRemoved, Done
<1>3. ASSUME NEW c \in Callers, ReadEnds(c) PROVE Types' /\ OverWhenClosed'
  BY <1>3 DEF ReadEnds
<1>4. CASE CloseAll
  BY <1>4 DEF CloseAll
<1>5. CASE UNCHANGED vars
  BY <1>5 DEF vars
<1> QED
  BY <1>1, <1>2, <1>3, <1>4, <1>5 DEF Next, Terminated

\* Every step keeps the semaphore in its range and equal to the number of
\* connections that hold a slot.
LEMMA CountStep == IInv /\ [Next]_vars => sem' \in 0 .. PoolSize /\ SlotsBalance'
<1> SUFFICES ASSUME IInv, [Next]_vars PROVE sem' \in 0 .. PoolSize /\ SlotsBalance'
  OBVIOUS
<1>t. Types
  BY DEF IInv
<1>1. ASSUME NEW c \in Callers, Lookup(c) PROVE sem' \in 0 .. PoolSize /\ SlotsBalance'
  <2>1. sem' = sem /\ Pooled' = Pooled /\ closedAll' = closedAll
    BY <1>1 DEF Lookup, poolVars, Pooled
  <2>2. InTransit' = InTransit
    BY <1>1, <1>t DEF Lookup, InTransit, Types
  <2> QED
    BY <2>1, <2>2, SameCount
<1>2. ASSUME NEW c \in Callers, Acquire(c) PROVE sem' \in 0 .. PoolSize /\ SlotsBalance'
  <2>1. Pooled' = Pooled /\ sem' = sem + 1 /\ sem < PoolSize /\ closedAll' = closedAll
    BY <1>2 DEF Acquire, Pooled
  <2>2. c \notin InTransit /\ InTransit' = InTransit \cup {c}
    BY <1>2, <1>t DEF Acquire, InTransit, Types
  <2>3. Cardinality(InTransit') = Cardinality(InTransit) + 1
    BY <2>2, CountedFinite, FS_AddElement
  <2>4. sem' \in 0 .. PoolSize
    BY <2>1, ConnPoolAssumption DEF IInv
  <2>5. SlotsBalance'
    BY <2>1, <2>3, CountedFinite DEF IInv, SlotsBalance
  <2> QED
    BY <2>4, <2>5
<1>3. ASSUME NEW c \in Callers, DialFails(c) \/ Discard(c)
      PROVE  sem' \in 0 .. PoolSize /\ SlotsBalance'
  <2>1. Pooled' = Pooled /\ sem' = sem - 1
    BY <1>3 DEF DialFails, Discard, Pooled
  <2>2. c \in InTransit /\ InTransit' = InTransit \ {c}
    BY <1>3, <1>t DEF DialFails, Discard, InTransit, Types
  <2> QED
    BY <2>1, <2>2, LeaveTransit
<1>4. ASSUME NEW c \in Callers, Dial(c) PROVE sem' \in 0 .. PoolSize /\ SlotsBalance'
  <2>1. sem' = sem /\ Pooled' = Pooled /\ closedAll' = closedAll
    BY <1>4 DEF Dial, poolVars, Pooled
  <2>2. InTransit' = InTransit
    BY <1>4, <1>t DEF Dial, InTransit, Types
  <2> QED
    BY <2>1, <2>2, SameCount
<1>5. ASSUME NEW c \in Callers, Insert(c) PROVE sem' \in 0 .. PoolSize /\ SlotsBalance'
  <2>1. sem' = sem /\ closedAll' = closedAll /\ c \in InTransit
    BY <1>5 DEF Insert, InTransit
  <2>2. CASE conns[KeyOf[c]] # NoConn
    <3>1. Pooled' = Pooled
      BY <1>5, <2>2 DEF Insert, Pooled
    <3>2. InTransit' = InTransit
      BY <1>5, <1>t, <2>2 DEF Insert, InTransit, Types
    <3> QED
      BY <2>1, <3>1, <3>2, SameCount
  <2>3. CASE conns[KeyOf[c]] = NoConn
    <3>1. KeyOf[c] \in Keys \ Pooled /\ Pooled' = Pooled \cup {KeyOf[c]}
      BY <1>5, <1>t, <2>3, ConnPoolAssumption DEF Insert, Pooled, Types
    <3>2. InTransit' = InTransit \ {c}
      BY <1>5, <1>t, <2>3 DEF Insert, InTransit, Types
    <3>3. Cardinality(Pooled') = Cardinality(Pooled) + 1
      BY <3>1, CountedFinite, FS_AddElement
    <3>4. Cardinality(InTransit') = Cardinality(InTransit) - 1
      BY <2>1, <3>2, CountedFinite, FS_RemoveElement
    <3> QED
      BY <2>1, <3>3, <3>4, CountedFinite DEF IInv, SlotsBalance
  <2> QED
    BY <2>2, <2>3
<1>6. ASSUME NEW c \in Callers, Join(c) \/ JoinError(c) \/ Done(c)
      PROVE  sem' \in 0 .. PoolSize /\ SlotsBalance'
  <2>1. sem' = sem /\ Pooled' = Pooled /\ closedAll' = closedAll
    BY <1>6 DEF Join, JoinError, Done, poolVars, Pooled
  <2>2. InTransit' = InTransit
    BY <1>6, <1>t DEF Join, JoinError, Done, InTransit, Types
  <2> QED
    BY <2>1, <2>2, SameCount
<1>7. ASSUME NEW c \in Callers, Remove(c) PROVE sem' \in 0 .. PoolSize /\ SlotsBalance'
  <2>1. sem' = sem /\ closedAll' = closedAll /\ c \notin InTransit
    BY <1>7 DEF Remove, InTransit
  <2>2. CASE conns[KeyOf[c]] # NoConn
    <3>1. KeyOf[c] \in Pooled /\ Pooled' = Pooled \ {KeyOf[c]}
      BY <1>7, <1>t, <2>2, ConnPoolAssumption DEF Remove, Pooled, Types
    <3>2. InTransit' = InTransit \cup {c}
      BY <1>7, <1>t, <2>2 DEF Remove, InTransit, Types
    <3>3. Cardinality(Pooled') = Cardinality(Pooled) - 1
      BY <3>1, CountedFinite, FS_RemoveElement
    <3>4. Cardinality(InTransit') = Cardinality(InTransit) + 1
      BY <2>1, <3>2, CountedFinite, FS_AddElement
    <3> QED
      BY <2>1, <3>3, <3>4, CountedFinite DEF IInv, SlotsBalance
  <2>3. CASE conns[KeyOf[c]] = NoConn
    <3>1. Pooled' = Pooled
      BY <1>7, <1>t, <2>3, ConnPoolAssumption DEF Remove, Pooled, Types
    <3>2. InTransit' = InTransit
      BY <1>7, <1>t, <2>3 DEF Remove, InTransit, Types
    <3> QED
      BY <2>1, <3>1, <3>2, SameCount
  <2> QED
    BY <2>2, <2>3
<1>8. ASSUME NEW c \in Callers, CloseRemoved(c) PROVE sem' \in 0 .. PoolSize /\ SlotsBalance'
  <2>1. Pooled' = Pooled /\ sem' = sem - 1
    BY <1>8 DEF CloseRemoved, Pooled
  <2>2. c \in InTransit /\ InTransit' = InTransit \ {c}
    BY <1>8, <1>t DEF CloseRemoved, InTransit, Types
  <2> QED
    BY <2>1, <2>2, LeaveTransit
<1>9. CASE CloseAll
  BY <1>9 DEF CloseAll, IInv, SlotsBalance
<1>10. CASE (\E c \in Callers : ReadEnds(c)) \/ UNCHANGED vars
  <2>1. sem' = sem /\ Pooled' = Pooled /\ InTransit' = InTransit /\ closedAll' = closedAll
    BY <1>10 DEF ReadEnds, vars, poolVars, Pooled, InTransit
  <2> QED
    BY <2>1, SameCount
<1> QED
  BY <1>1, <1>2, <1>3, <1>4, <1>5, <1>6, <1>7, <1>8, <1>9, <1>10
  DEF Next, GetOrCreate, Session, Terminated

\* Where an open connection is known to be.
Kept(x) ==
  \/ conns[KeyOf[x]] = x
  \/ pc[x] \in {"insert", "discard"}
  \/ \E c \in Callers : pc[c] = "close" /\ removing[c] = x

\* Every step keeps track of every open connection.
LEMMA OrphanStep == IInv /\ [Next]_vars => NoOrphanConnection'
<1> SUFFICES ASSUME IInv, [Next]_vars, NEW x \in Callers, (conn[x] = "open")'
             PROVE  Kept(x)'
  BY DEF NoOrphanConnection, Kept
<1>t. Types /\ NoConn \notin Callers /\ KeyOf \in [Callers -> Keys]
  BY ConnPoolAssumption DEF IInv
<1>k. conn[x] = "open" => Kept(x)
  BY DEF IInv, NoOrphanConnection, Kept
<1>1. ASSUME NEW c \in Callers, Lookup(c) \/ Acquire(c) \/ DialFails(c) PROVE Kept(x)'
  <2>1. conn' = conn /\ conns' = conns /\ removing' = removing
    BY <1>1 DEF Lookup, Acquire, DialFails, poolVars, connVars
  <2>2. \A d \in Callers : pc[d] \in {"insert", "discard", "close"} => pc'[d] = pc[d]
    BY <1>1, <1>t DEF Lookup, Acquire, DialFails, Types
  <2> QED
    BY <1>k, <2>1, <2>2 DEF Kept
<1>2. ASSUME NEW c \in Callers, Dial(c) PROVE Kept(x)'
  <2>1. conns' = conns /\ removing' = removing /\ pc'[c] = "insert"
    BY <1>2, <1>t DEF Dial, poolVars, Types
  <2>2. \A d \in Callers : d # c => pc'[d] = pc[d] /\ conn'[d] = conn[d]
    BY <1>2, <1>t DEF Dial, Types
  <2>3. pc[c] = "dial"
    BY <1>2 DEF Dial
  <2> QED
    BY <1>k, <2>1, <2>2, <2>3 DEF Kept
<1>3. ASSUME NEW c \in Callers, Insert(c) PROVE Kept(x)'
  <2>1. conn' = conn /\ removing' = removing /\ pc[c] = "insert"
    BY <1>3 DEF Insert, connVars
  <2>2. \A d \in Callers : d # c => pc'[d] = pc[d]
    BY <1>3, <1>t DEF Insert, Types
  <2>3. pc'[c] = "discard" \/ conns'[KeyOf[c]] = c
    BY <1>3, <1>t DEF Insert, Types
  <2>4. \A k \in Keys : conns[k] # NoConn => conns'[k] = conns[k]
    BY <1>3, <1>t DEF Insert, Types
  <2> QED
    BY <1>k, <1>t, <2>1, <2>2, <2>3, <2>4 DEF Kept
<1>4. ASSUME NEW c \in Callers, Discard(c) PROVE Kept(x)'
  <2>1. conns' = conns /\ removing' = removing /\ pc[c] = "discard"
    BY <1>4 DEF Discard
  <2>2. conn'[c] = "closed" /\ \A d \in Callers : d # c => pc'[d] = pc[d] /\ conn'[d] = conn[d]
    BY <1>4, <1>t DEF Discard, Types
  <2> QED
    BY <1>k, <2>1, <2>2 DEF Kept
<1>5. ASSUME NEW c \in Callers, Join(c) \/ JoinError(c) \/ Done(c) PROVE Kept(x)'
  <2>1. conn' = conn /\ conns' = conns /\ removing' = removing
    BY <1>5 DEF Join, JoinError, Done, poolVars, connVars
  <2>2. \A d \in Callers : pc[d] \in {"insert", "discard", "close"} => pc'[d] = pc[d]
    BY <1>5, <1>t DEF Join, JoinError, Done, Types
  <2> QED
    BY <1>k, <2>1, <2>2 DEF Kept
<1>6. ASSUME NEW c \in Callers, Remove(c) PROVE Kept(x)'
  <2>1. conn' = conn /\ pc[c] = "session" /\ removing'[c] = conns[KeyOf[c]]
    BY <1>6, <1>t DEF Remove, connVars, Types
  <2>2. \A d \in Callers : d # c => pc'[d] = pc[d] /\ removing'[d] = removing[d]
    BY <1>6, <1>t DEF Remove, Types
  <2>3. conns[KeyOf[c]] # NoConn => pc'[c] = "close"
    BY <1>6, <1>t DEF Remove, Types
  <2>4. \A k \in Keys : k # KeyOf[c] => conns'[k] = conns[k]
    BY <1>6, <1>t DEF Remove, Types
  <2>5. CASE conns[KeyOf[x]] = x /\ KeyOf[x] = KeyOf[c]
    BY <1>t, <2>1, <2>3, <2>5 DEF Kept
  <2>6. CASE conns[KeyOf[x]] = x /\ KeyOf[x] # KeyOf[c]
    BY <1>t, <2>4, <2>6 DEF Kept
  <2>7. CASE conns[KeyOf[x]] # x
    BY <1>k, <2>1, <2>2, <2>7 DEF Kept
  <2> QED
    BY <2>5, <2>6, <2>7
<1>7. ASSUME NEW c \in Callers, CloseRemoved(c) PROVE Kept(x)'
  <2>1. conns' = conns /\ pc[c] = "close"
    BY <1>7 DEF CloseRemoved
  <2>2. \A d \in Callers : d # c => pc'[d] = pc[d] /\ removing'[d] = removing[d]
    BY <1>7, <1>t DEF CloseRemoved, Types
  <2>3. removing[c] # x /\ conn[x] = "open"
    BY <1>7, <1>t DEF CloseRemoved, Types
  <2> QED
    BY <1>k, <2>1, <2>2, <2>3 DEF Kept
<1>8. CASE CloseAll
  <2>1. conn[x] = "open" /\ \A k \in Keys : conns[k] # x
    BY <1>8, <1>t DEF CloseAll, Types
  <2>2. \A c \in Callers : pc[c] \in {"done", "abandoned"}
    BY <1>8 DEF CloseAll
  <2> QED
    BY <1>k, <1>t, <2>1, <2>2 DEF Kept
<1>9. CASE (\E c \in Callers : ReadEnds(c)) \/ UNCHANGED vars
  BY <1>k, <1>9 DEF ReadEnds, vars, poolVars, connVars, Kept
<1> QED
  BY <1>1, <1>2, <1>3, <1>4, <1>5, <1>6, <1>7, <1>8, <1>9
  DEF Next, GetOrCreate, Session, Terminated

\* The invariant holds in every reachable state.
LEMMA Invariance == Spec => []IInv
<1>1. IInv /\ [Next]_vars => IInv'
  BY TypeStep, CountStep, OrphanStep DEF IInv
<1> QED
  BY <1>1, InvInit, PTL DEF Spec

-----------------------------------------------------------------------------
\* From slots to open connections.

\* CloseAll leaves nothing in the pool, and nobody dials after it.
EmptyWhenClosed == closedAll => \A k \in Keys : conns[k] = NoConn

\* The pool stays empty once CloseAll has run.
LEMMA EmptyStep == IInv /\ EmptyWhenClosed /\ [Next]_vars => EmptyWhenClosed'
<1> SUFFICES ASSUME IInv, EmptyWhenClosed, [Next]_vars PROVE EmptyWhenClosed'
  OBVIOUS
<1>t. Types /\ OverWhenClosed
  BY DEF IInv
<1>1. ASSUME NEW c \in Callers, Insert(c) PROVE EmptyWhenClosed'
  BY <1>1, <1>t DEF Insert, OverWhenClosed, EmptyWhenClosed
<1>2. ASSUME NEW c \in Callers, Remove(c) PROVE EmptyWhenClosed'
  BY <1>2, <1>t DEF Remove, OverWhenClosed, EmptyWhenClosed
<1>3. CASE CloseAll
  BY <1>3 DEF CloseAll, EmptyWhenClosed
<1>4. CASE UNCHANGED <<conns, closedAll>>
  BY <1>4 DEF EmptyWhenClosed
<1> QED
  BY <1>1, <1>2, <1>3, <1>4
  DEF Next, GetOrCreate, Lookup, Acquire, DialFails, Dial, Discard, Session, Join,
      JoinError, CloseRemoved, Done, ReadEnds, Terminated, vars, poolVars

\* The open connections fall into three groups: in the pool under their key,
\* about to be inserted or discarded by their dialler, and taken out by a
\* Remove that is about to close them.
InPool  == {x \in Callers : conns[KeyOf[x]] = x}
Fresh   == {x \in Callers : pc[x] \in {"insert", "discard"}}
Closers == {c \in Callers : pc[c] = "close"}
Removed == {x \in Callers : \E c \in Closers : removing[c] = x}

\* A union has no more elements than its parts together.
LEMMA UnionBound ==
  ASSUME NEW A, NEW B, IsFiniteSet(A), IsFiniteSet(B)
  PROVE  IsFiniteSet(A \cup B) /\ Cardinality(A \cup B) <= Cardinality(A) + Cardinality(B)
<1>1. IsFiniteSet(A \cap B)
  BY FS_Intersection
<1>2. /\ Cardinality(A) \in Nat /\ Cardinality(B) \in Nat
      /\ Cardinality(A \cap B) \in Nat
  BY <1>1, FS_CardinalityType
<1>3. /\ IsFiniteSet(A \cup B)
      /\ Cardinality(A \cup B) = Cardinality(A) + Cardinality(B) - Cardinality(A \cap B)
  BY FS_Union
<1> QED
  BY <1>2, <1>3

\* A key holds one connection, so no more connections than keys are in the pool.
LEMMA InPoolBound ==
  ASSUME Types
  PROVE  IsFiniteSet(InPool) /\ Cardinality(InPool) <= Cardinality(Pooled)
<1> DEFINE f == [x \in InPool |-> KeyOf[x]]
<1>1. \A x \in InPool : KeyOf[x] \in Pooled
  BY ConnPoolAssumption DEF InPool, Pooled
<1>2. \A x, y \in InPool : KeyOf[x] = KeyOf[y] => x = y
  BY DEF InPool
<1>3. f \in Injection(InPool, Pooled)
  BY <1>1, <1>2 DEF Injection, IsInjective
<1>4. IsFiniteSet(Pooled)
  BY CountedFinite
<1> HIDE DEF f
<1> QED
  BY <1>3, <1>4, FS_Injection

\* A Remove closes one connection.
LEMMA RemovedBound == IsFiniteSet(Removed) /\ Cardinality(Removed) <= Cardinality(Closers)
<1> DEFINE Holders == {c \in Closers : removing[c] \in Callers}
           g == [c \in Holders |-> removing[c]]
<1>1. IsFiniteSet(Closers)
  BY FS_Subset, ConnPoolAssumption DEF Closers
<1>2. IsFiniteSet(Holders) /\ Cardinality(Holders) <= Cardinality(Closers)
  BY <1>1, FS_Subset
<1>3. g \in Surjection(Holders, Removed)
  BY DEF Surjection, Removed
<1> HIDE DEF g, Holders
<1>4. IsFiniteSet(Removed) /\ Cardinality(Removed) <= Cardinality(Holders)
  BY <1>2, <1>3, FS_Surjection
<1>5. Cardinality(Removed) \in Nat /\ Cardinality(Holders) \in Nat /\ Cardinality(Closers) \in Nat
  BY <1>1, <1>2, <1>4, FS_CardinalityType
<1> QED
  BY <1>2, <1>4, <1>5

\* Connections in transit are the fresh ones, the ones being closed, and the
\* ones still being dialled.
LEMMA TransitBound ==
  /\ IsFiniteSet(Fresh) /\ IsFiniteSet(Closers)
  /\ Cardinality(Fresh) + Cardinality(Closers) <= Cardinality(InTransit)
<1>1. IsFiniteSet(Fresh) /\ IsFiniteSet(Closers)
  BY FS_Subset, ConnPoolAssumption DEF Fresh, Closers
<1>2. Fresh \cap Closers = {} /\ Fresh \cup Closers \in SUBSET InTransit
  BY DEF Fresh, Closers, InTransit
<1>3. Cardinality(Fresh \cup Closers) = Cardinality(Fresh) + Cardinality(Closers) - 0
  BY <1>1, <1>2, FS_Union, FS_EmptySet
<1>4. Cardinality(Fresh \cup Closers) <= Cardinality(InTransit)
  BY <1>2, CountedFinite, FS_Subset
<1>5. Cardinality(Fresh) \in Nat /\ Cardinality(Closers) \in Nat
  BY <1>1, FS_CardinalityType
<1> QED
  BY <1>1, <1>3, <1>4, <1>5

\* While the test runs, the slots bound the open connections; after CloseAll
\* nothing is open.
LEMMA OpenBounded == IInv /\ EmptyWhenClosed => OpenWithinPoolSize
<1> SUFFICES ASSUME IInv, EmptyWhenClosed PROVE OpenWithinPoolSize
  OBVIOUS
<1>t. Types /\ NoOrphanConnection /\ sem \in 0 .. PoolSize /\ PoolSize \in Nat
  BY ConnPoolAssumption DEF IInv
<1>1. CASE closedAll
  <2>1. OpenConns = {}
    BY <1>1, <1>t, ConnPoolAssumption
    DEF IInv, EmptyWhenClosed, OverWhenClosed, NoOrphanConnection, OpenConns
  <2> QED
    BY <2>1, <1>t, FS_EmptySet DEF OpenWithinPoolSize
<1>2. CASE ~closedAll
  <2>1. OpenConns \in SUBSET ((InPool \cup Fresh) \cup Removed)
    BY <1>t DEF NoOrphanConnection, OpenConns, InPool, Fresh, Removed, Closers
  <2>2. /\ IsFiniteSet(InPool) /\ IsFiniteSet(Fresh) /\ IsFiniteSet(Removed)
        /\ IsFiniteSet(Closers)
    BY <1>t, InPoolBound, TransitBound, RemovedBound
  <2>3. /\ Cardinality(InPool) \in Nat /\ Cardinality(Fresh) \in Nat
        /\ Cardinality(Removed) \in Nat /\ Cardinality(Closers) \in Nat
    BY <2>2, FS_CardinalityType
  <2>4. /\ IsFiniteSet(InPool \cup Fresh)
        /\ Cardinality(InPool \cup Fresh) <= Cardinality(InPool) + Cardinality(Fresh)
    BY <2>2, UnionBound
  <2>5. /\ IsFiniteSet((InPool \cup Fresh) \cup Removed)
        /\ Cardinality((InPool \cup Fresh) \cup Removed)
             <= Cardinality(InPool \cup Fresh) + Cardinality(Removed)
    BY <2>2, <2>4, UnionBound
  <2>6. /\ Cardinality(OpenConns) <= Cardinality((InPool \cup Fresh) \cup Removed)
        /\ IsFiniteSet(OpenConns)
    BY <2>1, <2>5, FS_Subset
  <2>7. /\ Cardinality(OpenConns) \in Nat /\ Cardinality(InPool \cup Fresh) \in Nat
        /\ Cardinality((InPool \cup Fresh) \cup Removed) \in Nat
    BY <2>4, <2>5, <2>6, FS_CardinalityType
  <2>8. Cardinality(InPool) <= Cardinality(Pooled)
    BY <1>t, InPoolBound
  <2>9. /\ Cardinality(Removed) <= Cardinality(Closers)
        /\ Cardinality(Fresh) + Cardinality(Closers) <= Cardinality(InTransit)
    BY RemovedBound, TransitBound
  <2>10. sem = Cardinality(Pooled) + Cardinality(InTransit)
    BY <1>2 DEF IInv, SlotsBalance
  <2>11. Cardinality(OpenConns) <= sem
    BY <2>3, <2>4, <2>5, <2>6, <2>7, <2>8, <2>9, <2>10, CountedFinite
  <2> QED
    BY <1>t, <2>7, <2>11 DEF OpenWithinPoolSize
<1> QED
  BY <1>1, <1>2

-----------------------------------------------------------------------------
\* From pooled connections to sessions.

\* A pooled connection is under its dialler's key, and the dialler's session is
\* still to be removed, or abandoned.
Owned ==
  \A k \in Keys :
    conns[k] # NoConn =>
      /\ KeyOf[conns[k]] = k
      /\ pc[conns[k]] \in {"join", "session", "abandoned"}

\* CloseAll returns no slot; without abandoned sessions none was left.
SpentWhenClosed == closedAll /\ (\A c \in Callers : pc[c] = "done") => sem = 0

\* A caller inserts before its session and leaves its key empty when it removes.
LEMMA OwnedStep == IInv /\ Owned /\ [Next]_vars => Owned'
<1> SUFFICES ASSUME IInv, Owned, [Next]_vars, NEW k \in Keys, conns'[k] # NoConn
             PROVE  KeyOf[conns'[k]] = k /\ pc'[conns'[k]] \in {"join", "session", "abandoned"}
  BY DEF Owned
<1> DEFINE Goal == KeyOf[conns'[k]] = k /\ pc'[conns'[k]] \in {"join", "session", "abandoned"}
<1>t. Types /\ NoConn \notin Callers /\ KeyOf \in [Callers -> Keys]
  BY ConnPoolAssumption DEF IInv
<1>k. conns[k] # NoConn => /\ conns[k] \in Callers /\ KeyOf[conns[k]] = k
                           /\ pc[conns[k]] \in {"join", "session", "abandoned"}
  BY <1>t DEF Owned, Types
<1>1. ASSUME NEW c \in Callers, conns' = conns,
             pc[c] \notin {"join", "session", "abandoned"}
               \/ pc'[c] \in {"join", "session", "abandoned"},
             \A d \in Callers : d # c => pc'[d] = pc[d]
      PROVE  Goal
  BY <1>k, <1>1
<1>2. ASSUME NEW c \in Callers,
             Lookup(c) \/ Acquire(c) \/ DialFails(c) \/ Dial(c) \/ Discard(c)
      PROVE  Goal
  <2>1. conns' = conns /\ pc[c] \notin {"join", "session", "abandoned"}
    BY <1>2 DEF Lookup, Acquire, DialFails, Dial, Discard, poolVars
  <2>2. \A d \in Callers : d # c => pc'[d] = pc[d]
    BY <1>2, <1>t DEF Lookup, Acquire, DialFails, Dial, Discard, Types
  <2> QED
    BY <1>1, <2>1, <2>2
<1>3. ASSUME NEW c \in Callers, Insert(c) PROVE Goal
  <2>1. pc[c] = "insert" /\ \A d \in Callers : d # c => pc'[d] = pc[d]
    BY <1>3, <1>t DEF Insert, Types
  <2>2. CASE conns' = conns
    BY <1>1, <2>1, <2>2
  <2>3. CASE conns' # conns
    <3>1. conns' = [conns EXCEPT ![KeyOf[c]] = c] /\ pc' = [pc EXCEPT ![c] = "join"]
      BY <1>3, <2>3 DEF Insert
    <3>2. CASE k = KeyOf[c]
      BY <3>1, <3>2, <1>t DEF Types
    <3>3. CASE k # KeyOf[c]
      <4>1. conns'[k] = conns[k]
        BY <3>1, <3>3, <1>t DEF Types
      <4> QED
        BY <4>1, <1>k, <2>1
    <3> QED
      BY <3>2, <3>3
  <2> QED
    BY <2>2, <2>3
<1>4. ASSUME NEW c \in Callers, Join(c) \/ JoinError(c) \/ CloseRemoved(c) \/ Done(c)
      PROVE  Goal
  <2>1. /\ conns' = conns
        /\ \/ pc[c] \notin {"join", "session", "abandoned"}
           \/ pc'[c] \in {"join", "session", "abandoned"}
    BY <1>4, <1>t DEF Join, JoinError, CloseRemoved, Done, poolVars, Types
  <2>2. \A d \in Callers : d # c => pc'[d] = pc[d]
    BY <1>4, <1>t DEF Join, JoinError, CloseRemoved, Done, Types
  <2> QED
    BY <1>1, <2>1, <2>2
<1>5. ASSUME NEW c \in Callers, Remove(c) PROVE Goal
  <2>1. k # KeyOf[c] /\ conns'[k] = conns[k]
    BY <1>5, <1>t DEF Remove, Types
  <2>2. conns[k] # c
    BY <2>1, <1>k
  <2>3. \A d \in Callers : d # c => pc'[d] = pc[d]
    BY <1>5, <1>t DEF Remove, Types
  <2> QED
    BY <1>k, <2>1, <2>2, <2>3
<1>6. CASE CloseAll
  BY <1>6 DEF CloseAll
<1>7. CASE UNCHANGED <<conns, pc>>
  BY <1>7, <1>k
<1> QED
  BY <1>2, <1>3, <1>4, <1>5, <1>6, <1>7
  DEF Next, GetOrCreate, Session, ReadEnds, Terminated, vars, poolVars

\* With every session done and none abandoned, the pool is empty.
LEMMA NothingPooled ==
  ASSUME IInv, Owned, \A c \in Callers : pc[c] \in {"idle", "acquire", "done"}
  PROVE  Pooled = {} /\ InTransit = {}
<1>1. \A k \in Keys : conns[k] # NoConn => conns[k] \in Callers
  BY DEF IInv, Types
<1> QED
  BY <1>1 DEF Owned, Pooled, InTransit

\* If none was abandoned, no slot is taken when CloseAll runs, and none later.
LEMMA SpentStep == IInv /\ Owned /\ SpentWhenClosed /\ [Next]_vars => SpentWhenClosed'
<1> SUFFICES ASSUME IInv, Owned, SpentWhenClosed, [Next]_vars PROVE SpentWhenClosed'
  OBVIOUS
<1>t. Types /\ OverWhenClosed /\ SlotsBalance
  BY DEF IInv
<1>1. ASSUME NEW c \in Callers, GetOrCreate(c) \/ Session(c) PROVE SpentWhenClosed'
  <2>1. pc[c] \notin {"done", "abandoned"} /\ closedAll' = closedAll
    BY <1>1 DEF GetOrCreate, Lookup, Acquire, DialFails, Dial, Insert, Discard, Session, Join,
                JoinError, Remove, CloseRemoved, Done
  <2> QED
    BY <2>1, <1>t DEF OverWhenClosed, SpentWhenClosed
<1>2. CASE CloseAll
  <2>1. UNCHANGED <<pc, sem>> /\ ~closedAll
    BY <1>2 DEF CloseAll
  <2>2. ASSUME \A c \in Callers : pc[c] = "done" PROVE sem = 0
    <3>1. Pooled = {} /\ InTransit = {}
      BY <2>2, NothingPooled
    <3> QED
      BY <2>1, <3>1, <1>t, FS_EmptySet DEF SlotsBalance
  <2> QED
    BY <2>1, <2>2 DEF SpentWhenClosed
<1>3. CASE UNCHANGED <<pc, sem, closedAll>>
  BY <1>3 DEF SpentWhenClosed
<1> QED
  BY <1>1, <1>2, <1>3 DEF Next, ReadEnds, Terminated, vars, poolVars

\* When nothing is under way and nothing was abandoned, no slot is taken.
LEMMA AllReturned == IInv /\ Owned /\ SpentWhenClosed => SlotsReturned
<1> SUFFICES ASSUME IInv, Owned, SpentWhenClosed,
                    \A c \in Callers : pc[c] \in {"idle", "acquire", "done"}
             PROVE  sem = 0 /\ OpenConns = {}
  BY DEF SlotsReturned
<1>1. Pooled = {} /\ InTransit = {}
  BY NothingPooled
<1>2. sem = 0
  <2>1. CASE closedAll
    BY <2>1 DEF IInv, OverWhenClosed, SpentWhenClosed
  <2>2. CASE ~closedAll
    BY <1>1, <2>2, FS_EmptySet DEF IInv, SlotsBalance
  <2> QED
    BY <2>1, <2>2
<1>3. OpenConns = {}
  BY <1>1, ConnPoolAssumption DEF IInv, NoOrphanConnection, OpenConns, Pooled, InTransit
<1> QED
  BY <1>2, <1>3

-----------------------------------------------------------------------------
\* Every variable has its type, and never more than PoolSize slots are taken,
\* so that Acquire's blocking send bounds the connections as pool.go says.
THEOREM PoolTypeCorrect == Spec => []TypeOK
<1>1. IInv => TypeOK
  BY DEF IInv, Types, TypeOK
<1> QED
  BY <1>1, Invariance, PTL

\* Until CloseAll the semaphore holds exactly one token for every connection in
\* the pool, being dialled, inserted, discarded or closed: no interleaving of
\* duplicate dials and removals by others leaks a slot or returns one twice.
THEOREM SlotsBalanced == Spec => []SlotsBalance
<1>1. IInv => SlotsBalance
  BY DEF IInv
<1> QED
  BY <1>1, Invariance, PTL

\* No open connection is forgotten by GetOrCreateNewWsClient, Remove or
\* CloseAll.
THEOREM NoOrphans == Spec => []NoOrphanConnection
<1>1. IInv => NoOrphanConnection
  BY DEF IInv
<1> QED
  BY <1>1, Invariance, PTL

\* The semaphore limits the connections that are really open: the fan-out test
\* never has more of them than PoolSize, as pool.go says of the Pool.
THEOREM OpenLimited == Spec => []OpenWithinPoolSize
<1>1. Init => EmptyWhenClosed
  BY DEF Init, EmptyWhenClosed
<1>2. IInv /\ EmptyWhenClosed /\ [Next]_vars => EmptyWhenClosed'
  BY EmptyStep
<1>3. IInv /\ EmptyWhenClosed => OpenWithinPoolSize
  BY OpenBounded
<1> QED
  BY <1>1, <1>2, <1>3, Invariance, PTL DEF Spec

\* No path through a session that runs to its Remove leaks a slot or leaves a
\* connection open: only an abandoned session can.
THEOREM OnlyAbandonedLeak == Spec => []SlotsReturned
<1>1. Init => Owned /\ SpentWhenClosed
  BY DEF Init, Owned, SpentWhenClosed
<1>2. IInv /\ Owned /\ SpentWhenClosed /\ [Next]_vars => Owned' /\ SpentWhenClosed'
  BY OwnedStep, SpentStep
<1>3. IInv /\ Owned /\ SpentWhenClosed => SlotsReturned
  BY AllReturned
<1> QED
  BY <1>1, <1>2, <1>3, Invariance, PTL DEF Spec

=============================================================================
