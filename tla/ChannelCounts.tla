---------------------------- MODULE ChannelCounts ----------------------------
(***************************************************************************)
(* How often a message occurs in a channel, and what a send and a receive  *)
(* do to that number.                                                      *)
(***************************************************************************)
EXTENDS Integers, Sequences, FiniteSets, FiniteSetTheorems, FunctionTheorems, TLAPS

Occurrences(q, m) == {i \in 1 .. Len(q) : q[i] = m}

Count(q, m) == Cardinality(Occurrences(q, m))

One(x, y) == IF x = y THEN 1 ELSE 0

\* The positions of a message in a channel are finitely many.
LEMMA OccurrencesFinite ==
  ASSUME NEW S, NEW q \in Seq(S), NEW m
  PROVE  IsFiniteSet(Occurrences(q, m)) /\ Cardinality(Occurrences(q, m)) \in Nat
<1>1. Len(q) \in Nat /\ Occurrences(q, m) \in SUBSET (1 .. Len(q))
  BY DEF Occurrences
<1>2. IsFiniteSet(1 .. Len(q))
  BY <1>1, FS_Interval
<1>3. IsFiniteSet(Occurrences(q, m))
  BY <1>1, <1>2, FS_Subset
<1> QED
  BY <1>3, FS_CardinalityType

\* A send adds one place, that of the message sent.
LEMMA OccurrencesAppend ==
  ASSUME NEW S, NEW q \in Seq(S), NEW x \in S, NEW m
  PROVE  Cardinality(Occurrences(Append(q, x), m)) =
           Cardinality(Occurrences(q, m)) + (IF x = m THEN 1 ELSE 0)
<1>1. Len(q) \in Nat /\ Len(Append(q, x)) = Len(q) + 1
  OBVIOUS
<1>2. /\ \A i \in 1 .. Len(q) : Append(q, x)[i] = q[i]
      /\ Append(q, x)[Len(q) + 1] = x
  OBVIOUS
<1>3. IsFiniteSet(Occurrences(q, m)) /\ Cardinality(Occurrences(q, m)) \in Nat
  BY OccurrencesFinite
<1>4. CASE x = m
  <2>1. Occurrences(Append(q, x), m) = Occurrences(q, m) \cup {Len(q) + 1}
    BY <1>1, <1>2, <1>4 DEF Occurrences
  <2>2. Len(q) + 1 \notin Occurrences(q, m)
    BY <1>1 DEF Occurrences
  <2> QED
    BY <1>3, <1>4, <2>1, <2>2, FS_AddElement
<1>5. CASE x # m
  <2>1. Occurrences(Append(q, x), m) = Occurrences(q, m)
    BY <1>1, <1>2, <1>5 DEF Occurrences
  <2> QED
    BY <1>3, <1>5, <2>1
<1> QED
  BY <1>4, <1>5

\* A receive takes one place away, that of the message received.
LEMMA OccurrencesTail ==
  ASSUME NEW S, NEW q \in Seq(S), q # <<>>, NEW m
  PROVE  Cardinality(Occurrences(q, m)) =
           Cardinality(Occurrences(Tail(q), m)) + (IF Head(q) = m THEN 1 ELSE 0)
<1> DEFINE P == Occurrences(Tail(q), m)
           Q == Occurrences(q, m) \ {1}
           f == [i \in P |-> i + 1]
<1>1. /\ Len(q) \in Nat \ {0} /\ Tail(q) \in Seq(S)
      /\ Len(Tail(q)) = Len(q) - 1 /\ Head(q) = q[1]
      /\ \A i \in 1 .. Len(Tail(q)) : Tail(q)[i] = q[i + 1]
  OBVIOUS
<1>2. \A i \in P : i \in Int /\ i + 1 \in Q
  BY <1>1 DEF Occurrences
<1>3. \A j \in Q : j \in Int /\ j - 1 \in P
  BY <1>1 DEF Occurrences
<1>4. f \in Bijection(P, Q)
  <2>1. f \in [P -> Q]
    BY <1>2
  <2>2. f \in Injection(P, Q)
    <3>1. \A a, b \in P : f[a] = f[b] => a = b
      BY <1>2
    <3> QED
      BY <2>1, <3>1, Fun_IsInj
  <2>3. f \in Surjection(P, Q)
    <3>1. \A t \in Q : \E s \in P : f[s] = t
      <4>1. SUFFICES ASSUME NEW t \in Q PROVE t - 1 \in P /\ f[t - 1] = t
        OBVIOUS
      <4> QED
        BY <1>3
    <3> QED
      BY <2>1, <3>1, Fun_IsSurj
  <2> QED
    BY <2>2, <2>3 DEF Bijection
<1>5. IsFiniteSet(P) /\ Cardinality(P) \in Nat
      /\ IsFiniteSet(Occurrences(q, m)) /\ Cardinality(Occurrences(q, m)) \in Nat
  BY <1>1, OccurrencesFinite
<1>6. Cardinality(Q) = Cardinality(P)
  BY <1>4, <1>5, FS_Bijection DEF ExistsBijection
<1>7. Cardinality(Q) = IF 1 \in Occurrences(q, m) THEN Cardinality(Occurrences(q, m)) - 1
                                              ELSE Cardinality(Occurrences(q, m))
  BY <1>5, FS_RemoveElement
<1>8. 1 \in Occurrences(q, m) <=> Head(q) = m
  BY <1>1 DEF Occurrences
<1> QED
  BY <1>5, <1>6, <1>7, <1>8

\* What sends and receives do to a channel's contents.
LEMMA ChannelOps ==
  ASSUME NEW S, NEW q \in Seq(S)
  PROVE  /\ \A x \in S : Append(q, x) \in Seq(S) /\ Len(Append(q, x)) = Len(q) + 1
         /\ q # <<>> => Head(q) \in S /\ Tail(q) \in Seq(S) /\ Len(Tail(q)) = Len(q) - 1
         /\ Len(q) \in Nat
OBVIOUS

\* What they do to the number of occurrences of a message.
LEMMA CountOps ==
  ASSUME NEW S, NEW q \in Seq(S), NEW m
  PROVE  /\ Count(q, m) \in Nat
         /\ \A x \in S : Count(Append(q, x), m) = Count(q, m) + One(x, m)
         /\ q # <<>> => Count(q, m) = Count(Tail(q), m) + One(Head(q), m)
BY OccurrencesFinite, OccurrencesAppend, OccurrencesTail DEF Count, One

\* An empty channel holds nothing.
LEMMA CountEmpty == \A m : Count(<<>>, m) = 0
BY FS_EmptySet DEF Count, Occurrences

=============================================================================
