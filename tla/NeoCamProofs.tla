---------------------------- MODULE NeoCamProofs ----------------------------
(***************************************************************************)
(* The count of users is exact but for the deactivations that were cut     *)
(* off, for every set of clients and every capacity of the two queues:     *)
(* CountIsExact.                                                           *)
(*                                                                         *)
(* It is not inductive.  A permit that is answered adds a user only if its *)
(* client did not hold one already, so the invariant says where a client   *)
(* stands while its request is in the commander's queue, and that a client *)
(* has one request there at most.                                          *)
(***************************************************************************)
EXTENDS NeoCam, SequenceTheorems, FiniteSetTheorems, TLAPS

-----------------------------------------------------------------------------
(* Messages among the first n.                                             *)

SentIn(s, a, n) == Cardinality({i \in 1 .. n : s[i] = a})

\* They are finitely many, and none among the first none.
LEMMA SentNat ==
    ASSUME NEW s, NEW a, NEW n \in Nat
    PROVE  /\ IsFiniteSet({i \in 1 .. n : s[i] = a}) /\ SentIn(s, a, n) \in Nat
           /\ SentIn(s, a, 0) = 0
<1> DEFINE picked == {i \in 1 .. n : s[i] = a}
<1>1. picked \in SUBSET (1 .. n) /\ IsFiniteSet(1 .. n)
  BY FS_Interval
<1>2. IsFiniteSet(picked)
  <2> HIDE DEF picked
  <2> QED BY <1>1, FS_Subset
<1>3. Cardinality(picked) \in Nat
  <2> HIDE DEF picked
  <2> QED BY <1>2, FS_CardinalityType
<1>4. {i \in 1 .. 0 : s[i] = a} = {}
  OBVIOUS
<1> QED BY <1>2, <1>3, <1>4, FS_EmptySet DEF SentIn

\* One message more.
LEMMA SentStep ==
    ASSUME NEW s, NEW a, NEW n \in Nat
    PROVE  SentIn(s, a, n + 1) = SentIn(s, a, n) + (IF s[n + 1] = a THEN 1 ELSE 0)
<1> DEFINE before == {i \in 1 .. n : s[i] = a}
           after == {i \in 1 .. (n + 1) : s[i] = a}
<1>1. IsFiniteSet(before) /\ n + 1 \notin before /\ Cardinality(before) \in Nat
  <2>1. IsFiniteSet(before)
    BY SentNat
  <2>2. Cardinality(before) \in Nat
    BY <2>1, FS_CardinalityType
  <2> QED BY <2>1, <2>2
<1>2. after = IF s[n + 1] = a THEN before \union {n + 1} ELSE before
  <2>1. 1 .. (n + 1) = (1 .. n) \union {n + 1}
    OBVIOUS
  <2> QED BY <2>1
<1>3. Cardinality(before \union {n + 1}) = Cardinality(before) + 1
  <2> HIDE DEF before
  <2> QED BY <1>1, FS_AddElement
<1>4. SentIn(s, a, n) = Cardinality(before) /\ SentIn(s, a, n + 1) = Cardinality(after)
  BY DEF SentIn
<1> HIDE DEF before, after
<1> QED BY <1>1, <1>2, <1>3, <1>4

\* It depends on these messages alone.
LEMMA SentSame ==
    ASSUME NEW s, NEW t, NEW a, NEW n \in Nat, \A i \in 1 .. n : s[i] = t[i]
    PROVE  SentIn(s, a, n) = SentIn(t, a, n)
<1>1. {i \in 1 .. n : s[i] = a} = {i \in 1 .. n : t[i] = a}
  OBVIOUS
<1> QED BY <1>1 DEF SentIn

\* Without the first.
LEMMA SentTail ==
    ASSUME NEW S, NEW s \in Seq(S), NEW a, s # <<>>, NEW n \in 0 .. Len(Tail(s))
    PROVE  SentIn(s, a, n + 1) = SentIn(Tail(s), a, n) + (IF Head(s) = a THEN 1 ELSE 0)
<1> DEFINE first == IF Head(s) = a THEN {1} ELSE {}
           rest == {i \in 1 .. n : Tail(s)[i] = a}
           moved == {i \in 2 .. (n + 1) : s[i] = a}
           all == {i \in 1 .. (n + 1) : s[i] = a}
           f == [i \in rest |-> i + 1]
<1>1. /\ Len(Tail(s)) = Len(s) - 1 /\ Len(s) \in Nat /\ Head(s) = s[1]
      /\ n \in Nat /\ \A i \in 1 .. n : Tail(s)[i] = s[i + 1]
  BY HeadTailProperties
<1>2. ExistsBijection(rest, moved)
  <2>1. f \in Bijection(rest, moved)
    <3>1. f \in [rest -> moved]
      BY <1>1
    <3>2. \A i, j \in rest : f[i] = f[j] => i = j
      BY <1>1
    <3>3. \A j \in moved : \E i \in rest : f[i] = j
      <4> SUFFICES ASSUME NEW j \in moved PROVE \E i \in rest : f[i] = j
        OBVIOUS
      <4>1. j - 1 \in 1 .. n /\ (j - 1) + 1 = j
        BY <1>1
      <4>2. j - 1 \in rest
        BY <4>1, <1>1
      <4> QED BY <4>1, <4>2
    <3> HIDE DEF f, rest, moved
    <3> QED BY <3>1, <3>2, <3>3 DEF Bijection, Injection, Surjection, IsInjective
  <2> QED BY <2>1 DEF ExistsBijection
<1>3. IsFiniteSet(rest) /\ Cardinality(rest) \in Nat
  BY <1>1, SentNat DEF SentIn
<1>4. IsFiniteSet(moved) /\ Cardinality(moved) = Cardinality(rest)
  <2> HIDE DEF rest, moved
  <2> QED BY <1>2, <1>3, FS_Bijection
<1>5. all = moved \union first
  <2>1. 1 .. (n + 1) = (2 .. (n + 1)) \union {1}
    BY <1>1
  <2> QED BY <2>1, <1>1
<1>6. 1 \notin moved
  OBVIOUS
<1>7. Cardinality(moved \union {1}) = Cardinality(moved) + 1
  <2> HIDE DEF moved
  <2> QED BY <1>4, <1>6, FS_AddElement
<1>8. SentIn(Tail(s), a, n) = Cardinality(rest) /\ SentIn(s, a, n + 1) = Cardinality(all)
  BY DEF SentIn
<1>9. Cardinality(all) = Cardinality(moved) + (IF Head(s) = a THEN 1 ELSE 0)
  <2>1. CASE Head(s) = a
    BY <2>1, <1>5, <1>7
  <2>2. CASE Head(s) # a
    <3>1. all = moved
      BY <2>2, <1>5
    <3>2. Cardinality(all) = Cardinality(moved) /\ Cardinality(moved) \in Nat
      <4> HIDE DEF moved, all, rest
      <4> QED BY <3>1, <1>3, <1>4
    <3> HIDE DEF moved, all
    <3> QED BY <2>2, <3>2
  <2> QED BY <2>1, <2>2
<1> HIDE DEF all, moved, rest
<1> QED BY <1>3, <1>4, <1>8, <1>9

-----------------------------------------------------------------------------
(* The counter.  What follows is of a queue of messages s, a value v and d *)
(* dropped permits, for the variables before and after a step.             *)

\* The first n messages of s that add, those that take away, and what is left of them.
Ups(s, n) == SentIn(s, TRUE, n)
Downs(s, n) == SentIn(s, FALSE, n)
Balance(s, n) == Ups(s, n) - Downs(s, n)

\* x users will have been counted, and never fewer than none on the way.
Exact(s, v, d, x) ==
    /\ s \in Seq(BOOLEAN) /\ v \in Int /\ d \in Nat
    /\ v + Balance(s, Len(s)) - d = x
    /\ \A n \in 0 .. Len(s) : v + Balance(s, n) >= 0

LEMMA BalanceType ==
    ASSUME NEW s, NEW n \in Nat
    PROVE  /\ Ups(s, n) \in Nat /\ Downs(s, n) \in Nat
           /\ Balance(s, n) \in Int /\ Balance(s, 0) = 0
<1>1. /\ Ups(s, n) \in Nat /\ Downs(s, n) \in Nat
      /\ Ups(s, 0) = 0 /\ Downs(s, 0) = 0
  BY SentNat, Zenon DEF Ups, Downs
<1> QED BY <1>1 DEF Balance

\* A message goes to the end of the queue, and the ones before it count as before.
LEMMA BalanceAppend ==
    ASSUME NEW s \in Seq(BOOLEAN), NEW b \in BOOLEAN, NEW t, t = Append(s, b)
    PROVE  /\ t \in Seq(BOOLEAN) /\ Len(s) \in Nat /\ Len(t) = Len(s) + 1
           /\ \A n \in 0 .. Len(s) : Balance(t, n) = Balance(s, n)
           /\ (b => Balance(t, Len(s) + 1) = Balance(s, Len(s)) + 1)
           /\ (~b => Balance(t, Len(s) + 1) = Balance(s, Len(s)) - 1)
<1>1. /\ t \in Seq(BOOLEAN) /\ Len(s) \in Nat /\ Len(t) = Len(s) + 1
      /\ t[Len(s) + 1] = b /\ \A i \in 1 .. Len(s) : t[i] = s[i]
  BY AppendProperties
<1>2. ASSUME NEW n \in 0 .. Len(s)
      PROVE  Balance(t, n) = Balance(s, n)
  <2>1. n \in Nat /\ \A i \in 1 .. n : t[i] = s[i]
    BY <1>1
  <2>2. Ups(t, n) = Ups(s, n) /\ Downs(t, n) = Downs(s, n)
    BY <2>1, SentSame, Zenon DEF Ups, Downs
  <2> QED BY <2>2 DEF Balance
<1>3. ASSUME NEW a
      PROVE  SentIn(t, a, Len(s) + 1) = SentIn(s, a, Len(s)) + (IF b = a THEN 1 ELSE 0)
  <2>1. SentIn(t, a, Len(s) + 1) = SentIn(t, a, Len(s)) + (IF t[Len(s) + 1] = a THEN 1 ELSE 0)
    <3>1. Len(s) \in Nat
      BY <1>1
    <3> QED BY <3>1, SentStep
  <2>2. SentIn(t, a, Len(s)) = SentIn(s, a, Len(s))
    BY <1>1, SentSame
  <2> QED BY <1>1, <2>1, <2>2, Zenon
<1>4. Ups(s, Len(s)) \in Nat /\ Downs(s, Len(s)) \in Nat
  BY <1>1, BalanceType
<1>5. CASE b = TRUE
  <2>1. Ups(t, Len(s) + 1) = Ups(s, Len(s)) + 1 /\ Downs(t, Len(s) + 1) = Downs(s, Len(s)) + 0
    BY <1>3, <1>5, Zenon DEF Ups, Downs
  <2>2. Balance(t, Len(s) + 1) = Balance(s, Len(s)) + 1
    BY <1>4, <2>1 DEF Balance
  <2> QED BY <1>1, <1>2, <1>5, <2>2, Zenon
<1>6. CASE b = FALSE
  <2>1. Ups(t, Len(s) + 1) = Ups(s, Len(s)) + 0 /\ Downs(t, Len(s) + 1) = Downs(s, Len(s)) + 1
    BY <1>3, <1>6, Zenon DEF Ups, Downs
  <2>2. Balance(t, Len(s) + 1) = Balance(s, Len(s)) - 1
    BY <1>4, <2>1 DEF Balance
  <2> QED BY <1>1, <1>2, <1>6, <2>2, Zenon
<1> QED BY <1>5, <1>6, Zenon

\* A message is taken from its head.
LEMMA BalanceTail ==
    ASSUME NEW s \in Seq(BOOLEAN), s # <<>>
    PROVE  /\ Tail(s) \in Seq(BOOLEAN) /\ Head(s) \in BOOLEAN
           /\ Len(Tail(s)) \in Nat /\ Len(s) = Len(Tail(s)) + 1
           /\ \A n \in 0 .. Len(Tail(s)) :
                 /\ Head(s) => Balance(s, n + 1) = Balance(Tail(s), n) + 1
                 /\ ~Head(s) => Balance(s, n + 1) = Balance(Tail(s), n) - 1
<1>1. /\ Tail(s) \in Seq(BOOLEAN) /\ Head(s) \in BOOLEAN /\ Len(s) \in Nat
      /\ Len(Tail(s)) \in Nat /\ Len(s) = Len(Tail(s)) + 1
  BY HeadTailProperties
<1>2. ASSUME NEW n \in 0 .. Len(Tail(s))
      PROVE  /\ Head(s) => Balance(s, n + 1) = Balance(Tail(s), n) + 1
             /\ ~Head(s) => Balance(s, n + 1) = Balance(Tail(s), n) - 1
  <2>1. \A a : SentIn(s, a, n + 1) = SentIn(Tail(s), a, n) + (IF Head(s) = a THEN 1 ELSE 0)
    BY SentTail, Zenon
  <2>2. Ups(Tail(s), n) \in Nat /\ Downs(Tail(s), n) \in Nat
    <3>1. n \in Nat
      BY <1>1
    <3> QED BY <3>1, BalanceType
  <2>3. CASE Head(s) = TRUE
    <3>1. Ups(s, n + 1) = Ups(Tail(s), n) + 1 /\ Downs(s, n + 1) = Downs(Tail(s), n) + 0
      BY <2>1, <2>3, Zenon DEF Ups, Downs
    <3>2. Balance(s, n + 1) = Balance(Tail(s), n) + 1
      BY <2>2, <3>1 DEF Balance
    <3> QED BY <2>3, <3>2, Zenon
  <2>4. CASE Head(s) = FALSE
    <3>1. Ups(s, n + 1) = Ups(Tail(s), n) + 0 /\ Downs(s, n + 1) = Downs(Tail(s), n) + 1
      BY <2>1, <2>4, Zenon DEF Ups, Downs
    <3>2. Balance(s, n + 1) = Balance(Tail(s), n) - 1
      BY <2>2, <3>1 DEF Balance
    <3> QED BY <2>4, <3>2, Zenon
  <2> QED BY <1>1, <2>3, <2>4, Zenon
<1> QED BY <1>1, <1>2

\* A permit is activated, and k are dropped.
LEMMA Activated ==
    ASSUME NEW s, NEW v, NEW d, NEW x, Exact(s, v, d, x), NEW k \in Nat
    PROVE  Exact(Append(s, TRUE), v, d + k, x + 1 - k)
<1>0. s \in Seq(BOOLEAN)
  BY DEF Exact
<1>1. v \in Int /\ d \in Nat /\ v + Balance(s, Len(s)) - d = x
  BY DEF Exact
<1>2. \A n \in 0 .. Len(s) : v + Balance(s, n) >= 0
  BY DEF Exact
<1>3. PICK t : t = Append(s, TRUE)
  OBVIOUS
<1>4. /\ t \in Seq(BOOLEAN) /\ Len(s) \in Nat /\ Len(t) = Len(s) + 1
      /\ \A n \in 0 .. Len(s) : Balance(t, n) = Balance(s, n)
      /\ Balance(t, Len(s) + 1) = Balance(s, Len(s)) + 1
  BY <1>0, <1>3, BalanceAppend
<1>5. Balance(s, Len(s)) \in Int /\ v + Balance(s, Len(s)) >= 0
  BY <1>2, <1>4, BalanceType
<1>6. v + Balance(t, Len(t)) - (d + k) = x + 1 - k /\ v + Balance(t, Len(t)) >= 0
  <2>1. Balance(t, Len(t)) = Balance(s, Len(s)) + 1
    BY <1>4
  <2> QED BY <1>1, <1>5, <2>1
<1>7. ASSUME NEW n \in 0 .. Len(t)
      PROVE  v + Balance(t, n) >= 0
  <2>1. n = Len(t) \/ n \in 0 .. Len(s)
    BY <1>4
  <2> QED BY <2>1, <1>2, <1>4, <1>6
<1>8. v \in Int /\ d + k \in Nat
  BY <1>1
<1> QED BY <1>3, <1>4, <1>6, <1>7, <1>8 DEF Exact

\* A use is taken away, by a task that held one or for k dropped permits.
LEMMA Deactivated ==
    ASSUME NEW s, NEW v, NEW d, NEW x, Exact(s, v, d, x), NEW k \in 0 .. d, x + d > 0
    PROVE  Exact(Append(s, FALSE), v, d - k, x - 1 + k)
<1>0. s \in Seq(BOOLEAN)
  BY DEF Exact
<1>1. v \in Int /\ d \in Nat /\ v + Balance(s, Len(s)) - d = x
  BY DEF Exact
<1>2. \A n \in 0 .. Len(s) : v + Balance(s, n) >= 0
  BY DEF Exact
<1>3. PICK t : t = Append(s, FALSE)
  OBVIOUS
<1>4. /\ t \in Seq(BOOLEAN) /\ Len(s) \in Nat /\ Len(t) = Len(s) + 1
      /\ \A n \in 0 .. Len(s) : Balance(t, n) = Balance(s, n)
      /\ Balance(t, Len(s) + 1) = Balance(s, Len(s)) - 1
  BY <1>0, <1>3, BalanceAppend
<1>5. Balance(s, Len(s)) \in Int
  BY <1>4, BalanceType
<1>6. v + Balance(t, Len(t)) - (d - k) = x - 1 + k /\ v + Balance(t, Len(t)) >= 0
  <2>1. Balance(t, Len(t)) = Balance(s, Len(s)) - 1
    BY <1>4
  <2>2. x \in Int /\ v + Balance(s, Len(s)) = x + d
    BY <1>1, <1>5
  <2>3. v + Balance(s, Len(s)) > 0
    BY <2>2
  <2> DEFINE b == Balance(s, Len(s))
  <2>4. /\ v \in Int /\ d \in Nat /\ k \in Int /\ b \in Int /\ x \in Int
        /\ v + b = x + d /\ v + b > 0
    BY <1>1, <1>5, <2>2, <2>3
  <2> HIDE DEF b
  <2>5. v + (b - 1) - (d - k) = x - 1 + k /\ v + (b - 1) >= 0
    BY <2>4
  <2> QED BY <2>1, <2>5 DEF b
<1>7. ASSUME NEW n \in 0 .. Len(t)
      PROVE  v + Balance(t, n) >= 0
  <2>1. n = Len(t) \/ n \in 0 .. Len(s)
    BY <1>4
  <2> QED BY <2>1, <1>2, <1>4, <1>6
<1>8. v \in Int /\ d - k \in Nat
  BY <1>1
<1> QED BY <1>3, <1>4, <1>6, <1>7, <1>8 DEF Exact

\* The counting task takes a message.
LEMMA Counted ==
    ASSUME NEW s, NEW v, NEW d, NEW x, Exact(s, v, d, x), s # <<>>
    PROVE  Exact(Tail(s), IF Head(s) THEN v + 1 ELSE v - 1, d, x)
<1>0. s \in Seq(BOOLEAN)
  BY DEF Exact
<1>1. v \in Int /\ d \in Nat /\ v + Balance(s, Len(s)) - d = x
  BY DEF Exact
<1>2. \A n \in 0 .. Len(s) : v + Balance(s, n) >= 0
  BY DEF Exact
<1>3. /\ Tail(s) \in Seq(BOOLEAN) /\ Head(s) \in BOOLEAN
      /\ \A n \in 0 .. Len(Tail(s)) :
            /\ Head(s) => Balance(s, n + 1) = Balance(Tail(s), n) + 1
            /\ ~Head(s) => Balance(s, n + 1) = Balance(Tail(s), n) - 1
  BY <1>0, BalanceTail
<1>4. Len(Tail(s)) \in Nat /\ Len(s) = Len(Tail(s)) + 1
  BY <1>0, BalanceTail
<1>5. PICK w : w = IF Head(s) THEN v + 1 ELSE v - 1
  OBVIOUS
<1>6. w = v + 1 \/ w = v - 1
  BY <1>5, Zenon
<1>7. ASSUME NEW n \in 0 .. Len(Tail(s))
      PROVE  w + Balance(Tail(s), n) = v + Balance(s, n + 1) /\ w + Balance(Tail(s), n) >= 0
  <2>1. Balance(Tail(s), n) \in Int
    <3>1. n \in Nat
      BY <1>4
    <3> QED BY <3>1, BalanceType
  <2>2. v + Balance(s, n + 1) >= 0
    BY <1>2, <1>4
  <2>3. \/ w = v + 1 /\ Balance(s, n + 1) = Balance(Tail(s), n) + 1
        \/ w = v - 1 /\ Balance(s, n + 1) = Balance(Tail(s), n) - 1
    BY <1>3, <1>5, Zenon
  <2> QED BY <1>1, <2>1, <2>2, <2>3
<1>8. w \in Int /\ w + Balance(Tail(s), Len(Tail(s))) - d = x
  <2>1. w + Balance(Tail(s), Len(Tail(s))) = v + Balance(s, Len(s))
    BY <1>4, <1>7
  <2>2. w \in Int
    BY <1>1, <1>6
  <2>3. v + Balance(s, Len(s)) - d = x
    BY <1>1
  <2>4. w + Balance(Tail(s), Len(Tail(s))) - d = x
    <3>1. Balance(s, Len(s)) \in Int /\ Balance(Tail(s), Len(Tail(s))) \in Int
      <4>1. Len(s) \in Nat
        BY <1>4
      <4> QED BY <1>4, <4>1, BalanceType
    <3> QED BY <1>1, <2>1, <2>2, <3>1
  <2> QED BY <2>2, <2>4
<1>9. Tail(s) \in Seq(BOOLEAN)
  BY <1>3
<1>10. Exact(Tail(s), w, d, x)
  BY <1>1, <1>7, <1>8, <1>9 DEF Exact
<1> QED BY <1>5, <1>10

\* Permits are dropped: their messages are still to be sent.
LEMMA Left ==
    ASSUME NEW s, NEW v, NEW d, NEW x, Exact(s, v, d, x), NEW k \in Nat
    PROVE  Exact(s, v, d + k, x - k)
<1>0. s \in Seq(BOOLEAN)
  BY DEF Exact
<1>1. v \in Int /\ d \in Nat /\ v + Balance(s, Len(s)) - d = x
  BY DEF Exact
<1>2. Len(s) \in Nat /\ Balance(s, Len(s)) \in Int
  BY <1>0, BalanceType
<1>3. d + k \in Nat /\ v + Balance(s, Len(s)) - (d + k) = x - k
  BY <1>1, <1>2
<1> QED BY <1>1, <1>3 DEF Exact

\* The counter's own way of saying it.
LEMMA ExactUsers ==
    ASSUME NEW x, Exact(notifier, value, drops, x)
    PROVE  /\ Users = x
           /\ \A n \in 0 .. Len(notifier) : value + Sent(TRUE, n) >= Sent(FALSE, n)
<1>1. \A n : Sent(TRUE, n) = Ups(notifier, n) /\ Sent(FALSE, n) = Downs(notifier, n)
  BY Zenon DEF Sent, SentIn, Ups, Downs
<1>2. /\ notifier \in Seq(BOOLEAN) /\ Len(notifier) \in Nat
      /\ value \in Int /\ drops \in Nat /\ value + Balance(notifier, Len(notifier)) - drops = x
      /\ \A n \in 0 .. Len(notifier) : value + Balance(notifier, n) >= 0
  BY DEF Exact
<1>3. \A n \in Nat : Ups(notifier, n) \in Nat /\ Downs(notifier, n) \in Nat
  BY BalanceType
<1>4. Users = x
  <2>1. Users = value + Ups(notifier, Len(notifier)) - Downs(notifier, Len(notifier)) - drops
    BY <1>1 DEF Users
  <2>2. Ups(notifier, Len(notifier)) \in Nat /\ Downs(notifier, Len(notifier)) \in Nat
    BY <1>2, <1>3
  <2>3. Balance(notifier, Len(notifier)) = Ups(notifier, Len(notifier)) - Downs(notifier, Len(notifier))
    BY DEF Balance
  <2>4. value \in Int /\ drops \in Nat /\ value + Balance(notifier, Len(notifier)) - drops = x
    BY <1>2
  <2> QED BY <2>1, <2>2, <2>3, <2>4
<1>5. ASSUME NEW n \in 0 .. Len(notifier)
      PROVE  value + Sent(TRUE, n) >= Sent(FALSE, n)
  <2>1. Ups(notifier, n) \in Nat /\ Downs(notifier, n) \in Nat
    BY <1>2, <1>3
  <2>2. value \in Int /\ value + Balance(notifier, n) >= 0
    BY <1>2
  <2>3. value + Ups(notifier, n) >= Downs(notifier, n)
    BY <2>1, <2>2 DEF Balance
  <2> QED BY <1>1, <2>3
<1> QED BY <1>4, <1>5

-----------------------------------------------------------------------------
(* The clients, f giving the place of each, and the queue s of requests.   *)

Places == {"off", "asked", "gone", "hold", "wait", "run"}
Active == {"hold", "wait", "run"}
Queued == [what : {"permit", "connect", "disconnect", "hangup"},
           who : Clients \union {"idle", "red", "reactor"}]

HoldingOf(f) == {u \in Clients : f[u] \in Active}

\* A client's request for a permit.
IsAsk(r) == r.what = "permit" /\ r.who \in Clients

\* A client whose request is queued waits for it or has given up, and has no other.
InPlace(s, f) ==
    /\ \A i \in 1 .. Len(s) : IsAsk(s[i]) => f[s[i].who] \in {"asked", "gone"}
    /\ \A i, j \in 1 .. Len(s) :
          IsAsk(s[i]) /\ IsAsk(s[j]) /\ s[i].who = s[j].who => i = j

\* A client is given a place: how the number of those that hold a permit changes.
LEMMA Placed ==
    ASSUME NEW f \in [Clients -> Places], NEW u \in Clients, NEW p \in Places
    PROVE  /\ [f EXCEPT ![u] = p] \in [Clients -> Places]
           /\ Cardinality(HoldingOf(f)) \in Nat
           /\ (f[u] \in Active <=> p \in Active) =>
                 Cardinality(HoldingOf([f EXCEPT ![u] = p])) = Cardinality(HoldingOf(f))
           /\ f[u] \notin Active /\ p \in Active =>
                 Cardinality(HoldingOf([f EXCEPT ![u] = p])) = Cardinality(HoldingOf(f)) + 1
           /\ f[u] \in Active /\ p \notin Active =>
                 /\ Cardinality(HoldingOf([f EXCEPT ![u] = p])) = Cardinality(HoldingOf(f)) - 1
                 /\ Cardinality(HoldingOf(f)) > 0
<1> DEFINE g == [f EXCEPT ![u] = p]
           h == HoldingOf(f)
<1>1. g \in [Clients -> Places] /\ g[u] = p /\ \A w \in Clients : w # u => g[w] = f[w]
  OBVIOUS
<1>2. IsFiniteSet(h) /\ Cardinality(h) \in Nat
  <2>1. h \in SUBSET Clients /\ IsFiniteSet(Clients)
    BY NeoCamAssumption DEF Clients, HoldingOf
  <2> HIDE DEF h
  <2> QED BY <2>1, FS_Subset, FS_CardinalityType
<1>3. CASE f[u] \in Active <=> p \in Active
  <2>1. HoldingOf(g) = h
    BY <1>1, <1>3 DEF HoldingOf
  <2> HIDE DEF g, h
  <2> QED BY <1>1, <1>2, <1>3, <2>1 DEF g, h
<1>4. CASE f[u] \notin Active /\ p \in Active
  <2>1. HoldingOf(g) = h \union {u} /\ u \notin h
    BY <1>1, <1>4 DEF HoldingOf
  <2>2. Cardinality(h \union {u}) = Cardinality(h) + 1
    <3> HIDE DEF h
    <3> QED BY <1>2, <2>1, FS_AddElement
  <2>3. Cardinality(HoldingOf(g)) = Cardinality(h) + 1
    <3> HIDE DEF g, h
    <3> QED BY <2>1, <2>2
  <2> QED BY <1>1, <1>2, <1>4, <2>3
<1>5. CASE f[u] \in Active /\ p \notin Active
  <2>1. HoldingOf(g) = h \ {u} /\ u \in h
    BY <1>1, <1>5 DEF HoldingOf
  <2>2. Cardinality(h \ {u}) = Cardinality(h) - 1 /\ Cardinality(h) # 0
    <3> HIDE DEF h
    <3> QED BY <1>2, <2>1, FS_RemoveElement, FS_EmptySet
  <2>3. Cardinality(HoldingOf(g)) = Cardinality(h) - 1 /\ Cardinality(h) > 0
    <3> HIDE DEF g, h
    <3> QED BY <1>2, <2>1, <2>2
  <2> QED BY <1>1, <1>2, <1>5, <2>3
<1> QED BY <1>3, <1>4, <1>5

\* Something else is put in the queue.
LEMMA QueueOther ==
    ASSUME NEW s \in Seq(Queued), NEW f, InPlace(s, f), NEW r \in Queued, ~IsAsk(r)
    PROVE  Append(s, r) \in Seq(Queued) /\ InPlace(Append(s, r), f)
<1>1. /\ Append(s, r) \in Seq(Queued) /\ Len(Append(s, r)) = Len(s) + 1 /\ Len(s) \in Nat
      /\ Append(s, r)[Len(s) + 1] = r
      /\ \A i \in 1 .. Len(s) : Append(s, r)[i] = s[i]
  BY AppendProperties
<1>2. PICK t : t = Append(s, r)
  OBVIOUS
<1>3. \A i \in 1 .. Len(t) : IsAsk(t[i]) => i \in 1 .. Len(s) /\ t[i] = s[i]
  BY <1>1, <1>2
<1>4. InPlace(t, f)
  BY <1>3 DEF InPlace
<1> QED BY <1>1, <1>2, <1>4

\* A client asks for a permit.
LEMMA QueueAsk ==
    ASSUME NEW s \in Seq(Queued), NEW f \in [Clients -> Places], InPlace(s, f),
           NEW u \in Clients, f[u] = "off", NEW r \in Queued, r.who = u
    PROVE  /\ Append(s, r) \in Seq(Queued)
           /\ InPlace(Append(s, r), [f EXCEPT ![u] = "asked"])
<1>1. /\ Append(s, r) \in Seq(Queued) /\ Len(Append(s, r)) = Len(s) + 1 /\ Len(s) \in Nat
      /\ Append(s, r)[Len(s) + 1] = r
      /\ \A i \in 1 .. Len(s) : Append(s, r)[i] = s[i]
  BY AppendProperties
<1>2. PICK t : t = Append(s, r)
  OBVIOUS
<1>3. PICK g : g = [f EXCEPT ![u] = "asked"]
  OBVIOUS
<1>4. \A w \in Clients : g[w] = IF w = u THEN "asked" ELSE f[w]
  BY <1>3
<1>5. \A i \in 1 .. Len(t) : \/ i = Len(s) + 1 /\ t[i] = r
                             \/ i \in 1 .. Len(s) /\ t[i] = s[i]
  BY <1>1, <1>2
<1>6. \A i \in 1 .. Len(s) : IsAsk(s[i]) => s[i].who # u
  BY DEF InPlace
<1>7. \A i \in 1 .. Len(t) : IsAsk(t[i]) => g[t[i].who] \in {"asked", "gone"}
  BY <1>4, <1>5 DEF InPlace, IsAsk
<1>8. ASSUME NEW i \in 1 .. Len(t), NEW j \in 1 .. Len(t),
             IsAsk(t[i]), IsAsk(t[j]), t[i].who = t[j].who
      PROVE  i = j
  BY <1>5, <1>6, <1>8 DEF InPlace
<1>9. InPlace(t, g)
  BY <1>7, <1>8 DEF InPlace
<1> QED BY <1>1, <1>2, <1>3, <1>9

\* A request is taken from the queue; if it was a client's, he may be given any place.
LEMMA QueueTake ==
    ASSUME NEW s \in Seq(Queued), NEW f \in [Clients -> Places], InPlace(s, f), s # <<>>
    PROVE  /\ Tail(s) \in Seq(Queued) /\ Head(s) \in Queued /\ InPlace(Tail(s), f)
           /\ IsAsk(Head(s)) =>
                 /\ f[Head(s).who] \in {"asked", "gone"}
                 /\ \A p : InPlace(Tail(s), [f EXCEPT ![Head(s).who] = p])
<1>1. /\ Tail(s) \in Seq(Queued) /\ Head(s) \in Queued /\ Head(s) = s[1]
      /\ Len(s) \in Nat /\ Len(Tail(s)) \in Nat /\ Len(s) = Len(Tail(s)) + 1
      /\ \A i \in 1 .. Len(Tail(s)) : Tail(s)[i] = s[i + 1]
  BY HeadTailProperties
<1>2. PICK t : t = Tail(s)
  OBVIOUS
<1>3. \A i \in 1 .. Len(t) : i + 1 \in 1 .. Len(s) /\ t[i] = s[i + 1] /\ i + 1 # 1
  BY <1>1, <1>2
<1>4. 1 \in 1 .. Len(s)
  BY <1>1
<1>5. InPlace(t, f)
  <2>1. \A i \in 1 .. Len(t) : IsAsk(t[i]) => f[t[i].who] \in {"asked", "gone"}
    BY <1>3 DEF InPlace
  <2>2. \A i, j \in 1 .. Len(t) :
           IsAsk(t[i]) /\ IsAsk(t[j]) /\ t[i].who = t[j].who => i + 1 = j + 1
    BY <1>3 DEF InPlace
  <2>3. \A i, j \in 1 .. Len(t) : i + 1 = j + 1 => i = j
    OBVIOUS
  <2> QED BY <2>1, <2>2, <2>3 DEF InPlace
<1>6. ASSUME IsAsk(s[1])
      PROVE  /\ f[s[1].who] \in {"asked", "gone"}
             /\ \A p : InPlace(t, [f EXCEPT ![s[1].who] = p])
  <2>1. f[s[1].who] \in {"asked", "gone"}
    BY <1>4, <1>6 DEF InPlace
  <2>2. \A i \in 1 .. Len(t) : IsAsk(t[i]) => t[i].who # s[1].who
    BY <1>3, <1>4, <1>6 DEF InPlace
  <2>3. ASSUME NEW p
        PROVE  InPlace(t, [f EXCEPT ![s[1].who] = p])
    <3>1. \A i \in 1 .. Len(t) :
             IsAsk(t[i]) => [f EXCEPT ![s[1].who] = p][t[i].who] = f[t[i].who]
      BY <2>2 DEF IsAsk
    <3> QED BY <1>5, <3>1 DEF InPlace
  <2> QED BY <2>1, <2>3
<1> QED BY <1>1, <1>2, <1>5, <1>6

\* A client that has no request in the queue may be given any place; one that has may
\* wait for it or give up.
LEMMA QueueMove ==
    ASSUME NEW s, NEW f \in [Clients -> Places], InPlace(s, f), NEW u \in Clients, NEW p,
           f[u] \notin {"asked", "gone"} \/ p \in {"asked", "gone"}
    PROVE  InPlace(s, [f EXCEPT ![u] = p])
<1>1. \A w \in Clients : [f EXCEPT ![u] = p][w] = IF w = u THEN p ELSE f[w]
  OBVIOUS
<1>2. \A i \in 1 .. Len(s) : IsAsk(s[i]) => [f EXCEPT ![u] = p][s[i].who] \in {"asked", "gone"}
  BY <1>1 DEF InPlace, IsAsk
<1> QED BY <1>2 DEF InPlace

-----------------------------------------------------------------------------
(* The camera.                                                             *)

\* The users that will have been counted when every message has been.
Expected == Cardinality(HoldingOf(user)) + lost + (IF idle \in CountsItself THEN 1 ELSE 0)

\* CountIsExact, and where the clients stand, for as long as there is a commander.
CountInv ==
    /\ user \in [Clients -> Places] /\ commander \in Seq(Queued) /\ lost \in Nat
    /\ commander_up =>
          /\ Exact(notifier, value, drops, Expected)
          /\ InPlace(commander, user)

\* What a request carries.
LEMMA RequestType ==
    /\ \A what \in {"permit", "connect", "disconnect", "hangup"},
          who \in Clients \union {"idle", "red", "reactor"} :
          /\ Request(what, who) \in Queued
          /\ Request(what, who).what = what /\ Request(what, who).who = who
    /\ "idle" \notin Clients /\ "red" \notin Clients /\ "reactor" \notin Clients
<1>1. "idle" \notin Clients /\ "red" \notin Clients /\ "reactor" \notin Clients
  BY NeoCamAssumption DEF Clients
<1> QED BY <1>1 DEF Queued, Request

\* CountInv is all that CountIsExact asks for.
LEMMA CountInvIsExact == CountInv => CountIsExact
<1> SUFFICES ASSUME CountInv, commander_up
             PROVE  CountIsExact
  BY DEF CountIsExact
<1>1. Exact(notifier, value, drops, Expected)
  BY DEF CountInv
<1>2. HoldingOf(user) = Holding
  BY DEF HoldingOf, Holding, Active
<1>3. Expected = Cardinality(Holding) + lost + IF idle \in CountsItself THEN 1 ELSE 0
  BY <1>2 DEF Expected
<1>4. Users = Expected /\ \A n \in 0 .. Len(notifier) : value + Sent(TRUE, n) >= Sent(FALSE, n)
  BY <1>1, ExactUsers
<1> QED BY <1>3, <1>4 DEF CountIsExact

LEMMA CountInit == Init => CountInv
<1> SUFFICES ASSUME Init PROVE CountInv
  OBVIOUS
<1>1. user \in [Clients -> Places] /\ commander \in Seq(Queued) /\ InPlace(commander, user)
  BY DEF Init, Places, InPlace
<1>2. HoldingOf(user) = {} /\ Cardinality({}) = 0
  BY FS_EmptySet DEF Init, HoldingOf, Active
<1>3. Expected = 0
  <2>1. idle = "green" /\ lost = 0
    BY DEF Init
  <2> QED BY <1>2, <2>1 DEF Expected, CountsItself
<1>4. notifier = <<>> /\ value = 0 /\ drops = 0
  BY DEF Init, CounterInit
<1>5. Exact(<<>>, 0, 0, 0)
  <2>1. <<>> \in Seq(BOOLEAN) /\ Len(<<>>) = 0 /\ Balance(<<>>, 0) = 0
    BY BalanceType
  <2> QED BY <2>1 DEF Exact
<1>6. lost \in Nat
  BY DEF Init
<1> QED BY <1>1, <1>3, <1>4, <1>5, <1>6 DEF CountInv

\* The answer to a request for a permit.
LEMMA ServePermitKeeps ==
    ASSUME CountInv, commander_up, Serve, Head(commander).what = "permit",
           ServePermit(Head(commander).who)
    PROVE  CountInv'
<1> DEFINE r == Head(commander)
<1>1. /\ commander # <<>> /\ commander' = Tail(commander) /\ value' = value
      /\ commander_up' = commander_up /\ lost' = lost
  BY DEF Serve
<1>2. /\ Tail(commander) \in Seq(Queued) /\ r \in Queued /\ InPlace(Tail(commander), user)
      /\ IsAsk(r) =>
            /\ user[r.who] \in {"asked", "gone"}
            /\ \A p : InPlace(Tail(commander), [user EXCEPT ![r.who] = p])
  BY <1>1, QueueTake DEF CountInv
<1>3. notifier' = Append(notifier, TRUE)
  BY DEF ServePermit, Notify
<1>4. Exact(notifier, value, drops, Expected) /\ drops \in Nat
  BY DEF CountInv, Exact
<1>5. user \in [Clients -> Places] /\ lost \in Nat /\ lost' \in Nat
  BY <1>1 DEF CountInv
<1>6. ASSUME NEW k \in Nat, drops' = drops + k, Expected' = Expected + 1 - k
      PROVE  Exact(notifier', value', drops', Expected')
  BY <1>1, <1>3, <1>4, <1>6, Activated
<1>7. CASE r.who \in Clients
  <2>1. IsAsk(r) /\ idle' = idle
    BY <1>7 DEF IsAsk, ServePermit
  <2>2. CASE user[r.who] = "asked"
    <3>1. PICK p \in Active : user' = [user EXCEPT ![r.who] = p]
      BY <1>7, <2>2 DEF ServePermit, Active
    <3>2. /\ user' \in [Clients -> Places] /\ Cardinality(HoldingOf(user)) \in Nat
          /\ Cardinality(HoldingOf(user')) = Cardinality(HoldingOf(user)) + 1
      <4>1. user[r.who] \notin Active /\ p \in Places
        BY <2>2 DEF Active, Places
      <4> QED BY <1>5, <1>7, <3>1, <4>1, Placed
    <3>3. drops' = drops + 0 /\ Expected' = Expected + 1 - 0
      BY <1>1, <1>4, <1>5, <1>7, <2>1, <2>2, <3>2 DEF ServePermit, Expected, HoldingOf
    <3>4. InPlace(commander', user')
      BY <1>1, <1>2, <2>1, <3>1
    <3> QED BY <1>1, <1>2, <1>5, <1>6, <3>2, <3>3, <3>4 DEF CountInv
  <2>3. CASE user[r.who] # "asked"
    <3>1. user' = [user EXCEPT ![r.who] = "off"] /\ drops' = drops + 1
      BY <1>7, <2>3 DEF ServePermit
    <3>2. user[r.who] \notin Active /\ "off" \notin Active /\ "off" \in Places
      BY <1>2, <2>1 DEF Active, Places
    <3>3. /\ user' \in [Clients -> Places] /\ Cardinality(HoldingOf(user)) \in Nat
          /\ Cardinality(HoldingOf(user')) = Cardinality(HoldingOf(user))
      BY <1>5, <1>7, <3>1, <3>2, Placed
    <3>4. Expected' = Expected + 1 - 1
      BY <1>1, <1>5, <2>1, <3>3 DEF Expected, HoldingOf
    <3>5. InPlace(commander', user')
      BY <1>1, <1>2, <2>1, <3>1
    <3> QED BY <1>1, <1>2, <1>5, <1>6, <3>1, <3>3, <3>4, <3>5 DEF CountInv
  <2> QED BY <2>2, <2>3
<1>8. CASE r.who \notin Clients
  <2>1. user' = user /\ InPlace(commander', user')
    BY <1>1, <1>2, <1>8 DEF ServePermit
  <2>2. Cardinality(HoldingOf(user')) = Cardinality(HoldingOf(user))
        /\ Cardinality(HoldingOf(user)) \in Nat
    <3>1. IsFiniteSet(HoldingOf(user))
      BY NeoCamAssumption, FS_Subset DEF HoldingOf, Clients
    <3> QED BY <2>1, <3>1, FS_CardinalityType
  <2>3. CASE idle = "asked"
    <3>1. idle' = "given" /\ drops' = drops + 0 /\ Expected' = Expected + 1 - 0
      BY <1>1, <1>4, <1>5, <1>8, <2>2, <2>3 DEF ServePermit, Expected, CountsItself
    <3> QED BY <1>1, <1>2, <1>5, <1>6, <2>1, <3>1 DEF CountInv
  <2>4. CASE idle # "asked"
    <3>1. idle' = idle /\ drops' = drops + 1 /\ Expected' = Expected + 1 - 1
      BY <1>1, <1>5, <1>8, <2>2, <2>4 DEF ServePermit, Expected
    <3> QED BY <1>1, <1>2, <1>5, <1>6, <2>1, <3>1 DEF CountInv
  <2> QED BY <2>3, <2>4
<1> QED BY <1>7, <1>8

LEMMA ExpectedType ==
    ASSUME user \in [Clients -> Places], lost \in Nat
    PROVE  Cardinality(HoldingOf(user)) \in Nat /\ Expected \in Nat
<1>1. IsFiniteSet(HoldingOf(user))
  BY NeoCamAssumption, FS_Subset DEF HoldingOf, Clients
<1>2. Cardinality(HoldingOf(user)) \in Nat
  BY <1>1, FS_CardinalityType
<1> QED BY <1>2 DEF Expected

\* A step that sends the counter nothing, drops k permits and leaves the clients where
\* they may be.
LEMMA Quietly ==
    ASSUME CountInv, UNCHANGED <<value, notifier, commander_up>>,
           NEW k \in Nat, drops' = drops + k, Expected' = Expected - k,
           user' \in [Clients -> Places], commander' \in Seq(Queued), lost' \in Nat,
           commander_up => InPlace(commander', user')
    PROVE  CountInv'
<1>1. ASSUME commander_up
      PROVE  Exact(notifier', value', drops', Expected')
  <2>1. Exact(notifier, value, drops, Expected)
    BY <1>1 DEF CountInv
  <2>2. Exact(notifier, value, drops + k, Expected - k)
    BY <2>1, Left
  <2> QED BY <2>2
<1> QED BY <1>1 DEF CountInv

\* A step that has nothing to do with the count.
LEMMA Apart ==
    ASSUME CountInv, UNCHANGED <<value, notifier, drops, commander_up, user, lost>>,
           idle \in CountsItself <=> idle' \in CountsItself,
           commander' \in Seq(Queued),
           commander_up => InPlace(commander', user)
    PROVE  CountInv'
<1>1. user \in [Clients -> Places] /\ lost \in Nat
  BY DEF CountInv
<1>2. CASE commander_up
  <2>1. drops' = drops + 0 /\ Expected' = Expected - 0
    <3>1. Exact(notifier, value, drops, Expected)
      BY <1>2 DEF CountInv
    <3>2. drops \in Nat
      BY <3>1 DEF Exact
    <3> QED BY <1>1, <3>2, ExpectedType DEF Expected
  <2> QED BY <1>1, <2>1, Quietly
<1>3. CASE ~commander_up
  BY <1>1, <1>3 DEF CountInv
<1> QED BY <1>2, <1>3

LEMMA ServeKeeps ==
    ASSUME CountInv, Serve
    PROVE  CountInv'
<1> DEFINE r == Head(commander)
<1>1. /\ commander_up /\ commander # <<>> /\ commander' = Tail(commander)
      /\ UNCHANGED <<value, commander_up, lost>>
  BY DEF Serve
<1>2. Tail(commander) \in Seq(Queued) /\ InPlace(Tail(commander), user)
  BY <1>1, QueueTake DEF CountInv
<1>3. CASE r.what = "permit" /\ ServePermit(r.who)
  BY <1>1, <1>3, ServePermitKeeps
<1>4. CASE ServeConnect(r.who) \/ ServeDisconnect \/ ServeHangUp
  <2>1. /\ UNCHANGED <<notifier, drops, user>>
        /\ idle \in CountsItself <=> idle' \in CountsItself
    BY <1>4 DEF ServeConnect, ServeDisconnect, ServeHangUp, CountsItself
  <2> QED BY <1>1, <1>2, <2>1, Apart
<1> QED BY <1>3, <1>4 DEF Serve

\* The counting task.
LEMMA CountingKeeps ==
    ASSUME CountInv, Counting
    PROVE  CountInv'
<1>1. /\ commander_up /\ UNCHANGED <<commander_up, commander, user, idle, lost>>
      /\ Expected' = Expected
  BY DEF Counting, cam_thread_vars, client_vars, Expected, HoldingOf
<1>2. Exact(notifier, value, drops, Expected) /\ drops \in Nat
  BY <1>1 DEF CountInv, Exact
<1>3. CASE Count
  <2>1. Exact(Tail(notifier), IF Head(notifier) THEN value + 1 ELSE value - 1, drops, Expected)
    BY <1>2, <1>3, Counted DEF Count
  <2> QED BY <1>1, <1>3, <2>1 DEF CountInv, Count
<1>4. CASE SpawnedSend
  <2>1. /\ drops > 0 /\ notifier' = Append(notifier, FALSE) /\ drops' = drops - 1
        /\ value' = value
    BY <1>4 DEF SpawnedSend, Notify
  <2>2. Expected \in Nat
    BY ExpectedType DEF CountInv
  <2>3. 1 \in 0 .. drops /\ Expected + drops > 0 /\ Expected - 1 + 1 = Expected
    BY <1>2, <2>1, <2>2
  <2>4. Exact(Append(notifier, FALSE), value, drops - 1, Expected - 1 + 1)
    BY <1>2, <2>3, Deactivated
  <2>5. Exact(notifier', value', drops', Expected')
    BY <1>1, <2>1, <2>3, <2>4
  <2> QED BY <1>1, <2>5 DEF CountInv
<1> QED BY <1>3, <1>4 DEF Counting

\* The idle task: its permit counts while it has not deactivated it.
LEMMA IdleKeeps ==
    ASSUME CountInv, IdleNext
    PROVE  CountInv'
<1>1. UNCHANGED <<value, commander_up, user>>
  BY DEF IdleNext, IdleGreen, IdleAsk, IdleDeactivate, IdleSeesUse, IdleSeesNone, IdleLingered,
         IdleRed, IdleEnds, DropInner, IdleFrame, cam_thread_vars, client_vars
<1>2. /\ user \in [Clients -> Places] /\ commander \in Seq(Queued) /\ lost \in Nat
      /\ commander_up => InPlace(commander, user)
  BY DEF CountInv
<1>3. CASE IdleGreen \/ IdleSeesUse \/ IdleSeesNone \/ IdleLingered
  <2>1. /\ UNCHANGED <<notifier, drops, commander, lost>>
        /\ idle \in CountsItself <=> idle' \in CountsItself
    BY <1>3 DEF IdleGreen, IdleSeesUse, IdleSeesNone, IdleLingered, IdleFrame, CountsItself
  <2> QED BY <1>1, <1>2, <2>1, Apart
<1>4. CASE IdleAsk
  <2>1. PICK what \in {"permit", "connect", "disconnect", "hangup"}, who \in {"idle", "red"} :
           commander' = Append(commander, Request(what, who))
    BY <1>4, Zenon DEF IdleAsk, Ask
  <2>2. Request(what, who) \in Queued /\ ~IsAsk(Request(what, who))
    BY RequestType DEF IsAsk
  <2>3. /\ UNCHANGED <<notifier, drops, lost>>
        /\ idle \in CountsItself <=> idle' \in CountsItself
    BY <1>4 DEF IdleAsk, IdleFrame, CountsItself
  <2>4. commander' \in Seq(Queued) /\ (commander_up => InPlace(commander', user))
    <3>1. commander' \in Seq(Queued)
      BY <1>2, <2>1, <2>2, AppendProperties
    <3> QED BY <1>2, <2>1, <2>2, <3>1, QueueOther
  <2> QED BY <1>1, <2>3, <2>4, Apart
<1>5. CASE IdleDeactivate
  <2>1. idle \in CountsItself /\ UNCHANGED <<drops, commander, lost>>
    BY <1>5 DEF IdleDeactivate, IdleFrame, CountsItself
  <2>2. Cardinality(HoldingOf(user)) \in Nat
    BY <1>2, ExpectedType
  <2>3. CASE Notify(FALSE) /\ idle' = "users"
    <3>1. notifier' = Append(notifier, FALSE) /\ idle' \notin CountsItself
      BY <2>3 DEF Notify, CountsItself
    <3>2. /\ Expected = Cardinality(HoldingOf(user)) + lost + 1
          /\ Expected' = Cardinality(HoldingOf(user)) + lost + 0
      BY <1>1, <2>1, <3>1 DEF Expected, HoldingOf
    <3>3. ASSUME commander_up
          PROVE  Exact(notifier', value', drops', Expected')
      <4>1. Exact(notifier, value, drops, Expected) /\ drops \in Nat
        BY <3>3 DEF CountInv, Exact
      <4>2. 0 \in 0 .. drops /\ Expected + drops > 0 /\ Expected - 1 + 0 = Expected' /\ drops - 0 = drops
        BY <1>2, <2>2, <3>2, <4>1
      <4>3. Exact(Append(notifier, FALSE), value, drops - 0, Expected - 1 + 0)
        BY <4>1, <4>2, Deactivated
      <4> QED BY <1>1, <2>1, <3>1, <4>2, <4>3
    <3> QED BY <1>1, <1>2, <2>1, <3>3 DEF CountInv
  <2>4. CASE idle' = "deactivate" /\ UNCHANGED notifier
    <3>1. idle' \in CountsItself
      BY <2>4 DEF CountsItself
    <3> QED BY <1>1, <1>2, <2>1, <2>4, <3>1, Apart
  <2> QED BY <1>5, <2>3, <2>4 DEF IdleDeactivate
<1>6. CASE IdleRed \/ IdleEnds
  <2>1. DropInner /\ idle' \notin CountsItself
    BY <1>6 DEF IdleRed, IdleEnds, CountsItself
  <2>2. /\ UNCHANGED <<notifier, commander>>
        /\ drops' = IF idle = "given" THEN drops + 1 ELSE drops
        /\ lost' = IF idle = "deactivate" THEN lost + 1 ELSE lost
    BY <2>1 DEF DropInner
  <2>3. Cardinality(HoldingOf(user)) \in Nat
    BY <1>2, ExpectedType
  <2>4. CASE idle = "given"
    <3>1. lost' = lost /\ drops' = drops + 1 /\ idle \in CountsItself
      BY <2>2, <2>4 DEF CountsItself
    <3>2. Expected' = Expected - 1
      BY <1>1, <1>2, <2>1, <2>3, <3>1 DEF Expected, HoldingOf
    <3> QED BY <1>1, <1>2, <2>2, <3>1, <3>2, Quietly
  <2>5. CASE idle = "deactivate"
    <3>1. lost' = lost + 1 /\ drops' = drops /\ idle \in CountsItself
      BY <2>2, <2>5 DEF CountsItself
    <3>2. Expected' = Expected
      BY <1>1, <1>2, <2>1, <2>3, <3>1 DEF Expected, HoldingOf
    <3>3. commander_up => Exact(notifier', value', drops', Expected')
      BY <1>1, <2>2, <3>1, <3>2 DEF CountInv
    <3> QED BY <1>1, <1>2, <2>2, <3>1, <3>3 DEF CountInv
  <2>6. CASE idle \notin CountsItself
    <3>1. lost' = lost /\ drops' = drops
      BY <2>2, <2>6 DEF CountsItself
    <3> QED BY <1>1, <1>2, <2>1, <2>2, <2>6, <3>1, Apart
  <2> QED BY <2>4, <2>5, <2>6 DEF CountsItself
<1> QED BY <1>3, <1>4, <1>5, <1>6 DEF IdleNext

\* A client.
LEMMA ClientKeeps ==
    ASSUME CountInv, NEW u \in Clients, ClientNext(u)
    PROVE  CountInv'
<1>1. UNCHANGED <<value, notifier, commander_up, idle, lost>>
  BY DEF ClientNext, AskPermit, GiveUp, Unanswered, StartRun, NoMoreCameras, Restart, Finish,
         CancelTask, Release, Leave, ClientFrame, cam_thread_vars
<1>2. /\ user \in [Clients -> Places] /\ commander \in Seq(Queued)
      /\ commander_up => InPlace(commander, user)
      /\ commander_up => drops \in Nat
      /\ lost \in Nat
  BY DEF CountInv, Exact
<1>3. Cardinality(HoldingOf(user)) \in Nat /\ Expected \in Nat
  BY <1>2, ExpectedType
<1>4. CASE ~commander_up
  <2>1. user' \in [Clients -> Places] /\ commander' \in Seq(Queued)
    BY <1>2, <1>4
    DEF ClientNext, AskPermit, GiveUp, Unanswered, StartRun, NoMoreCameras, Restart, Finish,
        CancelTask, Release, Leave, Ask, Places
  <2> QED BY <1>1, <1>2, <1>4, <2>1 DEF CountInv
<1>5. ASSUME commander_up, NEW p \in Places, user' = [user EXCEPT ![u] = p],
             user[u] \in Active <=> p \in Active, drops' = drops,
             commander' \in Seq(Queued), InPlace(commander', user')
      PROVE  CountInv'
  <2>1. user' \in [Clients -> Places] /\ Cardinality(HoldingOf(user')) = Cardinality(HoldingOf(user))
    BY <1>2, <1>5, Placed
  <2>2. Expected' = Expected - 0 /\ drops' = drops + 0
    BY <1>1, <1>2, <1>3, <1>5, <2>1 DEF Expected, HoldingOf
  <2> QED BY <1>1, <1>2, <1>5, <2>1, <2>2, Quietly
<1>6. CASE commander_up /\ AskPermit(u)
  <2>1. /\ user[u] = "off" /\ user' = [user EXCEPT ![u] = "asked"] /\ drops' = drops
        /\ commander' = Append(commander, Request("permit", u))
    BY <1>6 DEF AskPermit, Ask
  <2>2. Request("permit", u) \in Queued /\ Request("permit", u).who = u
    BY RequestType
  <2>3. commander' \in Seq(Queued) /\ InPlace(commander', user')
    BY <1>2, <1>6, <2>1, <2>2, QueueAsk
  <2>4. "asked" \in Places /\ (user[u] \in Active <=> "asked" \in Active)
    BY <2>1 DEF Places, Active
  <2> QED BY <1>5, <1>6, <2>1, <2>3, <2>4
<1>7. CASE commander_up /\ GiveUp(u)
  <2>1. /\ user[u] = "asked" /\ user' = [user EXCEPT ![u] = "gone"] /\ drops' = drops
        /\ commander' = commander
    BY <1>7 DEF GiveUp
  <2>2. InPlace(commander', user')
    BY <1>2, <1>7, <2>1, QueueMove
  <2>3. "gone" \in Places /\ (user[u] \in Active <=> "gone" \in Active)
    BY <2>1 DEF Places, Active
  <2> QED BY <1>2, <1>5, <1>7, <2>1, <2>2, <2>3
<1>8. CASE commander_up /\ (StartRun(u) \/ Restart(u))
  <2>1. PICK p \in {"run", "wait"} : user' = [user EXCEPT ![u] = p]
    BY <1>8 DEF StartRun, Restart
  <2>2. user[u] \in {"run", "wait"} /\ drops' = drops /\ commander' = commander
    BY <1>8 DEF StartRun, Restart
  <2>3. InPlace(commander', user')
    BY <1>2, <1>8, <2>1, <2>2, QueueMove
  <2>4. p \in Places /\ (user[u] \in Active <=> p \in Active)
    BY <2>2 DEF Places, Active
  <2> QED BY <1>2, <1>5, <1>8, <2>1, <2>2, <2>3, <2>4
<1>9. CASE commander_up /\ user[u] \in Active /\ Leave(u)
  <2>1. user' = [user EXCEPT ![u] = "off"] /\ drops' = drops + 1 /\ commander' = commander
    BY <1>9 DEF Leave
  <2>2. "off" \in Places /\ "off" \notin Active /\ user[u] \notin {"asked", "gone"}
    BY <1>9 DEF Places, Active
  <2>3. /\ user' \in [Clients -> Places]
        /\ Cardinality(HoldingOf(user')) = Cardinality(HoldingOf(user)) - 1
    BY <1>2, <1>9, <2>1, <2>2, Placed
  <2>4. Expected' = Expected - 1
    BY <1>1, <1>2, <1>3, <2>3 DEF Expected, HoldingOf
  <2>5. InPlace(commander', user')
    BY <1>2, <1>9, <2>1, <2>2, QueueMove
  <2> QED BY <1>1, <1>2, <2>1, <2>3, <2>4, <2>5, Quietly
<1>10. NoMoreCameras(u) \/ Finish(u) \/ CancelTask(u) \/ Release(u) =>
          user[u] \in Active /\ Leave(u)
  BY DEF NoMoreCameras, Finish, CancelTask, Release, Active
<1>11. Unanswered(u) => ~commander_up
  BY DEF Unanswered
<1> QED BY <1>4, <1>6, <1>7, <1>8, <1>9, <1>10, <1>11 DEF ClientNext

\* The configuration, the thread and the world change what the count does not see; the
\* commander's end ends what is promised of it.
LEMMA OthersKeep ==
    ASSUME CountInv,
           CommanderEnds \/ Threading \/ World \/ UpdateConfig \/ Remove \/ AskHangUp
             \/ UNCHANGED vars
    PROVE  CountInv'
<1>1. /\ user \in [Clients -> Places] /\ commander \in Seq(Queued) /\ lost \in Nat
      /\ commander_up => InPlace(commander, user)
  BY DEF CountInv
<1>2. CASE CommanderEnds
  BY <1>1, <1>2 DEF CommanderEnds, client_vars, CountInv
<1>3. CASE Threading \/ World \/ UpdateConfig \/ Remove \/ UNCHANGED vars
  <2>1. UNCHANGED <<value, notifier, drops, user, commander, idle, lost>>
    BY <1>3 DEF Threading, World, UpdateConfig, Remove, vars, counter_vars, client_vars
  <2>2. commander_up' = commander_up
    BY <1>3 DEF Threading, ThreadNext, StartConnect, Orphaned, Interrupted, LoginDone, LoginRefused,
                Publish, Lost, BackoffDone, CancelSeen, World, WorldNext, Fault, Heal, Return,
                UpdateConfig, Remove, vars, cam_thread_vars
  <2> QED BY <1>1, <2>1, <2>2, Apart
<1>4. CASE AskHangUp
  <2>1. UNCHANGED <<value, notifier, drops, user, idle, lost, commander_up>>
    BY <1>4 DEF AskHangUp, counter_vars, cam_thread_vars, client_vars
  <2>2. \/ commander' = Append(commander, Request("hangup", "reactor"))
        \/ commander' = commander
    BY <1>4 DEF AskHangUp, Ask
  <2>3. Request("hangup", "reactor") \in Queued /\ ~IsAsk(Request("hangup", "reactor"))
    BY RequestType DEF IsAsk
  <2>4. commander' \in Seq(Queued)
    BY <1>1, <2>2, <2>3, AppendProperties
  <2>5. commander_up => InPlace(commander', user)
    BY <1>1, <2>2, <2>3, QueueOther
  <2> QED BY <2>1, <2>4, <2>5, Apart
<1> QED BY <1>2, <1>3, <1>4

\* However permits are asked for, abandoned, activated, deactivated and dropped, by any
\* clients and through queues of any length, the counter misses none of those that hold
\* one; what it counts besides is exactly the deactivations of the idle task that were
\* cut off while they waited for room; and the u32 never goes below zero.
THEOREM PermitsAreCounted == Spec => []CountIsExact
<1>1. Init => CountInv
  BY CountInit
<1>2. CountInv /\ [Next]_vars => CountInv'
  BY ServeKeeps, CountingKeeps, IdleKeeps, ClientKeeps, OthersKeep DEF Next
<1>3. CountInv => CountIsExact
  BY CountInvIsExact
<1> QED BY <1>1, <1>2, <1>3, PTL DEF Spec
=============================================================================
