----------------------------- MODULE BcConnProofs -----------------------------
(***************************************************************************)
(* The shared connection, for any tasks, capacities and bounds: a          *)
(* subscription gets what is its own (IsSentOwn), and a task that          *)
(* subscribes before it asks gets all of it, in order (MissesNothing).     *)
(* The order of the poll commands carries the second: the command that     *)
(* registers a subscription is queued before the request is, so it comes   *)
(* before every message of the answer.                                     *)
(***************************************************************************)
EXTENDS BcConn, SequenceTheorems, TLAPS

Msgs == [c : {"bc"}, id : {"rpc", "video", "stop", "snap"}, num : Nums, n : Nat]
Received == Msgs \union {Alive, Failed}
Commands == Received \union {Add(s) : s \in Slots} \union {AddHandler}

Typed ==
    /\ rx \in [Slots -> Seq(Msgs \union {Failed})] /\ wire_in \in Seq(Received)
    /\ commander \in Seq(Commands)
    /\ sink \in Seq(Keys \union {AliveReply})
    /\ reg \in [Slots -> Nums \union {Absent, Unnumbered}]
    /\ got \in [Slots -> Nat] /\ cam_sent \in [Keys -> Nat]
    /\ open \subseteq Slots /\ target \subseteq Slots /\ cam_work \subseteq Keys
    /\ DOMAIN pc = Tasks
    /\ poller \in {"idle", "send", "errs", "dead"}

\* A subscription that does not wait for any number.
Numbered(s) == s[2] # "data"

\* The places of a task that has not come to its subscription s yet.
Earlier(s) ==
    CASE s[2] = "data" -> {"start", "send", "recv", "drop", "next"}
      [] s[2] = "stop" -> {"start", "send", "recv", "stream", "stop"}
      [] OTHER -> {"start"}

Ahead(s) == pc[Task(s)] \in Earlier(s)

\* What is registered is under its own number, and what is queued is under the number
\* that is registered.
Owns ==
    \A s \in Slots :
        /\ Numbered(s) => reg[s] \in {Absent, Task(s)}
        /\ s \notin open => rx[s] = <<>>
        /\ poller # "dead" => \A i \in DOMAIN rx[s] :
                rx[s][i].c = "bc" => rx[s][i].num = reg[s]

\* The number of one subscription is no other's.
Single ==
    \A s, o \in Slots : Id(s) = Id(o) /\ reg[s] = reg[o] /\ reg[s] # Absent => s = o

\* What the poller sends goes to one subscription, which has its number.
Aimed ==
    /\ poller \in {"idle", "dead"} => target = {}
    /\ poller = "send" => \E s \in Slots :
            target = {s} /\ held \in Msgs /\ held.id = Id(s) /\ held.num = reg[s]
    /\ poller = "errs" => held = Failed

\* Nobody answers to what s will be registered under.
Untaken(s) == reg[s] = Absent /\ (Numbered(s) => \A o \in Slots : Id(o) = Id(s) => reg[o] # Task(s))

\* What is ahead has not been asked for.
Unasked ==
    \A s \in Slots : Ahead(s) =>
        /\ s \notin open /\ Untaken(s) /\ got[s] = 0
        /\ \A i \in DOMAIN commander : commander[i] # Add(s)
        /\ Numbered(s) =>
            /\ Key(s) \notin cam_work /\ cam_sent[Key(s)] = 0
            /\ \A i \in DOMAIN sink : sink[i] # Key(s)
            /\ \A i \in DOMAIN commander : ~Of(commander[i], Key(s))
            /\ \A i \in DOMAIN wire_in : ~Of(wire_in[i], Key(s))

\* A registration is queued once, and before what it is for.
Ordered ==
    \A s \in Slots : \A i \in DOMAIN commander : commander[i] = Add(s) =>
        /\ Untaken(s)
        /\ \A j \in DOMAIN commander : commander[j] = Add(s) => j = i
        /\ Numbered(s) => \A j \in DOMAIN commander : Of(commander[j], Key(s)) => i < j

\* What is neither ahead nor queued is registered, as long as there is a receiver.
Heard ==
    \A s \in open :
        poller # "dead" /\ Numbered(s) /\ (\A i \in DOMAIN commander : commander[i] # Add(s))
            => reg[s] = Task(s)

\* Where the messages of s are that it has yet to receive: up to the a-th in its queue,
\* up to the b-th among the commands, the rest on the wire.
SpreadAt(s, a, b) ==
    LET k == Key(s)
        sent == IF poller = "send" /\ s \in target THEN a + 1 ELSE a
    IN  /\ got[s] <= a /\ sent <= b /\ b <= cam_sent[k]
        /\ Carries(rx[s], k, got[s], a)
        /\ poller = "send" /\ s \in target => held.n = a + 1
        /\ Carries(commander, k, sent, b)
        /\ Carries(wire_in, k, b, cam_sent[k])

Spread(s) == \E a, b \in Nat : SpreadAt(s, a, b)

Comes == \A s \in open : poller # "dead" /\ Numbered(s) => Spread(s)

ConnInv ==
    /\ Typed /\ Owns /\ OnlyOwn /\ Single /\ Aimed /\ Unasked /\ Ordered /\ Heard /\ Comes

-----------------------------------------------------------------------------
(* Sequences, and what they carry                                          *)

LEMMA Members ==
    ASSUME NEW S, NEW q \in Seq(S)
    PROVE  DOMAIN q = 1..Len(q) /\ Len(q) \in Nat /\ \A i \in DOMAIN q : q[i] \in S
  OBVIOUS

LEMMA Longer ==
    ASSUME NEW S, NEW q \in Seq(S), NEW m \in S
    PROVE  /\ Append(q, m) \in Seq(S) /\ Len(q) \in Nat
           /\ DOMAIN q = 1..Len(q) /\ DOMAIN Append(q, m) = 1..(Len(q) + 1)
           /\ \A i \in 1..Len(q) : Append(q, m)[i] = q[i]
           /\ Append(q, m)[Len(q) + 1] = m
  BY AppendProperties

LEMMA Shorter ==
    ASSUME NEW S, NEW q \in Seq(S), q # <<>>
    PROVE  /\ Tail(q) \in Seq(S) /\ Head(q) \in S /\ Head(q) = q[1] /\ Len(q) \in Nat \ {0}
           /\ DOMAIN q = 1..Len(q) /\ DOMAIN Tail(q) = 1..(Len(q) - 1)
           /\ \A i \in 1..(Len(q) - 1) : Tail(q)[i] = q[i + 1]
  BY HeadTailProperties, EmptySeq

LEMMA CarriesNone ==
    ASSUME NEW q, NEW k, NEW n \in Nat, \A i \in DOMAIN q : ~Of(q[i], k)
    PROVE  Carries(q, k, n, n)
  BY DEF Carries

LEMMA CarriesOne ==
    ASSUME NEW S, NEW q \in Seq(S), NEW m \in S, NEW k, NEW lo \in Nat, NEW hi \in Nat,
           lo <= hi, Carries(q, k, lo, hi), Of(m, k), m.n = hi + 1
    PROVE  Carries(Append(q, m), k, lo, hi + 1)
<1> DEFINE own == {i \in DOMAIN q : Of(q[i], k)}
           new == {i \in DOMAIN Append(q, m) : Of(Append(q, m)[i], k)}
<1>1. /\ Append(q, m) \in Seq(S) /\ Len(q) \in Nat
      /\ DOMAIN q = 1..Len(q) /\ DOMAIN Append(q, m) = 1..(Len(q) + 1)
      /\ \A i \in 1..Len(q) : Append(q, m)[i] = q[i]
      /\ Append(q, m)[Len(q) + 1] = m
  BY Longer
<1>2. new = own \union {Len(q) + 1}
  BY <1>1
<1>3. /\ {q[i].n : i \in own} = (lo + 1)..hi
      /\ \A i, j \in own : i < j => q[i].n < q[j].n
  BY DEF Carries
<1>4. {Append(q, m)[i].n : i \in new} = (lo + 1)..(hi + 1)
  <2>1. \A i \in own : Append(q, m)[i] = q[i]
    BY <1>1
  <2>2. {Append(q, m)[i].n : i \in new} = {q[i].n : i \in own} \union {hi + 1}
    BY <1>1, <1>2, <2>1
  <2> QED BY <2>2, <1>3
<1>5. ASSUME NEW i \in new, NEW j \in new, i < j PROVE Append(q, m)[i].n < Append(q, m)[j].n
  <2>1. i \in own
    BY <1>1, <1>2, <1>5
  <2>2. q[i].n \in (lo + 1)..hi
    BY <2>1, <1>3
  <2>3. CASE j \in own
    BY <1>1, <1>3, <1>5, <2>1, <2>3
  <2>4. CASE j = Len(q) + 1
    BY <1>1, <2>1, <2>2, <2>4
  <2> QED BY <1>2, <2>3, <2>4
<1> QED BY <1>4, <1>5 DEF Carries

LEMMA CarriesOther ==
    ASSUME NEW S, NEW q \in Seq(S), NEW m \in S, NEW k, NEW lo, NEW hi,
           Carries(q, k, lo, hi), ~Of(m, k)
    PROVE  Carries(Append(q, m), k, lo, hi)
<1> DEFINE own == {i \in DOMAIN q : Of(q[i], k)}
           new == {i \in DOMAIN Append(q, m) : Of(Append(q, m)[i], k)}
<1>1. /\ Append(q, m) \in Seq(S) /\ Len(q) \in Nat
      /\ DOMAIN q = 1..Len(q) /\ DOMAIN Append(q, m) = 1..(Len(q) + 1)
      /\ \A i \in 1..Len(q) : Append(q, m)[i] = q[i]
      /\ Append(q, m)[Len(q) + 1] = m
  BY Longer
<1>2. new = own /\ \A i \in own : Append(q, m)[i] = q[i]
  BY <1>1
<1>3. {Append(q, m)[i].n : i \in new} = {q[i].n : i \in own}
  BY <1>2
<1> QED BY <1>2, <1>3 DEF Carries

LEMMA CarriesTail ==
    ASSUME NEW S, NEW q \in Seq(S), q # <<>>, NEW k, NEW lo, NEW hi,
           Carries(q, k, lo, hi), ~Of(Head(q), k)
    PROVE  Carries(Tail(q), k, lo, hi)
<1> DEFINE own == {i \in DOMAIN q : Of(q[i], k)}
           new == {i \in DOMAIN Tail(q) : Of(Tail(q)[i], k)}
<1>1. /\ Tail(q) \in Seq(S) /\ Head(q) \in S /\ Head(q) = q[1] /\ Len(q) \in Nat \ {0}
      /\ DOMAIN q = 1..Len(q) /\ DOMAIN Tail(q) = 1..(Len(q) - 1)
      /\ \A i \in 1..(Len(q) - 1) : Tail(q)[i] = q[i + 1]
  BY Shorter
<1>2. \A i \in new : i + 1 \in own /\ Tail(q)[i] = q[i + 1] /\ i \in Nat
  BY <1>1
<1>3. \A j \in own : j - 1 \in new /\ Tail(q)[j - 1] = q[j]
  BY <1>1
<1>4. {Tail(q)[i].n : i \in new} = {q[i].n : i \in own}
  BY <1>2, <1>3
<1>5. /\ {q[i].n : i \in own} = (lo + 1)..hi
      /\ \A i, j \in own : i < j => q[i].n < q[j].n
  BY DEF Carries
<1>6. ASSUME NEW i \in new, NEW j \in new, i < j PROVE Tail(q)[i].n < Tail(q)[j].n
  <2>1. i + 1 < j + 1 /\ i + 1 \in own /\ j + 1 \in own
    BY <1>2, <1>6
  <2>2. q[i + 1].n < q[j + 1].n
    BY <1>5, <2>1
  <2> QED BY <1>2, <2>2
<1> QED BY <1>4, <1>5, <1>6 DEF Carries

LEMMA CarriesHead ==
    ASSUME NEW S, NEW q \in Seq(S), q # <<>>, NEW k, NEW lo \in Nat, NEW hi \in Nat,
           Carries(q, k, lo, hi), Of(Head(q), k)
    PROVE  /\ Head(q).n = lo + 1 /\ lo + 1 <= hi
           /\ Carries(Tail(q), k, lo + 1, hi)
<1> DEFINE own == {i \in DOMAIN q : Of(q[i], k)}
           new == {i \in DOMAIN Tail(q) : Of(Tail(q)[i], k)}
<1>1. /\ Tail(q) \in Seq(S) /\ Head(q) \in S /\ Head(q) = q[1] /\ Len(q) \in Nat \ {0}
      /\ DOMAIN q = 1..Len(q) /\ DOMAIN Tail(q) = 1..(Len(q) - 1)
      /\ \A i \in 1..(Len(q) - 1) : Tail(q)[i] = q[i + 1]
  BY Shorter
<1>2. \A i \in new : i + 1 \in own /\ Tail(q)[i] = q[i + 1] /\ i \in Nat \ {0}
  BY <1>1
<1>3. \A j \in own : j # 1 => j - 1 \in new /\ Tail(q)[j - 1] = q[j]
  BY <1>1
<1>4. 1 \in own /\ \A j \in own : j \in Nat /\ (j # 1 => 1 < j)
  BY <1>1
<1>5. /\ {q[i].n : i \in own} = (lo + 1)..hi
      /\ \A i, j \in own : i < j => q[i].n < q[j].n
  BY DEF Carries
<1>6. \A j \in own : q[j].n \in (lo + 1)..hi /\ (j # 1 => q[1].n < q[j].n)
  BY <1>4, <1>5
<1>7. q[1].n = lo + 1 /\ lo + 1 <= hi
  <2>1. q[1].n \in (lo + 1)..hi
    BY <1>4, <1>6
  <2>2. lo + 1 \in (lo + 1)..hi
    BY <2>1
  <2>3. PICK j \in own : q[j].n = lo + 1
    BY <1>5, <2>2
  <2> QED BY <1>6, <2>1, <2>3
<1>8. {Tail(q)[i].n : i \in new} = (lo + 2)..hi
  <2>1. ASSUME NEW n \in {Tail(q)[i].n : i \in new} PROVE n \in (lo + 2)..hi
    <3>1. PICK i \in new : n = Tail(q)[i].n
      BY <2>1
    <3>2. i + 1 \in own /\ i + 1 # 1 /\ n = q[i + 1].n
      BY <1>2, <3>1
    <3> QED BY <1>6, <1>7, <3>2
  <2>2. ASSUME NEW n \in (lo + 2)..hi PROVE n \in {Tail(q)[i].n : i \in new}
    <3>1. PICK j \in own : q[j].n = n
      BY <1>5, <2>2
    <3>2. j # 1
      BY <1>7, <2>2, <3>1
    <3> QED BY <1>3, <3>1, <3>2
  <2> QED BY <2>1, <2>2
<1>9. \A i, j \in new : i < j => Tail(q)[i].n < Tail(q)[j].n
  BY <1>2, <1>5
<1>10. lo + 2 = (lo + 1) + 1
  OBVIOUS
<1> QED BY <1>1, <1>7, <1>8, <1>9, <1>10 DEF Carries

LEMMA CarriesJoin ==
    ASSUME NEW S, NEW p \in Seq(S), NEW q \in Seq(S), NEW k,
           NEW lo \in Nat, NEW mid \in Nat, NEW hi \in Nat, lo <= mid, mid <= hi,
           Carries(p, k, lo, mid), Carries(q, k, mid, hi)
    PROVE  Carries(p \o q, k, lo, hi)
<1> DEFINE r == p \o q
           here == {i \in DOMAIN p : Of(p[i], k)}
           there == {i \in DOMAIN q : Of(q[i], k)}
           own == {i \in DOMAIN r : Of(r[i], k)}
<1>1. /\ DOMAIN p = 1..Len(p) /\ DOMAIN q = 1..Len(q) /\ DOMAIN r = 1..(Len(p) + Len(q))
      /\ Len(p) \in Nat /\ Len(q) \in Nat
      /\ \A i \in 1..Len(p) : r[i] = p[i]
      /\ \A i \in 1..Len(q) : r[Len(p) + i] = q[i]
  BY ConcatProperties, LenProperties
<1>2. \A i \in here : i \in own /\ r[i] = p[i]
  BY <1>1
<1>3. \A i \in there : Len(p) + i \in own /\ r[Len(p) + i] = q[i]
  BY <1>1
<1>4. \A i \in own : (i \in here /\ i <= Len(p)) \/ (i - Len(p) \in there /\ r[i] = q[i - Len(p)] /\ i > Len(p))
  BY <1>1
<1>5. /\ {p[i].n : i \in here} = (lo + 1)..mid /\ {q[i].n : i \in there} = (mid + 1)..hi
      /\ \A i, j \in here : i < j => p[i].n < p[j].n
      /\ \A i, j \in there : i < j => q[i].n < q[j].n
  BY DEF Carries
<1>6. {r[i].n : i \in own} = (lo + 1)..hi
  <2>1. ASSUME NEW n \in {r[i].n : i \in own} PROVE n \in (lo + 1)..hi
    <3>1. PICK i \in own : n = r[i].n
      BY <2>1
    <3>2. n \in (lo + 1)..mid \/ n \in (mid + 1)..hi
      BY <1>2, <1>4, <1>5, <3>1
    <3> QED BY <3>2
  <2>2. ASSUME NEW n \in (lo + 1)..hi PROVE n \in {r[i].n : i \in own}
    <3>1. CASE n \in (lo + 1)..mid
      <4>1. PICK i \in here : p[i].n = n
        BY <1>5, <3>1
      <4> QED BY <1>2, <4>1
    <3>2. CASE n \in (mid + 1)..hi
      <4>1. PICK i \in there : q[i].n = n
        BY <1>5, <3>2
      <4> QED BY <1>3, <4>1
    <3> QED BY <2>2, <3>1, <3>2
  <2> QED BY <2>1, <2>2
<1>7. ASSUME NEW i \in own, NEW j \in own, i < j PROVE r[i].n < r[j].n
  <2>1. i \in Nat /\ j \in Nat
    BY <1>1
  <2>2. CASE i \in here /\ j \in here
    BY <1>2, <1>5, <1>7, <2>2
  <2>3. CASE i \in here /\ j \notin here
    <3>1. r[i].n \in (lo + 1)..mid
      BY <1>2, <1>5, <2>3
    <3>2. r[j].n \in (mid + 1)..hi
      BY <1>4, <1>5, <2>3
    <3>3. \A x \in (lo + 1)..mid : \A y \in (mid + 1)..hi : x < y
      OBVIOUS
    <3> QED BY <3>1, <3>2, <3>3
  <2>4. CASE i \notin here
    <3>1. i - Len(p) \in there /\ r[i] = q[i - Len(p)] /\ i > Len(p)
      BY <1>4, <2>4
    <3>2. j - Len(p) \in there /\ r[j] = q[j - Len(p)]
      BY <1>1, <1>4, <1>7, <2>1, <3>1
    <3>3. i - Len(p) < j - Len(p)
      BY <1>1, <1>7, <2>1
    <3> QED BY <1>5, <3>1, <3>2, <3>3
  <2> QED BY <2>2, <2>3, <2>4
<1> QED BY <1>6, <1>7 DEF Carries

-----------------------------------------------------------------------------
(* Subscriptions and commands                                              *)

LEMMA SlotFacts ==
    ASSUME NEW s \in Slots
    PROVE  /\ Task(s) \in Tasks /\ Task(s) \in Nums
           /\ Task(s) \notin {Absent, Unnumbered, Push}
           /\ Id(s) \in {"rpc", "video", "stop", "snap"}
           /\ Key(s) \in Keys /\ Key(s).id = Id(s)
           /\ Numbered(s) => Key(s).num = Task(s) /\ Id(s) = s[2]
           /\ ~Numbered(s) => Key(s).num = Push
           /\ s = <<Task(s), s[2]>>
  BY BcConnAssumption DEF Slots, Tasks, Task, Nums, Absent, Unnumbered, Push, Id, Key, Keys, Numbered

\* Each subscription that has a number has a key of its own.
LEMMA OwnKey ==
    ASSUME NEW s \in Slots, NEW o \in Slots, Numbered(s)
    PROVE  /\ Numbered(o) /\ Id(o) = Id(s) /\ Task(o) = Task(s) => o = s
           /\ Key(o) = Key(s) => o = s
<1>1. Numbered(o) /\ Id(o) = Id(s) /\ Task(o) = Task(s) => o = s
  BY SlotFacts
<1>2. Key(o) = Key(s) => Numbered(o) /\ Id(o) = Id(s) /\ Task(o) = Task(s)
  BY SlotFacts
<1> QED BY <1>1, <1>2

LEMMA Numbers == Absent \notin Nums /\ Unnumbered \notin Nums /\ Absent # Unnumbered
  BY BcConnAssumption DEF Nums, Tasks, Absent, Unnumbered, Push

LEMMA CommandFacts ==
    /\ Received \subseteq Commands /\ AddHandler \in Commands /\ Alive \in Received /\ Failed \in Received
    /\ Msgs \subseteq Received
    /\ \A s \in Slots : Add(s) \in Commands /\ Add(s).c = "add" /\ Add(s).slot = s
    /\ \A m \in Received : m.c \in {"bc", "alive", "err"} /\ (m.c = "bc" => m \in Msgs)
    /\ \A m \in Commands : /\ m.c \in {"bc", "alive", "err", "add", "handler"}
                           /\ m.c = "bc" => m \in Msgs
                           /\ m.c = "add" => \E s \in Slots : m = Add(s)
    /\ Alive.c = "alive" /\ Failed.c = "err" /\ AddHandler.c = "handler"
    /\ \A m \in Msgs : m.c = "bc" /\ m.num \in Nums /\ m.n \in Nat
<1>1. /\ Received \subseteq Commands /\ AddHandler \in Commands /\ Alive \in Received /\ Failed \in Received
      /\ Msgs \subseteq Received
  BY DEF Received, Commands
<1>2. Alive.c = "alive" /\ Failed.c = "err" /\ AddHandler.c = "handler"
  BY DEF Alive, Failed, AddHandler
<1>3. \A s \in Slots : Add(s) \in Commands /\ Add(s).c = "add" /\ Add(s).slot = s
  BY DEF Commands, Add
<1>4. \A m \in Msgs : m.c = "bc" /\ m.num \in Nums /\ m.n \in Nat
  BY DEF Msgs
<1>5. \A m \in Received : m \in Msgs \/ m = Alive \/ m = Failed
  BY DEF Received
<1>6. \A m \in Commands : m \in Received \/ (\E s \in Slots : m = Add(s)) \/ m = AddHandler
  BY DEF Commands
<1>7. \A m \in Received : m.c \in {"bc", "alive", "err"} /\ (m.c = "bc" => m \in Msgs)
  BY <1>2, <1>4, <1>5
<1>8. \A m \in Commands : /\ m.c \in {"bc", "alive", "err", "add", "handler"}
                          /\ m.c = "bc" => m \in Msgs
                          /\ m.c = "add" => \E s \in Slots : m = Add(s)
  BY <1>2, <1>3, <1>6, <1>7
<1> QED BY <1>1, <1>2, <1>3, <1>4, <1>7, <1>8

LEMMA OfFacts ==
    ASSUME NEW m \in Commands, NEW s \in Slots
    PROVE  /\ Of(m, Key(s)) => m \in Msgs
           /\ Numbered(s) /\ m \in Msgs => (Of(m, Key(s)) <=> m.id = Id(s) /\ m.num = Task(s))
  BY CommandFacts, SlotFacts DEF Of

-----------------------------------------------------------------------------
(* The tasks                                                               *)

\* A task does not come back to what it has passed.
Onward == /\ DOMAIN pc' = Tasks
          /\ \A s \in Slots : Ahead(s)' => Ahead(s)

LEMMA InitHolds == Init => ConnInv
<1> SUFFICES ASSUME Init PROVE ConnInv
  OBVIOUS
<1>0. DOMAIN pc = Tasks
  BY DEF Init
<1> USE DEF Init
<1>1. Typed
  <2>2. /\ rx \in [Slots -> Seq(Msgs \union {Failed})] /\ wire_in \in Seq(Received)
        /\ commander \in Seq(Commands)
        /\ sink \in Seq(Keys \union {AliveReply})
    BY EmptySeq
  <2>3. reg \in [Slots -> Nums \union {Absent, Unnumbered}]
    OBVIOUS
  <2> QED BY <1>0, <2>2, <2>3 DEF Typed
<1>2. Owns /\ OnlyOwn /\ Single /\ Aimed /\ Ordered /\ Heard /\ Comes
  BY DEF Owns, OnlyOwn, Single, Aimed, Ordered, Heard, Comes, ToSet
<1>3. Unasked
  <2>1. \A s \in Slots : Key(s) \in Keys /\ Task(s) # Absent
    BY SlotFacts
  <2> QED BY <2>1 DEF Unasked, Untaken
<1> QED BY <1>1, <1>2, <1>3 DEF ConnInv

LEMMA RestKeeps ==
    ASSUME ConnInv, Onward,
           UNCHANGED <<rx, open, got, commander, sink, reg, poller, held, target, cam_vars>>
    PROVE  ConnInv'
<1> USE DEF ConnInv, cam_vars
<1>1. Typed' /\ Owns' /\ OnlyOwn' /\ Single'
  BY DEF Typed, Owns, OnlyOwn, Single, Onward
<1>2. Aimed' /\ Ordered' /\ Heard'
  BY DEF Aimed, Ordered, Heard, Untaken
<1>3. Unasked'
  BY DEF Unasked, Untaken, Onward
<1>4. Comes'
  BY DEF Comes, Spread, SpreadAt
<1> QED BY <1>1, <1>2, <1>3, <1>4

LEMMA SubscribesKeeps ==
    ASSUME ConnInv, Onward, NEW t \in Slots, Ahead(t), ~Ahead(t)', poller # "dead",
           commander' = Append(commander, Add(t)), open' = open \union {t},
           UNCHANGED <<rx, got, sink, reg, poller, held, target, cam_vars>>
    PROVE  ConnInv'
<1> USE DEF ConnInv, cam_vars
<1>0. Typed /\ Add(t) \in Commands
  BY CommandFacts
<1>1. /\ commander' \in Seq(Commands) /\ Len(commander) \in Nat
      /\ DOMAIN commander = 1..Len(commander) /\ DOMAIN commander' = 1..(Len(commander) + 1)
      /\ \A i \in 1..Len(commander) : commander'[i] = commander[i]
      /\ commander'[Len(commander) + 1] = Add(t)
  BY <1>0, Longer DEF Typed
<1>2. \A s \in Slots : Add(s) = Add(t) => s = t
  BY DEF Add
<1>3. \A s \in Slots : ~Of(Add(t), Key(s))
  BY CommandFacts DEF Of
<1>4. /\ t \notin open /\ Untaken(t) /\ got[t] = 0 /\ rx[t] = <<>> /\ reg[t] = Absent
      /\ \A i \in DOMAIN commander : commander[i] # Add(t)
      /\ Numbered(t) =>
           /\ cam_sent[Key(t)] = 0
           /\ \A i \in DOMAIN commander : ~Of(commander[i], Key(t))
           /\ \A i \in DOMAIN wire_in : ~Of(wire_in[i], Key(t))
  BY DEF Unasked, Untaken, Owns
<1>5. Typed'
  BY <1>0, <1>1 DEF Typed, Onward
<1>6. Owns' /\ OnlyOwn' /\ Single' /\ Aimed'
  BY <1>4 DEF Owns, OnlyOwn, Single, Aimed
<1>7. Unasked'
  BY <1>1, <1>2, <1>3 DEF Unasked, Untaken, Onward
<1>8. Ordered'
  BY <1>1, <1>2, <1>3, <1>4 DEF Ordered, Untaken
<1>9. Heard'
  BY <1>1, <1>2 DEF Heard
<1>10. Comes'
  <2> SUFFICES ASSUME NEW s \in open', Numbered(s) PROVE Spread(s)'
    BY DEF Comes
  <2>0. s \in Slots
    BY <1>0 DEF Typed
  <2>1. CASE s = t
    <3>1. ~(poller = "send" /\ t \in target)
      BY <1>4, Numbers, CommandFacts DEF Aimed
    <3>2. /\ \A i \in DOMAIN rx[t] : ~Of(rx[t][i], Key(t))
          /\ \A i \in DOMAIN commander' : ~Of(commander'[i], Key(t))
          /\ \A i \in DOMAIN wire_in : ~Of(wire_in[i], Key(t))
      BY <1>1, <1>3, <1>4, <2>0, <2>1
    <3>3. 0 \in Nat
      OBVIOUS
    <3>4. /\ Carries(rx[t], Key(t), 0, 0) /\ Carries(wire_in, Key(t), 0, 0)
      BY <3>2, <3>3, CarriesNone
    <3>5. Carries(commander', Key(t), 0, 0)
      BY <3>2, <3>3, CarriesNone
    <3>6. SpreadAt(t, 0, 0)'
      BY <1>4, <2>1, <3>1, <3>4, <3>5 DEF SpreadAt
    <3> QED BY <2>1, <3>3, <3>6 DEF Spread
  <2>2. CASE s # t
    <3>1. PICK a \in Nat, b \in Nat : SpreadAt(s, a, b)
      BY <2>2 DEF Comes, Spread
    <3>2. \A lo, hi : Carries(commander, Key(s), lo, hi) => Carries(commander', Key(s), lo, hi)
      BY <1>0, <1>3, <2>0, CarriesOther DEF Typed
    <3>3. SpreadAt(s, a, b)'
      BY <3>1, <3>2 DEF SpreadAt
    <3> QED BY <3>3 DEF Spread
  <2> QED BY <2>1, <2>2
<1> QED BY <1>5, <1>6, <1>7, <1>8, <1>9, <1>10

LEMMA SendsKeeps ==
    ASSUME ConnInv, Onward, NEW t \in Slots, ~Ahead(t), sink' = Append(sink, Key(t)), Numbered(t),
           UNCHANGED <<rx, open, got, commander, reg, poller, held, target, cam_vars>>
    PROVE  ConnInv'
<1> USE DEF ConnInv, cam_vars
<1>0. Typed /\ Key(t) \in Keys \union {AliveReply}
  BY SlotFacts
<1>1. /\ sink' \in Seq(Keys \union {AliveReply}) /\ Len(sink) \in Nat
      /\ DOMAIN sink = 1..Len(sink) /\ DOMAIN sink' = 1..(Len(sink) + 1)
      /\ \A i \in 1..Len(sink) : sink'[i] = sink[i]
      /\ sink'[Len(sink) + 1] = Key(t)
  BY <1>0, Longer DEF Typed
<1>2. Typed' /\ Owns' /\ OnlyOwn' /\ Single'
  BY <1>0, <1>1 DEF Typed, Owns, OnlyOwn, Single, Onward
<1>3. Aimed' /\ Ordered' /\ Heard'
  BY DEF Aimed, Ordered, Heard, Untaken
<1>4. Unasked'
  <2>1. \A s \in Slots : Numbered(s) /\ Key(s) = Key(t) => s = t
    BY OwnKey
  <2> QED BY <1>1, <2>1 DEF Unasked, Untaken, Onward
<1>5. Comes'
  BY DEF Comes, Spread, SpreadAt
<1> QED BY <1>2, <1>3, <1>4, <1>5

LEMMA TakesKeeps ==
    ASSUME ConnInv, Onward, NEW t \in Slots, rx[t] # <<>>,
           rx' = [rx EXCEPT ![t] = Tail(@)],
           got' = IF Head(rx[t]) = Failed THEN got ELSE [got EXCEPT ![t] = @ + 1],
           UNCHANGED <<open, commander, sink, reg, poller, held, target, cam_vars>>
    PROVE  ConnInv'
<1> USE DEF ConnInv, cam_vars
<1>0. Typed /\ t \in open /\ rx[t] \in Seq(Msgs \union {Failed})
  BY DEF Owns, Typed
<1>1. /\ Tail(rx[t]) \in Seq(Msgs \union {Failed})
      /\ Head(rx[t]) \in Msgs \union {Failed} /\ Head(rx[t]) = rx[t][1] /\ Len(rx[t]) \in Nat \ {0}
      /\ DOMAIN rx[t] = 1..Len(rx[t]) /\ DOMAIN Tail(rx[t]) = 1..(Len(rx[t]) - 1)
      /\ \A i \in 1..(Len(rx[t]) - 1) : Tail(rx[t])[i] = rx[t][i + 1]
  BY <1>0, Shorter
<1>2. /\ rx'[t] = Tail(rx[t]) /\ \A s \in Slots : s # t => rx'[s] = rx[s]
      /\ rx' \in [Slots -> Seq(Msgs \union {Failed})]
  BY <1>0, <1>1 DEF Typed
<1>3. /\ got' \in [Slots -> Nat] /\ \A s \in Slots : s # t => got'[s] = got[s]
      /\ got'[t] = IF Head(rx[t]) = Failed THEN got[t] ELSE got[t] + 1
  BY DEF Typed
<1>4. \A i \in DOMAIN rx'[t] : \E j \in DOMAIN rx[t] : rx'[t][i] = rx[t][j]
  BY <1>1, <1>2
<1>5. Typed'
  BY <1>0, <1>2, <1>3 DEF Typed, Onward
<1>6. Owns'
  <2>1. \A i \in DOMAIN rx'[t] : poller # "dead" /\ rx'[t][i].c = "bc" => rx'[t][i].num = reg[t]
    BY <1>4 DEF Owns
  <2> QED BY <1>0, <1>2, <2>1 DEF Owns
<1>7. OnlyOwn'
  <2>1. ToSet(rx[t])' \subseteq ToSet(rx[t]) /\ \A s \in Slots : s # t => ToSet(rx[s])' = ToSet(rx[s])
    BY <1>2, <1>4 DEF ToSet
  <2> QED BY <2>1 DEF OnlyOwn
<1>8. Single' /\ Aimed' /\ Ordered' /\ Heard'
  BY DEF Single, Aimed, Ordered, Heard, Untaken
<1>9. Unasked'
  BY <1>0, <1>3 DEF Unasked, Untaken, Onward
<1>10. Comes'
  <2> SUFFICES ASSUME NEW s \in open, poller # "dead", Numbered(s) PROVE Spread(s)'
    BY DEF Comes
  <2>0. s \in Slots
    BY <1>0 DEF Typed
  <2>1. PICK a \in Nat, b \in Nat : SpreadAt(s, a, b)
    BY DEF Comes, Spread
  <2>2. CASE s = t
    <3>1. CASE Head(rx[t]) = Failed
      <4>1. ~Of(Head(rx[t]), Key(s))
        BY <3>1, CommandFacts DEF Of
      <4>2. Carries(rx'[t], Key(s), got[s], a)
        BY <1>0, <1>2, <2>1, <2>2, <4>1, CarriesTail DEF SpreadAt
      <4>3. SpreadAt(s, a, b)'
        BY <1>3, <2>1, <2>2, <3>1, <4>2 DEF SpreadAt
      <4> QED BY <4>3 DEF Spread
    <3>2. CASE Head(rx[t]) # Failed
      <4>1. Head(rx[t]) \in Msgs
        BY <1>1, <3>2
      <4>2. Head(rx[t]) \in ToSet(rx[t])
        BY <1>1 DEF ToSet
      <4>3. Of(Head(rx[t]), Key(s))
        BY <4>1, <4>2, <2>2, CommandFacts, OfFacts DEF OnlyOwn, Numbered
      <4>4. got[t] \in Nat
        BY DEF Typed
      <4>5. got[t] + 1 <= a /\ Carries(rx'[t], Key(s), got[t] + 1, a)
        BY <1>0, <1>2, <2>1, <2>2, <4>3, <4>4, CarriesHead DEF SpreadAt
      <4>6. SpreadAt(s, a, b)'
        BY <1>3, <2>1, <2>2, <3>2, <4>5 DEF SpreadAt
      <4> QED BY <4>6 DEF Spread
    <3> QED BY <3>1, <3>2
  <2>3. CASE s # t
    <3>1. SpreadAt(s, a, b)'
      BY <1>2, <1>3, <2>0, <2>1, <2>3 DEF SpreadAt
    <3> QED BY <3>1 DEF Spread
  <2> QED BY <2>2, <2>3
<1> QED BY <1>5, <1>6, <1>7, <1>8, <1>9, <1>10

LEMMA ClosesKeeps ==
    ASSUME ConnInv, Onward, NEW gone \in SUBSET Slots,
           open' = open \ gone, rx' = [s \in Slots |-> IF s \in gone THEN <<>> ELSE rx[s]],
           UNCHANGED <<got, commander, sink, reg, poller, held, target, cam_vars>>
    PROVE  ConnInv'
<1> USE DEF ConnInv, cam_vars
<1>1. /\ \A s \in gone : rx'[s] = <<>>
      /\ \A s \in Slots : s \notin gone => rx'[s] = rx[s]
      /\ rx' \in [Slots -> Seq(Msgs \union {Failed})]
  BY EmptySeq DEF Typed
<1>2. Typed' /\ Single' /\ Aimed' /\ Ordered'
  BY <1>1 DEF Typed, Onward, Single, Aimed, Ordered, Untaken
<1>3. Owns' /\ Heard'
  BY <1>1 DEF Owns, Heard
<1>4. OnlyOwn'
  <2>1. \A s \in Slots : ToSet(rx[s])' \subseteq ToSet(rx[s])
    BY <1>1 DEF ToSet
  <2> QED BY <2>1 DEF OnlyOwn
<1>5. Unasked'
  BY DEF Unasked, Untaken, Onward
<1>6. Comes'
  <2>1. ASSUME NEW s \in open', poller # "dead", Numbered(s), Spread(s) PROVE Spread(s)'
    BY <1>1, <2>1 DEF Spread, SpreadAt, Typed
  <2> QED BY <2>1 DEF Comes
<1> QED BY <1>2, <1>3, <1>4, <1>5, <1>6

\* The task t does not come back to what it has passed when it goes on to next.
Passes(t, next) ==
    \A s \in Slots : Task(s) = t /\ next \in Earlier(s) => pc[t] \in Earlier(s)

LEMMA Moves ==
    ASSUME ConnInv, NEW t \in Tasks, NEW next, pc' = [pc EXCEPT ![t] = next], Passes(t, next)
    PROVE  Onward
  BY DEF ConnInv, Typed, Onward, Ahead, Passes

LEMMA Ends ==
    ASSUME NEW t, NEW next \in {"done", "failed", "gone"}
    PROVE  Passes(t, next)
  BY DEF Passes, Earlier

LEMMA SubscribeStep ==
    ASSUME ConnInv, NEW s \in Slots, NEW next, Ahead(s), next \notin Earlier(s),
           Passes(Task(s), next), Subscribe(s, next)
    PROVE  ConnInv'
<1>1. Task(s) \in Tasks
  BY SlotFacts
<1>2. CASE poller = "dead"
  <2>1. Onward
    BY <1>1, <1>2, Moves, Ends DEF Subscribe
  <2> QED BY <1>2, <2>1, RestKeeps DEF Subscribe, poll_vars
<1>3. CASE poller # "dead"
  <2>1. Onward
    BY <1>1, <1>3, Moves DEF Subscribe
  <2>2. ~Ahead(s)'
    BY <1>1, <1>3 DEF Subscribe, Ahead, ConnInv, Typed
  <2> QED BY <1>3, <2>1, <2>2, SubscribesKeeps DEF Subscribe, poll_vars
<1> QED BY <1>2, <1>3

LEMMA SendStep ==
    ASSUME ConnInv, NEW s \in Slots, NEW next, ~Ahead(s), Numbered(s),
           Passes(Task(s), next), Send(s, next)
    PROVE  ConnInv'
<1>1. Task(s) \in Tasks
  BY SlotFacts
<1>2. CASE writer = "down"
  <2>1. Onward
    BY <1>1, <1>2, Moves, Ends DEF Send
  <2> QED BY <1>2, <2>1, RestKeeps DEF Send, poll_vars
<1>3. CASE writer # "down"
  <2>1. Onward
    BY <1>1, <1>3, Moves DEF Send
  <2> QED BY <1>3, <2>1, SendsKeeps DEF Send, poll_vars
<1> QED BY <1>2, <1>3

LEMMA RecvStep ==
    ASSUME ConnInv, NEW s \in Slots, NEW next, Passes(Task(s), next), Recv(s, next)
    PROVE  ConnInv'
<1>1. Task(s) \in Tasks
  BY SlotFacts
<1>2. Onward
  BY <1>1, Moves, Ends DEF Recv
<1>3. CASE Orphan(s)
  BY <1>2, <1>3, RestKeeps DEF Recv, poll_vars
<1>4. CASE ~Orphan(s)
  BY <1>2, <1>4, TakesKeeps DEF Recv, poll_vars
<1> QED BY <1>3, <1>4

LEMMA TaskKinds ==
    ASSUME NEW t
    PROVE  /\ t \in Rpcs => /\ <<t, "rpc">> \in Slots
                            /\ \A s \in Slots : Task(s) = t => s = <<t, "rpc">>
           /\ t \in Snaps => /\ <<t, "snap">> \in Slots /\ <<t, "data">> \in Slots
                             /\ \A s \in Slots : Task(s) = t => s \in {<<t, "snap">>, <<t, "data">>}
           /\ t \in Videos => /\ <<t, "video">> \in Slots /\ <<t, "stop">> \in Slots
                              /\ \A s \in Slots : Task(s) = t => s \in {<<t, "video">>, <<t, "stop">>}
           /\ \A kind : Task(<<t, kind>>) = t
  BY BcConnAssumption DEF Slots, Task

LEMMA RpcKeeps == ASSUME ConnInv, NEW t \in Rpcs, Rpc(t) PROVE ConnInv'
<1> DEFINE s == <<t, "rpc">>
<1>1. /\ s \in Slots /\ Task(s) = t /\ Numbered(s) /\ Earlier(s) = {"start"}
      /\ \A o \in Slots : Task(o) = t => o = s
  BY TaskKinds DEF Numbered, Earlier
<1>2. \A next \in {"send", "recv", "done"} : Passes(t, next)
  BY <1>1 DEF Passes
<1> HIDE DEF s
<1>3. CASE pc[t] = "start" /\ Subscribe(s, "send")
  BY <1>1, <1>2, <1>3, SubscribeStep DEF Ahead
<1>4. CASE pc[t] = "send" /\ Send(s, "recv")
  BY <1>1, <1>2, <1>4, SendStep DEF Ahead
<1>5. CASE pc[t] = "recv" /\ Recv(s, "done")
  BY <1>1, <1>2, <1>5, RecvStep
<1> QED BY <1>3, <1>4, <1>5 DEF Rpc, s

LEMMA SnapKeeps == ASSUME ConnInv, NEW t \in Snaps, Snap(t) PROVE ConnInv'
<1> DEFINE s == <<t, "snap">>
           d == <<t, "data">>
<1>1. /\ s \in Slots /\ Task(s) = t /\ Numbered(s) /\ Earlier(s) = {"start"}
      /\ d \in Slots /\ Task(d) = t /\ Earlier(d) = {"start", "send", "recv", "drop", "next"}
      /\ \A o \in Slots : Task(o) = t => o \in {s, d}
  BY TaskKinds DEF Numbered, Earlier
<1>2. /\ pc[t] \in {"start", "send", "recv", "drop", "next"} =>
             \A next \in {"send", "recv", "drop", "next"} : Passes(t, next)
      /\ \A next \in {"data", "done"} : Passes(t, next)
  BY <1>1 DEF Passes
<1>3. CASE DropHeader(t)
  <2>1. Onward
    BY <1>2, <1>3, Moves DEF DropHeader, Tasks
  <2>2. rx' = [o \in Slots |-> IF o \in {s} THEN <<>> ELSE rx[o]]
    BY <1>3 DEF DropHeader, ConnInv, Typed
  <2> QED BY <1>1, <1>3, <2>1, <2>2, ClosesKeeps DEF DropHeader, poll_vars
<1> HIDE DEF s, d
<1>4. CASE pc[t] = "start" /\ Subscribe(s, "send")
  BY <1>1, <1>2, <1>4, SubscribeStep DEF Ahead
<1>5. CASE pc[t] = "send" /\ Send(s, "recv")
  BY <1>1, <1>2, <1>5, SendStep DEF Ahead
<1>6. CASE pc[t] = "recv" /\ Recv(s, "drop")
  BY <1>1, <1>2, <1>6, RecvStep
<1>7. CASE pc[t] = "next" /\ Subscribe(d, "data")
  BY <1>1, <1>2, <1>7, SubscribeStep DEF Ahead
<1>8. CASE pc[t] = "data" /\ Recv(d, IF rx[d] # <<>> /\ Head(rx[d]).n = Parts THEN "done" ELSE "data")
  BY <1>1, <1>2, <1>8, RecvStep
<1> QED BY <1>3, <1>4, <1>5, <1>6, <1>7, <1>8 DEF Snap, s, d

LEMMA VideoKeeps == ASSUME ConnInv, NEW t \in Videos, Video(t) \/ Owner(t) PROVE ConnInv'
<1> DEFINE s == <<t, "video">>
           e == <<t, "stop">>
<1>1. /\ s \in Slots /\ Task(s) = t /\ Numbered(s) /\ Earlier(s) = {"start"}
      /\ e \in Slots /\ Task(e) = t /\ Numbered(e)
      /\ Earlier(e) = {"start", "send", "recv", "stream", "stop"}
      /\ \A o \in Slots : Task(o) = t => o \in {s, e}
  BY TaskKinds DEF Numbered, Earlier
<1>2. /\ pc[t] \in {"start", "send", "recv", "stream", "stop"} =>
             \A next \in {"send", "recv", "stream", "stop"} : Passes(t, next)
      /\ \A next \in {"stop_send", "stop_recv", "done"} : Passes(t, next)
      /\ Passes(t, pc[t])
  BY <1>1 DEF Passes
<1>3. t \in Tasks /\ DOMAIN pc = Tasks
  BY DEF Tasks, ConnInv, Typed
<1>4. CASE Forward(t)
  <2>1. Onward
    <3>1. pc' = [pc EXCEPT ![t] = IF Head(rx[s]) = Failed THEN "stop" ELSE pc[t]]
      BY <1>4 DEF Forward
    <3> QED BY <1>2, <1>3, <1>4, <3>1, Moves DEF Forward
  <2>2. got' = IF Head(rx[s]) = Failed THEN got ELSE [got EXCEPT ![s] = @ + 1]
    BY <1>1, <1>4 DEF Forward, ConnInv, Typed
  <2> QED BY <1>1, <1>4, <2>1, <2>2, TakesKeeps DEF Forward, poll_vars
<1>5. CASE StreamEnds(t) \/ StopTimeout(t)
  <2>1. Onward
    BY <1>2, <1>3, <1>5, Moves DEF StreamEnds, StopTimeout
  <2> QED BY <1>5, <2>1, RestKeeps DEF StreamEnds, StopTimeout, poll_vars
<1>6. CASE Owner(t)
  <2>1. Onward
    BY <1>3, <1>6 DEF Owner, GetData, DropStream, Onward, Ahead
  <2> QED BY <1>6, <2>1, RestKeeps DEF Owner, GetData, DropStream, poll_vars
<1> HIDE DEF s, e
<1>7. CASE pc[t] = "start" /\ Subscribe(s, "send")
  BY <1>1, <1>2, <1>7, SubscribeStep DEF Ahead
<1>8. CASE pc[t] = "send" /\ Send(s, "recv")
  BY <1>1, <1>2, <1>8, SendStep DEF Ahead
<1>9. CASE pc[t] = "recv" /\ Recv(s, "stream")
  BY <1>1, <1>2, <1>9, RecvStep
<1>10. CASE pc[t] = "stop" /\ Subscribe(e, "stop_send")
  BY <1>1, <1>2, <1>10, SubscribeStep DEF Ahead
<1>11. CASE pc[t] = "stop_send" /\ Send(e, "stop_recv")
  BY <1>1, <1>2, <1>11, SendStep DEF Ahead
<1>12. CASE pc[t] = "stop_recv" /\ Recv(e, "done")
  BY <1>1, <1>2, <1>12, RecvStep
<1> QED
  <2>1. Video(t) => \/ pc[t] = "start" /\ Subscribe(s, "send")
                    \/ pc[t] = "send" /\ Send(s, "recv")
                    \/ pc[t] = "recv" /\ Recv(s, "stream")
                    \/ Forward(t) \/ StreamEnds(t)
                    \/ pc[t] = "stop" /\ Subscribe(e, "stop_send")
                    \/ pc[t] = "stop_send" /\ Send(e, "stop_recv")
                    \/ pc[t] = "stop_recv" /\ Recv(e, "done")
                    \/ StopTimeout(t)
    BY DEF Video, s, e
  <2> QED BY <1>4, <1>5, <1>6, <1>7, <1>8, <1>9, <1>10, <1>11, <1>12, <2>1

LEMMA ReleaseKeeps == ASSUME ConnInv, NEW t \in Tasks, Finish(t) \/ Cancel(t) PROVE ConnInv'
<1> DEFINE gone == {s \in Slots : Task(s) = t}
<1>1. Release(t)
  BY DEF Finish, Cancel
<1>2. Onward
  BY <1>1, Moves, Ends DEF Release
<1>3. gone \in SUBSET Slots /\ open' = open \ gone
  BY <1>1 DEF Release, ConnInv, Typed
<1>4. rx' = [s \in Slots |-> IF s \in gone THEN <<>> ELSE rx[s]]
  BY <1>1 DEF Release
<1> QED BY <1>1, <1>2, <1>3, <1>4, ClosesKeeps DEF Release, poll_vars

-----------------------------------------------------------------------------
(* The poller                                                              *)

LEMMA CleanedFacts ==
    /\ \A s \in Slots : Cleaned[s] = IF s \in open THEN reg[s] ELSE Absent
    /\ Typed => Cleaned \in [Slots -> Nums \union {Absent, Unnumbered}]
  BY DEF Cleaned, Typed

\* Who gets a message: at most one, who has its number or waits for any.
LEMMA Routed ==
    ASSUME ConnInv, NEW m \in Msgs
    PROVE  /\ Route(m, Cleaned) # {} => \E x \in open :
                /\ Route(m, Cleaned) = {x} /\ x \in Slots /\ Id(x) = m.id
                /\ \/ reg[x] = m.num
                   \/ /\ reg[x] = Unnumbered /\ ~Numbered(x)
                      /\ \A o \in open : ~(Id(o) = m.id /\ reg[o] = m.num)
           /\ \A s \in open : Id(s) = m.id /\ reg[s] = m.num => Route(m, Cleaned) = {s}
<1> DEFINE E == Exact(m, Cleaned)
           W == Waiting(m, Cleaned)
<1>1. m.num \in Nums /\ m.num # Absent /\ m.num # Unnumbered /\ Unnumbered # Absent
  BY CommandFacts, Numbers
<1>2. open \subseteq Slots
  BY DEF ConnInv, Typed
<1>3. E = {s \in open : Id(s) = m.id /\ reg[s] = m.num}
  BY <1>1, <1>2, CleanedFacts DEF Exact
<1>4. W = {s \in open : Id(s) = m.id /\ reg[s] = Unnumbered}
  BY <1>1, <1>2, CleanedFacts DEF Waiting
<1>5. \A s, o \in E : s = o
  BY <1>1, <1>2, <1>3 DEF ConnInv, Single
<1>6. \A s, o \in W : s = o
  BY <1>1, <1>2, <1>4 DEF ConnInv, Single
<1>7. \A s \in W : ~Numbered(s)
  BY <1>1, <1>2, <1>4, SlotFacts DEF ConnInv, Owns
<1>8. Route(m, Cleaned) = IF E # {} THEN E ELSE W
  BY DEF Route
<1> HIDE DEF E, W
<1>9. CASE E # {}
  <2>1. PICK x \in E : TRUE
    BY <1>9
  <2>2. E = {x}
    BY <1>5, <2>1
  <2> QED BY <1>2, <1>3, <1>8, <1>9, <2>1, <2>2
<1>10. CASE E = {} /\ W # {}
  <2>1. PICK x \in W : TRUE
    BY <1>10
  <2>2. W = {x}
    BY <1>6, <2>1
  <2> QED BY <1>2, <1>3, <1>4, <1>7, <1>8, <1>10, <2>1, <2>2
<1>11. CASE E = {} /\ W = {}
  BY <1>3, <1>8, <1>11
<1> QED BY <1>9, <1>10, <1>11

\* What the rest of the queue still says when the poller has taken its head.
LEMMA Taken ==
    ASSUME ConnInv, commander # <<>>, commander' = Tail(commander)
    PROVE  /\ commander' \in Seq(Commands) /\ Head(commander) \in Commands
           /\ \A m : (\A i \in DOMAIN commander : commander[i] # m)
                    => m # Head(commander) /\ \A i \in DOMAIN commander' : commander'[i] # m
           /\ \A m : m # Head(commander) /\ (\A i \in DOMAIN commander' : commander'[i] # m)
                    => \A i \in DOMAIN commander : commander[i] # m
           /\ \A k : (\A i \in DOMAIN commander : ~Of(commander[i], k))
                    => ~Of(Head(commander), k) /\ \A i \in DOMAIN commander' : ~Of(commander'[i], k)
           /\ \A s \in Slots : \A i \in DOMAIN commander' : commander'[i] = Add(s) =>
                /\ Untaken(s) /\ Head(commander) # Add(s)
                /\ \A j \in DOMAIN commander' : commander'[j] = Add(s) => j = i
                /\ Numbered(s) => /\ ~Of(Head(commander), Key(s))
                                  /\ \A j \in DOMAIN commander' : Of(commander'[j], Key(s)) => i < j
<1>1. /\ Tail(commander) \in Seq(Commands) /\ Head(commander) \in Commands
      /\ Head(commander) = commander[1] /\ Len(commander) \in Nat \ {0}
      /\ DOMAIN commander = 1..Len(commander) /\ DOMAIN Tail(commander) = 1..(Len(commander) - 1)
      /\ \A i \in 1..(Len(commander) - 1) : Tail(commander)[i] = commander[i + 1]
  BY Shorter DEF ConnInv, Typed
<1>2. /\ 1 \in DOMAIN commander
      /\ \A i \in DOMAIN commander' : /\ i + 1 \in DOMAIN commander /\ commander'[i] = commander[i + 1]
                                      /\ i \in Nat \ {0}
      /\ \A i \in DOMAIN commander : i # 1 => i - 1 \in DOMAIN commander' /\ commander'[i - 1] = commander[i]
  BY <1>1
<1>3. ASSUME NEW s \in Slots, NEW i \in DOMAIN commander', commander'[i] = Add(s)
      PROVE  /\ Untaken(s) /\ Head(commander) # Add(s)
             /\ \A j \in DOMAIN commander' : commander'[j] = Add(s) => j = i
             /\ Numbered(s) => /\ ~Of(Head(commander), Key(s))
                               /\ \A j \in DOMAIN commander' : Of(commander'[j], Key(s)) => i < j
  <2>1. i + 1 \in DOMAIN commander /\ commander[i + 1] = Add(s) /\ i \in Nat \ {0}
    BY <1>2, <1>3
  <2>2. /\ Untaken(s)
        /\ \A j \in DOMAIN commander : commander[j] = Add(s) => j = i + 1
        /\ Numbered(s) => \A j \in DOMAIN commander : Of(commander[j], Key(s)) => i + 1 < j
    BY <2>1 DEF ConnInv, Ordered
  <2>3. \A j \in DOMAIN commander' : commander'[j] = Add(s) => j + 1 = i + 1
    BY <1>2, <2>2
  <2>4. Numbered(s) => \A j \in DOMAIN commander' : Of(commander'[j], Key(s)) => i + 1 < j + 1
    BY <1>2, <2>2
  <2> QED BY <1>1, <1>2, <2>1, <2>2, <2>3, <2>4
<1>4. ASSUME NEW m, \A i \in DOMAIN commander : commander[i] # m
      PROVE  m # Head(commander) /\ \A i \in DOMAIN commander' : commander'[i] # m
  BY <1>1, <1>2, <1>4
<1>5. ASSUME NEW m, m # Head(commander), \A i \in DOMAIN commander' : commander'[i] # m
      PROVE  \A i \in DOMAIN commander : commander[i] # m
  BY <1>1, <1>2, <1>5
<1>6. ASSUME NEW k, \A i \in DOMAIN commander : ~Of(commander[i], k)
      PROVE  ~Of(Head(commander), k) /\ \A i \in DOMAIN commander' : ~Of(commander'[i], k)
  BY <1>1, <1>2, <1>6
<1> QED BY <1>1, <1>3, <1>4, <1>5, <1>6

LEMMA PollMsgKeeps ==
    ASSUME ConnInv, poller = "idle", commander # <<>>, commander' = Tail(commander),
           Head(commander).c = "bc", PollMsg(Head(commander)),
           UNCHANGED <<task_vars, sink, cam_vars>>
    PROVE  ConnInv'
<1> USE DEF cam_vars, task_vars
<1>1. PICK m : m = Head(commander)
  OBVIOUS
<1>2. PICK to : to = Route(m, Cleaned)
  OBVIOUS
<1>3. /\ m \in Msgs /\ m \in Commands /\ m.c = "bc" /\ m.num \in Nums /\ m.num # Absent /\ m.num # Unnumbered
      /\ \A s \in Slots : Head(commander) # Add(s)
  BY <1>1, Taken, CommandFacts, Numbers
<1>4. /\ \A s \in Slots : reg'[s] = IF s \in to THEN m.num ELSE IF s \in open THEN reg[s] ELSE Absent
      /\ reg' \in [Slots -> Nums \union {Absent, Unnumbered}]
      /\ poller' = IF to = {} THEN "idle" ELSE "send"
      /\ held' = IF to = {} THEN Nothing ELSE m
      /\ target' = to /\ UNCHANGED rx
  BY <1>1, <1>2, <1>3, CleanedFacts DEF PollMsg, ConnInv
<1>5. /\ to # {} => \E x \in open :
            /\ to = {x} /\ x \in Slots /\ Id(x) = m.id
            /\ \/ reg[x] = m.num
               \/ /\ reg[x] = Unnumbered /\ ~Numbered(x)
                  /\ \A o \in open : ~(Id(o) = m.id /\ reg[o] = m.num)
      /\ \A s \in open : Id(s) = m.id /\ reg[s] = m.num => to = {s}
  BY <1>2, <1>3, Routed
<1>6. Typed /\ to \subseteq open /\ open \subseteq Slots
  BY <1>5 DEF ConnInv, Typed
<1>7. Absent \notin Nums /\ Unnumbered \notin Nums /\ Absent # Unnumbered
  BY Numbers
<1>8. Typed'
  BY <1>4, <1>6, Taken DEF Typed
<1>9. Owns'
  <2> SUFFICES ASSUME NEW s \in Slots
               PROVE  /\ Numbered(s) => reg'[s] \in {Absent, Task(s)}
                      /\ s \notin open => rx[s] = <<>>
                      /\ \A i \in DOMAIN rx[s] : rx[s][i].c = "bc" => rx[s][i].num = reg'[s]
    BY <1>4 DEF Owns
  <2>1. Numbered(s) => reg'[s] \in {Absent, Task(s)}
    BY <1>4, <1>5 DEF ConnInv, Owns
  <2>2. s \notin open => rx[s] = <<>>
    BY DEF ConnInv, Owns
  <2>3. ASSUME NEW i \in DOMAIN rx[s], rx[s][i].c = "bc" PROVE rx[s][i].num = reg'[s]
    <3>1. rx[s][i].num = reg[s] /\ s \in open
      BY <2>2, <2>3 DEF ConnInv, Owns
    <3>2. rx[s][i].num \in Nums
      <4>1. rx[s] \in Seq(Msgs \union {Failed})
        BY <1>6 DEF Typed
      <4>2. rx[s][i] \in Msgs \union {Failed}
        BY <4>1, Members
      <4> QED BY <2>3, <4>2, CommandFacts
    <3> QED BY <1>4, <1>5, <1>7, <3>1, <3>2
  <2> QED BY <2>1, <2>2, <2>3
<1>10. OnlyOwn'
  BY <1>4 DEF ConnInv, OnlyOwn
<1>11. Single'
  <2> SUFFICES ASSUME NEW s \in Slots, NEW o \in Slots, Id(s) = Id(o), reg'[s] = reg'[o], reg'[s] # Absent
               PROVE  s = o
    BY DEF Single
  <2>1. CASE s \notin to /\ o \notin to
    BY <1>4, <2>1 DEF ConnInv, Single
  <2>2. CASE s \in to /\ o \in to
    BY <1>5, <2>2
  <2>3. CASE s \in to /\ o \notin to
    BY <1>3, <1>4, <1>5, <2>3
  <2>4. CASE s \notin to /\ o \in to
    BY <1>3, <1>4, <1>5, <2>4
  <2> QED BY <2>1, <2>2, <2>3, <2>4
<1>12. Aimed'
  BY <1>3, <1>4, <1>5 DEF Aimed
<1>13. Unasked'
  <2> SUFFICES ASSUME NEW s \in Slots, Ahead(s)
               PROVE  /\ s \notin open /\ Untaken(s)' /\ got[s] = 0
                      /\ \A i \in DOMAIN commander' : commander'[i] # Add(s)
                      /\ Numbered(s) =>
                          /\ Key(s) \notin cam_work /\ cam_sent[Key(s)] = 0
                          /\ \A i \in DOMAIN sink : sink[i] # Key(s)
                          /\ \A i \in DOMAIN commander' : ~Of(commander'[i], Key(s))
                          /\ \A i \in DOMAIN wire_in : ~Of(wire_in[i], Key(s))
    BY DEF Unasked, Ahead
  <2>1. /\ s \notin open /\ Untaken(s) /\ got[s] = 0
        /\ \A i \in DOMAIN commander : commander[i] # Add(s)
        /\ Numbered(s) =>
            /\ Key(s) \notin cam_work /\ cam_sent[Key(s)] = 0
            /\ \A i \in DOMAIN sink : sink[i] # Key(s)
            /\ \A i \in DOMAIN commander : ~Of(commander[i], Key(s))
            /\ \A i \in DOMAIN wire_in : ~Of(wire_in[i], Key(s))
    BY DEF ConnInv, Unasked
  <2>2. Numbered(s) => ~Of(m, Key(s))
    BY <1>1, <2>1, Taken
  <2>3. Untaken(s)'
    <3>1. s \notin to
      BY <1>6, <2>1
    <3>2. ASSUME Numbered(s), NEW o \in Slots, Id(o) = Id(s) PROVE reg'[o] # Task(s)
      <4>1. CASE o \in to
        BY <1>3, <1>4, <1>5, <2>2, <3>2, <4>1, OfFacts
      <4>2. CASE o \notin to
        BY <1>4, <2>1, <3>2, <4>2, SlotFacts DEF Untaken
      <4> QED BY <4>1, <4>2
    <3> QED BY <1>4, <2>1, <3>1, <3>2 DEF Untaken
  <2> QED BY <2>1, <2>3, Taken
<1>14. Ordered'
  <2> SUFFICES ASSUME NEW s \in Slots, NEW i \in DOMAIN commander', commander'[i] = Add(s)
               PROVE  /\ Untaken(s)'
                      /\ \A j \in DOMAIN commander' : commander'[j] = Add(s) => j = i
                      /\ Numbered(s) => \A j \in DOMAIN commander' : Of(commander'[j], Key(s)) => i < j
    BY DEF Ordered
  <2>1. /\ Untaken(s) /\ (Numbered(s) => ~Of(m, Key(s)))
        /\ \A j \in DOMAIN commander' : commander'[j] = Add(s) => j = i
        /\ Numbered(s) => \A j \in DOMAIN commander' : Of(commander'[j], Key(s)) => i < j
    BY <1>1, Taken
  <2>2. Untaken(s)'
    <3>1. s \notin to
      BY <1>3, <1>5, <1>7, <2>1 DEF Untaken
    <3>2. ASSUME Numbered(s), NEW o \in Slots, Id(o) = Id(s) PROVE reg'[o] # Task(s)
      <4>1. CASE o \in to
        BY <1>3, <1>4, <1>5, <2>1, <3>2, <4>1, OfFacts
      <4>2. CASE o \notin to
        BY <1>4, <2>1, <3>2, <4>2, SlotFacts DEF Untaken
      <4> QED BY <4>1, <4>2
    <3> QED BY <1>4, <2>1, <3>1, <3>2 DEF Untaken
  <2> QED BY <2>1, <2>2
<1>15. \A s \in open : Numbered(s) /\ (\A i \in DOMAIN commander' : commander'[i] # Add(s)) => reg[s] = Task(s)
  BY <1>3, <1>6, Taken DEF ConnInv, Heard
<1>16. Heard'
  BY <1>4, <1>5, <1>6, <1>7, <1>15, SlotFacts DEF Heard
<1>17. Comes'
  <2> SUFFICES ASSUME NEW s \in open, Numbered(s) PROVE Spread(s)'
    BY <1>4 DEF Comes
  <2>0. s \in Slots /\ commander \in Seq(Commands) /\ s \notin target
    BY <1>6 DEF Typed, ConnInv, Aimed
  <2>1. PICK a \in Nat, b \in Nat : SpreadAt(s, a, b)
    BY DEF Comes, Spread, ConnInv
  <2>2. Carries(commander, Key(s), a, b)
    BY <2>0, <2>1 DEF SpreadAt
  <2>3. CASE Of(m, Key(s))
    <3>1. m.id = Id(s) /\ m.num = Task(s)
      BY <1>3, <2>0, <2>3, OfFacts
    <3>2. \A i \in DOMAIN commander' : commander'[i] # Add(s)
      BY <1>1, <2>0, <2>3, Taken
    <3>3. reg[s] = Task(s)
      BY <1>15, <3>2
    <3>4. to = {s}
      BY <1>5, <3>1, <3>3
    <3>5. m.n = a + 1 /\ a + 1 <= b /\ Carries(commander', Key(s), a + 1, b)
      BY <1>1, <2>0, <2>2, <2>3, CarriesHead
    <3>6. SpreadAt(s, a, b)'
      BY <1>4, <2>1, <3>4, <3>5 DEF SpreadAt
    <3> QED BY <3>6 DEF Spread
  <2>4. CASE ~Of(m, Key(s))
    <3>1. s \notin to
      BY <1>3, <1>5, <2>0, <2>4, OfFacts, <1>7 DEF ConnInv, Owns
    <3>2. Carries(commander', Key(s), a, b)
      BY <1>1, <2>0, <2>2, <2>4, CarriesTail
    <3>3. SpreadAt(s, a, b)'
      BY <1>4, <2>0, <2>1, <3>1, <3>2 DEF SpreadAt
    <3> QED BY <3>3 DEF Spread
  <2> QED BY <2>3, <2>4
<1> QED BY <1>8, <1>9, <1>10, <1>11, <1>12, <1>13, <1>14, <1>16, <1>17 DEF ConnInv

LEMMA PollOtherKeeps ==
    ASSUME ConnInv, poller = "idle", commander # <<>>, commander' = Tail(commander),
           Head(commander).c \notin {"bc", "add"}, reg' = Cleaned,
           \/ poller' = "idle" /\ UNCHANGED <<held, target>>
           \/ poller' = "errs" /\ held' = Failed /\ target' \subseteq Slots,
           UNCHANGED <<task_vars, rx, sink, cam_vars>>
    PROVE  ConnInv'
<1> USE DEF cam_vars, task_vars
<1>1. /\ \A s \in Slots : reg'[s] = IF s \in open THEN reg[s] ELSE Absent
      /\ reg' \in [Slots -> Nums \union {Absent, Unnumbered}]
  BY CleanedFacts DEF ConnInv
<1>2. /\ Typed /\ open \subseteq Slots
      /\ \A s \in Slots : Head(commander) # Add(s) /\ ~Of(Head(commander), Key(s))
  BY CommandFacts DEF Of, ConnInv, Typed
<1>3. Typed'
  BY <1>1, <1>2, Taken DEF Typed
<1>4. Owns' /\ OnlyOwn' /\ Single'
  BY <1>1 DEF ConnInv, Owns, OnlyOwn, Single
<1>5. Aimed'
  BY DEF ConnInv, Aimed
<1>6. \A s \in Slots : Untaken(s) => Untaken(s)'
  BY <1>1, SlotFacts DEF Untaken
<1>7. Unasked'
  <2> SUFFICES ASSUME NEW s \in Slots, Ahead(s)
               PROVE  /\ s \notin open /\ Untaken(s)' /\ got[s] = 0
                      /\ \A i \in DOMAIN commander' : commander'[i] # Add(s)
                      /\ Numbered(s) =>
                          /\ Key(s) \notin cam_work /\ cam_sent[Key(s)] = 0
                          /\ \A i \in DOMAIN sink : sink[i] # Key(s)
                          /\ \A i \in DOMAIN commander' : ~Of(commander'[i], Key(s))
                          /\ \A i \in DOMAIN wire_in : ~Of(wire_in[i], Key(s))
    BY DEF Unasked, Ahead
  <2> QED BY <1>6, Taken DEF ConnInv, Unasked
<1>8. Ordered'
  BY <1>6, Taken DEF Ordered
<1>9. Heard'
  BY <1>1, <1>2, Taken DEF ConnInv, Heard
<1>10. Comes'
  <2> SUFFICES ASSUME NEW s \in open, Numbered(s) PROVE Spread(s)'
    BY DEF Comes
  <2>1. s \in Slots /\ commander \in Seq(Commands)
    BY <1>2 DEF Typed
  <2>2. PICK a \in Nat, b \in Nat : SpreadAt(s, a, b)
    BY DEF Comes, Spread, ConnInv
  <2>3. Carries(commander, Key(s), a, b)
    BY <2>2 DEF SpreadAt
  <2>4. Carries(commander', Key(s), a, b)
    BY <1>2, <2>1, <2>3, CarriesTail
  <2>5. SpreadAt(s, a, b)'
    BY <2>2, <2>4 DEF SpreadAt
  <2> QED BY <2>5 DEF Spread
<1> QED BY <1>3, <1>4, <1>5, <1>7, <1>8, <1>9, <1>10 DEF ConnInv

LEMMA PollAddKeeps ==
    ASSUME ConnInv, poller = "idle", commander # <<>>, commander' = Tail(commander),
           NEW t \in Slots, Head(commander) = Add(t), PollAdd(t),
           UNCHANGED <<task_vars, sink, cam_vars>>
    PROVE  ConnInv'
<1> USE DEF cam_vars, task_vars
<1> DEFINE num == IF t[2] = "data" THEN Unnumbered ELSE Task(t)
           live == {o \in Slots : Id(o) = Id(t) /\ Cleaned[o] = num /\ o # t}
<1>1. /\ Untaken(t) /\ reg[t] = Absent
      /\ \A i \in DOMAIN commander' : commander'[i] # Add(t)
      /\ ~Ahead(t)
  <2>1. /\ 1 \in DOMAIN commander /\ commander[1] = Add(t)
        /\ \A i \in DOMAIN commander' : i + 1 \in DOMAIN commander /\ commander'[i] = commander[i + 1] /\ i \in Nat \ {0}
    BY Shorter DEF ConnInv, Typed
  <2>2. Untaken(t) /\ \A j \in DOMAIN commander : commander[j] = Add(t) => j = 1
    BY <2>1 DEF ConnInv, Ordered
  <2>3. ~Ahead(t)
    BY <2>1 DEF ConnInv, Unasked
  <2> QED BY <2>1, <2>2, <2>3 DEF Untaken
<1>2. /\ num # Absent /\ num \in Nums \union {Unnumbered} /\ (Numbered(t) => num = Task(t))
      /\ (~Numbered(t) => num = Unnumbered)
      /\ \A s \in Slots : Numbered(s) /\ Id(s) = Id(t) /\ num = Task(s) => s = t
  BY SlotFacts, OwnKey, Numbers DEF Numbered
<1>3. Numbered(t) => live = {}
  BY <1>1, <1>2, CleanedFacts, SlotFacts DEF Untaken
<1>4. /\ reg' = IF live = {} THEN [Cleaned EXCEPT ![t] = num] ELSE Cleaned
      /\ rx' = IF live # {} /\ t \in open THEN [rx EXCEPT ![t] = Append(@, Failed)] ELSE rx
      /\ UNCHANGED <<poller, held, target>>
  BY DEF PollAdd
<1>5. live = {} => \A o \in Slots : Id(o) = Id(t) /\ Cleaned[o] = num => o = t
  OBVIOUS
<1> HIDE DEF live, num
<1>6. /\ \A s \in Slots : reg'[s] = IF s = t /\ live = {} THEN num ELSE IF s \in open THEN reg[s] ELSE Absent
      /\ reg' \in [Slots -> Nums \union {Absent, Unnumbered}]
  BY <1>2, <1>4, CleanedFacts DEF ConnInv
<1>7. /\ Typed /\ open \subseteq Slots /\ target = {}
      /\ \A s \in Slots : ~Of(Head(commander), Key(s)) /\ (s # t => Head(commander) # Add(s))
  <2>1. Typed /\ open \subseteq Slots /\ target = {}
    BY DEF ConnInv, Typed, Aimed
  <2>2. Head(commander).c = "add" /\ Head(commander).slot = t
    BY CommandFacts
  <2>3. \A s \in Slots : Add(s).slot = s
    BY CommandFacts
  <2> QED BY <2>1, <2>2, <2>3 DEF Of
<1>8. /\ rx' \in [Slots -> Seq(Msgs \union {Failed})]
      /\ \A s \in Slots : Numbered(s) => rx'[s] = rx[s]
      /\ \A s \in Slots : \A i \in DOMAIN rx'[s] :
            rx'[s][i].c = "bc" => i \in DOMAIN rx[s] /\ rx'[s][i] = rx[s][i]
      /\ \A s \in Slots : s \notin open => rx'[s] = rx[s]
  <2>1. CASE live # {} /\ t \in open
    <3>1. rx[t] \in Seq(Msgs \union {Failed}) /\ Failed \in Msgs \union {Failed}
      BY <1>7 DEF Typed
    <3>2. /\ Append(rx[t], Failed) \in Seq(Msgs \union {Failed}) /\ Len(rx[t]) \in Nat
          /\ DOMAIN rx[t] = 1..Len(rx[t]) /\ DOMAIN Append(rx[t], Failed) = 1..(Len(rx[t]) + 1)
          /\ \A i \in 1..Len(rx[t]) : Append(rx[t], Failed)[i] = rx[t][i]
          /\ Append(rx[t], Failed)[Len(rx[t]) + 1] = Failed
      BY <3>1, Longer
    <3>3. rx'[t] = Append(rx[t], Failed) /\ \A s \in Slots : s # t => rx'[s] = rx[s]
      BY <1>4, <1>7, <2>1 DEF Typed
    <3>4. rx' \in [Slots -> Seq(Msgs \union {Failed})]
      BY <1>4, <1>7, <2>1, <3>2 DEF Typed
    <3>5. \A i \in DOMAIN rx'[t] : rx'[t][i].c = "bc" => i \in DOMAIN rx[t] /\ rx'[t][i] = rx[t][i]
      BY <3>2, <3>3, CommandFacts
    <3> QED BY <1>3, <2>1, <3>3, <3>4, <3>5
  <2>2. CASE ~(live # {} /\ t \in open)
    BY <1>4, <1>7, <2>2 DEF Typed
  <2> QED BY <2>1, <2>2
<1>9. \A i \in DOMAIN rx[t] : rx[t][i].c # "bc"
  <2>1. rx[t] \in Seq(Msgs \union {Failed})
    BY <1>7 DEF Typed
  <2>2. \A i \in DOMAIN rx[t] : rx[t][i] \in Msgs \/ rx[t][i] = Failed
    BY <2>1, Members
  <2> QED BY <1>1, <2>2, CommandFacts, Numbers DEF ConnInv, Owns
<1>10. Typed'
  BY <1>4, <1>6, <1>7, <1>8, Taken DEF Typed
<1>11. Owns'
  BY <1>2, <1>4, <1>6, <1>8, <1>9 DEF ConnInv, Owns
<1>12. OnlyOwn'
  <2>1. \A s \in Slots : \A m \in ToSet(rx[s])' : m.c = "bc" => m \in ToSet(rx[s])
    BY <1>8 DEF ToSet
  <2> QED BY <2>1 DEF ConnInv, OnlyOwn
<1>13. Single'
  <2> SUFFICES ASSUME NEW s \in Slots, NEW o \in Slots, Id(s) = Id(o), reg'[s] = reg'[o], reg'[s] # Absent
               PROVE  s = o
    BY DEF Single
  <2>1. CASE live # {} \/ (s # t /\ o # t)
    BY <1>6, <2>1 DEF ConnInv, Single
  <2>2. CASE live = {} /\ (s = t \/ o = t)
    BY <1>5, <1>6, <2>2, CleanedFacts
  <2> QED BY <2>1, <2>2
<1>14. Aimed'
  BY <1>4 DEF ConnInv, Aimed
<1>15. \A s \in Slots : s # t /\ Untaken(s) => Untaken(s)'
  BY <1>2, <1>6, SlotFacts DEF Untaken
<1>16. Unasked'
  <2> SUFFICES ASSUME NEW s \in Slots, Ahead(s)
               PROVE  /\ s \notin open /\ Untaken(s)' /\ got[s] = 0
                      /\ \A i \in DOMAIN commander' : commander'[i] # Add(s)
                      /\ Numbered(s) =>
                          /\ Key(s) \notin cam_work /\ cam_sent[Key(s)] = 0
                          /\ \A i \in DOMAIN sink : sink[i] # Key(s)
                          /\ \A i \in DOMAIN commander' : ~Of(commander'[i], Key(s))
                          /\ \A i \in DOMAIN wire_in : ~Of(wire_in[i], Key(s))
    BY DEF Unasked, Ahead
  <2>1. s # t
    BY <1>1
  <2> QED BY <1>15, <2>1, Taken DEF ConnInv, Unasked
<1>17. Ordered'
  BY <1>15, Taken DEF Ordered
<1>18. Heard'
  <2> SUFFICES ASSUME NEW s \in open, Numbered(s), \A i \in DOMAIN commander' : commander'[i] # Add(s)
               PROVE  reg'[s] = Task(s)
    BY DEF Heard
  <2>1. CASE s = t
    BY <1>2, <1>3, <1>6, <2>1
  <2>2. CASE s # t
    BY <1>4, <1>6, <1>7, <2>2, Taken DEF ConnInv, Heard
  <2> QED BY <2>1, <2>2
<1>19. Comes'
  <2> SUFFICES ASSUME NEW s \in open, Numbered(s) PROVE Spread(s)'
    BY DEF Comes
  <2>1. s \in Slots /\ commander \in Seq(Commands)
    BY <1>7 DEF Typed
  <2>2. PICK a \in Nat, b \in Nat : SpreadAt(s, a, b)
    BY DEF Comes, Spread, ConnInv
  <2>3. Carries(commander, Key(s), a, b)
    BY <2>2 DEF SpreadAt
  <2>4. Carries(commander', Key(s), a, b)
    BY <1>7, <2>1, <2>3, CarriesTail
  <2>5. SpreadAt(s, a, b)'
    BY <1>4, <1>8, <2>1, <2>2, <2>4 DEF SpreadAt
  <2> QED BY <2>5 DEF Spread
<1> QED BY <1>10, <1>11, <1>12, <1>13, <1>14, <1>16, <1>17, <1>18, <1>19 DEF ConnInv

LEMMA DiesKeeps ==
    ASSUME ConnInv, PollerDies, sink' \in {sink, <<>>}, UNCHANGED <<task_vars, rx, cam_vars>>
    PROVE  ConnInv'
<1> USE DEF cam_vars, task_vars, PollerDies
<1>1. \A s \in Slots : reg'[s] = Absent
  OBVIOUS
<1>2. Typed'
  <2>1. sink' \in Seq(Keys \union {AliveReply}) /\ commander' \in Seq(Commands)
    BY EmptySeq DEF ConnInv, Typed
  <2>2. reg' \in [Slots -> Nums \union {Absent, Unnumbered}]
    OBVIOUS
  <2> QED BY <2>1, <2>2 DEF ConnInv, Typed
<1>3. Owns' /\ OnlyOwn' /\ Single' /\ Aimed' /\ Ordered' /\ Heard' /\ Comes'
  BY <1>1 DEF ConnInv, Owns, OnlyOwn, Single, Aimed, Ordered, Heard, Comes
<1>4. Unasked'
  <2>1. \A s \in Slots : Untaken(s)'
    BY <1>1, SlotFacts DEF Untaken
  <2>2. DOMAIN commander' = {} /\ DOMAIN sink' \subseteq DOMAIN sink /\ \A i \in DOMAIN sink' : sink'[i] = sink[i]
    OBVIOUS
  <2> QED BY <2>1, <2>2 DEF ConnInv, Unasked, Ahead
<1> QED BY <1>2, <1>3, <1>4 DEF ConnInv

LEMMA DeliverKeeps == ASSUME ConnInv, NEW t \in Slots, Deliver(t) PROVE ConnInv'
<1> USE DEF cam_vars, task_vars
<1>1. /\ t \in target /\ poller \in {"send", "errs"}
      /\ target' = target \ {t} /\ poller' \in {"idle", "errs"}
      /\ poller = "send" => poller' = "idle" /\ target = {t} /\ held \in Msgs /\ held.id = Id(t) /\ held.num = reg[t]
      /\ poller = "errs" => poller' = "errs" /\ held' = held /\ held = Failed
      /\ UNCHANGED <<task_vars, commander, sink, reg, cam_vars>>
  BY DEF Deliver, ConnInv, Aimed
<1>2. /\ held \in Msgs \union {Failed} /\ held \in Commands /\ Typed /\ Failed.c # "bc"
      /\ \A s \in Slots : rx[s] \in Seq(Msgs \union {Failed})
  BY <1>1, CommandFacts DEF ConnInv, Typed
<1>3. CASE t \notin open
  <2>1. rx' = rx
    BY <1>3 DEF Deliver
  <2>2. Typed' /\ Owns' /\ OnlyOwn' /\ Single' /\ Ordered' /\ Heard'
    BY <1>1, <2>1 DEF ConnInv, Typed, Owns, OnlyOwn, Single, Ordered, Heard, Untaken
  <2>3. Aimed' /\ Unasked'
    BY <1>1 DEF ConnInv, Aimed, Unasked, Ahead, Untaken
  <2>4. Comes'
    <3>1. ASSUME NEW s \in open, Spread(s) PROVE Spread(s)'
      BY <1>1, <1>3, <2>1, <3>1 DEF Spread, SpreadAt
    <3> QED BY <1>1, <3>1 DEF ConnInv, Comes
  <2> QED BY <2>2, <2>3, <2>4 DEF ConnInv
<1>4. CASE t \in open
  <2>1. rx' = [rx EXCEPT ![t] = Append(@, held)]
    BY <1>4 DEF Deliver
  <2>2. /\ Append(rx[t], held) \in Seq(Msgs \union {Failed}) /\ Len(rx[t]) \in Nat
        /\ DOMAIN rx[t] = 1..Len(rx[t]) /\ DOMAIN Append(rx[t], held) = 1..(Len(rx[t]) + 1)
        /\ \A i \in 1..Len(rx[t]) : Append(rx[t], held)[i] = rx[t][i]
        /\ Append(rx[t], held)[Len(rx[t]) + 1] = held
    BY <1>2, Longer
  <2>3. /\ rx'[t] = Append(rx[t], held) /\ \A s \in Slots : s # t => rx'[s] = rx[s]
        /\ rx' \in [Slots -> Seq(Msgs \union {Failed})]
    BY <1>2, <2>1, <2>2 DEF Typed
  <2>4. \A i \in DOMAIN rx'[t] : (i \in DOMAIN rx[t] /\ rx'[t][i] = rx[t][i]) \/ rx'[t][i] = held
    BY <2>2, <2>3
  <2>5. Typed' /\ Single' /\ Ordered' /\ Heard'
    BY <1>1, <2>3 DEF ConnInv, Typed, Single, Ordered, Heard, Untaken
  <2>6. Aimed' /\ Unasked'
    BY <1>1 DEF ConnInv, Aimed, Unasked, Ahead, Untaken
  <2>7. \A i \in DOMAIN rx'[t] : rx'[t][i].c = "bc" => rx'[t][i].num = reg[t]
    BY <1>1, <1>2, <2>4 DEF ConnInv, Owns
  <2>8. Owns'
    BY <1>1, <1>4, <2>3, <2>7 DEF ConnInv, Owns
  <2>9. OnlyOwn'
    <3>1. \A s \in Slots : s # t => ToSet(rx[s])' = ToSet(rx[s])
      BY <2>3 DEF ToSet
    <3>2. ASSUME NEW m \in ToSet(rx[t])', m.c = "bc" PROVE m.id = Id(t) /\ m.num = reg[t]
      <4>1. PICK i \in DOMAIN rx'[t] : m = rx'[t][i]
        BY DEF ToSet
      <4>2. m.num = reg[t]
        BY <2>7, <3>2, <4>1
      <4>3. m \in ToSet(rx[t]) \/ m = held
        BY <2>4, <4>1 DEF ToSet
      <4> QED BY <1>1, <1>2, <3>2, <4>2, <4>3 DEF ConnInv, OnlyOwn
    <3>3. ASSUME NEW m \in ToSet(rx[t])', m.c = "bc", Numbered(t) PROVE m.num = Task(t)
      <4>1. m.num = reg[t] /\ m.num \in Nums
        <5>1. PICK i \in DOMAIN rx'[t] : m = rx'[t][i]
          BY DEF ToSet
        <5>2. rx'[t] \in Seq(Msgs \union {Failed})
          BY <2>3
        <5>3. m \in Msgs \union {Failed}
          BY <5>1, <5>2, Members
        <5> QED BY <1>2, <3>2, <3>3, <5>3, CommandFacts
      <4> QED BY <3>3, <4>1, Numbers DEF ConnInv, Owns
    <3> QED BY <3>1, <3>2, <3>3 DEF ConnInv, OnlyOwn, Numbered
  <2>10. Comes'
    <3> SUFFICES ASSUME NEW s \in open, Numbered(s) PROVE Spread(s)'
      BY <1>1 DEF Comes
    <3>1. s \in Slots /\ got[s] \in Nat
      BY <1>2 DEF Typed
    <3>2. PICK a \in Nat, b \in Nat : SpreadAt(s, a, b)
      BY <1>1 DEF Comes, Spread, ConnInv
    <3>3. CASE s # t
      <4>1. SpreadAt(s, a, b)'
        BY <1>1, <2>3, <3>1, <3>2, <3>3 DEF SpreadAt
      <4> QED BY <4>1 DEF Spread
    <3>4. CASE s = t /\ poller = "send"
      <4>1. reg[s] = Task(s)
        BY <1>1, <3>1, <3>4, CommandFacts, Numbers DEF ConnInv, Owns
      <4>2. Of(held, Key(s)) /\ held.n = a + 1 /\ got[s] <= a
        BY <1>1, <1>2, <3>1, <3>2, <3>4, <4>1, OfFacts DEF SpreadAt
      <4>3. Carries(rx[s], Key(s), got[s], a)
        BY <3>2 DEF SpreadAt
      <4>4. Carries(rx'[s], Key(s), got[s], a + 1)
        BY <1>2, <2>3, <3>1, <3>4, <4>2, <4>3, CarriesOne
      <4>5. /\ a + 1 <= b /\ b <= cam_sent[Key(s)] /\ Carries(commander, Key(s), a + 1, b)
            /\ Carries(wire_in, Key(s), b, cam_sent[Key(s)])
        BY <1>1, <3>2, <3>4 DEF SpreadAt
      <4>6. /\ poller' = "idle" /\ got[s] <= a + 1 /\ a + 1 \in Nat
            /\ UNCHANGED <<got, commander, wire_in, cam_sent>>
        BY <1>1, <3>1, <3>4, <4>2
      <4>7. SpreadAt(s, a + 1, b)'
        BY <4>4, <4>5, <4>6 DEF SpreadAt
      <4> QED BY <4>6, <4>7 DEF Spread
    <3>5. CASE s = t /\ poller = "errs"
      <4>1. ~Of(held, Key(s))
        BY <1>1, <1>2, <3>5 DEF Of
      <4>2. Carries(rx[s], Key(s), got[s], a)
        BY <3>2 DEF SpreadAt
      <4>3. Carries(rx'[s], Key(s), got[s], a)
        BY <1>2, <2>3, <3>1, <3>5, <4>1, <4>2, CarriesOther
      <4>4. SpreadAt(s, a, b)'
        BY <1>1, <3>2, <3>5, <4>3 DEF SpreadAt
      <4> QED BY <4>4 DEF Spread
    <3> QED BY <1>1, <3>3, <3>4, <3>5
  <2> QED BY <2>5, <2>6, <2>8, <2>9, <2>10 DEF ConnInv
<1> QED BY <1>3, <1>4

LEMMA PollKeeps == ASSUME ConnInv, Poll PROVE ConnInv'
<1>1. PICK m : m = Head(commander)
  OBVIOUS
<1>2. m \in Commands
  BY <1>1, Shorter DEF ConnInv, Typed, Poll
<1>3. CASE m.c = "handler" /\ handlers > 0 /\ PollerDies /\ UNCHANGED rx
  BY <1>3, DiesKeeps DEF Poll
<1>4. CASE commander' = Tail(commander) /\ m.c = "bc" /\ PollMsg(m)
  BY <1>1, <1>4, PollMsgKeeps DEF Poll
<1>5. CASE commander' = Tail(commander) /\ m.c = "alive" /\ PollAlive
  BY <1>1, <1>5, PollOtherKeeps DEF Poll, PollAlive
<1>6. CASE commander' = Tail(commander) /\ m.c = "err" /\ PollErr
  BY <1>1, <1>6, PollOtherKeeps DEF Poll, PollErr
<1>7. CASE commander' = Tail(commander) /\ m.c = "add" /\ PollAdd(m.slot)
  <2>1. PICK t \in Slots : m = Add(t)
    BY <1>2, <1>7, CommandFacts
  <2>2. m.slot = t
    BY <2>1, CommandFacts
  <2> QED BY <1>1, <1>7, <2>1, <2>2, PollAddKeeps DEF Poll
<1>8. CASE /\ commander' = Tail(commander) /\ m.c = "handler" /\ handlers' = 1 /\ reg' = Cleaned
           /\ UNCHANGED <<callbacks, poller, held, target, rx>>
  BY <1>1, <1>8, PollOtherKeeps DEF Poll
<1> QED BY <1>1, <1>3, <1>4, <1>5, <1>6, <1>7, <1>8 DEF Poll

-----------------------------------------------------------------------------
(* The reader, the writer and the camera                                   *)

\* What is no message to a subscription may be queued, sent or written at any time.
LEMMA QueuesKeep ==
    ASSUME ConnInv, UNCHANGED <<task_vars, rx, reg, poller, held, target, cam_sent>>,
           \/ UNCHANGED <<commander, wire_in, cam_work>> /\ sink' = Append(sink, AliveReply)
           \/ UNCHANGED <<commander, wire_in, cam_work>> /\ sink' \in {sink, <<>>}
           \/ UNCHANGED <<sink, wire_in, cam_work>> /\ commander' = Append(commander, AddHandler)
           \/ /\ UNCHANGED <<sink, commander, cam_work>>
              /\ \E m \in {Failed, Alive} : wire_in' = Append(wire_in, m)
    PROVE  ConnInv'
<1> USE DEF task_vars
<1>1. /\ Typed /\ AliveReply \in Keys \union {AliveReply} /\ AddHandler \in Commands
      /\ Failed \in Received /\ Alive \in Received
      /\ \A s \in Slots : /\ AddHandler # Add(s) /\ AliveReply # Key(s)
                          /\ ~Of(AddHandler, Key(s)) /\ ~Of(Failed, Key(s)) /\ ~Of(Alive, Key(s))
  <2>1. \A s \in Slots : AliveReply # Key(s)
    BY SlotFacts DEF AliveReply
  <2>2. \A s \in Slots : AddHandler # Add(s) /\ ~Of(AddHandler, Key(s)) /\ ~Of(Failed, Key(s)) /\ ~Of(Alive, Key(s))
    BY CommandFacts DEF Of
  <2> QED BY <2>1, <2>2, CommandFacts DEF ConnInv
<1>2. /\ sink' \in Seq(Keys \union {AliveReply})
      /\ \A s \in Slots : (\A i \in DOMAIN sink : sink[i] # Key(s)) => \A i \in DOMAIN sink' : sink'[i] # Key(s)
  <2>1. CASE sink' = Append(sink, AliveReply)
    <3>1. /\ sink' \in Seq(Keys \union {AliveReply}) /\ Len(sink) \in Nat
          /\ DOMAIN sink = 1..Len(sink) /\ DOMAIN sink' = 1..(Len(sink) + 1)
          /\ \A i \in 1..Len(sink) : sink'[i] = sink[i]
          /\ sink'[Len(sink) + 1] = AliveReply
      BY <1>1, <2>1, Longer DEF Typed
    <3> QED BY <1>1, <3>1
  <2>2. CASE sink' = <<>>
    BY <2>2, EmptySeq
  <2>3. CASE sink' = sink
    BY <1>1, <2>3 DEF Typed
  <2> QED BY <2>1, <2>2, <2>3
<1>3. /\ commander' \in Seq(Commands)
      /\ \A i \in DOMAIN commander : i \in DOMAIN commander' /\ commander'[i] = commander[i]
      /\ \A i \in DOMAIN commander' : \/ i \in DOMAIN commander /\ commander'[i] = commander[i]
                                      \/ commander'[i] = AddHandler
      /\ \A s \in Slots, lo, hi \in Nat : Carries(commander, Key(s), lo, hi) => Carries(commander', Key(s), lo, hi)
  <2>1. CASE commander' = Append(commander, AddHandler)
    <3>1. /\ commander' \in Seq(Commands) /\ Len(commander) \in Nat
          /\ DOMAIN commander = 1..Len(commander) /\ DOMAIN commander' = 1..(Len(commander) + 1)
          /\ \A i \in 1..Len(commander) : commander'[i] = commander[i]
          /\ commander'[Len(commander) + 1] = AddHandler
      BY <1>1, <2>1, Longer DEF Typed
    <3>2. commander \in Seq(Commands)
      BY <1>1 DEF Typed
    <3>3. ASSUME NEW s \in Slots, NEW lo \in Nat, NEW hi \in Nat, Carries(commander, Key(s), lo, hi)
          PROVE  Carries(commander', Key(s), lo, hi)
      BY <1>1, <2>1, <3>2, <3>3, CarriesOther
    <3> QED BY <3>1, <3>3
  <2>2. CASE commander' = commander
    BY <1>1, <2>2 DEF Typed
  <2> QED BY <2>1, <2>2
<1>4. /\ wire_in' \in Seq(Received)
      /\ \A s \in Slots : (\A i \in DOMAIN wire_in : ~Of(wire_in[i], Key(s)))
                          => \A i \in DOMAIN wire_in' : ~Of(wire_in'[i], Key(s))
      /\ \A s \in Slots, lo, hi \in Nat : Carries(wire_in, Key(s), lo, hi) => Carries(wire_in', Key(s), lo, hi)
  <2>1. ASSUME NEW m \in {Failed, Alive}, wire_in' = Append(wire_in, m)
        PROVE  /\ wire_in' \in Seq(Received)
               /\ \A s \in Slots : (\A i \in DOMAIN wire_in : ~Of(wire_in[i], Key(s)))
                                   => \A i \in DOMAIN wire_in' : ~Of(wire_in'[i], Key(s))
               /\ \A s \in Slots, lo, hi \in Nat : Carries(wire_in, Key(s), lo, hi) => Carries(wire_in', Key(s), lo, hi)
    <3>1. m \in Received /\ \A s \in Slots : ~Of(m, Key(s))
      BY <1>1
    <3>2. /\ wire_in' \in Seq(Received) /\ Len(wire_in) \in Nat
          /\ DOMAIN wire_in = 1..Len(wire_in) /\ DOMAIN wire_in' = 1..(Len(wire_in) + 1)
          /\ \A i \in 1..Len(wire_in) : wire_in'[i] = wire_in[i]
          /\ wire_in'[Len(wire_in) + 1] = m
      BY <1>1, <2>1, <3>1, Longer DEF Typed
    <3>3. wire_in \in Seq(Received)
      BY <1>1 DEF Typed
    <3>4. ASSUME NEW s \in Slots, NEW lo \in Nat, NEW hi \in Nat, Carries(wire_in, Key(s), lo, hi)
          PROVE  Carries(wire_in', Key(s), lo, hi)
      BY <2>1, <3>1, <3>3, <3>4, CarriesOther
    <3> QED BY <3>1, <3>2, <3>4
  <2>2. CASE wire_in' = wire_in
    BY <1>1, <2>2 DEF Typed
  <2> QED BY <2>1, <2>2
<1>5. UNCHANGED cam_work
  OBVIOUS
<1>6. Typed'
  BY <1>1, <1>2, <1>3, <1>4, <1>5 DEF Typed
<1>7. Owns' /\ OnlyOwn' /\ Single' /\ Aimed'
  BY DEF ConnInv, Owns, OnlyOwn, Single, Aimed
<1>8. Unasked'
  <2> SUFFICES ASSUME NEW s \in Slots, Ahead(s)
               PROVE  /\ s \notin open /\ Untaken(s)' /\ got[s] = 0
                      /\ \A i \in DOMAIN commander' : commander'[i] # Add(s)
                      /\ Numbered(s) =>
                          /\ Key(s) \notin cam_work /\ cam_sent[Key(s)] = 0
                          /\ \A i \in DOMAIN sink' : sink'[i] # Key(s)
                          /\ \A i \in DOMAIN commander' : ~Of(commander'[i], Key(s))
                          /\ \A i \in DOMAIN wire_in' : ~Of(wire_in'[i], Key(s))
    BY <1>5 DEF Unasked, Ahead
  <2> QED BY <1>1, <1>2, <1>3, <1>4 DEF ConnInv, Unasked, Untaken
<1>9. Ordered'
  BY <1>1, <1>3 DEF ConnInv, Ordered, Untaken
<1>10. Heard'
  BY <1>3 DEF ConnInv, Heard
<1>11. Comes'
  <2> SUFFICES ASSUME NEW s \in open, poller # "dead", Numbered(s) PROVE Spread(s)'
    BY DEF Comes
  <2>1. s \in Slots /\ cam_sent[Key(s)] \in Nat
    BY <1>1, SlotFacts DEF Typed
  <2>2. PICK a \in Nat, b \in Nat : SpreadAt(s, a, b)
    BY DEF Comes, Spread, ConnInv
  <2>3. SpreadAt(s, a, b)'
    BY <1>3, <1>4, <2>1, <2>2 DEF SpreadAt
  <2> QED BY <2>3 DEF Spread
<1> QED BY <1>6, <1>7, <1>8, <1>9, <1>10, <1>11 DEF ConnInv

LEMMA ReadKeeps == ASSUME ConnInv, Read PROVE ConnInv'
<1> USE DEF task_vars, poll_vars
<1>1. CASE poller = "dead"
  BY <1>1, QueuesKeep DEF Read
<1>2. CASE poller # "dead"
  <2>1. PICK m : m = Head(wire_in)
    OBVIOUS
  <2>2. /\ commander' = Append(commander, m) /\ wire_in' = Tail(wire_in) /\ wire_in # <<>>
        /\ UNCHANGED <<task_vars, rx, sink, poll_vars, cam_up, cam_sent, cam_work>>
    BY <1>2, <2>1 DEF Read
  <2>3. Typed /\ wire_in \in Seq(Received) /\ commander \in Seq(Commands)
    BY DEF ConnInv, Typed
  <2>4. /\ wire_in' \in Seq(Received) /\ m \in Received /\ m = wire_in[1] /\ 1 \in DOMAIN wire_in
        /\ \A i \in DOMAIN wire_in' : i + 1 \in DOMAIN wire_in /\ wire_in'[i] = wire_in[i + 1]
    BY <2>1, <2>2, <2>3, Shorter
  <2>5. m \in Commands /\ \A s \in Slots : m # Add(s)
    BY <2>4, CommandFacts
  <2>6. /\ commander' \in Seq(Commands) /\ Len(commander) \in Nat
        /\ DOMAIN commander = 1..Len(commander) /\ DOMAIN commander' = 1..(Len(commander) + 1)
        /\ \A i \in 1..Len(commander) : commander'[i] = commander[i]
        /\ commander'[Len(commander) + 1] = m
    BY <2>2, <2>3, <2>5, Longer
  <2>7. Typed'
    BY <2>2, <2>3, <2>4, <2>6 DEF Typed
  <2>8. Owns' /\ OnlyOwn' /\ Single' /\ Aimed'
    BY <2>2 DEF ConnInv, Owns, OnlyOwn, Single, Aimed
  <2>9. Unasked'
    <3> SUFFICES ASSUME NEW s \in Slots, Ahead(s)
                 PROVE  /\ s \notin open /\ Untaken(s)' /\ got[s] = 0
                        /\ \A i \in DOMAIN commander' : commander'[i] # Add(s)
                        /\ Numbered(s) =>
                            /\ Key(s) \notin cam_work /\ cam_sent[Key(s)] = 0
                            /\ \A i \in DOMAIN sink : sink[i] # Key(s)
                            /\ \A i \in DOMAIN commander' : ~Of(commander'[i], Key(s))
                            /\ \A i \in DOMAIN wire_in' : ~Of(wire_in'[i], Key(s))
      BY <2>2 DEF Unasked, Ahead
    <3> QED BY <2>2, <2>4, <2>5, <2>6 DEF ConnInv, Unasked, Untaken
  <2>10. Ordered'
    <3> SUFFICES ASSUME NEW s \in Slots, NEW i \in DOMAIN commander', commander'[i] = Add(s)
                 PROVE  /\ Untaken(s)'
                        /\ \A j \in DOMAIN commander' : commander'[j] = Add(s) => j = i
                        /\ Numbered(s) => \A j \in DOMAIN commander' : Of(commander'[j], Key(s)) => i < j
      BY DEF Ordered
    <3>1. i \in DOMAIN commander /\ commander[i] = Add(s)
      BY <2>5, <2>6
    <3>2. /\ Untaken(s)
          /\ \A j \in DOMAIN commander : commander[j] = Add(s) => j = i
          /\ Numbered(s) => \A j \in DOMAIN commander : Of(commander[j], Key(s)) => i < j
      BY <3>1 DEF ConnInv, Ordered
    <3> QED BY <2>2, <2>5, <2>6, <3>1, <3>2 DEF Untaken
  <2>11. Heard'
    BY <2>2, <2>6 DEF ConnInv, Heard
  <2>12. Comes'
    <3> SUFFICES ASSUME NEW s \in open, Numbered(s) PROVE Spread(s)'
      BY <2>2 DEF Comes
    <3>1. s \in Slots /\ cam_sent[Key(s)] \in Nat
      BY <2>3, SlotFacts DEF Typed
    <3>2. PICK a \in Nat, b \in Nat : SpreadAt(s, a, b)
      BY <1>2 DEF Comes, Spread, ConnInv
    <3>3. PICK c \in Nat : c = IF poller = "send" /\ s \in target THEN a + 1 ELSE a
      OBVIOUS
    <3>4. c <= b /\ Carries(commander, Key(s), c, b) /\ Carries(wire_in, Key(s), b, cam_sent[Key(s)])
      BY <3>2, <3>3 DEF SpreadAt
    <3>5. CASE Of(m, Key(s))
      <4>1. m.n = b + 1 /\ b + 1 <= cam_sent[Key(s)] /\ Carries(wire_in', Key(s), b + 1, cam_sent[Key(s)])
        BY <2>1, <2>2, <2>3, <3>1, <3>4, <3>5, CarriesHead
      <4>2. Carries(commander', Key(s), c, b + 1)
        BY <2>2, <2>3, <2>5, <3>4, <3>5, <4>1, CarriesOne
      <4>3. c <= b + 1 /\ b + 1 \in Nat
        BY <3>4
      <4>4. SpreadAt(s, a, b + 1)'
        BY <2>2, <3>2, <3>3, <4>1, <4>2, <4>3 DEF SpreadAt
      <4> QED BY <4>3, <4>4 DEF Spread
    <3>6. CASE ~Of(m, Key(s))
      <4>1. Carries(wire_in', Key(s), b, cam_sent[Key(s)])
        BY <2>1, <2>2, <2>3, <3>4, <3>6, CarriesTail
      <4>2. Carries(commander', Key(s), c, b)
        BY <2>2, <2>3, <2>5, <3>4, <3>6, CarriesOther
      <4>3. SpreadAt(s, a, b)'
        BY <2>2, <3>2, <3>3, <4>1, <4>2 DEF SpreadAt
      <4> QED BY <4>3 DEF Spread
    <3> QED BY <3>5, <3>6
  <2> QED BY <2>7, <2>8, <2>9, <2>10, <2>11, <2>12 DEF ConnInv
<1> QED BY <1>1, <1>2

LEMMA WriteKeeps == ASSUME ConnInv, Write PROVE ConnInv'
<1> USE DEF task_vars, poll_vars
<1>1. PICK m : m = Head(sink)
  OBVIOUS
<1>2. /\ sink' = Tail(sink) /\ sink # <<>> /\ sink \in Seq(Keys \union {AliveReply})
      /\ UNCHANGED <<task_vars, rx, commander, poll_vars, wire_in, cam_sent>>
      /\ m # AliveReply => cam_work' \subseteq cam_work \union {m}
      /\ m = AliveReply => cam_work' = cam_work
  BY <1>1 DEF Write, ConnInv, Typed
<1>3. /\ sink' \in Seq(Keys \union {AliveReply}) /\ m \in Keys \union {AliveReply}
      /\ m = sink[1] /\ 1 \in DOMAIN sink
      /\ \A i \in DOMAIN sink' : i + 1 \in DOMAIN sink /\ sink'[i] = sink[i + 1]
  BY <1>1, <1>2, Shorter
<1>4. Typed'
  BY <1>2, <1>3 DEF ConnInv, Typed
<1>5. Owns' /\ OnlyOwn' /\ Single' /\ Aimed' /\ Ordered' /\ Heard'
  BY <1>2 DEF ConnInv, Owns, OnlyOwn, Single, Aimed, Ordered, Heard, Untaken
<1>6. Unasked'
  BY <1>2, <1>3 DEF ConnInv, Unasked, Untaken, Ahead
<1>7. Comes'
  BY <1>2 DEF ConnInv, Comes, Spread, SpreadAt
<1> QED BY <1>4, <1>5, <1>6, <1>7 DEF ConnInv

LEMMA CamSendsKeeps == ASSUME ConnInv, NEW k \in Keys, CamSends(k) PROVE ConnInv'
<1> USE DEF task_vars, poll_vars
<1>1. PICK n : n = cam_sent[k] + 1
  OBVIOUS
<1>2. PICK m : m = Msg(k.id, k.num, n)
  OBVIOUS
<1>3. /\ k \in cam_work /\ cam_sent' = [cam_sent EXCEPT ![k] = @ + 1]
      /\ UNCHANGED <<task_vars, rx, commander, sink, poll_vars>>
  BY DEF CamSends
<1>4. /\ n \in Nat /\ cam_sent' \in [Keys -> Nat] /\ cam_sent'[k] = n
      /\ \A o \in Keys : o # k => cam_sent'[o] = cam_sent[o]
  BY <1>1, <1>3 DEF ConnInv, Typed
<1>5. wire_in' = Append(wire_in, m)
  BY <1>2, <1>4 DEF CamSends
<1>6. /\ m \in Msgs /\ m.c = "bc" /\ m.id = k.id /\ m.num = k.num /\ m.n = n
      /\ m \in Received
  BY <1>2, <1>4, CommandFacts DEF Msgs, Msg, Keys
<1>7. \A s \in Slots : Of(m, Key(s)) <=> Key(s) = k
  BY <1>6, SlotFacts DEF Of, Keys
<1>8. cam_work' \subseteq Keys /\ \A s \in Slots : Numbered(s) /\ Key(s) \in cam_work' => Key(s) \in cam_work
  <2>1. [id |-> "snap", num |-> Push] \in Keys
    BY DEF Keys, Nums
  <2>2. cam_work' \subseteq cam_work \union {[id |-> "snap", num |-> Push]}
    BY DEF CamSends
  <2>3. \A s \in Slots : Numbered(s) => Key(s) # [id |-> "snap", num |-> Push]
    BY SlotFacts
  <2> QED BY <2>1, <2>2, <2>3 DEF ConnInv, Typed
<1>9. wire_in \in Seq(Received)
  BY DEF ConnInv, Typed
<1>10. /\ wire_in' \in Seq(Received) /\ Len(wire_in) \in Nat
       /\ DOMAIN wire_in = 1..Len(wire_in) /\ DOMAIN wire_in' = 1..(Len(wire_in) + 1)
       /\ \A i \in 1..Len(wire_in) : wire_in'[i] = wire_in[i]
       /\ wire_in'[Len(wire_in) + 1] = m
  BY <1>5, <1>6, <1>9, Longer
<1>11. Typed'
  BY <1>3, <1>4, <1>8, <1>10 DEF ConnInv, Typed
<1>12. Owns' /\ OnlyOwn' /\ Single' /\ Aimed' /\ Ordered' /\ Heard'
  BY <1>3 DEF ConnInv, Owns, OnlyOwn, Single, Aimed, Ordered, Heard, Untaken
<1>13. Unasked'
  <2>1. \A s \in Slots : Ahead(s) /\ Numbered(s) => Key(s) # k
    BY <1>3 DEF ConnInv, Unasked
  <2>2. \A s \in Slots : Key(s) \in Keys
    BY SlotFacts
  <2> QED BY <1>3, <1>4, <1>7, <1>8, <1>10, <2>1, <2>2 DEF ConnInv, Unasked, Untaken, Ahead
<1>14. Comes'
  <2> SUFFICES ASSUME NEW s \in open, poller # "dead", Numbered(s) PROVE Spread(s)'
    BY <1>3 DEF Comes
  <2>1. s \in Slots /\ cam_sent[Key(s)] \in Nat /\ Key(s) \in Keys
    BY SlotFacts DEF ConnInv, Typed
  <2>2. PICK a \in Nat, b \in Nat : SpreadAt(s, a, b)
    BY DEF Comes, Spread, ConnInv
  <2>3. b <= cam_sent[Key(s)] /\ Carries(wire_in, Key(s), b, cam_sent[Key(s)])
    BY <2>2 DEF SpreadAt
  <2>4. b <= cam_sent'[Key(s)] /\ Carries(wire_in', Key(s), b, cam_sent'[Key(s)])
    <3>1. CASE Key(s) = k
      <4>1. Of(m, Key(s)) /\ m.n = cam_sent[Key(s)] + 1 /\ cam_sent'[Key(s)] = cam_sent[Key(s)] + 1
        BY <1>1, <1>4, <1>6, <1>7, <2>1, <3>1
      <4>2. Carries(wire_in', Key(s), b, cam_sent[Key(s)] + 1)
        BY <1>5, <1>6, <1>9, <2>1, <2>3, <4>1, CarriesOne
      <4> QED BY <2>1, <2>3, <4>1, <4>2
    <3>2. CASE Key(s) # k
      <4>1. ~Of(m, Key(s)) /\ cam_sent'[Key(s)] = cam_sent[Key(s)]
        BY <1>4, <1>7, <2>1, <3>2
      <4>2. Carries(wire_in', Key(s), b, cam_sent[Key(s)])
        BY <1>5, <1>6, <1>9, <2>3, <4>1, CarriesOther
      <4> QED BY <2>3, <4>1, <4>2
    <3> QED BY <3>1, <3>2
  <2>5. SpreadAt(s, a, b)'
    BY <1>3, <2>2, <2>4 DEF SpreadAt
  <2> QED BY <2>5 DEF Spread
<1> QED BY <1>11, <1>12, <1>13, <1>14 DEF ConnInv

LEMMA WireKeeps ==
    ASSUME ConnInv, Callback \/ HandleMsg \/ SourceFails \/ SourceEnds \/ WriterFails \/ CamAlive
    PROVE  ConnInv'
<1>1. CASE Callback \/ HandleMsg \/ SourceEnds \/ WriterFails \/ CamAlive
  BY <1>1, QueuesKeep DEF Callback, HandleMsg, SourceEnds, WriterFails, CamAlive, poll_vars, cam_vars
<1>2. CASE SourceFails
  <2>1. Append(<<>>, Failed) = <<Failed>>
    OBVIOUS
  <2>2. wire_in' = Append(wire_in, Failed)
    BY <1>2, <2>1 DEF SourceFails
  <2> QED BY <1>2, <2>2, QueuesKeep DEF SourceFails, poll_vars
<1> QED BY <1>1, <1>2

-----------------------------------------------------------------------------
(* The invariant holds, and what follows from it                           *)

LEMMA InvNext == ConnInv /\ [Next]_vars => ConnInv'
<1> SUFFICES ASSUME ConnInv, [Next]_vars PROVE ConnInv'
  OBVIOUS
<1>1. CASE UNCHANGED vars
  <2>1. Onward
    BY <1>1 DEF vars, task_vars, Onward, Ahead, ConnInv, Typed
  <2> QED BY <1>1, <2>1, RestKeeps DEF vars, task_vars, poll_vars
<1>2. CASE \E t \in Rpcs : Rpc(t)
  BY <1>2, RpcKeeps
<1>3. CASE \E t \in Snaps : Snap(t)
  BY <1>3, SnapKeeps
<1>4. CASE \E t \in Videos : Video(t) \/ Owner(t)
  BY <1>4, VideoKeeps
<1>5. CASE \E t \in Tasks : Finish(t) \/ Cancel(t)
  BY <1>5, ReleaseKeeps
<1>6. CASE Polling
  <2>1. CASE Poll
    BY <2>1, PollKeeps
  <2>2. CASE \E s \in Slots : Deliver(s)
    BY <2>2, DeliverKeeps
  <2>3. CASE ErrsDone
    BY <2>3, DiesKeeps DEF ErrsDone
  <2> QED BY <1>6, <2>1, <2>2, <2>3 DEF Polling
<1>7. CASE Callback \/ HandleMsg \/ SourceFails \/ SourceEnds \/ WriterFails \/ CamAlive
  BY <1>7, WireKeeps
<1>8. CASE Read
  BY <1>8, ReadKeeps
<1>9. CASE Write
  BY <1>9, WriteKeeps
<1>10. CASE \E k \in Keys : CamSends(k)
  BY <1>10, CamSendsKeeps
<1>11. CASE Shutdown
  BY <1>11, DiesKeeps DEF Shutdown
<1>12. CASE Ended
  BY <1>1, <1>12 DEF Ended
<1> QED BY <1>1, <1>2, <1>3, <1>4, <1>5, <1>6, <1>7, <1>8, <1>9, <1>10, <1>11, <1>12 DEF Next

\* The pieces, put together.
LEMMA SpreadMeansDelivered == ConnInv => Delivered
<1> SUFFICES ASSUME ConnInv, NEW s \in open, poller # "dead", s[2] # "data"
             PROVE  LET sending == IF poller = "send" /\ s \in target THEN <<held>> ELSE <<>>
                    IN  Carries(rx[s] \o sending \o commander \o wire_in, Key(s), got[s], cam_sent[Key(s)])
  BY DEF Delivered
<1> DEFINE sending == IF poller = "send" /\ s \in target THEN <<held>> ELSE <<>>
           k == Key(s)
<1>1. Typed /\ s \in Slots /\ Numbered(s) /\ k \in Keys
  BY SlotFacts DEF ConnInv, Typed, Numbered
<1>2. PICK a \in Nat, b \in Nat : SpreadAt(s, a, b)
  BY <1>1 DEF ConnInv, Comes, Spread
<1>3. PICK c \in Nat : c = IF poller = "send" /\ s \in target THEN a + 1 ELSE a
  OBVIOUS
<1>4. /\ got[s] \in Nat /\ cam_sent[k] \in Nat
      /\ got[s] <= a /\ a <= c /\ c <= b /\ b <= cam_sent[k]
      /\ Carries(rx[s], k, got[s], a) /\ Carries(commander, k, c, b) /\ Carries(wire_in, k, b, cam_sent[k])
  BY <1>1, <1>2, <1>3 DEF SpreadAt, Typed
<1>5. rx[s] \in Seq(Commands) /\ commander \in Seq(Commands) /\ wire_in \in Seq(Commands)
  <2>1. Msgs \union {Failed} \subseteq Commands /\ Received \subseteq Commands
    BY CommandFacts
  <2>2. rx[s] \in Seq(Msgs \union {Failed}) /\ wire_in \in Seq(Received)
    BY <1>1 DEF Typed
  <2> QED BY <1>1, <2>1, <2>2, SeqMonotonic DEF Typed
<1>6. sending \in Seq(Commands) /\ Carries(sending, k, a, c)
  <2>1. CASE poller = "send" /\ s \in target
    <3>1. held \in Msgs /\ held.id = Id(s) /\ held.num = reg[s]
      BY <2>1 DEF ConnInv, Aimed
    <3>2. reg[s] = Task(s)
      BY <1>1, <3>1, CommandFacts, Numbers DEF ConnInv, Owns
    <3>3. held \in Commands /\ Of(held, k)
      BY <1>1, <3>1, <3>2, CommandFacts, OfFacts
    <3>4. held.n = a + 1
      BY <1>2, <2>1 DEF SpreadAt
    <3>5. <<>> \in Seq(Commands) /\ Append(<<>>, held) = <<held>>
      BY EmptySeq
    <3>6. Carries(<<>>, k, a, a)
      BY CarriesNone
    <3>7. Carries(Append(<<>>, held), k, a, a + 1)
      <4>1. PICK q \in Seq(Commands) : q = <<>>
        BY <3>5
      <4>2. a <= a
        OBVIOUS
      <4>3. Carries(Append(q, held), k, a, a + 1)
        BY <3>3, <3>4, <3>6, <4>1, <4>2, CarriesOne
      <4> QED BY <4>1, <4>3
    <3> QED BY <1>3, <2>1, <3>3, <3>5, <3>7
  <2>2. CASE ~(poller = "send" /\ s \in target)
    <3>1. Carries(<<>>, k, a, a)
      BY CarriesNone
    <3> QED BY <1>3, <2>2, <3>1, EmptySeq
  <2> QED BY <2>1, <2>2
<1> HIDE DEF sending, k
<1>7. rx[s] \o sending \in Seq(Commands) /\ Carries(rx[s] \o sending, k, got[s], c)
  BY <1>4, <1>5, <1>6, CarriesJoin, ConcatProperties
<1>8. got[s] <= c
  BY <1>4
<1>9. /\ rx[s] \o sending \o commander \in Seq(Commands)
      /\ Carries(rx[s] \o sending \o commander, k, got[s], b)
  BY <1>4, <1>5, <1>7, <1>8, CarriesJoin, ConcatProperties
<1>10. got[s] <= b
  BY <1>4, <1>8
<1>11. Carries(rx[s] \o sending \o commander \o wire_in, k, got[s], cam_sent[k])
  BY <1>4, <1>5, <1>9, <1>10, CarriesJoin
<1> QED BY <1>11 DEF sending, k

LEMMA Invariance == Spec => []ConnInv
  BY InitHolds, InvNext, PTL DEF Spec

\* A subscription is sent only messages of its own id and number, and one without a
\* number only those of the first it was sent: bcsub.rs:51-72 asserts it, and the
\* poller's routing and its refusal of a second subscriber keep it (bcconn.rs:245-349).
THEOREM IsSentOwn == Spec => []OnlyOwn
<1>1. ConnInv => OnlyOwn
  BY DEF ConnInv
<1> QED BY <1>1, Invariance, PTL

\* While the poller lives, a task that subscribed before it asked is sent all that the
\* camera sends it, in order and once, however many others share the connection and
\* however small its channels are (bcconn.rs:245-349).
THEOREM MissesNothing == Spec => []Delivered
  BY Invariance, SpreadMeansDelivered, PTL
=============================================================================
