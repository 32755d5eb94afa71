---------------------------- MODULE ConnectProofs ----------------------------
(***************************************************************************)
(* The permit of a discovery, for every set of addresses, servers,         *)
(* registers and transaction ids (PermitExact), and that what the two ends *)
(* of a connection write is read as it was written, whatever the cipher    *)
(* asked for (Understood).                                                 *)
(*                                                                         *)
(* PermitExact is not inductive.  A path that is answered goes on to       *)
(* confirm, so PermitInv says which paths wait for an answer under the     *)
(* permit (all but the client's, which takes it afterwards); and a new     *)
(* Discovery starts all paths afresh, so it says that none has started     *)
(* while there is no registration.                                         *)
(***************************************************************************)
EXTENDS Connect, SequenceTheorems, TLAPS

Stands == {"idle", "ask", "answered", "used", "wait", "want", "confirm", "won", "failed"}

TypeInv ==
    /\ at \in [Attempts -> Stands] /\ permit \in Paths \union {"free", "closed"}
    /\ sent \subseteq Paths

\* What holds of one path.
PathInv(p) ==
    /\ permit = p => at[p] = "confirm" \/ (at[p] = "ask" /\ p # "client")
    /\ at[p] = "confirm" => permit = p
    /\ at[p] = "ask" /\ p # "client" => permit = p
    /\ p \in sent \ Remote => at[p] \in {"confirm", "won"}
    /\ reg = NoReg => at[p] = "idle"

PermitInv ==
    /\ TypeInv
    /\ permit = "closed" <=> outcome \in Paths
    /\ \A p \in Paths : PathInv(p)

\* The paths, the servers and the addresses are told apart.
LEMMA Names ==
    /\ Paths \subseteq Attempts /\ Remote \subseteq Paths
    /\ \A a \in Dests \union Servers \union {"register"} : a \in Attempts /\ a \notin Paths
    /\ "free" \notin Attempts /\ "closed" \notin Attempts /\ "none" \notin Paths
    /\ "tcp" \notin Paths
  BY DiscoveryAssumption DEF Attempts, Paths, Remote

LEMMA PermitInvIsExact == PermitInv => PermitExact
  BY DEF PermitInv, TypeInv, PathInv, PermitExact, Remote, Paths

LEMMA PermitInit == Init => PermitInv
  BY Names DEF Init, DInit, PermitInv, TypeInv, PathInv, Stands, NoReg, Paths, Remote

\* Something of no path changes its place.
LEMMA ElsewhereKeeps ==
    ASSUME PermitInv, at' \in [Attempts -> Stands], \A p \in Paths : at'[p] = at[p],
           UNCHANGED <<permit, sent>>, reg' = reg \/ reg' # NoReg,
           outcome' = outcome \/ (outcome \notin Paths /\ outcome' \notin Paths)
    PROVE  PermitInv'
<1>1. ASSUME NEW p \in Paths
      PROVE  PathInv(p)'
  BY <1>1 DEF PermitInv, PathInv
<1> QED BY <1>1 DEF PermitInv, TypeInv

\* An attempt fails, and what ends with it; it is not one that has confirmed.
LEMMA FailKeeps ==
    ASSUME PermitInv, NEW a \in Attempts, Fail(a), at[a] \notin {"confirm", "won"},
           a \in Paths => reg # NoReg,
           UNCHANGED <<sent, reg, outcome>>
    PROVE  PermitInv'
<1>1. EndsWith(a) \subseteq Attempts /\ (a \notin Paths => EndsWith(a) \intersect Paths = {})
      /\ (a \in Paths \ Remote => EndsWith(a) = {a}) /\ (a \in Remote => EndsWith(a) = Remote)
  BY Names DEF EndsWith
<1>2. /\ at' = [b \in Attempts |-> IF b \in EndsWith(a) THEN "failed" ELSE at[b]]
      /\ permit' = IF permit \in EndsWith(a) THEN "free" ELSE permit
  BY DEF Fail
<1>3. TypeInv'
  BY <1>2 DEF PermitInv, TypeInv, Stands
<1>4. permit' = "closed" <=> permit = "closed"
  BY <1>1, <1>2, Names
<1>5. ASSUME NEW p \in Paths
      PROVE  PathInv(p)'
  <2>1. p \in Attempts /\ p # "free" /\ PathInv(p)
    BY Names DEF PermitInv
  <2>2. CASE p \in EndsWith(a)
    <3>1. at'[p] = "failed" /\ permit' # p
      BY <1>2, <2>1, <2>2
    <3>2. p \notin sent \ Remote
      BY <1>1, <2>1, <2>2 DEF PathInv
    <3>3. reg # NoReg
      BY <1>1, <2>2
    <3> QED BY <3>1, <3>2, <3>3 DEF PathInv
  <2>3. CASE p \notin EndsWith(a)
    <3>1. at'[p] = at[p] /\ (permit' = p <=> permit = p)
      BY <1>2, <2>1, <2>3
    <3> QED BY <2>1, <3>1 DEF PathInv
  <2> QED BY <2>2, <2>3
<1> QED BY <1>3, <1>4, <1>5 DEF PermitInv

\* Before find_camera has returned, nobody has closed the semaphore.
LEMMA NotClosed == PermitInv /\ Searching => permit # "closed"
  BY Names DEF PermitInv, Searching

\* One path changes its place, and the permit changes hands for it alone.
LEMMA PathKeeps ==
    ASSUME PermitInv, NEW p \in Paths, NEW s \in Stands, at' = [at EXCEPT ![p] = s],
           reg' = reg, reg # NoReg, sent' \subseteq Paths,
           sent' = sent \/ sent' = sent \union {p},
           \/ permit' = permit
           \/ permit = "free" /\ permit' = p
           \/ permit = p /\ permit' = "closed",
           permit' = "closed" <=> outcome' \in Paths,
           PathInv(p)'
    PROVE  PermitInv'
<1>1. at' \in [Attempts -> Stands]
  BY Names DEF PermitInv, TypeInv
<1>2. ASSUME NEW q \in Paths
      PROVE  PathInv(q)'
  <2>1. CASE q = p
    BY <2>1
  <2>2. CASE q # p
    <3>1. at'[q] = at[q] /\ PathInv(q) /\ (q \in sent' <=> q \in sent) /\ q # "free" /\ q # "closed"
      BY <2>2, Names DEF PermitInv, TypeInv
    <3>2. permit' = q <=> permit = q
      BY <2>2, <3>1 DEF PermitInv, PathInv
    <3> QED BY <3>1, <3>2 DEF PathInv
  <2> QED BY <2>1, <2>2
<1> QED BY <1>1, <1>2 DEF PermitInv, TypeInv

\* A step of one of the four paths.
LEMMA APathKeeps ==
    ASSUME PermitInv, NEW p \in Paths, Path(p)
    PROVE  PermitInv'
<1>1. reg' = reg /\ reg # NoReg /\ Searching /\ permit # "closed" /\ outcome \notin Paths
  BY NotClosed, Names DEF Path, ByServer, ByUdp, Searching
<1>2. PathInv(p) /\ p \in Attempts /\ TypeInv /\ p # "free" /\ p # "closed"
  BY Names DEF PermitInv
<1>3. ASSUME Fail(p), at[p] \in {"idle", "want"}, UNCHANGED <<sent, outcome>>
      PROVE  PermitInv'
  BY <1>1, <1>2, <1>3, FailKeeps
<1>4. ASSUME NEW s \in Stands, at' = [at EXCEPT ![p] = s], UNCHANGED <<sent, outcome>>,
             s \notin {"confirm", "won"}, p \notin sent \ Remote,
             \/ permit' = permit /\ permit # p /\ (s # "ask" \/ p = "client")
             \/ permit = "free" /\ permit' = p /\ s = "ask" /\ p # "client"
      PROVE  PermitInv'
  <2>1. at'[p] = s
    BY <1>2, <1>4 DEF TypeInv
  <2>2. PathInv(p)'
    BY <1>1, <1>4, <2>1 DEF PathInv
  <2>3. permit' = "closed" <=> outcome' \in Paths
    BY <1>1, <1>2, <1>4
  <2> QED BY <1>1, <1>2, <1>4, <2>2, <2>3, PathKeeps DEF TypeInv
<1>5. ASSUME Confirm(p)
      PROVE  PermitInv'
  <2>1. at[p] = "confirm" /\ permit = p
    BY <1>2, <1>5 DEF Confirm, PathInv
  <2>2. CASE p \notin sent /\ sent' = sent \union {p} /\ UNCHANGED <<at, tid, permit, outcome>>
    <3>1. at' = [at EXCEPT ![p] = "confirm"]
      BY <1>2, <2>1, <2>2 DEF TypeInv
    <3>2. PathInv(p)' /\ sent' \subseteq Paths
      BY <1>1, <1>2, <2>1, <2>2 DEF PathInv, TypeInv
    <3>3. permit' = "closed" <=> outcome' \in Paths
      BY <1>1, <2>2
    <3> QED BY <1>1, <2>2, <3>1, <3>2, <3>3, PathKeeps DEF Stands
  <2>3. CASE p \in sent /\ GoTo(p, "won") /\ permit' = "closed" /\ outcome' = p /\ UNCHANGED sent
    <3>1. at' = [at EXCEPT ![p] = "won"] /\ at'[p] = "won"
      BY <1>2, <2>3 DEF GoTo, TypeInv
    <3>2. PathInv(p)' /\ sent' \subseteq Paths
      BY <1>1, <1>2, <2>3, <3>1 DEF PathInv, TypeInv
    <3>3. permit' = "closed" <=> outcome' \in Paths
      BY <2>3
    <3> QED BY <1>1, <2>1, <2>3, <3>1, <3>2, <3>3, PathKeeps DEF Stands
  <2> QED BY <1>5, <2>2, <2>3 DEF Confirm
<1>6. ASSUME Answered(p, "confirm"), p # "client"
      PROVE  PermitInv'
  <2>1. at[p] = "ask" /\ permit = p /\ at' = [at EXCEPT ![p] = "confirm"] /\ at'[p] = "confirm"
        /\ UNCHANGED <<permit, sent, outcome>>
    BY <1>2, <1>6 DEF Answered, GoTo, PathInv, TypeInv
  <2>2. PathInv(p)'
    BY <1>1, <2>1 DEF PathInv
  <2> QED BY <1>1, <1>2, <2>1, <2>2, PathKeeps DEF Stands, TypeInv, PermitInv
<1>7. ASSUME PermitToAsk(p, tid[p]) \/ (\E t \in Tids : PermitToAsk(p, t)), p # "client"
      PROVE  PermitInv'
  <2>1. /\ at[p] = "want" /\ permit = "free" /\ UNCHANGED <<sent, outcome>>
        /\ \/ Fail(p)
           \/ at' = [at EXCEPT ![p] = "ask"] /\ permit' = p
    BY <1>7 DEF PermitToAsk
  <2>2. p \notin sent \ Remote
    BY <1>2, <2>1 DEF PathInv
  <2> QED BY <1>3, <1>4, <1>7, <2>1, <2>2 DEF Stands
<1>8. ASSUME NoDev(p)
      PROVE  PermitInv'
  BY <1>3, <1>8 DEF NoDev
<1>9. ASSUME Begin(p, "wait") \/ Begin(p, "want")
      PROVE  PermitInv'
  <2>1. PICK s \in {"wait", "want"} : at[p] = "idle" /\ at' = [at EXCEPT ![p] = s]
                                      /\ UNCHANGED <<permit, sent, outcome>>
    BY <1>9 DEF Begin
  <2>2. p \notin sent \ Remote /\ permit # p
    BY <1>2, <2>1 DEF PathInv
  <2> QED BY <1>4, <2>1, <2>2 DEF Stands
<1>10. CASE p = "client" /\ client_initiated_dev
  <2>1. p \in Remote
    BY <1>10 DEF Remote
  <2>2. CASE BeginAsk(p)
    <3>1. /\ at[p] = "idle" /\ UNCHANGED <<sent, outcome>>
          /\ \/ Fail(p)
             \/ at' = [at EXCEPT ![p] = "ask"] /\ UNCHANGED permit
      BY <2>2 DEF BeginAsk, Ask
    <3>2. permit # p
      BY <1>2, <3>1 DEF PathInv
    <3> QED BY <1>3, <1>4, <1>10, <2>1, <3>1, <3>2 DEF Stands
  <2>3. CASE Answered(p, "want")
    <3>1. at[p] = "ask" /\ at' = [at EXCEPT ![p] = "want"] /\ UNCHANGED <<permit, sent, outcome>>
      BY <2>3 DEF Answered, GoTo
    <3>2. permit # p
      BY <1>2, <1>10, <3>1 DEF PathInv
    <3> QED BY <1>4, <2>1, <3>1, <3>2 DEF Stands
  <2>4. CASE Permitted(p) /\ GoTo(p, "confirm")
    <3>1. permit = "free" /\ permit' = p /\ UNCHANGED <<sent, outcome>>
      BY <2>4 DEF Permitted
    <3>2. at' = [at EXCEPT ![p] = "confirm"] /\ at'[p] = "confirm"
      BY <1>2, <2>4 DEF GoTo, TypeInv
    <3>3. PathInv(p)'
      BY <1>1, <2>1, <3>1, <3>2 DEF PathInv
    <3>4. permit' = "closed" <=> outcome' \in Paths
      BY <1>1, <1>2, <3>1
    <3> QED BY <1>1, <1>2, <3>1, <3>2, <3>3, <3>4, PathKeeps DEF Stands, TypeInv
  <2> QED BY <1>5, <1>8, <1>10, <2>2, <2>3, <2>4 DEF client_initiated_dev
<1>11. CASE p \in {"device", "map"} /\ device_initiated(p)
  <2>1. CASE Incoming(p)
    <3>1. at[p] = "wait" /\ at' = [at EXCEPT ![p] = "want"] /\ UNCHANGED <<permit, sent, outcome>>
      BY <2>1 DEF Incoming
    <3>2. p \notin sent \ Remote /\ permit # p
      BY <1>2, <3>1 DEF PathInv
    <3> QED BY <1>4, <3>1, <3>2 DEF Stands
  <2> QED BY <1>5, <1>6, <1>7, <1>9, <1>11, <2>1 DEF device_initiated
<1>12. CASE p = "relay" /\ client_initiated_relay
  BY <1>5, <1>6, <1>7, <1>8, <1>9, <1>12 DEF client_initiated_relay
<1> QED BY <1>10, <1>11, <1>12 DEF Path

\* The steps of the others: the addresses, the servers and the register.
LEMMA SearchKeeps ==
    ASSUME PermitInv, DNext
    PROVE  PermitInv'
<1>1. TypeInv /\ Searching /\ permit # "closed" /\ outcome \notin Paths
  <2>1. Searching
    BY DEF DNext, TryTcp, NoRegistration, GiveUp, Timeout, Direct, Lookup, TakeLookup, Register,
           Path, ByServer, ByUdp
  <2> QED BY <2>1, NotClosed, Names DEF PermitInv, Searching
<1>2. ASSUME NEW a \in Attempts \ Paths, Fail(a), at[a] \notin {"confirm", "won"},
             UNCHANGED <<sent, reg, outcome>>
      PROVE  PermitInv'
  BY <1>2, FailKeeps
<1>3. ASSUME NEW a \in Attempts \ Paths, NEW s \in Stands, at' = [at EXCEPT ![a] = s],
             UNCHANGED <<permit, sent>>, reg' = reg, outcome' \notin Paths
      PROVE  PermitInv'
  <2>1. at' \in [Attempts -> Stands] /\ \A p \in Paths : at'[p] = at[p]
    BY <1>1, <1>3, Names DEF TypeInv
  <2> QED BY <1>1, <1>3, <2>1, ElsewhereKeeps
<1>4. CASE TryTcp \/ GiveUp
  <2>1. /\ UNCHANGED <<at, permit, sent, reg>>
        /\ outcome' \in {"tcp", outcome, "DiscoveryTimeout", "CannotInitCamera"}
    BY <1>4 DEF TryTcp, GiveUp
  <2>2. outcome' \notin Paths
    BY <1>1, <2>1 DEF Paths
  <2> QED BY <1>1, <2>1, <2>2, ElsewhereKeeps DEF TypeInv
<1>5. CASE NoRegistration
  <2>1. /\ reg = NoReg /\ UNCHANGED <<reg, permit, sent, outcome>>
        /\ at' = [a \in Attempts |-> IF a \in Dests THEN at[a] ELSE "idle"]
    BY <1>5 DEF NoRegistration
  <2>2. \A p \in Paths : at[p] = "idle"
    BY <2>1 DEF PermitInv, PathInv
  <2>3. at' \in [Attempts -> Stands] /\ \A p \in Paths : at'[p] = at[p]
    BY <1>1, <2>1, <2>2, Names DEF TypeInv, Stands
  <2> QED BY <2>1, <2>3, ElsewhereKeeps
<1>6. ASSUME NEW a \in Attempts, Timeout(a)
      PROVE  PermitInv'
  <2>1. Fail(a) /\ at[a] \in {"ask", "wait", "answered"} /\ UNCHANGED <<sent, reg, outcome>>
    BY <1>6 DEF Timeout
  <2>2. a \in Paths => reg # NoReg
    BY <2>1 DEF PermitInv, PathInv
  <2> QED BY <2>1, <2>2, FailKeeps
<1>7. ASSUME NEW d \in Dests, Direct(d)
      PROVE  PermitInv'
  <2>1. d \in Attempts \ Paths /\ UNCHANGED <<sent, reg>>
    BY <1>7, Names DEF Direct
  <2>2. \/ at[d] = "idle" /\ Fail(d) /\ UNCHANGED outcome
        \/ at' = [at EXCEPT ![d] = "ask"] /\ UNCHANGED <<permit, outcome>>
        \/ at' = [at EXCEPT ![d] = "won"] /\ outcome' = d /\ UNCHANGED permit
    BY <1>7 DEF Direct, Ask, GoTo
  <2>3. CASE at[d] = "idle" /\ Fail(d) /\ UNCHANGED outcome
    BY <1>2, <2>1, <2>3
  <2>4. CASE at' = [at EXCEPT ![d] = "ask"] /\ UNCHANGED <<permit, outcome>>
    BY <1>1, <1>3, <2>1, <2>4 DEF Stands
  <2>5. CASE at' = [at EXCEPT ![d] = "won"] /\ outcome' = d /\ UNCHANGED permit
    <3>1. d \notin Paths
      BY <2>1
    <3> QED BY <1>3, <2>1, <2>5, <3>1 DEF Stands
  <2> QED BY <2>2, <2>3, <2>4, <2>5
<1>8. ASSUME NEW s \in Servers, Lookup(s)
      PROVE  PermitInv'
  <2>1. s \in Attempts \ Paths /\ UNCHANGED <<sent, reg, outcome>>
    BY <1>8, Names DEF Lookup
  <2>2. \/ at[s] = "idle" /\ Fail(s)
        \/ at' = [at EXCEPT ![s] = "ask"] /\ UNCHANGED permit
        \/ at' = [at EXCEPT ![s] = "answered"] /\ UNCHANGED permit
    BY <1>8 DEF Lookup, Ask
  <2>3. CASE at[s] = "idle" /\ Fail(s)
    BY <1>2, <2>1, <2>3
  <2>4. CASE at' = [at EXCEPT ![s] = "ask"] /\ UNCHANGED permit
    BY <1>1, <1>3, <2>1, <2>4 DEF Stands
  <2>5. CASE at' = [at EXCEPT ![s] = "answered"] /\ UNCHANGED permit
    BY <1>1, <1>3, <2>1, <2>5 DEF Stands
  <2> QED BY <2>2, <2>3, <2>4, <2>5
<1>9. ASSUME NEW s \in Servers, TakeLookup(s)
      PROVE  PermitInv'
  <2>1. s \in Attempts \ Paths /\ "register" \in Attempts \ Paths
    BY Names
  <2>2. /\ UNCHANGED <<permit, sent, reg, outcome>>
        /\ \/ at' = [at EXCEPT ![s] = "used"]
           \/ at' = [at EXCEPT ![s] = "used", !["register"] = "ask"]
    BY <1>9 DEF TakeLookup, GoTo
  <2>3. at' \in [Attempts -> Stands] /\ \A p \in Paths : at'[p] = at[p]
    BY <1>1, <2>1, <2>2, Names DEF TypeInv, Stands
  <2> QED BY <2>2, <2>3, ElsewhereKeeps
<1>10. CASE Register
  <2>1. UNCHANGED <<sent, outcome>> /\ at["register"] = "ask" /\ "register" \in Attempts \ Paths
    BY <1>10, Names DEF Register
  <2>2. CASE Fail("register") /\ UNCHANGED reg
    BY <1>2, <2>1, <2>2
  <2>3. CASE /\ reg' # NoReg /\ UNCHANGED permit
             /\ at' = [a \in Attempts |-> IF a \in Servers \union {"register"} THEN "used" ELSE at[a]]
    <3>1. at' \in [Attempts -> Stands] /\ \A p \in Paths : at'[p] = at[p]
      BY <1>1, <2>3, Names DEF TypeInv, Stands
    <3> QED BY <2>1, <2>3, <3>1, ElsewhereKeeps
  <2>4. \/ /\ reg' \in (SUBSET Addresses) \ {NoReg} /\ UNCHANGED permit
           /\ at' = [a \in Attempts |-> IF a \in Servers \union {"register"} THEN "used" ELSE at[a]]
        \/ Fail("register") /\ UNCHANGED reg
    BY <1>10, Zenon DEF Register
  <2>5. reg' \in (SUBSET Addresses) \ {NoReg} => reg' # NoReg
    OBVIOUS
  <2> QED BY <2>2, <2>3, <2>4, <2>5, Zenon
<1> QED BY <1>4, <1>5, <1>6, <1>7, <1>8, <1>9, <1>10, APathKeeps DEF DNext

\* A path that waits for an answer under the permit has it; nobody confirms without; it
\* is closed by the path that is used, and given back by one that is dropped; what was
\* told to the register is used, unless remote() dropped it (discovery.rs, find_camera).
THEOREM PermitIsExact == Spec => []PermitExact
<1>1. Init => PermitInv
  BY PermitInit
<1>2. PermitInv /\ [Next]_vars => PermitInv'
  <2> SUFFICES ASSUME PermitInv, [Next]_vars PROVE PermitInv'
    OBVIOUS
  <2>1. CASE DNext
    BY <2>1, SearchKeeps
  <2>2. CASE UNCHANGED dvars
    BY <2>2 DEF dvars, PermitInv, TypeInv, PathInv
  <2>3. CASE Connect
    <3>1. /\ at' = [a \in Attempts |-> "idle"] /\ sent' = {} /\ reg' = NoReg
          /\ permit' = "free" /\ outcome' = "found"
      BY <2>3 DEF Connect, DropDiscoveries
    <3>2. TypeInv' /\ \A p \in Paths : p \in Attempts /\ p # "free"
      BY <3>1, Names DEF TypeInv, Stands
    <3>3. \A p \in Paths : PathInv(p)'
      BY <3>1, <3>2 DEF PathInv
    <3>4. "found" \notin Paths
      BY DEF Paths
    <3> QED BY <3>1, <3>2, <3>3, <3>4 DEF PermitInv
  <2> QED BY <2>1, <2>2, <2>3 DEF Next, Use, vars
<1>3. PermitInv => PermitExact
  BY PermitInvIsExact
<1> QED BY <1>1, <1>2, <1>3, PTL DEF Spec
-----------------------------------------------------------------------------
(***************************************************************************)
(* Understood.  Until it is logged in a connection has one message under   *)
(* way, written with the cipher its reader will use: that is what lets the *)
(* two ends change theirs at different messages.  From then on the cipher  *)
(* stays, and the numbers of text and of streams are apart: what no longer *)
(* says that it is binary follows, on the way down or in bin, the message  *)
(* that said so.                                                           *)
(***************************************************************************)

Ups == [id : {"command", "stream", "logout", "login", "ability"}, n : Nat, cipher : Ciphers,
        flag : {FALSE}, binary : {FALSE}]
Downs == [id : {"reply"}, n : Nat, cipher : Ciphers, flag : {FALSE}, binary : {FALSE}]
         \union [id : {"data"}, n : Nat, cipher : {"raw"}, flag : BOOLEAN, binary : {TRUE}]

Held == {r.n : r \in requests}

\* Up: what the camera is to read.
Written(m) == m.cipher = IF m.id = "login" THEN Capped(camCipher) ELSE camCipher
UpRight ==
    \/ \E n \in Nat : up = <<Msg("upgrade", n, "none")>>
    \/ up \in Seq(Ups) /\ \A i \in DOMAIN up : Written(up[i])

Pending(id, n, c) == up = <<Msg(id, n, c)>> /\ down = <<>>
Replied(ids, n, c) == up = <<>> /\ \E id \in ids : down = <<Msg(id, n, c)>>

InLegacy ==
    /\ cipher = "none"
    /\ \E n \in Nat :
         \/ Pending("upgrade", n, "none")
         \/ Replied({"odd"}, n, "none")
         \/ up = <<>> /\ down = <<Setting(n, camCipher)>>
InModern ==
    /\ cipher = camCipher
    /\ \E n \in Nat :
         Pending("login", n, Capped(cipher)) \/ Replied({"info", "refused", "odd"}, n, Capped(cipher))
InAbilities ==
    /\ cipher = camCipher
    /\ \E n \in Nat : Pending("ability", n, cipher) \/ Replied({"abilities"}, n, cipher)

\* Logged in.  A number up to i of q is said to be binary.
SaidBy(q, i, n) == n \in bin \/ \E j \in DOMAIN q : j <= i /\ q[j].flag /\ q[j].n = n

UpTalk ==
    \A i \in DOMAIN up :
      /\ up[i].n < num /\ up[i].id \in {"command", "stream", "logout"} /\ up[i].n \notin Held
      /\ \A j \in DOMAIN down : down[j].n # up[i].n
      /\ \A j \in DOMAIN up : up[j].n = up[i].n => j = i
DownTalk ==
    \A i \in DOMAIN down :
      /\ down[i].n < num
      /\ down[i].id = "reply" => down[i].cipher = cipher /\ down[i].n \notin Held
      /\ down[i].id = "data" => down[i].n \in Held /\ SaidBy(down, i, down[i].n)
Told == \A r \in requests : r.n < num /\ (~r.first => SaidBy(down, Len(down), r.n))

InIn ==
    /\ cipher = camCipher /\ up \in Seq(Ups) /\ down \in Seq(Downs)
    /\ bin \subseteq Held /\ UpTalk /\ DownTalk /\ Told

LoginInv ==
    /\ ~misread /\ num \in Nat /\ camCipher \in Ciphers /\ cipher \in Ciphers /\ UpRight
    /\ requests \subseteq [n : Nat, first : BOOLEAN]
    /\ step \in {"off", "legacy", "modern", "abilities", "in", "out", "failed"}
    /\ step = "off" => up = <<>> /\ down = <<>> /\ cipher = "none" /\ camCipher = "none"
    /\ step \in {"off", "legacy", "modern", "abilities"} => requests = {} /\ bin = {}
    /\ step = "legacy" => InLegacy
    /\ step = "modern" => InModern
    /\ step = "abilities" => InAbilities
    /\ step = "in" => InIn

LEMMA LoginInit == LInit => LoginInv
  BY DEF LInit, LoginInv, UpRight, Ciphers, Ups

\* What Append and Tail do to the places of a sequence.
LEMMA Appended ==
    ASSUME NEW S, NEW q \in Seq(S), NEW m \in S
    PROVE  /\ Append(q, m) \in Seq(S) /\ Len(Append(q, m)) = Len(q) + 1
           /\ DOMAIN Append(q, m) = 1..(Len(q) + 1) /\ DOMAIN q = 1..Len(q) /\ Len(q) \in Nat
           /\ \A i \in DOMAIN q : Append(q, m)[i] = q[i]
           /\ Append(q, m)[Len(q) + 1] = m
  OBVIOUS

LEMMA Members ==
    ASSUME NEW S, NEW q \in Seq(S)
    PROVE  \A i \in DOMAIN q : q[i] \in S
  OBVIOUS

LEMMA Tailed ==
    ASSUME NEW S, NEW q \in Seq(S), q # <<>>
    PROVE  /\ Tail(q) \in Seq(S) /\ Len(Tail(q)) = Len(q) - 1 /\ Len(q) \in Nat \ {0}
           /\ DOMAIN Tail(q) = 1..(Len(q) - 1) /\ DOMAIN q = 1..Len(q)
           /\ \A i \in DOMAIN Tail(q) : Tail(q)[i] = q[i + 1]
           /\ Head(q) = q[1] /\ Head(q) \in S
  OBVIOUS

\* A message is sent by us: the numbers so far are below it.
LEMMA SendKeeps ==
    ASSUME LoginInv, step = "in", NEW id \in {"command", "stream", "logout"},
           up' = Append(up, Encode(id, num, cipher)), num' = num + 1,
           UNCHANGED <<cipher, bin, camCipher, down, requests, misread>>,
           step' \in {"in", "out"}
    PROVE  LoginInv'
<1>1. InIn /\ num \in Nat
  BY DEF LoginInv
<1>0. (\A i \in DOMAIN up : up[i] \in Ups) /\ (\A i \in DOMAIN down : down[i] \in Downs)
  BY <1>1, Members DEF InIn
<1> DEFINE m == Encode(id, num, cipher)
<1>2. m \in Ups /\ m.n = num /\ m.id = id /\ m.cipher = cipher
  BY <1>1 DEF Encode, CipherFor, LoginIds, Msg, Ups, LoginInv
<1>3. /\ up' \in Seq(Ups) /\ DOMAIN up' = 1..(Len(up) + 1) /\ DOMAIN up = 1..Len(up) /\ Len(up) \in Nat
      /\ \A i \in DOMAIN up : up'[i] = up[i]
      /\ up'[Len(up) + 1] = m
  BY <1>1, <1>2, Appended DEF InIn
<1> HIDE DEF m
<1>4. UpTalk'
  <2> SUFFICES ASSUME NEW i \in DOMAIN up'
               PROVE  /\ up'[i].n < num' /\ up'[i].id \in {"command", "stream", "logout"}
                      /\ up'[i].n \notin Held
                      /\ \A j \in DOMAIN down : down[j].n # up'[i].n
                      /\ \A j \in DOMAIN up' : up'[j].n = up'[i].n => j = i
    BY DEF UpTalk, Held
  <2>1. \A j \in DOMAIN up : up[j].n < num
    BY <1>1 DEF InIn, UpTalk
  <2>2. CASE i \in DOMAIN up
    <3>1. up'[i] = up[i] /\ up[i].n \in Nat
      BY <1>0, <1>3, <2>2 DEF Ups
    <3> QED BY <1>1, <1>2, <1>3, <2>1, <2>2, <3>1 DEF InIn, UpTalk
  <2>3. CASE i = Len(up) + 1
    <3>1. num \notin Held /\ \A j \in DOMAIN down : down[j].n # num
      BY <1>1 DEF InIn, DownTalk, Told, Held
    <3> QED BY <1>1, <1>2, <1>3, <2>1, <2>3, <3>1
  <2> QED BY <1>3, <2>2, <2>3
<1>5. DownTalk' /\ Told'
  <2>1. \A j \in DOMAIN down : down[j].n \in Nat
    BY <1>0 DEF Downs
  <2>2. \A r \in requests : r.n \in Nat
    BY DEF LoginInv
  <2> QED BY <1>1, <2>1, <2>2 DEF InIn, DownTalk, Told, Held, SaidBy
<1>6. UpRight'
  <2>1. \A i \in DOMAIN up : Written(up[i])
    <3>1. up \in Seq(Ups) /\ \A i \in DOMAIN up : up[i].id # "upgrade"
      BY <1>0, <1>1 DEF InIn, Ups
    <3>2. ASSUME NEW n \in Nat, up = <<Msg("upgrade", n, "none")>>
          PROVE  FALSE
      BY <3>1, <3>2 DEF Msg
    <3> QED BY <3>2 DEF LoginInv, UpRight
  <2>2. ASSUME NEW i \in DOMAIN up'
        PROVE  Written(up[i])' 
    <3>1. CASE i \in DOMAIN up
      BY <1>3, <2>1, <3>1 DEF Written
    <3>2. CASE i = Len(up) + 1
      BY <1>1, <1>2, <1>3, <3>2 DEF Written, InIn
    <3> QED BY <1>3, <3>1, <3>2
  <2> QED BY <1>3, <2>2 DEF UpRight, Written
<1> QED BY <1>1, <1>3, <1>4, <1>5, <1>6 DEF LoginInv, InIn, Held

\* What the camera does with each message.
LEMMA CamReads ==
    ASSUME CamRead, NEW m, m = Head(up)
    PROVE  /\ m.id # "upgrade" => camCipher' = camCipher
           /\ m.id # "stream" => requests' = requests
           /\ m.id = "upgrade" =>
                \/ \E c \in Offers : camCipher' = c /\ down' = Append(down, Setting(m.n, c))
                \/ camCipher' = camCipher /\ down' = Append(down, Msg("odd", m.n, "none"))
           /\ m.id = "login" =>
                \E id \in {"info", "refused", "odd"} :
                    down' = Append(down, Msg(id, m.n, Capped(camCipher)))
           /\ m.id = "ability" => down' = Append(down, Msg("abilities", m.n, camCipher))
           /\ m.id = "command" => down' = Append(down, Msg("reply", m.n, camCipher))
           /\ m.id = "stream" =>
                down' = down /\ requests' = requests \union {[n |-> m.n, first |-> TRUE]}
           /\ m.id = "logout" => down' = down
  BY DEF CamRead

\* What is under way to the camera is read as it was written.
LEMMA ReadRight ==
    ASSUME LoginInv, CamRead
    PROVE  /\ ~misread' /\ UpRight' /\ camCipher' \in Ciphers
           /\ requests' \subseteq [n : Nat, first : BOOLEAN]
           /\ Head(up).id # "upgrade" => camCipher' = camCipher /\ Head(up) \in Ups
<1> DEFINE m == Head(up)
<1>1. UpRight /\ ~misread /\ up # <<>> /\ up' = Tail(up) /\ camCipher \in Ciphers
  BY DEF LoginInv, CamRead
<1>2. CASE \E n \in Nat : up = <<Msg("upgrade", n, "none")>>
  <2>1. PICK n \in Nat : up = <<Msg("upgrade", n, "none")>>
    BY <1>2
  <2>2. m = Msg("upgrade", n, "none") /\ Tail(up) = <<>> /\ m.id = "upgrade"
    BY <2>1 DEF Msg
  <2>3. ~misread' /\ requests' = requests
    BY <1>1, <2>2 DEF CamRead
  <2>4. camCipher' \in Ciphers
    <3>1. Offers \subseteq Ciphers
      <4>1. MaxEnc \in Ciphers /\ "none" \in Ciphers
        <5>1. MaxEnc \in {"none", "bc", "aes"}
          BY LoginAssumption DEF LoginAssumption
        <5> QED BY ONLY <5>1 DEF Ciphers
      <4>2. Offers \in {Ciphers, {"none", MaxEnc}}
        BY DEF Offers
      <4> QED BY <4>1, <4>2
    <3> QED BY <1>1, <2>2, <3>1, CamReads
  <2>5. up' \in Seq(Ups) /\ DOMAIN up' = {}
    <3>1. up' = <<>>
      BY <1>1, <2>2
    <3>2. <<>> \in Seq(Ups) /\ DOMAIN <<>> = {}
      OBVIOUS
    <3> QED BY <3>1, <3>2
  <2>6. UpRight'
    BY <2>5 DEF UpRight
  <2> QED BY <2>2, <2>3, <2>4, <2>6 DEF LoginInv
<1>3. CASE up \in Seq(Ups) /\ \A i \in DOMAIN up : Written(up[i])
  <2>1. /\ Tail(up) \in Seq(Ups) /\ \A i \in DOMAIN Tail(up) : Tail(up)[i] = up[i + 1] /\ i + 1 \in DOMAIN up
        /\ m \in Ups /\ Written(m)
    BY <1>1, <1>3, Tailed
  <2>2. m.id # "upgrade" /\ m.id \in {"command", "stream", "logout", "login", "ability"} /\ m.n \in Nat
    BY <2>1 DEF Ups
  <2>3. ~misread'
    BY <1>1, <2>1, <2>2 DEF CamRead, Written
  <2>4. camCipher' = camCipher
    BY <2>2, CamReads
  <2>5. requests' \subseteq [n : Nat, first : BOOLEAN]
    <3>1. [n |-> m.n, first |-> TRUE] \in [n : Nat, first : BOOLEAN]
      BY <2>2
    <3>2. requests' \in {requests, requests \union {[n |-> m.n, first |-> TRUE]}}
      BY CamReads
    <3> QED BY <3>1, <3>2 DEF LoginInv
  <2>6. UpRight'
    BY <1>1, <1>3, <2>1, <2>4 DEF UpRight, Written
  <2> QED BY <1>1, <2>1, <2>3, <2>4, <2>5, <2>6
<1> QED BY <1>1, <1>2, <1>3 DEF UpRight

\* The camera answers the one message of a login.
LEMMA AnswerKeeps ==
    ASSUME LoginInv, CamRead, step # "in"
    PROVE  LoginInv'
<1>1. /\ ~misread' /\ UpRight' /\ camCipher' \in Ciphers /\ requests' \subseteq [n : Nat, first : BOOLEAN]
      /\ UNCHANGED <<step, num, cipher, bin, loggedIn, able>> /\ up # <<>>
  BY ReadRight DEF CamRead
<1>2. ASSUME NEW id, NEW n, NEW c, Pending(id, n, c)
      PROVE  /\ Head(up) = Msg(id, n, c) /\ up' = <<>>
             /\ Head(up).id = id /\ Head(up).n = n
             /\ \A m : Append(down, m) = <<m>>
  BY <1>2 DEF CamRead, Pending, Msg
<1>3. CASE step = "legacy"
  <2>1. cipher = "none" /\ requests = {} /\ bin = {} /\ \E n \in Nat : Pending("upgrade", n, "none")
    BY <1>1, <1>3 DEF LoginInv, InLegacy, Replied
  <2>2. PICK n \in Nat : Pending("upgrade", n, "none")
    BY <2>1
  <2>6. /\ Head(up).id = "upgrade" /\ Head(up).n = n /\ up' = <<>> /\ \A m : Append(down, m) = <<m>>
    BY <1>2, <2>2
  <2>3. \/ \E c \in Offers : camCipher' = c /\ down' = <<Setting(n, c)>>
        \/ down' = <<Msg("odd", n, "none")>>
    BY <2>6, CamReads
  <2>4. InLegacy'
    BY <1>1, <2>6, <2>1, <2>3 DEF InLegacy, Replied, Pending
  <2>5. requests' = {}
    BY <2>6, <2>1, CamReads
  <2> QED BY <1>1, <1>3, <2>1, <2>4, <2>5 DEF LoginInv
<1>4. CASE step = "modern"
  <2>1. /\ cipher = camCipher /\ requests = {} /\ bin = {}
        /\ \E n \in Nat : Pending("login", n, Capped(cipher))
    BY <1>1, <1>4 DEF LoginInv, InModern, Replied
  <2>2. PICK n \in Nat : Pending("login", n, Capped(cipher))
    BY <2>1
  <2>6. /\ Head(up).id = "login" /\ Head(up).n = n /\ up' = <<>> /\ \A m : Append(down, m) = <<m>>
    BY <1>2, <2>2
  <2>3. /\ \E id \in {"info", "refused", "odd"} : down' = <<Msg(id, n, Capped(camCipher))>>
        /\ camCipher' = camCipher
    BY <2>6, CamReads
  <2>4. InModern'
    BY <1>1, <2>6, <2>1, <2>3 DEF InModern, Replied, Capped
  <2>5. requests' = {}
    BY <2>6, <2>1, CamReads
  <2> QED BY <1>1, <1>4, <2>1, <2>4, <2>5 DEF LoginInv
<1>5. CASE step = "abilities"
  <2>1. cipher = camCipher /\ requests = {} /\ bin = {} /\ \E n \in Nat : Pending("ability", n, cipher)
    BY <1>1, <1>5 DEF LoginInv, InAbilities, Replied
  <2>2. PICK n \in Nat : Pending("ability", n, cipher)
    BY <2>1
  <2>6. /\ Head(up).id = "ability" /\ Head(up).n = n /\ up' = <<>> /\ \A m : Append(down, m) = <<m>>
    BY <1>2, <2>2
  <2>3. down' = <<Msg("abilities", n, camCipher)>> /\ camCipher' = camCipher
    BY <2>6, CamReads
  <2>4. InAbilities'
    BY <1>1, <2>6, <2>1, <2>3 DEF InAbilities, Replied
  <2>5. requests' = {}
    BY <2>6, <2>1, CamReads
  <2> QED BY <1>1, <1>5, <2>1, <2>4, <2>5 DEF LoginInv
<1>6. CASE step \in {"out", "failed"}
  BY <1>1, <1>6 DEF LoginInv
<1>7. step # "off"
  BY <1>1 DEF LoginInv
<1> QED BY <1>3, <1>4, <1>5, <1>6, <1>7 DEF LoginInv

\* The camera reads what it is asked once we are in.
LEMMA ServeKeeps ==
    ASSUME LoginInv, CamRead, step = "in"
    PROVE  LoginInv'
<1> DEFINE m == Head(up)
<1>1. /\ InIn /\ up # <<>> /\ up' = Tail(up)
      /\ UNCHANGED <<step, num, cipher, bin, loggedIn, able>> /\ num \in Nat
  BY DEF LoginInv, CamRead
<1>0. (\A i \in DOMAIN up : up[i] \in Ups) /\ (\A i \in DOMAIN down : down[i] \in Downs)
  BY <1>1, Members DEF InIn
<1>2. /\ Tail(up) \in Seq(Ups) /\ m = up[1] /\ m \in Ups /\ 1 \in DOMAIN up
      /\ \A i \in DOMAIN Tail(up) : Tail(up)[i] = up[i + 1] /\ i + 1 \in DOMAIN up /\ i + 1 # 1
  BY <1>1, Tailed DEF InIn
<1>3. /\ m.n \in Nat /\ m.n < num /\ m.id \in {"command", "stream", "logout"} /\ m.n \notin Held
      /\ \A j \in DOMAIN down : down[j].n # m.n
      /\ \A i \in DOMAIN Tail(up) : Tail(up)[i].n # m.n
  BY <1>1, <1>2 DEF InIn, UpTalk, Ups
<1>4. /\ ~misread' /\ UpRight' /\ camCipher' = camCipher /\ camCipher \in Ciphers
      /\ requests' \subseteq [n : Nat, first : BOOLEAN]
  BY <1>3, ReadRight DEF LoginInv
<1>5. CASE m.id = "command"
  <2> DEFINE a == Msg("reply", m.n, camCipher)
  <2>1. down' = Append(down, a) /\ requests' = requests
    BY <1>5, CamReads
  <2>2. a \in Downs /\ a.n = m.n /\ a.id = "reply" /\ a.cipher = cipher /\ ~a.flag
    BY <1>1, <1>3, <1>4 DEF Msg, Downs, InIn
  <2> HIDE DEF a
  <2>3. /\ down' \in Seq(Downs) /\ Len(down') = Len(down) + 1 /\ DOMAIN down' = 1..(Len(down) + 1)
        /\ DOMAIN down = 1..Len(down) /\ Len(down) \in Nat
        /\ \A i \in DOMAIN down : down'[i] = down[i]
        /\ down'[Len(down) + 1] = a
    BY <1>1, <2>1, <2>2, Appended DEF InIn
  <2>4. UpTalk'
    <3>1. ASSUME NEW i \in DOMAIN up', NEW j \in DOMAIN down'
          PROVE  down'[j].n # up'[i].n
      <4>1. i \in DOMAIN Tail(up) /\ up'[i].n # m.n /\ up'[i] = up[i + 1] /\ i + 1 \in DOMAIN up
        BY <1>1, <1>2, <1>3
      <4>2. CASE j \in DOMAIN down
        BY <1>1, <2>3, <4>1, <4>2 DEF InIn, UpTalk
      <4>3. CASE j = Len(down) + 1
        BY <2>2, <2>3, <4>1, <4>3
      <4> QED BY <2>3, <4>2, <4>3
    <3> QED BY <1>1, <1>2, <2>1, <3>1 DEF InIn, UpTalk, Held
  <2>5. \A n, i : SaidBy(down, i, n) => SaidBy(down', i, n)
    BY <2>3 DEF SaidBy
  <2>6. DownTalk'
    BY <1>1, <1>3, <2>1, <2>2, <2>3, <2>5 DEF InIn, DownTalk, Held, SaidBy
  <2>7. Told'
    BY <1>1, <2>1, <2>3 DEF InIn, Told, SaidBy
  <2> QED BY <1>1, <1>2, <1>4, <2>1, <2>3, <2>4, <2>6, <2>7 DEF LoginInv, InIn, Held
<1>6. CASE m.id = "stream"
  <2> DEFINE r == [n |-> m.n, first |-> TRUE]
  <2>1. down' = down /\ requests' = requests \union {r}
    BY <1>6, CamReads
  <2>2. Held' = Held \union {m.n}
    <3>1. r.n = m.n
      OBVIOUS
    <3> HIDE DEF r
    <3> QED BY <2>1, <3>1 DEF Held
  <2>3. UpTalk' /\ DownTalk' /\ Told'
    BY <1>1, <1>2, <1>3, <2>1, <2>2 DEF InIn, UpTalk, DownTalk, Told, SaidBy
  <2> QED BY <1>1, <1>2, <1>4, <2>1, <2>2, <2>3 DEF LoginInv, InIn
<1>7. CASE m.id = "logout"
  <2>1. down' = down /\ requests' = requests
    BY <1>7, CamReads
  <2>2. UpTalk' /\ DownTalk' /\ Told'
    BY <1>1, <1>2, <2>1 DEF InIn, UpTalk, DownTalk, Told, SaidBy, Held
  <2> QED BY <1>1, <1>2, <1>4, <2>1, <2>2 DEF LoginInv, InIn, Held
<1> QED BY <1>3, <1>5, <1>6, <1>7

\* The camera sends binary data.
LEMMA DataKeeps ==
    ASSUME LoginInv, CamData
    PROVE  LoginInv'
<1>1. PICK r \in requests :
        /\ down' = Append(down, Frame(r.n, r.first))
        /\ requests' = (requests \ {r}) \union {[r EXCEPT !.first = FALSE]}
  BY DEF CamData
<1>2. UNCHANGED <<step, num, cipher, bin, camCipher, up, loggedIn, able, misread>>
  BY DEF CamData
<1> DEFINE t == [r EXCEPT !.first = FALSE]
<1>3. r.n \in Nat /\ r.first \in BOOLEAN /\ t \in [n : Nat, first : BOOLEAN] /\ t.n = r.n /\ t.first = FALSE
  BY DEF LoginInv
<1>4. requests' \subseteq [n : Nat, first : BOOLEAN] /\ t \in requests'
  BY <1>1, <1>3 DEF LoginInv
<1> HIDE DEF t
<1>5. Held' = Held /\ r.n \in Held
  BY <1>1, <1>3 DEF Held, t
<1>6. UpRight'
  BY <1>2 DEF LoginInv, UpRight, Written
<1>7. CASE step = "in"
  <2>1. InIn
    BY <1>7 DEF LoginInv
  <2> DEFINE m == Frame(r.n, r.first)
  <2>2. m \in Downs /\ m.n = r.n /\ m.id = "data" /\ m.flag = r.first
    BY <1>3 DEF Frame, Downs
  <2>3. down' = Append(down, m)
    BY <1>1
  <2> HIDE DEF m
  <2>4. /\ down' \in Seq(Downs) /\ Len(down') = Len(down) + 1 /\ DOMAIN down' = 1..(Len(down) + 1)
        /\ DOMAIN down = 1..Len(down) /\ Len(down) \in Nat
        /\ \A i \in DOMAIN down : down'[i] = down[i]
        /\ down'[Len(down) + 1] = m
    BY <2>1, <2>2, <2>3, Appended DEF InIn
  <2>5. \A n : SaidBy(down, Len(down), n) => SaidBy(down', Len(down) + 1, n)
    BY <1>2, <2>4 DEF SaidBy
  <2>6. SaidBy(down', Len(down) + 1, r.n)
    <3>1. CASE r.first
      <4>1. Len(down) + 1 \in DOMAIN down' /\ Len(down) + 1 <= Len(down) + 1
        BY <2>4
      <4>2. down'[Len(down) + 1].flag /\ down'[Len(down) + 1].n = r.n
        BY <2>2, <2>4, <3>1
      <4> QED BY <4>1, <4>2 DEF SaidBy
    <3>2. CASE ~r.first
      BY <2>1, <2>5, <3>2 DEF InIn, Told
    <3> QED BY <3>1, <3>2
  <2>7. r.n < num
    BY <2>1 DEF InIn, Told
  <2>8. UpTalk'
    <3>1. \A i \in DOMAIN up : up[i].n # r.n
      BY <1>5, <2>1 DEF InIn, UpTalk
    <3>2. \A i \in DOMAIN up : \A j \in DOMAIN down' : down'[j].n # up[i].n
      <4> SUFFICES ASSUME NEW i \in DOMAIN up, NEW j \in DOMAIN down' PROVE down'[j].n # up[i].n
        OBVIOUS
      <4>1. CASE j \in DOMAIN down
        BY <2>1, <2>4, <4>1 DEF InIn, UpTalk
      <4>2. CASE j = Len(down) + 1
        BY <2>2, <2>4, <3>1, <4>2
      <4> QED BY <2>4, <4>1, <4>2
    <3> QED BY <1>2, <1>5, <2>1, <3>2 DEF InIn, UpTalk
  <2>9. DownTalk'
    <3> SUFFICES ASSUME NEW i \in DOMAIN down'
                 PROVE  /\ down'[i].n < num
                        /\ down'[i].id = "reply" => down'[i].cipher = cipher /\ down'[i].n \notin Held
                        /\ down'[i].id = "data" => down'[i].n \in Held /\ SaidBy(down, i, down[i].n)'
      BY <1>2, <1>5 DEF DownTalk, SaidBy
    <3>1. CASE i \in DOMAIN down
      <4>1. \A n : SaidBy(down, i, n) => SaidBy(down, i, n)'
        BY <1>2, <2>4 DEF SaidBy
      <4> QED BY <1>2, <2>1, <2>4, <3>1, <4>1 DEF InIn, DownTalk, SaidBy
    <3>2. CASE i = Len(down) + 1
      BY <1>2, <1>5, <2>2, <2>4, <2>6, <2>7, <3>2 DEF SaidBy
    <3> QED BY <2>4, <3>1, <3>2
  <2>10. Told'
    <3>1. ASSUME NEW q \in requests'
          PROVE  q.n < num /\ (~q.first => SaidBy(down', Len(down) + 1, q.n))
      <4>1. CASE q \in requests
        BY <2>1, <2>5, <4>1 DEF InIn, Told
      <4>2. CASE q = t
        BY <1>3, <2>6, <2>7, <4>2
      <4> QED BY <1>1, <4>1, <4>2 DEF t
    <3> QED BY <1>2, <2>4, <3>1 DEF Told, SaidBy
  <2> QED BY <1>2, <1>4, <1>5, <1>6, <1>7, <2>1, <2>4, <2>8, <2>9, <2>10 DEF LoginInv, InIn
<1>8. CASE step \in {"out", "failed"}
  BY <1>2, <1>4, <1>6, <1>8 DEF LoginInv
<1> QED BY <1>1, <1>7, <1>8 DEF LoginInv

\* Nothing is under way up once a login has failed with its answer.
LEMMA Emptied ==
    ASSUME up' = <<>>
    PROVE  UpRight'
<1>1. <<>> \in Seq(Ups) /\ DOMAIN <<>> = {}
  OBVIOUS
<1> QED BY <1>1 DEF UpRight

\* The answers of a login are read with the cipher they were written with.
LEMMA LoginReplyKeeps ==
    ASSUME LoginInv, Receive, step # "in"
    PROVE  LoginInv'
<1> DEFINE m == Head(down)
<1>1. /\ down # <<>> /\ step \in {"legacy", "modern", "abilities"} /\ ~misread /\ num \in Nat
      /\ down' = Tail(down) /\ camCipher' = camCipher /\ Decode(m) /\ camCipher \in Ciphers
      /\ LegacyReply(m) \/ ModernReply(m) \/ AbilityReply(m)
      /\ requests = {} /\ bin = {} /\ cipher \in Ciphers
  BY DEF LoginInv, Receive, OtherReply
<1>2. requests' = {}
  BY <1>1 DEF LegacyReply, ModernReply, AbilityReply
<1>3. ASSUME NEW id, NEW n, NEW c, m = Msg(id, n, c), down = <<m>>, id # "encryption",
             c = CipherFor(id, cipher)
      PROVE  /\ ~misread' /\ cipher' = cipher /\ bin' = {} /\ down' = <<>> /\ m.id = id /\ m.n = n
  <2>1. m.id = id /\ m.n = n /\ m.cipher = c /\ m.flag = FALSE /\ m.binary = FALSE /\ down' = <<>>
    BY <1>1, <1>3 DEF Msg
  <2>2. ReadCipher(m) = m.cipher /\ ReadBinary(m) = FALSE
    BY <1>1, <1>3, <2>1 DEF ReadBinary, ReadCipher
  <2> HIDE DEF m
  <2> QED BY <1>1, <1>3, <2>1, <2>2 DEF Decode
<1>4. CASE step = "legacy"
  <2>1. LegacyReply(m) /\ InLegacy /\ up = <<>>
    BY <1>1, <1>4 DEF LoginInv, InLegacy, Pending, Replied, ModernReply, AbilityReply
  <2>2. PICK n \in Nat : down = <<Msg("odd", n, "none")>> \/ down = <<Setting(n, camCipher)>>
    BY <1>1, <2>1 DEF InLegacy, Pending, Replied
  <2>3. CASE down = <<Msg("odd", n, "none")>>
    <3>1. /\ m = Msg("odd", n, "none") /\ down = <<m>>
          /\ "none" = CipherFor("odd", cipher)
      BY <2>1, <2>3 DEF InLegacy, CipherFor, LoginIds, Capped
    <3>2. ~misread' /\ cipher' = cipher /\ bin' = {} /\ m.id = "odd"
      BY <1>3, <3>1
    <3>3. step' = "failed" /\ up' = <<>> /\ num' = num
      BY <2>1, <3>2 DEF LegacyReply
    <3> QED BY <1>1, <1>2, <3>2, <3>3, Emptied DEF LoginInv
  <2>4. CASE down = <<Setting(n, camCipher)>>
    <3>1. m = Setting(n, camCipher) /\ m.id = "encryption" /\ m.n = n /\ m.sets = camCipher
          /\ m.cipher = Capped(camCipher) /\ m.flag = FALSE /\ m.binary = FALSE /\ down' = <<>>
      BY <1>1, <2>4 DEF Setting
    <3>2. ~misread' /\ cipher' = camCipher /\ bin' = {}
      BY <1>1, <3>1 DEF Decode, ReadBinary, ReadCipher, Capped, Ciphers
    <3>3. step' = "modern" /\ up' = <<Msg("login", n, Capped(camCipher))>> /\ num' = num
      BY <2>1, <3>1, <3>2 DEF LegacyReply, Encode, CipherFor, LoginIds
    <3>4. InModern'
      BY <1>1, <2>2, <3>1, <3>2, <3>3 DEF InModern, Pending
    <3>5. UpRight'
      <4>1. Msg("login", n, Capped(camCipher)) \in Ups /\ Msg("login", n, Capped(camCipher)).id = "login"
            /\ Msg("login", n, Capped(camCipher)).cipher = Capped(camCipher)
        BY <1>1, <2>2 DEF Msg, Ups, Capped, Ciphers
      <4> HIDE DEF m
      <4>2. up' \in Seq(Ups) /\ DOMAIN up' = {1} /\ up'[1] = Msg("login", n, Capped(camCipher))
        BY <3>3, <4>1
      <4> QED BY <1>1, <4>1, <4>2 DEF UpRight, Written
    <3> QED BY <1>1, <1>2, <3>2, <3>3, <3>4, <3>5 DEF LoginInv
  <2> QED BY <2>2, <2>3, <2>4
<1>5. CASE step = "modern"
  <2>1. ModernReply(m) /\ InModern /\ up = <<>>
    BY <1>1, <1>5 DEF LoginInv, InModern, Pending, Replied, LegacyReply, AbilityReply
  <2>2. PICK n \in Nat, id \in {"info", "refused", "odd"} : down = <<Msg(id, n, Capped(cipher))>>
    BY <1>1, <2>1 DEF InModern, Pending, Replied
  <2>3. m = Msg(id, n, Capped(cipher)) /\ down = <<m>> /\ Capped(cipher) = CipherFor(id, cipher)
    BY <2>2 DEF CipherFor, LoginIds
  <2>4. ~misread' /\ cipher' = cipher /\ bin' = {} /\ m.id = id /\ down' = <<>>
    BY <1>3, <2>2, <2>3
  <2>5. CASE step' = "failed" /\ up' = <<>> /\ num' = num
    BY <1>1, <1>2, <2>4, <2>5, Emptied DEF LoginInv
  <2>6. CASE step' = "abilities" /\ num' = num + 1 /\ up' = <<Msg("ability", num, cipher)>>
    <3>1. InAbilities'
      BY <1>1, <2>1, <2>4, <2>6 DEF InAbilities, InModern, Pending
    <3>2. UpRight'
      <4>1. Msg("ability", num, cipher) \in Ups /\ Msg("ability", num, cipher).id = "ability"
            /\ Msg("ability", num, cipher).cipher = cipher
        BY <1>1 DEF Msg, Ups
      <4> HIDE DEF m
      <4>2. up' \in Seq(Ups) /\ DOMAIN up' = {1} /\ up'[1] = Msg("ability", num, cipher)
        BY <2>6, <4>1
      <4> QED BY <1>1, <2>1, <4>1, <4>2 DEF UpRight, Written, InModern
    <3> QED BY <1>1, <1>2, <2>4, <2>6, <3>1, <3>2 DEF LoginInv
  <2>7. Append(<<>>, Encode("ability", num, cipher)) = <<Msg("ability", num, cipher)>>
    BY DEF Encode, CipherFor, LoginIds
  <2> QED BY <2>1, <2>5, <2>6, <2>7 DEF ModernReply
<1>6. CASE step = "abilities"
  <2>1. AbilityReply(m) /\ InAbilities /\ up = <<>>
    BY <1>1, <1>6 DEF LoginInv, InAbilities, Pending, Replied, LegacyReply, ModernReply
  <2>2. PICK n \in Nat : down = <<Msg("abilities", n, cipher)>>
    BY <1>1, <2>1 DEF InAbilities, Pending, Replied
  <2>3. m = Msg("abilities", n, cipher) /\ down = <<m>> /\ cipher = CipherFor("abilities", cipher)
    BY <2>2 DEF CipherFor, LoginIds
  <2>4. ~misread' /\ cipher' = cipher /\ bin' = {} /\ down' = <<>>
    BY <1>3, <2>3
  <2>5. step' \in {"in", "failed"} /\ up' = <<>> /\ num' = num
    BY <2>1 DEF AbilityReply
  <2>6. <<>> \in Seq(Ups) /\ <<>> \in Seq(Downs) /\ DOMAIN <<>> = {}
    OBVIOUS
  <2>7. InIn'
    BY <1>1, <1>2, <2>1, <2>4, <2>5, <2>6 DEF InIn, InAbilities, UpTalk, DownTalk, Told
  <2>8. UpRight'
    BY <2>5, <2>6 DEF UpRight
  <2> QED BY <1>1, <1>2, <2>4, <2>5, <2>7, <2>8 DEF LoginInv
<1> QED BY <1>1, <1>4, <1>5, <1>6

\* A message is read once we are in: what it says of its number is kept in bin.
LEMMA ReadKeeps ==
    ASSUME LoginInv, Receive, step = "in"
    PROVE  LoginInv'
<1> DEFINE m == Head(down)
<1>1. /\ InIn /\ down # <<>> /\ down' = Tail(down) /\ Decode(m) /\ ~misread
      /\ UNCHANGED <<step, num, up, requests, camCipher>>
  BY DEF LoginInv, Receive, LegacyReply, ModernReply, AbilityReply, OtherReply
<1>2. /\ down' \in Seq(Downs) /\ Len(down') = Len(down) - 1 /\ Len(down) \in Nat \ {0}
      /\ DOMAIN down' = 1..(Len(down) - 1) /\ DOMAIN down = 1..Len(down)
      /\ \A i \in DOMAIN down' : down'[i] = down[i + 1] /\ i + 1 \in DOMAIN down
      /\ m = down[1] /\ m \in Downs /\ 1 \in DOMAIN down
  BY <1>1, Tailed DEF InIn
<1>3. m.id \in {"reply", "data"} /\ (m.id = "reply" => ~m.flag /\ ~m.binary)
      /\ (m.id = "data" => m.binary) /\ m.flag \in BOOLEAN /\ m.binary \in BOOLEAN
  BY <1>2 DEF Downs
<1> HIDE DEF m
<1>4. cipher' = cipher
  BY <1>1, <1>3 DEF Decode
<1>5. m.flag => m.n \in Held
  BY <1>1, <1>2, <1>3 DEF InIn, DownTalk
<1>6. bin' \subseteq Held /\ bin \subseteq bin' /\ (m.flag => m.n \in bin') /\ Held' = Held
  BY <1>1, <1>5 DEF Decode, InIn, Held
<1>7. ~misread'
  <2>1. CASE m.id = "reply"
    <3>1. m.cipher = cipher /\ m.n \notin bin
      BY <1>1, <1>2, <2>1 DEF InIn, DownTalk
    <3>2. ReadCipher(m) = cipher
      BY <2>1 DEF ReadCipher, CipherFor, LoginIds
    <3> QED BY <1>1, <1>3, <2>1, <3>1, <3>2 DEF Decode, ReadBinary
  <2>2. CASE m.id = "data"
    <3>1. SaidBy(down, 1, m.n)
      BY <1>1, <1>2, <2>2 DEF InIn, DownTalk
    <3>2. ReadBinary(m) = TRUE
      BY <1>2, <1>3, <3>1 DEF SaidBy, ReadBinary
    <3> QED BY <1>1, <1>3, <2>2, <3>2 DEF Decode
  <2> QED BY <1>3, <2>1, <2>2
<1>8. ASSUME NEW n, NEW i \in Nat, i + 1 \in DOMAIN down, SaidBy(down, i + 1, n)
      PROVE  SaidBy(down, i, n)'
  <2>1. CASE n \in bin
    BY <1>6, <2>1 DEF SaidBy
  <2>2. ASSUME NEW j \in DOMAIN down, j <= i + 1, down[j].flag, down[j].n = n
        PROVE  SaidBy(down, i, n)'
    <3>1. CASE j = 1
      BY <1>2, <1>6, <2>2, <3>1 DEF SaidBy
    <3>2. CASE j # 1
      <4>1. j - 1 \in DOMAIN down' /\ j - 1 <= i /\ down'[j - 1] = down[j]
        BY <1>2, <1>8, <2>2, <3>2
      <4> QED BY <2>2, <4>1 DEF SaidBy
    <3> QED BY <3>1, <3>2
  <2> QED BY <1>8, <2>1, <2>2 DEF SaidBy
<1>9. UpTalk'
  BY <1>1, <1>2, <1>6 DEF InIn, UpTalk
<1>10. DownTalk'
  <2> SUFFICES ASSUME NEW i \in DOMAIN down'
               PROVE  /\ down'[i].n < num
                      /\ down'[i].id = "reply" => down'[i].cipher = cipher /\ down'[i].n \notin Held
                      /\ down'[i].id = "data" => down'[i].n \in Held /\ SaidBy(down, i, down[i].n)'
    BY <1>1, <1>4, <1>6 DEF DownTalk, SaidBy
  <2>1. i \in Nat /\ i + 1 \in DOMAIN down /\ down'[i] = down[i + 1]
    BY <1>2
  <2>2. PICK n : n = down[i + 1].n
    OBVIOUS
  <2>3. SaidBy(down, i + 1, n) => SaidBy(down, i, n)'
    BY <1>8, <2>1
  <2>4. SaidBy(down, i, n)' <=> SaidBy(down, i, down[i].n)'
    BY <2>1, <2>2 DEF SaidBy
  <2>5. /\ n < num
        /\ down[i + 1].id = "reply" => down[i + 1].cipher = cipher /\ n \notin Held
        /\ down[i + 1].id = "data" => n \in Held /\ SaidBy(down, i + 1, n)
    BY <1>1, <2>1, <2>2 DEF InIn, DownTalk
  <2> QED BY <2>1, <2>2, <2>3, <2>4, <2>5
<1>11. Told'
  <2>1. ASSUME NEW r \in requests, ~r.first
        PROVE  SaidBy(down, Len(down), r.n)'
    <3>1. Len(down') \in Nat /\ Len(down') + 1 = Len(down) /\ Len(down) \in DOMAIN down
      BY <1>2
    <3>2. SaidBy(down, Len(down), r.n)
      BY <1>1, <2>1 DEF InIn, Told
    <3> QED BY <1>8, <3>1, <3>2 DEF SaidBy
  <2> QED BY <1>1, <2>1 DEF InIn, Told, SaidBy
<1>12. UpRight'
  BY <1>1 DEF LoginInv, UpRight, Written
<1> QED BY <1>1, <1>2, <1>4, <1>6, <1>7, <1>9, <1>10, <1>11, <1>12 DEF LoginInv, InIn

\* Every step of the login and of what is said after it.
LEMMA LoginKeeps ==
    ASSUME LoginInv, LNext
    PROVE  LoginInv'
<1>1. CASE StartLogin
  <2>1. up' = <<Msg("upgrade", num, "none")>> /\ down' = <<>> /\ num \in Nat
    BY <1>1 DEF StartLogin, LoginInv, Encode, CipherFor, LoginIds, Capped
  <2>2. InLegacy' /\ UpRight'
    BY <1>1, <2>1 DEF StartLogin, LoginInv, InLegacy, Pending, UpRight
  <2> QED BY <1>1, <2>1, <2>2 DEF StartLogin, LoginInv
<1>2. CASE Receive
  BY <1>2, LoginReplyKeeps, ReadKeeps
<1>3. CASE LoginTimeout
  BY <1>3 DEF LoginTimeout, LoginInv, UpRight, Written
<1>4. CASE Logout \/ Request("command") \/ Request("stream")
  BY <1>4, SendKeeps DEF Logout, Request
<1>5. CASE CamRead
  BY <1>5, AnswerKeeps, ServeKeeps
<1>6. CASE CamData
  BY <1>6, DataKeeps
<1> QED BY <1>1, <1>2, <1>3, <1>4, <1>5, <1>6 DEF LNext

\* Every message is read with the cipher it was written with and for what it is, across
\* the change of cipher and beside streams whose later messages do not say that they are
\* binary (login_with_maxenc; bc/codex.rs and bc/de.rs).
THEOREM IsUnderstood == Spec => []Understood
<1>1. Init => LoginInv
  BY LoginInit DEF Init
<1>2. LoginInv /\ [Next]_vars => LoginInv'
  <2> SUFFICES ASSUME LoginInv, [Next]_vars PROVE LoginInv'
    OBVIOUS
  <2>1. CASE UNCHANGED lvars
    BY <2>1 DEF lvars, LoginInv, UpRight, Written, InLegacy, InModern, InAbilities, InIn, Pending,
                Replied, UpTalk, DownTalk, Told, SaidBy, Held
  <2>2. CASE LNext
    BY <2>2, LoginKeeps
  <2>3. CASE Connect
    <3>1. CASE StartLogin
      BY <3>1, LoginKeeps DEF LNext
    <3>2. CASE step' = "failed" /\ UNCHANGED <<num, cipher, bin, camCipher, up, down, requests, loggedIn, able, misread>>
      BY <3>2 DEF LoginInv, UpRight, Written
    <3> QED BY <2>3, <3>1, <3>2 DEF Connect
  <2> QED BY <2>1, <2>2, <2>3 DEF Next, Use, vars
<1>3. LoginInv => Understood
  BY DEF LoginInv, Understood
<1> QED BY <1>1, <1>2, <1>3, PTL DEF Spec
=============================================================================
