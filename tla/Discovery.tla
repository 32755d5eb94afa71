------------------------------ MODULE Discovery ------------------------------
(***************************************************************************)
(* How a camera is found: BcCamera::find_camera                            *)
(* (crates/core/src/bc_protocol.rs) and the discovery it runs              *)
(* (bc_protocol/connection/discovery.rs).                                  *)
(*                                                                         *)
(* Addresses are tried by TCP one after the other.  Then, by UDP, the      *)
(* camera is asked directly, and beside it, on a socket of its own, the    *)
(* P2P servers are asked for a register and the register for the camera;   *)
(* four paths to the camera then race for the one permit under which a     *)
(* path is confirmed to the register.  Every request is repeated until it  *)
(* is answered or fifteen seconds have passed.  The servers and the camera *)
(* are external: they answer, or do not.                                   *)
(***************************************************************************)
EXTENDS Integers, FiniteSets

CONSTANTS
    Dests,      \* where the camera is asked directly
    Servers,    \* the P2P servers
    Regs,       \* the registers they may name
    Tids,       \* transaction ids: a byte drawn at random
    MaxTcp,     \* addresses to try by TCP
    MaxRetry,   \* max_discovery_retries; 0 for no limit
    Options     \* the options a camera may have: method, protocol, uid or not

Methods == {"None", "Local", "Remote", "Map", "Relay", "Cellular", "Debug"}

ASSUME DiscoveryAssumption ==
    /\ MaxTcp \in Nat /\ MaxRetry \in Nat /\ 0 \notin Tids
    /\ (Dests \union Servers) \intersect
          {"client", "device", "map", "relay", "register", "free", "closed", "tcp", "none"} = {}
    /\ Options \subseteq [method : Methods, proto : {"Tcp", "Udp", "TcpUdp"}, uid : BOOLEAN]

Paths == {"client", "device", "map", "relay"}
Remote == {"client", "device"} \* the two paths that remote() races
Attempts == Dests \union Servers \union {"register"} \union Paths

VARIABLES
    opt,        \* the camera's options
    tcp,        \* addresses not yet tried by TCP
    at,         \* where each attempt stands
    tid,        \* the number an attempt has subscribed to, or 0
    asked,      \* registers asked since the Discovery was made
    reg,        \* the addresses the register gave
    permit,     \* who holds the semaphore's permit; "free"; "closed"
    tried,      \* attempts that came to ask, of this Discovery
    sent,       \* paths of which a confirmation was sent to the register
    retry,
    outcome     \* what find_camera returned: an attempt, "tcp" or an error

dvars == <<opt, tcp, at, tid, asked, reg, permit, tried, sent, retry, outcome>>

\* The addresses a register may give; one that gives none is not accepted.
Addresses == {"dev", "dmap", "relay"}
NoReg == {}

\* find_camera: what a discovery method allows.
Allowed(m) ==
    (IF m \in {"Local", "Remote", "Map", "Relay"} THEN {"local"} ELSE {})
    \union (IF m \in {"Remote", "Map", "Relay"} THEN Remote ELSE {})
    \union (IF m \in {"Map", "Relay", "Cellular", "Debug"} THEN {"map"} ELSE {})
    \union (IF m \in {"Relay", "Cellular"} THEN {"relay"} ELSE {})

Local == "local" \in Allowed(opt.method)
MayTake(p) == p \in Allowed(opt.method)
Searching == outcome = "none"
ByUdp == Searching /\ tcp = 0 /\ opt.uid /\ opt.proto # "Tcp"
ByServer == ByUdp /\ \E p \in Paths : MayTake(p)

DInit ==
    /\ opt \in Options
    /\ tcp = IF opt.proto = "Udp" THEN 0 ELSE MaxTcp
    /\ at = [a \in Attempts |-> "idle"] /\ tid = [a \in Attempts |-> 0]
    /\ asked = {} /\ reg = NoReg /\ permit = "free" /\ tried = {} /\ sent = {}
    /\ retry = 0 /\ outcome = "none"

\* Discoverer::subscribe: the number has a subscriber whose receiver lives.
\* The direct attempts are made by a Discoverer of their own.
Taken(a, t) ==
    \E b \in Attempts \ {a} :
        tid[b] = t /\ at[b] \in {"ask", "answered"} /\ (b \in Dests <=> a \in Dests)

\* A mutant: any path that fails ends all of them.
EndsAll(a) == IF a \in Paths THEN Paths ELSE {a}

\* What ends when an attempt fails: select! in remote() takes the first result
\* of the two, an error too, and drops the other.
EndsWith(a) == IF a \in Remote THEN Remote ELSE {a}

\* A mutant: a path that is dropped keeps the permit.
FailKeepingPermit(a) ==
    /\ at' = [b \in Attempts |-> IF b \in EndsWith(a) THEN "failed" ELSE at[b]]
    /\ tid' = [b \in Attempts |-> IF b \in EndsWith(a) THEN 0 ELSE tid[b]]
    /\ UNCHANGED permit

Fail(a) ==
    /\ at' = [b \in Attempts |-> IF b \in EndsWith(a) THEN "failed" ELSE at[b]]
    /\ tid' = [b \in Attempts |-> IF b \in EndsWith(a) THEN 0 ELSE tid[b]]
    /\ permit' = IF permit \in EndsWith(a) THEN "free" ELSE permit

GoTo(a, s) == at' = [at EXCEPT ![a] = s] /\ tid' = [tid EXCEPT ![a] = 0]

\* retry_send: subscribe to the number and send until answered.
Ask(a, t) ==
    /\ tried' = tried \union {a}
    /\ IF Taken(a, t)
         THEN Fail(a)
         ELSE /\ at' = [at EXCEPT ![a] = "ask"] /\ tid' = [tid EXCEPT ![a] = t]
              /\ UNCHANGED permit

\* A mutant: handle_incoming waits without a limit.
TimeoutOfRequests(a) ==
    /\ ByUdp /\ at[a] = "ask"
    /\ Fail(a)
    /\ UNCHANGED <<opt, tcp, asked, reg, tried, sent, retry, outcome>>

\* retry_send and handle_incoming: fifteen seconds without the answer, also for
\* a lookup that is answered while a registration keeps it from being polled.
Timeout(a) ==
    /\ ByUdp
    /\ \/ at[a] \in {"ask", "wait"}
       \/ at[a] = "answered" /\ at["register"] = "ask"
    /\ Fail(a)
    /\ UNCHANGED <<opt, tcp, asked, reg, tried, sent, retry, outcome>>

-----------------------------------------------------------------------------
\* check_tcp of the next address: it answers a login, or does not in time.
TryTcp ==
    /\ Searching /\ tcp > 0
    /\ \/ outcome' = "tcp" /\ UNCHANGED tcp
       \/ tcp' = tcp - 1 /\ UNCHANGED outcome
    /\ UNCHANGED <<opt, at, tid, asked, reg, permit, tried, sent, retry>>

\* local: client_initiated_direct to every address at once.
Direct(d) ==
    /\ ByUdp /\ Local
    /\ \/ /\ at[d] = "idle"
          /\ \E t \in Tids : Ask(d, t)
          /\ UNCHANGED outcome
       \/ /\ at[d] = "ask" \* D2cCr
          /\ GoTo(d, "won") /\ outcome' = d
          /\ UNCHANGED <<permit, tried>>
    /\ UNCHANGED <<opt, tcp, asked, reg, sent, retry>>

\* uid_lookup_all, uid_lookup: every server is asked at once.
Lookup(s) ==
    /\ ByServer /\ reg = NoReg
    /\ \/ /\ at[s] = "idle"
          /\ \E t \in Tids : Ask(s, t)
       \/ /\ at[s] = "ask" \* M2cQr
          /\ at' = [at EXCEPT ![s] = "answered"]
          /\ UNCHANGED <<tid, permit, tried>>
    /\ UNCHANGED <<opt, tcp, asked, reg, sent, retry, outcome>>

\* get_registration: the answers are gone through one at a time, and a register
\* is asked only once.
TakeLookup(s) ==
    /\ ByServer /\ reg = NoReg /\ at[s] = "answered" /\ at["register"] # "ask"
    /\ \E r \in Regs :
         \/ r \in asked /\ GoTo(s, "used") /\ UNCHANGED <<asked, tried>>
         \/ /\ r \notin asked /\ asked' = asked \union {r}
            /\ tried' = tried \union {"register"}
            /\ \E t \in Tids :
                 IF \E b \in Servers \ {s} : tid[b] = t /\ at[b] \in {"ask", "answered"}
                   THEN GoTo(s, "used")
                   ELSE /\ at' = [at EXCEPT ![s] = "used", !["register"] = "ask"]
                        /\ tid' = [tid EXCEPT ![s] = 0, !["register"] = t]
    /\ UNCHANGED <<opt, tcp, reg, permit, sent, retry, outcome>>

\* register_address: the register accepts with the camera's addresses, of which
\* one at least is valid, or refuses.  The lookups that run are dropped.
Register ==
    /\ ByServer /\ at["register"] = "ask"
    /\ \/ /\ reg' \in (SUBSET Addresses) \ {NoReg}
          /\ at' = [a \in Attempts |-> IF a \in Servers \union {"register"} THEN "used" ELSE at[a]]
          /\ tid' = [a \in Attempts |-> IF a \in Servers \union {"register"} THEN 0 ELSE tid[a]]
          /\ UNCHANGED permit
       \/ Fail("register") /\ UNCHANGED reg
    /\ UNCHANGED <<opt, tcp, asked, tried, sent, retry, outcome>>

\* find_camera: no register told of the camera.  A new Discovery, with a new
\* client id, starts after a second; the count of tries is limited.
NoRegistration ==
    /\ ByServer /\ reg = NoReg /\ at["register"] \in {"idle", "failed"}
    /\ \A s \in Servers : at[s] \in {"used", "failed"}
    /\ MaxRetry = 0 \/ retry < MaxRetry
    /\ retry' = IF MaxRetry = 0 THEN 0 ELSE retry + 1
    /\ at' = [a \in Attempts |-> IF a \in Dests THEN at[a] ELSE "idle"]
    /\ asked' = {} /\ tried' = tried \intersect Dests
    /\ UNCHANGED <<opt, tcp, tid, reg, permit, sent, outcome>>
-----------------------------------------------------------------------------
Begin(p, s) == at[p] = "idle" /\ at' = [at EXCEPT ![p] = s] /\ UNCHANGED <<tid, permit, tried, sent, outcome>>
BeginAsk(p) == at[p] = "idle" /\ (\E t \in Tids : Ask(p, t)) /\ UNCHANGED <<sent, outcome>>
NoDev(p) == at[p] = "idle" /\ Fail(p) /\ UNCHANGED <<tried, sent, outcome>>

\* The camera's D2cT comes, with a number of the camera's: to whoever has
\* subscribed to that number, and to handle_incoming when nobody has.
Incoming(p) ==
    /\ at[p] = "wait" /\ "dmap" \in reg
    /\ \E t \in Tids :
         /\ ~Taken(p, t)
         /\ at' = [at EXCEPT ![p] = "want"] /\ tid' = [tid EXCEPT ![p] = t]
    /\ UNCHANGED <<permit, tried, sent, outcome>>

\* The camera's D2cCfm.
Answered(p, s) ==
    /\ at[p] = "ask" /\ GoTo(p, s)
    /\ UNCHANGED <<permit, tried, sent, outcome>>

\* semaphore.acquire: what the path does once it has the permit.
Permitted(p) == at[p] = "want" /\ permit = "free" /\ permit' = p /\ UNCHANGED <<sent, outcome>>
PermitToAsk(p, t) ==
    /\ at[p] = "want" /\ permit = "free" /\ tried' = tried \union {p}
    /\ IF Taken(p, t)
         THEN Fail(p)
         ELSE /\ at' = [at EXCEPT ![p] = "ask"] /\ tid' = [tid EXCEPT ![p] = t]
              /\ permit' = p
    /\ UNCHANGED <<sent, outcome>>

\* send_and_forget: five confirmations, half a second apart; then the semaphore
\* is closed and the path returned.
Confirm(p) ==
    /\ at[p] = "confirm"
    /\ \/ p \notin sent /\ sent' = sent \union {p} /\ UNCHANGED <<at, tid, permit, outcome>>
       \/ p \in sent /\ GoTo(p, "won") /\ permit' = "closed" /\ outcome' = p /\ UNCHANGED sent
    /\ UNCHANGED tried

\* remote() polls its two paths for the first time in one go, before either can
\* time out.
client_initiated_dev ==
    \/ "dev" \in reg /\ BeginAsk("client")
    \/ "dev" \notin reg /\ NoDev("client")
    \/ Answered("client", "want")
    \/ Permitted("client") /\ GoTo("client", "confirm") /\ UNCHANGED tried
    \/ Confirm("client")

device_initiated(p) ==
    \/ Begin(p, "wait") /\ (p \in Remote => at["client"] # "idle")
    \/ Incoming(p)
    \/ PermitToAsk(p, tid[p])
    \/ Answered(p, "confirm")
    \/ Confirm(p)

client_initiated_relay ==
    \/ "relay" \in reg /\ Begin("relay", "want")
    \/ "relay" \notin reg /\ NoDev("relay")
    \/ \E t \in Tids : PermitToAsk("relay", t)
    \/ Answered("relay", "confirm")
    \/ Confirm("relay")

\* find_camera: remote at once, map and relay a little later, each only if the
\* method allows it.
Path(p) ==
    /\ ByServer /\ reg # NoReg /\ MayTake(p)
    /\ \/ p = "client" /\ client_initiated_dev
       \/ p \in {"device", "map"} /\ device_initiated(p)
       \/ p = "relay" /\ client_initiated_relay
    /\ UNCHANGED <<opt, tcp, asked, reg, retry>>

\* The branches of find_camera's select! that have failed.
LocalFailed == ~Local \/ \A d \in Dests : at[d] = "failed"
ServersFailed ==
    \/ \A p \in Paths : ~MayTake(p)
    \/ reg # NoReg /\ \A p \in Paths : MayTake(p) => at[p] = "failed"
    \/ /\ reg = NoReg /\ at["register"] \in {"idle", "failed"}
       /\ \A s \in Servers : at[s] \in {"used", "failed"}
       /\ MaxRetry > 0 /\ retry >= MaxRetry

\* find_camera returns an error: nothing is left to try.
GiveUp ==
    /\ Searching /\ tcp = 0
    /\ ByUdp => LocalFailed /\ ServersFailed
    /\ outcome' = IF ByUdp THEN "DiscoveryTimeout" ELSE "CannotInitCamera"
    /\ UNCHANGED <<opt, tcp, at, tid, asked, reg, permit, tried, sent, retry>>

DNext ==
    \/ TryTcp \/ NoRegistration \/ GiveUp
    \/ \E a \in Attempts : Timeout(a)
    \/ \E d \in Dests : Direct(d)
    \/ \E s \in Servers : Lookup(s) \/ TakeLookup(s)
    \/ Register
    \/ \E p \in Paths : Path(p)
-----------------------------------------------------------------------------
\* The permit is held by a path that asks or confirms under it, and by no other;
\* it is closed by the path that was returned.  A path that is dropped must not
\* take it along, and nobody confirms without it.  What was confirmed to the
\* register is used, unless remote() dropped it while its other path failed.
PermitExact ==
    /\ permit \in Paths => at[permit] \in {"ask", "confirm"}
    /\ \A p \in Paths : at[p] = "confirm" => permit = p
    /\ permit = "closed" <=> outcome \in Paths
    /\ \A p \in sent \ Remote : at[p] \in {"confirm", "won"}

\* find_camera gives up on a camera whose register named its relay only after
\* the relay was asked, although three other paths may have taken the permit
\* before it.
GiveUpTried ==
    outcome = "DiscoveryTimeout" /\ reg # NoReg =>
        /\ MayTake("relay") /\ "relay" \in reg => "relay" \in tried
        /\ MayTake("client") /\ "dev" \in reg => "client" \in tried

=============================================================================
