------------------------------- MODULE NeoCam -------------------------------
(***************************************************************************)
(* One camera as the rest of neolink sees it, src/common/neocam.rs with    *)
(* the tasks that clients run on it, src/common/instance.rs.               *)
(*                                                                         *)
(* A commander task serves one queue of requests; the camera thread        *)
(* (CamThread) follows the state it sets; the users of the camera hold     *)
(* permits, which a counter (UseCounter) counts; the idle task watches the *)
(* count and asks the commander to connect and, with idle_disconnect, to   *)
(* disconnect.  A client's task runs on the connection that the watch      *)
(* names, and starts again when the watch changes under it.                *)
(***************************************************************************)
EXTENDS UseCounter, CamThread

CONSTANTS
    Tasks,      \* clients that run a task on the camera (run_task)
    Holders,    \* those that only hold a permit (motion, push, wakeup)
    MaxAsks,    \* permits asked for, by all of them
    CmdCap      \* capacity of the commander's queue (100)

ASSUME NeoCamAssumption ==
    /\ MaxAsks \in Nat /\ CmdCap \in Nat \ {0}
    /\ IsFiniteSet(Tasks \union Holders)
    /\ Tasks \intersect Holders = {} /\ {"idle", "red", "reactor"} \intersect (Tasks \union Holders) = {}

VARIABLES
    commander,   \* the queue: what is asked, and by whom
    user,        \* where each client stands
    cam,         \* the connection each client's task runs on, 0 for none
    asks,
    idle,        \* where the idle task stands
    lost,        \* uses that the counter never takes away (history, no code)
    removed      \* the reactor's handle: "kept", "dropping" or "dropped"

client_vars == <<user, cam, asks>>
vars == <<counter_vars, cam_thread_vars, commander, client_vars, idle, lost, removed>>

Clients == Tasks \union Holders

Request(what, who) == [what |-> what, who |-> who]

\* Faulty: does not wait for room.
AskNoWait(what, who) ==
    /\ commander_up
    /\ commander' = Append(commander, Request(what, who))

\* Put in the commander's queue, when there is room.
Ask(what, who) ==
    /\ commander_up /\ Len(commander) < CmdCap
    /\ commander' = Append(commander, Request(what, who))

\* The states of the idle task that serve its inner loop.
Watching == {"ask", "asked", "given", "deactivate", "users", "connect", "connecting",
             "empty", "linger", "disconnect", "disconnecting"}

\* Of these, the ones in which the counter counts the idle task's own permit: it
\* was given one, which is active until deactivate is called, and its message to
\* take the use away is not sent until the channel has room.
CountsItself == {"given", "deactivate"}

\* The clients that hold an active permit.
Holding == {u \in Clients : user[u] \in {"hold", "wait", "run"}}

-----------------------------------------------------------------------------
(* The commander.                                                          *)

\* Faulty: replies with a permit that it has not activated.
ServePermitInactive(who) ==
    /\ UNCHANGED <<notifier, drops>>
    /\ user' = IF who \in Clients /\ user[who] = "asked"
               THEN [user EXCEPT ![who] = IF who \in Tasks THEN "wait" ELSE "hold"]
               ELSE user
    /\ idle' = IF who = "idle" /\ idle = "asked" THEN "given" ELSE idle
    /\ UNCHANGED <<state, cancelled>>

\* An active permit goes to whoever asked; if nobody waits for it any more it
\* is dropped at once.
ServePermit(who) ==
    /\ Notify(TRUE)
    /\ IF who \in Clients
       THEN /\ UNCHANGED idle
            /\ IF user[who] = "asked"
               THEN /\ user' = [user EXCEPT ![who] = IF who \in Tasks THEN "wait" ELSE "hold"]
                    /\ UNCHANGED drops
               ELSE /\ user' = [user EXCEPT ![who] = "off"]
                    /\ drops' = drops + 1
       ELSE /\ UNCHANGED user
            /\ IF idle = "asked" THEN idle' = "given" /\ UNCHANGED drops
               ELSE drops' = drops + 1 /\ UNCHANGED idle
    /\ UNCHANGED <<state, cancelled>>

ServeConnect(who) ==
    /\ state' = "Connected"
    /\ idle' = IF who = "idle" /\ idle = "connecting" THEN "empty"
               ELSE IF who = "red" /\ idle = "turning on" THEN "green" ELSE idle
    /\ UNCHANGED <<notifier, drops, user, cancelled>>

ServeDisconnect ==
    /\ state' = "Disconnected"
    /\ idle' = IF idle = "disconnecting" THEN "users" ELSE idle
    /\ UNCHANGED <<notifier, drops, user, cancelled>>

ServeHangUp ==
    /\ cancelled' = TRUE
    /\ UNCHANGED <<notifier, drops, user, idle, state>>

\* The next request of the queue.
Serve ==
    /\ commander_up /\ commander # <<>>
    /\ commander' = Tail(commander)
    /\ LET r == Head(commander) IN
           \/ r.what = "permit" /\ ServePermit(r.who)
           \/ r.what = "connect" /\ ServeConnect(r.who)
           \/ r.what = "disconnect" /\ ServeDisconnect
           \/ r.what = "hangup" /\ ServeHangUp
    /\ UNCHANGED <<value, thread_vars, world_vars, commander_up, config, cam, asks, lost, removed>>

\* The commander ends with the token: requests in the queue are never answered.
CommanderEnds ==
    /\ commander_up /\ cancelled
    /\ commander_up' = FALSE /\ commander' = <<>>
    /\ UNCHANGED <<counter_vars, thread_vars, world_vars, state, config, cancelled,
                   client_vars, idle, lost, removed>>

-----------------------------------------------------------------------------
(* The idle task.                                                          *)

IdleFrame ==
    UNCHANGED <<value, lost, cam_thread_vars, client_vars, removed>>

\* The inner loop is dropped with its permit, wherever it waits.  The permit takes its
\* use away if it is active; once deactivate waits for room it is not any more,
\* although nothing has been sent, and the use is counted for ever.
DropInner ==
    /\ drops' = IF idle = "given" THEN drops + 1 ELSE drops
    /\ lost' = IF idle = "deactivate" THEN lost + 1 ELSE lost
    /\ UNCHANGED <<value, notifier, cam_thread_vars, commander, client_vars, removed>>

IdleGreen ==
    /\ idle = "green" /\ config.idle
    /\ idle' = "ask"
    /\ UNCHANGED <<notifier, drops, commander>> /\ IdleFrame

\* A request of the idle task: its permit, connect or disconnect.
IdleAsk ==
    /\ \/ idle = "ask" /\ Ask("permit", "idle") /\ idle' = "asked"
       \/ idle = "connect" /\ Ask("connect", "idle") /\ idle' = "connecting"
       \/ idle = "disconnect" /\ Ask("disconnect", "idle") /\ idle' = "disconnecting"
       \/ idle = "red" /\ Ask("connect", "red") /\ idle' = "turning on"
    /\ UNCHANGED <<notifier, drops>> /\ IdleFrame

\* It only watches: its own permit is not to count.  The permit is inactive from
\* the call on, its message is sent when the channel has room.
IdleDeactivate ==
    /\ \/ idle \in CountsItself /\ Notify(FALSE) /\ idle' = "users"
       \/ idle = "given" /\ Len(notifier) = NotiCap /\ idle' = "deactivate" /\ UNCHANGED notifier
    /\ UNCHANGED <<drops, commander>> /\ IdleFrame

\* Someone uses the camera.
IdleSeesUse ==
    /\ idle = "users" /\ value > 0
    /\ idle' = "connect"
    /\ UNCHANGED <<notifier, drops, commander>> /\ IdleFrame

\* Nobody uses the camera any more: linger for 30 s.
IdleSeesNone ==
    /\ idle = "empty" /\ value = 0
    /\ idle' = "linger"
    /\ UNCHANGED <<notifier, drops, commander>> /\ IdleFrame

\* Faulty: does not wait for the 30 s, only for the next user.
IdleLingeredOn ==
    /\ idle = "linger" /\ value > 0
    /\ idle' = "users"
    /\ UNCHANGED <<notifier, drops, commander>> /\ IdleFrame

\* Either the time is up or there is a user again.
IdleLingered ==
    /\ idle = "linger"
    /\ \/ idle' = "disconnect"
       \/ value > 0 /\ idle' = "users"
    /\ UNCHANGED <<notifier, drops, commander>> /\ IdleFrame

\* Faulty: stops watching but does not see to it that the camera is online.
IdleRedOffline ==
    /\ idle \in Watching /\ ~config.idle
    /\ idle' = "green"
    /\ DropInner

\* idle_disconnect is turned off: whatever the inner loop waits for is dropped,
\* and the camera is to be online.
IdleRed ==
    /\ idle \in Watching /\ ~config.idle
    /\ idle' = "red"
    /\ DropInner

\* The token, the commander's end, or the end of the configuration watch.
IdleEnds ==
    /\ idle # "ended"
    /\ \/ cancelled
       \/ ~commander_up
       \/ removed # "kept" /\ idle = "green" /\ ~config.idle
       \/ removed # "kept" /\ idle \in Watching /\ config.idle
    /\ idle' = "ended"
    /\ DropInner

IdleNext ==
    \/ IdleGreen \/ IdleAsk \/ IdleDeactivate \/ IdleSeesUse \/ IdleSeesNone
    \/ IdleLingered \/ IdleRed \/ IdleEnds

-----------------------------------------------------------------------------
(* A client: run_task, or a permit held for its own sake.                  *)

ClientFrame ==
    UNCHANGED <<value, notifier, cam_thread_vars, idle, lost, removed>>

AskPermit(u) ==
    /\ user[u] = "off" /\ asks < MaxAsks
    /\ Ask("permit", u)
    /\ user' = [user EXCEPT ![u] = "asked"] /\ asks' = asks + 1
    /\ UNCHANGED <<drops, cam>> /\ ClientFrame

\* The client goes away before its request is answered.
GiveUp(u) ==
    /\ user[u] = "asked" /\ commander_up
    /\ user' = [user EXCEPT ![u] = "gone"]
    /\ UNCHANGED <<drops, commander, cam, asks>> /\ ClientFrame

\* The commander is gone with the request.
Unanswered(u) ==
    /\ user[u] \in {"asked", "gone"} /\ ~commander_up
    /\ user' = [user EXCEPT ![u] = "off"]
    /\ UNCHANGED <<drops, commander, cam, asks>> /\ ClientFrame

\* The task is over, with whatever result, and drops its permit.
Leave(u) ==
    /\ user' = [user EXCEPT ![u] = "off"] /\ cam' = [cam EXCEPT ![u] = 0]
    /\ drops' = drops + 1
    /\ UNCHANGED <<commander, asks>> /\ ClientFrame

\* The watch names something else than the task last ran on.
StartRun(u) ==
    /\ user[u] = "wait" /\ camera_watch # cam[u]
    /\ user' = [user EXCEPT ![u] = "run"] /\ cam' = [cam EXCEPT ![u] = camera_watch]
    /\ UNCHANGED <<drops, commander, asks>> /\ ClientFrame

\* Faulty: a task that never had a camera does not notice.
NoMoreCamerasIfHad(u) ==
    /\ user[u] = "wait" /\ cam[u] # 0 /\ camera_watch = cam[u] /\ thread = "ended"
    /\ Leave(u)

\* The watch is closed: "Camera is disconnecting".
NoMoreCameras(u) ==
    /\ user[u] = "wait" /\ camera_watch = cam[u] /\ thread = "ended"
    /\ Leave(u)

\* Faulty: a task without a camera does not look at the watch again.
RestartOnlyIfRunning(u) ==
    /\ user[u] = "run" /\ cam[u] # 0
    /\ \/ camera_watch # cam[u] \/ thread = "ended"
       \/ link = "error"
    /\ user' = [user EXCEPT ![u] = "wait"]
    /\ UNCHANGED <<drops, commander, cam, asks>> /\ ClientFrame

\* The camera has changed or is closed, or the task failed with an error of
\* the connection: go and wait for another one.
Restart(u) ==
    /\ user[u] = "run"
    /\ \/ camera_watch # cam[u] \/ thread = "ended"
       \/ cam[u] # 0 /\ link = "error"
    /\ user' = [user EXCEPT ![u] = "wait"]
    /\ UNCHANGED <<drops, commander, cam, asks>> /\ ClientFrame

\* The task returns, successful or with an error that is not retried.
Finish(u) ==
    /\ user[u] = "run" /\ cam[u] # 0 /\ cam[u] = camera_watch /\ link = "ok"
    /\ Leave(u)

CancelTask(u) ==
    /\ user[u] = "run" /\ cancelled
    /\ Leave(u)

Release(u) ==
    /\ user[u] = "hold"
    /\ Leave(u)

ClientNext(u) ==
    \/ AskPermit(u) \/ GiveUp(u) \/ Unanswered(u)
    \/ StartRun(u) \/ NoMoreCameras(u) \/ Restart(u) \/ Finish(u) \/ CancelTask(u)
    \/ Release(u)

-----------------------------------------------------------------------------
(* The reactor.                                                            *)

UpdateConfig ==
    /\ removed = "kept" /\ events < MaxEvents
    /\ events' = events + 1
    /\ config' \in {c \in Configs : c.v = config.v + 1}
    /\ UNCHANGED <<counter_vars, thread_vars, link, reachable, state, commander_up, cancelled,
                   commander, client_vars, idle, lost, removed>>

\* The camera is not in the configuration any more: its handle is dropped.
Remove ==
    /\ removed = "kept" /\ events < MaxEvents
    /\ removed' = "dropping" /\ events' = events + 1
    /\ UNCHANGED <<counter_vars, thread_vars, link, reachable, state, commander_up, config,
                   cancelled, commander, client_vars, idle, lost>>

\* The task that the drop spawns asks the commander to hang up.
AskHangUp ==
    /\ removed = "dropping"
    /\ \/ Ask("hangup", "reactor")
       \/ ~commander_up /\ UNCHANGED commander
    /\ removed' = "dropped"
    /\ UNCHANGED <<counter_vars, cam_thread_vars, client_vars, idle, lost>>

-----------------------------------------------------------------------------
Init ==
    /\ CounterInit
    /\ \E initial \in {c \in Configs : c.v = 0 /\ c.good} : ThreadInit(initial)
    /\ commander = <<>>
    /\ user = [u \in Clients |-> "off"] /\ cam = [u \in Clients |-> 0] /\ asks = 0
    /\ idle = "green" /\ lost = 0 /\ removed = "kept"

Counting ==
    /\ commander_up
    /\ Count \/ SpawnedSend
    /\ UNCHANGED <<cam_thread_vars, commander, client_vars, idle, lost, removed>>

Threading ==
    /\ ThreadNext
    /\ UNCHANGED <<counter_vars, commander, client_vars, idle, lost, removed>>

World ==
    /\ WorldNext
    /\ UNCHANGED <<counter_vars, commander, client_vars, idle, lost, removed>>

Next ==
    \/ Serve \/ CommanderEnds \/ Counting \/ Threading \/ IdleNext
    \/ \E u \in Clients : ClientNext(u)
    \/ UpdateConfig \/ Remove \/ AskHangUp
    \/ World

Spec == Init /\ [][Next]_vars

\* What a client does of its own accord once it has asked.
GoesOn(u) ==
    \/ Unanswered(u) \/ StartRun(u) \/ NoMoreCameras(u)
    \/ Restart(u) \/ Finish(u) \/ CancelTask(u) \/ Release(u)

\* tokio polls every task that can run; a client's task ends once it has a camera
\* that works, and a permit held for its own sake is let go.  Nothing is assumed
\* of the network, of the camera, or of what is asked and configured.
Fairness ==
    /\ WF_vars(Serve \/ CommanderEnds) /\ WF_vars(Counting)
    /\ WF_vars(Threading) /\ WF_vars(IdleNext)
    /\ \A u \in Clients : WF_vars(GoesOn(u))
    /\ WF_vars(AskHangUp)

FairSpec == Spec /\ Fairness

-----------------------------------------------------------------------------
\* The type of every variable.
TypeOK ==
    /\ value \in 0 .. MaxAsks + 1 + MaxEvents
    /\ notifier \in Seq(BOOLEAN) /\ Len(notifier) <= NotiCap /\ drops \in Nat
    /\ thread \in {"top", "connecting", "settling", "up", "backoff", "ended"}
    /\ state \in {"Connected", "Disconnected"} /\ commander_up \in BOOLEAN
    /\ config \in Configs /\ using \in Configs
    /\ conn \in Nat /\ camera_watch \in 0 .. conn /\ cancelled \in BOOLEAN
    /\ link \in {"ok", "error", "silent"} /\ reachable \in BOOLEAN /\ events \in 0 .. MaxEvents
    /\ \A i \in DOMAIN commander :
          commander[i] \in [what : {"permit", "connect", "disconnect", "hangup"},
                            who : Clients \union {"idle", "red", "reactor"}]
    /\ Len(commander) <= CmdCap
    /\ user \in [Clients -> {"off", "asked", "gone", "hold", "wait", "run"}]
    /\ cam \in [Clients -> 0 .. conn] /\ asks \in 0 .. MaxAsks
    /\ idle \in Watching \union {"green", "red", "turning on", "ended"}
    /\ lost \in 0 .. MaxEvents + 1
    /\ removed \in {"kept", "dropping", "dropped"}

-----------------------------------------------------------------------------
(* Safety.                                                                 *)

\* When the messages under way have been counted, the count is that of the permits
\* in use and of the deactivations that were cut off while they waited for room,
\* and of nothing else: however permits are dropped or abandoned meanwhile, no
\* other use stays counted and none is missed.  And no message to take a use away
\* can overtake the one that added it, so the u32 never wraps.
CountIsExact ==
    commander_up =>
        /\ Users = Cardinality(Holding) + lost + IF idle \in CountsItself THEN 1 ELSE 0
        /\ \A n \in 0 .. Len(notifier) : value + Sent(TRUE, n) >= Sent(FALSE, n)

\* The watch names the connection the thread keeps, and none while it keeps
\* none: a task never waits on a connection that was given up.
WatchIsLive == camera_watch # 0 => thread = "up" /\ camera_watch = conn

-----------------------------------------------------------------------------
(* Liveness.                                                               *)

\* The thread waits for an answer that will not come, from a connection that
\* was lost between login and publication.
Stuck == thread = "settling" /\ link = "silent"

\* A task that a client has asked for is run to its end, through permits, the
\* idle task's wake-up, reconnections and changes of configuration, unless the
\* camera cannot be reached or the thread is stuck.  A disconnection that races
\* with the request only delays it.
TaskEnds == \A u \in Tasks : user[u] = "asked" ~> user[u] = "off" \/ ~reachable \/ Stuck

\* A changed configuration is taken up, by a new connection if there was one.
ConfigTakenUp ==
    \A n \in 1 .. MaxEvents :
        config.v = n ~> using.v >= n \/ state = "Disconnected" \/ thread = "ended"

\* Once idle_disconnect is off the camera is kept online, also when that comes
\* in the middle of a disconnection.
OnlineUnlessIdle ==
    ~config.idle /\ state = "Disconnected" ~> state = "Connected" \/ config.idle \/ cancelled

\* When its last user has gone the camera is disconnected, unless it is used
\* again meanwhile (if only so shortly that the idle task then waits for the
\* next use), or need not be.
IdleSaves ==
    idle = "linger" ~>
        state = "Disconnected" \/ value > 0 \/ ~config.idle \/ cancelled \/ removed # "kept"

\* README.md:917 "When `idle_disconnect = true` neolink will disconnect from the camera
\* 30s after it stops being used": once nobody holds a permit the idle task sees it,
\* and its 30 s begin.
LingersWhenUnused ==
    idle = "empty" /\ Holding = {} ~>
        idle # "empty" \/ Holding # {} \/ ~config.idle \/ cancelled \/ removed # "kept"

\* A camera that is given up lets go of all its clients.
AllTold ==
    cancelled ~> (thread = "ended" /\ \A u \in Clients : user[u] = "off") \/ ~reachable \/ Stuck

\* neocam.rs: "It will keep it logged and reconnect".
KeepsConnected ==
    <>[](state = "Connected" /\ reachable /\ ~cancelled) => []<>(camera_watch # 0)
=============================================================================
