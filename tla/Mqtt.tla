-------------------------------- MODULE Mqtt --------------------------------
(***************************************************************************)
(* The mqtt command, src/mqtt/mod.rs, for one camera: what follows the     *)
(* configuration and starts a listener for the camera; the listener, which *)
(* seeds the retained topics and then runs, until one of them fails, a     *)
(* task for each thing it publishes and one that answers requests; and the *)
(* configuration, which is published and may be set.  The camera's state   *)
(* is what the watches of the other parts say.                             *)
(***************************************************************************)
EXTENDS MqttClient, MqttRequests

CONSTANTS
    Handlers,    \* requests answered at a time
    Configs,     \* configurations
    EnabledIn,   \* those in which the camera is enabled
    Requests,    \* requests that come from outside
    MaxRequests, \* their number, and that of configurations that come
    MaxChanges   \* changes of the camera's state and errors, altogether

ASSUME MqttAssumption ==
    /\ Senders = {"main", "status", "motion", "ai", "config", "setter"} \union Handlers
    /\ Handlers \intersect {"main", "status", "motion", "ai", "config", "setter"} = {}
    /\ EnabledIn \subseteq Configs
    /\ MaxRequests \in Nat /\ MaxChanges \in Nat
    /\ {"connected", "subscribe", "disconnected", "unknown", "on", "off", "people", "none", "OK", "FAIL"}
         \union Configs \subseteq Values
    /\ {"neolink", "status", "motion", "ai", "people", "config", "control", "config/status"} = Topics

VARIABLES
    config,    \* the configuration in use
    posted,    \* the configuration last published
    setting,   \* whether the task that reads configurations still runs
    names,     \* whether the supervisor knows the camera as enabled
    listener,  \* None, the seeding's step, Listen or Ended
    world,     \* the watches: online, md, and the AI state of one type
    status,    \* what the connection loop waits for next
    motion,    \* what the motion loop waits for next
    detect,    \* the AI loop: published, whether it has news, heard, to send
    handler,   \* what each handler does
    asked, ran, \* requests from outside, and those run
    refused,   \* requests read that were passed over
    changes

mqvars == <<config, posted, setting, names, listener, world, status, motion, detect, handler,
            asked, ran, refused, changes>>
vars == <<cvars, mqvars>>

\* What the listener publishes before it listens, and the wills it leaves.
Seeds ==
    << [topic |-> "status", val |-> "disconnected", will |-> FALSE],
       [topic |-> "status", val |-> "disconnected", will |-> TRUE],
       [topic |-> "motion", val |-> "unknown", will |-> FALSE],
       [topic |-> "motion", val |-> "unknown", will |-> TRUE],
       [topic |-> "ai", val |-> "unknown", will |-> FALSE],
       [topic |-> "people", val |-> "unknown", will |-> FALSE],
       [topic |-> "ai", val |-> "unknown", will |-> TRUE] >>

None == 0
Seeded == Len(Seeds) + 1
Listen == Seeded + 1
Ended == Listen + 1

NewDetect == [published |-> "unseen", news |-> TRUE, heard |-> FALSE, todo |-> <<>>]

Init ==
    /\ CInit
    /\ config \in Configs /\ posted = "nothing" /\ setting = TRUE
    /\ names = FALSE /\ listener = None
    /\ world = [online |-> FALSE, md |-> "Unknown", ai |-> "unseen"]
    /\ status = "online" /\ motion = "Start" /\ detect = NewDetect
    /\ handler = [h \in Handlers |-> "free"]
    /\ asked = 0 /\ ran = 0 /\ refused = {} /\ changes = 0
-----------------------------------------------------------------------------
(* main: the supervisor of the cameras.                                    *)

Enabled == config \in EnabledIn
OfListener == {"main", "status", "motion", "ai"} \union Handlers
World == <<config, posted, setting, world, asked, ran, refused, changes>>
Client == <<client, backend, subscribed, wills, retained, stale, drops>>
Tasks == <<status, motion, detect, handler>>

\* The listener's future is dropped with its tasks, and what they had posted stays.
StopAt(step) ==
    /\ listener' = step /\ Abandon(OfListener)
    /\ status' = "online" /\ motion' = "Start" /\ detect' = NewDetect
    /\ handler' = [h \in Handlers |-> "free"]
    /\ inbox' = [inbox EXCEPT !["control"] = {}] /\ lagged' = lagged \ {"control"}

\* A camera is started the first time it is seen, and cancelled when it goes.
Supervise ==
    /\ Enabled # names /\ names' = Enabled
    /\ IF Enabled
       THEN /\ listener' = IF listener = None THEN 1 ELSE listener
            /\ UNCHANGED <<place, msg, given, late, inbox, lagged, Tasks>>
       ELSE StopAt(Ended)
    /\ UNCHANGED <<Client, World>>

\* What a task returns in error, or a new mqtt section, starts the listener again.
Again ==
    /\ listener \notin {None, Ended} /\ changes < MaxChanges /\ changes' = changes + 1
    /\ StopAt(1)
    /\ UNCHANGED <<Client, config, posted, setting, world, asked, ran, refused, names>>
-----------------------------------------------------------------------------
(* listen_on_camera: the retained topics are seeded, then the tasks run.   *)

Seed ==
    /\ listener \in 1 .. Len(Seeds) /\ ~Waits("main") /\ listener' = listener + 1
    /\ LET seed == Seeds[listener] IN
       \/ /\ ~seed.will /\ Post("main", seed.topic, seed.val, TRUE)
          /\ UNCHANGED wills
       \/ /\ seed.will /\ backend # "off" /\ wills' = wills \union {seed.topic}
          /\ UNCHANGED <<place, msg>>
    /\ UNCHANGED <<given, late, client, backend, subscribed, retained, stale, inbox, lagged, drops>>
    /\ UNCHANGED <<World, Tasks, names>>

\* The task that reads requests subscribes, and reads from then on.
StartTasks ==
    /\ listener = Seeded /\ ~Waits("main") /\ backend # "off" /\ listener' = Listen
    /\ inbox' = [inbox EXCEPT !["control"] = {}] /\ lagged' = lagged \ {"control"}
    /\ UNCHANGED <<place, msg, given, late, Client, World, Tasks, names>>

\* A task of the listener publishes a retained topic and waits for it to be taken.
Publish(task, topic, val) ==
    /\ listener = Listen /\ Post(task, topic, val, TRUE)
    /\ UNCHANGED <<given, late, Client, inbox, lagged, World, names, listener, handler>>

\* The camera came, or went.
ConnectLoop ==
    /\ \/ /\ status = "online" /\ world.online /\ status' = "offline"
          /\ Publish("status", "status", "connected")
       \/ /\ status = "offline" /\ ~world.online /\ status' = "online"
          /\ Publish("status", "status", "disconnected")
    /\ UNCHANGED <<motion, detect>>

\* Motion started, or stopped.
MotionLoop ==
    /\ \/ /\ motion = "Start" /\ world.md = "Start" /\ motion' = "Stop"
          /\ Publish("motion", "motion", "on")
       \/ /\ motion = "Stop" /\ world.md = "Stop" /\ motion' = "Start"
          /\ Publish("motion", "motion", "off")
    /\ UNCHANGED <<status, detect>>

\* The AI state is read: a detection that is not as last published is to be
\* sent and, after the first time, the summary.
AiLook ==
    /\ listener = Listen /\ ~Waits("ai") /\ detect.todo = <<>> /\ detect.news
    /\ LET type == IF world.ai \in {"unseen", detect.published} THEN <<>>
                   ELSE << [topic |-> "people", val |-> world.ai] >>
           summary == IF ~detect.heard THEN <<>>
                      ELSE << [topic |-> "ai", val |-> IF world.ai = "on" THEN "people" ELSE "none"] >>
       IN  detect' = [published |-> world.ai, news |-> FALSE, heard |-> TRUE, todo |-> type \o summary]
    /\ UNCHANGED <<cvars, World, names, listener, status, motion, handler>>

\* A mutant: the watch is marked as seen after sending too.
AiSendSeen ==
    /\ detect.todo # <<>> /\ detect' = [detect EXCEPT !.todo = Tail(@), !.news = FALSE]
    /\ Publish("ai", Head(detect.todo).topic, Head(detect.todo).val)
    /\ UNCHANGED <<status, motion>>

AiSend ==
    /\ detect.todo # <<>> /\ detect' = [detect EXCEPT !.todo = Tail(@)]
    /\ Publish("ai", Head(detect.todo).topic, Head(detect.todo).val)
    /\ UNCHANGED <<status, motion>>

\* A request is read and given a task of its own.
Read(h) ==
    /\ listener = Listen /\ "control" \notin lagged /\ handler[h] = "free"
    /\ \E request \in inbox["control"] :
       /\ inbox' = [inbox EXCEPT !["control"] = @ \ {request}]
       /\ handler' = [handler EXCEPT ![h] = IF ArmsOf(request) = {} THEN "free" ELSE "run"]
       /\ refused' = IF ArmsOf(request) = {} THEN refused \union {request} ELSE refused
       /\ ran' = ran + Cardinality(ArmsOf(request))
    /\ UNCHANGED <<place, msg, given, late, Client, lagged, names, listener, status, motion, detect>>
    /\ UNCHANGED <<config, posted, setting, world, asked, changes>>

\* The camera's task ends, well or not, and that is said on the request's topic.
Reply(h) ==
    /\ listener = Listen
    /\ \/ /\ handler[h] = "run" /\ handler' = [handler EXCEPT ![h] = "reply"]
          /\ \E reply \in Replies : Post(h, "control", reply, FALSE)
       \/ /\ handler[h] = "reply" /\ ~Waits(h) /\ handler' = [handler EXCEPT ![h] = "free"]
          /\ UNCHANGED <<place, msg>>
    /\ UNCHANGED <<given, late, Client, inbox, lagged, World, names, listener, status, motion, detect>>

\* The reader is behind: its loop ends without an error, and so the listener.
Behind ==
    /\ listener = Listen /\ "control" \in lagged
    /\ StopAt(Ended)
    /\ UNCHANGED <<Client, World, names>>
-----------------------------------------------------------------------------
(* main: the configuration is published, and read.                         *)

PostConfig ==
    /\ posted # config /\ Post("config", "config", config, TRUE) /\ posted' = config
    /\ UNCHANGED <<given, late, Client, inbox, lagged, Tasks, names, listener>>
    /\ UNCHANGED <<config, setting, world, asked, ran, refused, changes>>

\* A mutant: what was just received is not published again.
SetConfigKnown ==
    /\ setting /\ ~Waits("setter") /\ "config" \notin lagged
    /\ \E new \in inbox["config"] :
       /\ inbox' = [inbox EXCEPT !["config"] = @ \ {new}]
       /\ config' = IF new \in Configs THEN new ELSE config
       /\ posted' = config'
       /\ IF new = config THEN UNCHANGED <<place, msg>>
          ELSE Post("setter", "config/status", IF new \in Configs THEN "OK" ELSE "FAIL", FALSE)
    /\ UNCHANGED <<given, late, Client, lagged, Tasks, names, listener>>
    /\ UNCHANGED <<setting, world, asked, ran, refused, changes>>

\* A configuration that is not that in use is put in use, one that is not valid
\* refused, and the outcome published.
SetConfig ==
    /\ setting /\ ~Waits("setter") /\ "config" \notin lagged
    /\ \E new \in inbox["config"] :
       /\ inbox' = [inbox EXCEPT !["config"] = @ \ {new}]
       /\ config' = IF new \in Configs THEN new ELSE config
       /\ IF new = config THEN UNCHANGED <<place, msg>>
          ELSE Post("setter", "config/status", IF new \in Configs THEN "OK" ELSE "FAIL", FALSE)
    /\ UNCHANGED <<given, late, Client, lagged, Tasks, names, listener>>
    /\ UNCHANGED <<posted, setting, world, asked, ran, refused, changes>>

\* When it is behind, the task ends, and no configuration is read any more.
SetBehind ==
    /\ setting /\ ~Waits("setter") /\ "config" \in lagged /\ setting' = FALSE
    /\ UNCHANGED <<cvars, Tasks, names, listener, config, posted, world, asked, ran, refused, changes>>
-----------------------------------------------------------------------------
(* The rest of the program, and the world.                                 *)

\* The camera's state changes.
Change ==
    /\ changes < MaxChanges /\ changes' = changes + 1
    /\ \/ /\ world' = [world EXCEPT !.online = ~@] /\ UNCHANGED detect
       \/ /\ \E md \in {"Start", "Stop"} \ {world.md} : world' = [world EXCEPT !.md = md]
          /\ UNCHANGED detect
       \/ /\ \E ai \in {"on", "off"} \ {world.ai} : world' = [world EXCEPT !.ai = ai]
          /\ detect' = [detect EXCEPT !.news = TRUE]
    /\ UNCHANGED <<cvars, config, posted, setting, asked, ran, refused, names, listener, status, motion, handler>>

\* Somebody publishes a request.
Ask(request) ==
    /\ subscribed /\ asked < MaxRequests /\ asked' = asked + 1
    /\ Hear([topic |-> "control", val |-> request])
    /\ UNCHANGED <<place, msg, given, late, Client, Tasks, names, listener>>
    /\ UNCHANGED <<config, posted, setting, world, ran, refused, changes>>

\* Somebody publishes a configuration, to be retained or not.
Configure(new) ==
    /\ subscribed /\ asked < MaxRequests /\ asked' = asked + 1
    /\ Hear([topic |-> "config", val |-> new])
    /\ \/ UNCHANGED <<retained, stale>>
       \/ /\ retained' = [retained EXCEPT !["config"] = new]
          /\ stale' = stale \union {"config"}
    /\ UNCHANGED <<place, msg, given, late, client, backend, subscribed, wills, drops>>
    /\ UNCHANGED <<Tasks, names, listener, config, posted, setting, world, ran, refused, changes>>

Next ==
    \/ CNext /\ UNCHANGED mqvars
    \/ Supervise \/ Again \/ Seed \/ StartTasks \/ ConnectLoop \/ MotionLoop
    \/ AiLook \/ AiSend \/ Behind \/ PostConfig \/ SetConfig \/ SetBehind \/ Change
    \/ \E h \in Handlers : Read(h) \/ Reply(h)
    \/ \E request \in Requests : Ask(request)
    \/ \E new \in Configs \union {"bad"} : Configure(new)

Spec == Init /\ [][Next]_vars
-----------------------------------------------------------------------------
Quiet == \A s \in Senders : ~Waits(s)

\* None of the listener's loops has anything to send: what each waits for next has
\* not come, and no news of the AI state is unread.
NothingDue ==
    /\ status = (IF world.online THEN "offline" ELSE "online")
    /\ world.md # motion
    /\ detect.todo = <<>> /\ ~detect.news

\* Once the listener has nothing left to send and the broker has it all, what is
\* retained is what the camera is: whether it is connected, whether there is
\* motion, and whether something is detected.  (listen_on_camera's loops, which
\* read watches while others wait for the broker.)
StatusFollows ==
    listener = Listen /\ Quiet /\ NothingDue =>
        /\ Settled("status") => (retained["status"] = "connected") = world.online
        /\ Settled("motion") => (retained["motion"] = "on") = (world.md = "Start")
        /\ Settled("people") => (retained["people"] = "on") = (world.ai = "on")
        /\ Settled("ai") /\ retained["ai"] # "unknown" =>
               retained["ai"] = IF world.ai = "on" THEN "people" ELSE "none"

\* What neolink publishes is never taken for a request, though all of it comes
\* back to it: no more is run than was asked.  (handle_mqtt_message.)
NoEcho == ran <= asked

\* What Home Assistant is told it may send is always understood.
\* (enable_discovery beside handle_mqtt_message.)
DiscoveredWorks == refused \intersect Discovered = {}

\* Once all is sent, the configuration retained is that in use, unless
\* somebody else's was retained since neolink last published its own.
\* (main's two tasks, of which one publishes what the other sets.)
ConfigPosted ==
    Quiet /\ posted = config /\ Settled("config") => retained["config"] = config

\* The client keeps its promise to those who publish: what is posted is taken
\* once, its sender told then and not before, and issued in order; an abandoned
\* message may still be taken.  (mqttc.rs, in all that main and the listener do.)
Implements == Promise!PSpec

\* A camera that is enabled is listened to, or about to be.  (mod.rs: "Startup
\* and stop cameras as they are added/removed to the config".)
Served == names /\ Enabled => listener # Ended
=============================================================================
