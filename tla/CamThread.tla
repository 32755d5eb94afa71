----------------------------- MODULE CamThread ------------------------------
(***************************************************************************)
(* The thread that keeps a camera connected, src/common/camthread.rs: it   *)
(* follows the wanted state and the configuration, publishes the           *)
(* connection it has made in a watch, and makes another one when that      *)
(* fails.  The camera and the network are external.                        *)
(***************************************************************************)
EXTENDS Integers

CONSTANTS
    MaxEvents   \* faults, configuration updates and removals, altogether

ASSUME ThreadAssumption == MaxEvents \in Nat

VARIABLES
    thread,        \* where the thread stands
    state,         \* the state wanted: "Connected" or "Disconnected"
    commander_up,  \* whether the sender of `state` exists
    config,        \* the camera's configuration, with its version
    using,         \* the configuration of the current attempt
    camera_watch,  \* the connection published, 0 for Weak::new()
    conn,          \* connections published so far
    cancelled,     \* the token shared by all the tasks of the camera
    link,          \* the connection, once made: "ok", "error" or "silent"
    reachable,     \* whether the camera accepts connections
    events         \* faults, updates and removals so far

thread_vars == <<thread, camera_watch, conn, using>>
world_vars == <<link, reachable, events>>
cam_thread_vars == <<thread_vars, world_vars, state, commander_up, config, cancelled>>

\* A configuration: its version, whether to disconnect when idle, and whether
\* the camera accepts its credentials.
Configs == [v : 0 .. MaxEvents, idle : BOOLEAN, good : BOOLEAN]

ThreadInit(initial) ==
    /\ thread = "top" /\ state = "Connected" /\ commander_up = TRUE
    /\ config = initial /\ using = initial
    /\ camera_watch = 0 /\ conn = 0 /\ cancelled = FALSE
    /\ link = "ok" /\ reachable = TRUE /\ events = 0

\* The connection, if there is one, is dropped and no longer published.
Unpublish == camera_watch' = 0 /\ link' = "ok"

\* The thread is over: its watch is closed and everyone is told.
End == thread' = "ended" /\ cancelled' = TRUE /\ Unpublish

-----------------------------------------------------------------------------
(* run                                                                     *)

StartConnect ==
    /\ thread = "top" /\ state = "Connected"
    /\ thread' = "connecting" /\ using' = config
    /\ UNCHANGED <<camera_watch, conn, world_vars, state, commander_up, config, cancelled>>

\* Nobody can ask for a connection any more.
Orphaned ==
    /\ thread = "top" /\ state # "Connected" /\ ~commander_up
    /\ End
    /\ UNCHANGED <<conn, using, reachable, events, state, commander_up, config>>

\* Faulty: does not look for a newer configuration while connected.
InterruptedByState ==
    /\ thread \in {"connecting", "settling", "up"}
    /\ state = "Disconnected"
    /\ thread' = "top" /\ Unpublish
    /\ UNCHANGED <<conn, using, reachable, events, state, commander_up, config, cancelled>>

\* The configuration has changed, or the camera is to be disconnected: the
\* attempt or the connection is dropped where it stands.
Interrupted ==
    /\ thread \in {"connecting", "settling", "up"}
    /\ config.v # using.v \/ state = "Disconnected"
    /\ thread' = "top" /\ Unpublish
    /\ UNCHANGED <<conn, using, reachable, events, state, commander_up, config, cancelled>>

-----------------------------------------------------------------------------
(* run_camera                                                              *)

LoginDone ==
    /\ thread = "connecting" /\ reachable /\ using.good
    /\ thread' = "settling"
    /\ UNCHANGED <<camera_watch, conn, using, world_vars, state, commander_up, config, cancelled>>

\* The one failure that is not retried.
LoginRefused ==
    /\ thread = "connecting" /\ reachable /\ ~using.good
    /\ End
    /\ UNCHANGED <<conn, using, reachable, events, state, commander_up, config>>

\* Between login and publication the thread asks for the camera's time; an
\* error is only logged, but an answer that does not come is waited for.
Publish ==
    /\ thread = "settling" /\ link # "silent"
    /\ thread' = "up" /\ conn' = conn + 1 /\ camera_watch' = conn + 1
    /\ UNCHANGED <<using, world_vars, state, commander_up, config, cancelled>>

\* Faulty: a lost connection is left in the watch during the backoff.
LostPublished ==
    /\ \/ thread = "connecting" /\ ~reachable
       \/ thread = "up" /\ link # "ok"
    /\ thread' = "backoff" /\ link' = "ok"
    /\ UNCHANGED <<camera_watch, conn, using, reachable, events, state, commander_up, config, cancelled>>

\* No connection, an error from its tasks or a ping, or six pings in a row
\* without an answer.
Lost ==
    /\ \/ thread = "connecting" /\ ~reachable
       \/ thread = "up" /\ link # "ok"
    /\ thread' = "backoff" /\ Unpublish
    /\ UNCHANGED <<conn, using, reachable, events, state, commander_up, config, cancelled>>

BackoffDone ==
    /\ thread = "backoff"
    /\ thread' = "top"
    /\ UNCHANGED <<camera_watch, conn, using, world_vars, state, commander_up, config, cancelled>>

\* Log out and shut down; only a published connection looks at the token.
CancelSeen ==
    /\ thread = "up" /\ cancelled
    /\ End
    /\ UNCHANGED <<conn, using, reachable, events, state, commander_up, config>>

ThreadNext ==
    \/ StartConnect \/ Orphaned \/ Interrupted
    \/ LoginDone \/ LoginRefused \/ Publish \/ Lost \/ BackoffDone \/ CancelSeen

-----------------------------------------------------------------------------
(* The camera and the network: external.                                   *)

\* The connection breaks, with an error or, when the camera closes it or the
\* path goes dead, without one; the camera may stay away.
Fault ==
    /\ events < MaxEvents
    /\ events' = events + 1
    /\ IF thread \in {"settling", "up"}
       THEN link' \in {"error", "silent"} /\ reachable' \in BOOLEAN
       ELSE reachable' = FALSE /\ UNCHANGED link
    /\ UNCHANGED <<thread_vars, state, commander_up, config, cancelled>>

\* A dead path comes back to life.
Heal ==
    /\ link = "silent" /\ reachable
    /\ link' = "ok"
    /\ UNCHANGED <<thread_vars, reachable, events, state, commander_up, config, cancelled>>

Return ==
    /\ ~reachable
    /\ reachable' = TRUE
    /\ UNCHANGED <<thread_vars, link, events, state, commander_up, config, cancelled>>

WorldNext == Fault \/ Heal \/ Return
=============================================================================
