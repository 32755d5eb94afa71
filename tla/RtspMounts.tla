----------------------------- MODULE RtspMounts -----------------------------
(***************************************************************************)
(* Which factory answers on which path of the RTSP server: main and        *)
(* camera_main of src/rtsp/mod.rs with stream_main of src/rtsp/stream.rs,  *)
(* for one camera.  For each stream that is configured a branch mounts a   *)
(* dummy factory, waits until the camera is known to have the stream and   *)
(* then mounts one of its own.  The branches run side by side; a change of *)
(* the configuration drops all of them and starts again, and a branch that *)
(* ends takes the others with it.  What is mounted is only ever replaced.  *)
(***************************************************************************)
EXTENDS Naturals, Sequences

CONSTANTS
    Streams,   \* the streams a camera may have, in the order of their rank
    Choices,   \* what config.stream may name of them
    Reports,   \* what the camera may report of them
    MaxChanges \* what the user and the camera do, all together

Streamed == {Streams[i] : i \in 1..Len(Streams)}

ASSUME MountsAssumption ==
    /\ Streams \in Seq(Streamed) /\ "bare" \notin Streamed
    /\ Choices \subseteq SUBSET Streamed /\ MaxChanges \in Nat

VARIABLES
    wanted,    \* the configuration: whether the camera is in it, its streams, and a version of the rest
    cameras,   \* main's map, and its task for the camera: none, up, failed or cancelled
    mounted,   \* what answers on each path
    branch,    \* how far the branch of each stream is
    following, \* the configuration that camera_main last looked at
    supported, \* the watch of the streams the camera has
    poll,      \* the task that asks for them: on, or failed
    has,       \* the streams the camera reports
    changes

mount_vars == <<wanted, cameras, mounted, branch, following, supported, poll, has, changes>>

Rank(s) == CHOOSE i \in 1..Len(Streams) : Streams[i] = s
Paths == Streamed \union {"bare"}
Off == [s \in Streamed |-> "off"]
Nothing == [kind |-> "nothing", of |-> "nothing", version |-> 0]
Configs == [in : BOOLEAN, streams : Choices, version : 0..MaxChanges]

\* The branches of the streams that are configured.
Branches(config) == [s \in Streamed |-> IF s \in config.streams THEN "mount" ELSE "off"]

MountsInit ==
    /\ wanted \in {config \in Configs : config.in /\ config.version = 0}
    /\ cameras = "none" /\ mounted = [p \in Paths |-> Nothing]
    /\ branch = Off /\ following = wanted
    /\ supported = {} /\ poll = "on" /\ has \in Reports /\ changes = 0

Changes == changes < MaxChanges /\ changes' = changes + 1

\* main: a camera that is new in the configuration gets a task of its own.
StartCamera ==
    /\ wanted.in /\ cameras = "none"
    /\ cameras' = "up" /\ following' = wanted /\ branch' = Branches(wanted)
    /\ UNCHANGED <<wanted, mounted, supported, poll, has, changes>>

\* Its entry stays when it leaves: only the task is cancelled.
StopCamera ==
    /\ ~wanted.in /\ cameras \in {"up", "failed"}
    /\ cameras' = "cancelled" /\ branch' = Off /\ poll' = "failed"
    /\ UNCHANGED <<wanted, mounted, following, supported, has, changes>>

\* The best of the streams that are configured has the bare path as well.
HasBarePath(s) == \A t \in following.streams : Rank(s) <= Rank(t)

\* A mutant: the second stream does not look for the first.
PathsOfSecond(s) == {s} \union (IF HasBarePath(s) \/ s = Streams[2] THEN {"bare"} ELSE {})

PathsOf(s) == {s} \union (IF HasBarePath(s) THEN {"bare"} ELSE {})

Mount(s, kind) ==
    mounted' = [p \in Paths |-> IF p \in PathsOf(s) THEN [kind |-> kind, of |-> s, version |-> following.version]
                                ELSE mounted[p]]

\* make_dummy_factory: there is something on the paths from the start.
MountDummy(s) ==
    /\ branch[s] = "mount" /\ Mount(s, "dummy")
    /\ branch' = [branch EXCEPT ![s] = "wait"]
    /\ UNCHANGED <<wanted, cameras, following, supported, poll, has, changes>>

\* stream_main, once the watch says that the camera has the stream.
MountStream(s) ==
    /\ branch[s] = "wait" /\ s \in supported /\ Mount(s, "real")
    /\ branch' = [branch EXCEPT ![s] = "serve"]
    /\ UNCHANGED <<wanted, cameras, following, supported, poll, has, changes>>

\* wait_for fails when nobody can tell any more: the other branches are dropped, and
\* nobody looks at the result.
NeverSupported(s) ==
    /\ branch[s] = "wait" /\ s \notin supported /\ poll = "failed"
    /\ branch' = Off /\ cameras' = "failed"
    /\ UNCHANGED <<wanted, mounted, following, supported, poll, has, changes>>

\* A mutant: the branches of streams that are still wanted go on.
RestartSome ==
    /\ cameras = "up" /\ following # wanted
    /\ following' = wanted
    /\ branch' = [s \in Streamed |-> IF s \notin wanted.streams THEN "off"
                                  ELSE IF branch[s] = "off" THEN "mount" ELSE branch[s]]
    /\ UNCHANGED <<wanted, cameras, mounted, supported, poll, has, changes>>

\* stream, permitted_users or use_splash has changed: everything begins again.
Restart ==
    /\ cameras = "up" /\ following # wanted
    /\ following' = wanted /\ branch' = Branches(wanted)
    /\ UNCHANGED <<wanted, cameras, mounted, supported, poll, has, changes>>

\* Every fifteen seconds.
Poll ==
    /\ cameras = "up" /\ poll = "on"
    /\ supported' = has
    /\ UNCHANGED <<wanted, cameras, mounted, branch, following, poll, has, changes>>

\* get_stream_info fails for good: the task ends.
PollFails ==
    /\ cameras = "up" /\ poll = "on" /\ Changes
    /\ poll' = "failed"
    /\ UNCHANGED <<wanted, cameras, mounted, branch, following, supported, has>>

Reconfigure ==
    /\ Changes
    /\ wanted' \in {config \in Configs : config.version = wanted.version + 1}
    /\ UNCHANGED <<cameras, mounted, branch, following, supported, poll, has>>

\* The camera reports other streams than before.
CameraChanges ==
    /\ Changes
    /\ has' \in Reports \ {has}
    /\ UNCHANGED <<wanted, cameras, mounted, branch, following, supported, poll>>

Branch(s) == MountDummy(s) \/ MountStream(s) \/ NeverSupported(s)

MountsNext ==
    \/ StartCamera \/ StopCamera \/ Restart \/ Poll \/ PollFails \/ Reconfigure \/ CameraChanges
    \/ \E s \in Streamed : Branch(s)

\* Whatever waits for a watch or a timer is woken.
MountsSpec ==
    /\ MountsInit /\ [][MountsNext]_mount_vars
    /\ WF_mount_vars(StartCamera) /\ WF_mount_vars(StopCamera) /\ WF_mount_vars(Restart) /\ WF_mount_vars(Poll)
    /\ \A s \in Streamed : WF_mount_vars(Branch(s))

-----------------------------------------------------------------------------
\* Once a stream is served, it and nothing else answers on its paths, as it is
\* configured now, the bare path among them if there is no better stream: whichever
\* branch was faster, and whatever was mounted for an earlier configuration
\* (camera_main's three branches, mod.rs).
PathsAreServed ==
    \A s \in Streamed : branch[s] = "serve" =>
        /\ \A p \in PathsOf(s) : mounted[p] = [kind |-> "real", of |-> s, version |-> following.version]
        /\ (\A t \in following.streams : Rank(s) <= Rank(t)) => mounted["bare"].of = s

\* A stream that the camera has and the configuration wants is served in the end, after
\* any change of either, unless the camera left the configuration or its task failed.
Able(s) == cameras = "up" /\ poll = "on" /\ wanted.in /\ s \in wanted.streams /\ s \in has
Serves(s) == mounted[s].kind = "real" /\ mounted[s].version = wanted.version
StreamsArrive == \A s \in Streamed : Able(s) ~> Serves(s) \/ ~Able(s)
=============================================================================
