----------------------------- MODULE UseCounter -----------------------------
(***************************************************************************)
(* The counter of the users of a camera: src/common/usecounter.rs.  A      *)
(* permit adds one when it is activated and takes one away when it is      *)
(* deactivated or dropped, by messages to a task that alone keeps the      *)
(* value; whoever cares watches the value.                                 *)
(***************************************************************************)
EXTENDS Integers, Sequences, FiniteSets

CONSTANT NotiCap   \* capacity of the notifier channel (100)

ASSUME CounterAssumption == NotiCap \in Nat \ {0}

VARIABLES
    value,      \* the watch value (a u32)
    notifier,   \* messages to the counting task: TRUE adds, FALSE takes away
    drops       \* messages of dropped permits whose task has not sent yet

counter_vars == <<value, notifier, drops>>

CounterInit == value = 0 /\ notifier = <<>> /\ drops = 0

\* activate or deactivate: waits for room in the channel.
Notify(active) == Len(notifier) < NotiCap /\ notifier' = Append(notifier, active)

\* The task spawned by a dropped permit gets its message in.
SpawnedSend ==
    /\ drops > 0 /\ Notify(FALSE)
    /\ drops' = drops - 1
    /\ UNCHANGED value

\* The counting task takes a message.
Count ==
    /\ notifier # <<>>
    /\ value' = IF Head(notifier) THEN value + 1 ELSE value - 1
    /\ notifier' = Tail(notifier)
    /\ UNCHANGED drops

\* Messages `active` among the first n.
Sent(active, n) == Cardinality({i \in 1 .. n : notifier[i] = active})

\* The users the counter will have counted when its channel is empty.
Users == value + Sent(TRUE, Len(notifier)) - Sent(FALSE, Len(notifier)) - drops
=============================================================================
