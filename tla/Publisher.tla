----------------------------- MODULE Publisher ------------------------------
(***************************************************************************)
(* What the MQTT client promises those who publish through it: a message   *)
(* waits until the client has taken it, its sender is told then and not    *)
(* before, it is taken once, and what was taken is published in the order  *)
(* it was taken in, unless the connection that took it is lost.            *)
(***************************************************************************)
EXTENDS Sequences

CONSTANTS
    Senders,
    Notices  \* what the connection says of its own

VARIABLES
    waits,   \* what each sender waits to have taken: at most one message
    given,   \* messages whose sender gave up, with whom they came from
    taken    \* the messages taken and not yet published, in order

pvars == <<waits, given, taken>>

PInit == waits = [s \in Senders |-> {}] /\ given = {} /\ taken = <<>>

\* A sender that waits for nothing offers a message.
Offer(s) ==
    /\ waits[s] = {} /\ UNCHANGED <<given, taken>>
    /\ \E m \in waits'[s] : waits' = [waits EXCEPT ![s] = {m}]

\* Senders give up: what they waited for may still be taken.
GiveUp ==
    /\ UNCHANGED taken
    /\ waits' = [s \in Senders |-> waits'[s]]
    /\ \A s \in Senders : waits'[s] \in {waits[s], {}}
    /\ given' = given \union UNION {waits[s] \ waits'[s] : s \in Senders}

Take(s, m) ==
    /\ waits' = [waits EXCEPT ![s] = {}]
    /\ taken' = Append(taken, m) /\ UNCHANGED given

TakeGiven(m) ==
    /\ given' = given \ {m}
    /\ taken' = Append(taken, m) /\ UNCHANGED waits

Issue == taken # <<>> /\ taken' = Tail(taken) /\ UNCHANGED <<waits, given>>

\* The connection is lost with what it had taken, or says one thing more of its
\* own: that it is connected, or would subscribe.
Lose == taken' = <<>> /\ UNCHANGED <<waits, given>>
Announce ==
    /\ \E m \in Notices : taken' = Append(taken, m)
    /\ UNCHANGED <<waits, given>>

PNext ==
    \/ Lose \/ Issue \/ GiveUp \/ Announce
    \/ \E s \in Senders : Offer(s) \/ \E m \in waits[s] : Take(s, m)
    \/ \E m \in given : TakeGiven(m)

PSpec == PInit /\ [][PNext]_pvars
=============================================================================
