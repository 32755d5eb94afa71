------------------------------- MODULE Connect -------------------------------
(***************************************************************************)
(* connect_and_login (src/utils.rs): a camera is found, a connection made  *)
(* to where it was found, and logged in to under a timeout.  The camera    *)
(* thread tries again when it fails (see CamThread).                       *)
(***************************************************************************)
EXTENDS Discovery, Login

vars == <<dvars, lvars>>

Init == DInit /\ LInit

Found == outcome \in Dests \union Paths \union {"tcp"}

\* find_camera has returned: its Discoveries are dropped, and with them their
\* tasks and every attempt.
DropDiscoveries ==
    /\ at' = [a \in Attempts |-> "idle"] /\ tid' = [a \in Attempts |-> 0]
    /\ tcp' = 0 /\ asked' = {} /\ reg' = NoReg /\ permit' = "free" /\ tried' = {} /\ sent' = {}
    /\ retry' = 0 /\ outcome' = "found" /\ UNCHANGED opt

\* BcCamera::new: the connection to what was found may still fail.
Connect ==
    /\ Found
    /\ \/ StartLogin
       \/ step' = "failed" /\ UNCHANGED <<num, cipher, bin, camCipher, up, down, requests, loggedIn, able, misread>>
    /\ DropDiscoveries

Use == outcome = "found" /\ LNext /\ UNCHANGED dvars

Next == (DNext /\ UNCHANGED lvars) \/ Connect \/ Use

\* Every attempt is under a timeout and the permit's holder is too.
Spec == Init /\ [][Next]_vars /\ WF_vars(DNext /\ UNCHANGED lvars) /\ WF_vars(Connect)
        /\ WF_vars(LoginTimeout /\ UNCHANGED dvars)
-----------------------------------------------------------------------------
\* With a limit on the retries, connect_and_login returns, whatever the servers
\* and the camera do: no attempt waits for another that has been dropped.
ConnectEnds == <>(outcome \in {"DiscoveryTimeout", "CannotInitCamera"} \/ step \in {"in", "out", "failed"})

=============================================================================
