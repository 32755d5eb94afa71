------------------------------ MODULE MCConnect ------------------------------
(* Instances of Connect for TLC. *)
EXTENDS Connect

\* Every method by TCP and UDP; the other protocols with one method.
MCOptions ==
    [method : Methods \ {"None"}, proto : {"TcpUdp"}, uid : {TRUE}]
    \union [method : {"None"}, proto : {"Tcp", "Udp"}, uid : BOOLEAN]

=============================================================================
