------------------------------ MODULE MCEvents ------------------------------
(* Instances of OnvifEvents for TLC. *)
EXTENDS OnvifEvents

Ev(ours, status, types, zones) == [ours |-> ours, status |-> status, types |-> types, zones |-> zones]

\* Nothing any more; motion alone; a report split in two; another channel's.
MCAlarms == {
    <<Ev(TRUE, "none", {}, {})>>,
    <<Ev(TRUE, "MD", NoAiType, {})>>,
    <<Ev(TRUE, "MD", {"people"}, {}), Ev(TRUE, "none", {}, {"zone"})>>,
    <<Ev(FALSE, "MD", {"people"}, {})>> }

=============================================================================
