------------------------------- MODULE MCRtsp -------------------------------
(* A client of one stream that comes and goes, for a camera whose audio may *)
(* change from a kind that negotiates to one that does not, and back.       *)
EXTENDS RtspMedia

SomeWorks == [audio \in {"aac", "raw"} |-> IF audio = "aac" THEN {"generic"} ELSE {}]

\* The camera begins with the kind that negotiates; a stream that pauses has more that
\* can happen to it, and so less of it.
Small ==
    /\ "aac" \in encoder.past
    /\ on_motion => events < MaxEvents /\ encoder.past = {"aac"}
=============================================================================
