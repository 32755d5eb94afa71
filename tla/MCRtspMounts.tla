---------------------------- MODULE MCRtspMounts ----------------------------
(* One camera with its three streams, and what config.stream can be. *)
EXTENDS RtspMounts

ThreeStreams == <<"main", "sub", "extern">>
All == {"main", "sub", "extern"}
SomeChoices == {{}, {"main"}, {"sub"}, {"extern"}, {"main", "sub"}, All}
SomeReports == {{}, {"main", "sub"}, All}
=============================================================================
