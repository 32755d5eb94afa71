------------------------------- MODULE MCMqtt -------------------------------
EXTENDS Mqtt

MCHandlers == {"h1"}
MCSenders == {"main", "status", "motion", "ai", "config", "setter", "h1"}
MCTopics == {"neolink", "status", "motion", "ai", "people", "config", "control", "config/status"}
MCValues ==
    {"connected", "subscribe", "disconnected", "offline", "unknown", "on", "off", "people", "none",
     "OK", "FAIL", "all", "less"}

\* Of requests, changes and lost connections, two altogether, of which one
\* while the topics are seeded.
Bounded ==
    asked + changes + drops <= (IF listener \in 1 .. Seeded THEN 1 ELSE 2)
=============================================================================
