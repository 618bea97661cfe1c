------------------------- MODULE MCSocketInitRetry -------------------------
(* Three ports; the OS hands them out in the order 1, 2, 3, as in the      *)
(* spec's port-collision scenario.  SocketInit is called for an ephemeral *)
(* port or for port 2.  The retry budget of 100 is scaled to 2, so that   *)
(* all three ports can be tried.                                           *)
EXTENDS SocketInitRetry

MCEphemeralOrder == <<1, 2, 3>>
=============================================================================
