-------------------------- MODULE MCSocketLifecycle --------------------------
(* Model-checking instance of SocketLifecycle.  Sockets, control threads   *)
(* and senders are model values given in the cfg files.  The runs check a *)
(* liveness property, so they use no symmetry.                             *)
EXTENDS SocketLifecycle
=============================================================================
