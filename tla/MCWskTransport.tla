--------------------------- MODULE MCWskTransport ---------------------------
(* Two callers of WskInit; the provider reports either a dual-stack UDP    *)
(* transport (AF_UNSPEC) with a TCP one, or separate IPv4 and IPv6 UDP     *)
(* transports.  One buffer-overflow answer per caller lets the query loop  *)
(* go round once.                                                          *)
EXTENDS WskTransport

MCTransportLists ==
    { {[type |-> "dgram", proto |-> "udp", family |-> "unspec"],
       [type |-> "stream", proto |-> "tcp", family |-> "inet"]},
      {[type |-> "dgram", proto |-> "udp", family |-> "inet"],
       [type |-> "dgram", proto |-> "udp", family |-> "inet6"]} }

=============================================================================
