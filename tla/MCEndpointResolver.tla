------------------------- MODULE MCEndpointResolver -------------------------
(***************************************************************************)
(* Model-checking instance of EndpointResolver: one peer, two interfaces,  *)
(* two IPv4 addresses and one IPv6 address.  MCEndpointResolver.cfg races *)
(* two senders and two receivers over the IPv4 addresses;                  *)
(* MCEndpointResolverLive.cfg one sender and two receivers over both       *)
(* families.                                                               *)
(***************************************************************************)
EXTENDS EndpointResolver, TLC

(* The OS's choice of interface for an IPv4 address is RouteScan's scan   *)
(* (socket.c:260-286) over the forwarding table of each version, with     *)
(* 2-bit addresses a1 = 01 and a2 = 10.  Interface 3 is the tunnel's own, *)
(* and carries the default route its allowed IPs install.  Version 0 has  *)
(* a host route to a1 over interface 1 and a default route over 2; in     *)
(* version 1 a1 moves to interface 2 and a2 has no route, which drives    *)
(* the BAD_NETWORK_PATH path.  A stale source is thus really a wrong one. *)
MCInterfaces == [l \in 1..3 |-> [entry |-> TRUE, up |-> TRUE, ip |-> TRUE, metric |-> 0]]

Scan == INSTANCE RouteScan WITH
    W4 <- 2, B <- 1, MW <- 8, OwnLuid <- 3, Interfaces <- MCInterfaces

MCForwardTable(v) ==
    IF v = 0 THEN << Scan!Route(3, 0, 0, 0), Scan!Route(1, 2, 1, 0), Scan!Route(2, 0, 0, 0) >>
             ELSE << Scan!Route(3, 0, 0, 0), Scan!Route(2, 2, 1, 0) >>

MCAddrBits == "a1" :> 1 @@ "a2" :> 2

(* The scan is computed once per table version and address.  IPv6 tables  *)
(* are not scanned (RouteScan is IPv4 only): b1 leaves by interface 2.     *)
MCRoutes == [v \in 0..1 |-> [a \in DOMAIN MCAddrBits |->
                 Scan!ScanRoutes(MCAddrBits[a], MCForwardTable(v)).index]]

MCRouteOf(v, a) == IF a \in DOMAIN MCAddrBits THEN MCRoutes[v][a] ELSE 2 - (v % 2)

(* The device has bound an IPv4 socket and no IPv6 socket, so sends to b1  *)
(* take SendAsync's NETWORK_UNREACHABLE path.                              *)
MCSockInit == {[v4 |-> TRUE, v6 |-> FALSE]}

(* One IPv4 table change; IPv6 changes run the same code.                  *)
MCMaxRouteChanges == [v4 |-> 1, v6 |-> 0]

(* Symmetry is unsound for addresses and interfaces, which RouteOf tells  *)
(* apart, and sound for the receivers: nothing in the model names one, and *)
(* the properties checked with it are safety properties.                  *)
MCReceiverSymmetry == Permutations(Receivers)
=============================================================================
