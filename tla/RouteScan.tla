------------------------------ MODULE RouteScan ------------------------------
(***************************************************************************)
(* The route scan of SocketResolvePeerEndpointSrc (driver/socket.c:247-  *)
(* 286): walk the forwarding table in order and keep the route to the     *)
(* peer's address with the longest prefix, and among those the lowest     *)
(* metric, whose interface is not the tunnel's own, is up, and has an IP  *)
(* interface row.  A route's metric is its own plus its interface's,      *)
(* summed in a ULONG, so the sum wraps at 2^MW (MW = 32 in the code).     *)
(*                                                                         *)
(* IPv4 only: the scan treats both families alike but for the matcher,    *)
(* which CidrMatch checks on its own.                                      *)
(***************************************************************************)
EXTENDS Naturals, Sequences, SequencesExt, CidrMatch

CONSTANTS
    OwnLuid,    \* Peer->Device->InterfaceLuid
    Interfaces, \* [luid -> [entry, up, ip : BOOLEAN, metric : Nat]]: what
                \* GetIfEntry2 and GetIpInterfaceEntry report per interface
    MW          \* bits of a ULONG metric

(* A route: the interface it leaves by (whose LUID doubles as its         *)
(* InterfaceIndex), its DestinationPrefix and its Metric.                 *)
Route(luid, len, pfx, metric) == [luid |-> luid, len |-> len, pfx |-> pfx, metric |-> metric]

(* Line 247: BestIndex = 0, BestCidr = 0, BestMetric = ~0UL.               *)
NoBest == [cidr |-> 0, metric |-> 2^MW - 1, index |-> 0]

(* Line 279: the ULONG sum of the route's and its interface's metric.      *)
RouteMetric(r) == (r.metric + Interfaces[r.luid].metric) % 2^MW

(* Lines 272-278: GetIfEntry2 succeeds and reports the interface up, and  *)
(* GetIpInterfaceEntry succeeds.                                           *)
InterfaceUsable(r) ==
    /\ Interfaces[r.luid].entry /\ Interfaces[r.luid].up
    /\ Interfaces[r.luid].ip

(* Fault variant: a route as long as the best so far is skipped.          *)
ShorterPrefixInclusive(r, best) == r.len <= best.cidr

(* Lines 264-265: a route shorter than the best so far is skipped.         *)
ShorterPrefix(r, best) == r.len < best.cidr

(* One iteration of the loop, lines 260-286, at the peer's address addr:  *)
(* skip the tunnel's own routes, shorter prefixes, routes not matching,   *)
(* unusable interfaces, and equally long routes with a higher metric;     *)
(* otherwise the route becomes the best.                                   *)
Consider(addr, best, r) ==
    IF \/ r.luid = OwnLuid
       \/ ShorterPrefix(r, best)
       \/ ~CidrMaskMatchV4(addr, r.pfx, r.len)
       \/ ~InterfaceUsable(r)
       \/ r.len = best.cidr /\ RouteMetric(r) > best.metric
      THEN best
      ELSE [cidr |-> r.len, metric |-> RouteMetric(r), index |-> r.luid]

(* Lines 260-286: the loop over the table, in table order.                 *)
ScanRoutes(addr, table) ==
    FoldLeft(LAMBDA best, r : Consider(addr, best, r), NoBest, table)

-----------------------------------------------------------------------------
(* Reference definition: the routes the peer can be reached by, and the   *)
(* interfaces of the best among them.                                      *)

Candidates(addr, table) ==
    {r \in ToSet(table) : r.luid # OwnLuid /\ InterfaceUsable(r)
                          /\ PrefixMatchV4(addr, r.pfx, r.len)}

BestInterfaces(addr, table) ==
    LET c       == Candidates(addr, table)
        longest == {r \in c : \A q \in c : q.len <= r.len}
        best    == {r \in longest : \A q \in longest : RouteMetric(r) <= RouteMetric(q)}
    IN {r.luid : r \in best}
=============================================================================
