----------------------------- MODULE MCRouteScan -----------------------------
(* The CIDR matchers and the route scan on every input of a small domain. *)
(* Each state is one input, which does not change: an IPv4 address and a *)
(* prefix length, an IPv6 address and a prefix length (2-bit words, so    *)
(* that whole words, leftover bits and the full length all occur), or an  *)
(* address and a forwarding table of up to MaxRoutes routes.  The inputs  *)
(* of the other kinds are fixed meanwhile.  The fourth kind is a run of   *)
(* up to MaxCmsgs control-message headers, as the stack lays them out,    *)
(* searched for either family's pkt-info.                                  *)
(*                                                                         *)
(* The tables are built from a few interfaces: two usable ones whose      *)
(* metrics differ only after the ULONG sum wraps, one that is down, one   *)
(* without an IP interface row, and the tunnel's own.                      *)
EXTENDS RouteScan, ControlInfo

CONSTANTS MaxRoutes, RouteMetrics, MaxCmsgs

(* The headers a UDP socket can be handed: either family's pkt-info       *)
(* (IN_PKTINFO, IN6_PKTINFO) and an ECN byte of either family.             *)
Cmsgs == {[level |-> "ip",   type |-> "pktinfo", dlen |-> 8],
          [level |-> "ipv6", type |-> "pktinfo", dlen |-> 20],
          [level |-> "ip",   type |-> "ecn",     dlen |-> 4],
          [level |-> "ipv6", type |-> "ecn",     dlen |-> 4]}

(* The two searches of SocketEndpointFromNbl (socket.c:484, 493).          *)
Searches == {[level |-> "ip", type |-> "pktinfo"], [level |-> "ipv6", type |-> "pktinfo"]}
NoSearch == [level |-> "ip", type |-> "pktinfo"]

MCInterfaces ==
    [l \in 1..5 |->
        CASE l = 1 -> [entry |-> TRUE, up |-> TRUE, ip |-> TRUE, metric |-> 0]
          [] l = 2 -> [entry |-> TRUE, up |-> TRUE, ip |-> TRUE, metric |-> 1]
          [] l = 3 -> [entry |-> TRUE, up |-> FALSE, ip |-> TRUE, metric |-> 0]
          [] l = 4 -> [entry |-> TRUE, up |-> TRUE, ip |-> FALSE, metric |-> 0]
          [] l = 5 -> [entry |-> TRUE, up |-> TRUE, ip |-> TRUE, metric |-> 0]]

MCOwnLuid == 5

(* Every route of the table's form: host bits of the prefix cleared.      *)
Routes ==
    UNION {{Route(l, len, p, m) : l \in DOMAIN MCInterfaces, p \in PrefixesV4(len),
                                  m \in RouteMetrics} : len \in 0..W4}

V4Addrs == 0..2^W4 - 1
V6Addrs == [Words -> 0..2^B - 1]

VARIABLES addr, len, addr6, len6, table, ctl, search

mcVars == <<addr, len, addr6, len6, table, ctl, search>>

NoCtl == ctl = <<>> /\ search = NoSearch

Init ==
    \/ /\ addr \in V4Addrs /\ len \in 0..W4
       /\ addr6 = [k \in Words |-> 0] /\ len6 = 0 /\ table = <<>> /\ NoCtl
    \/ /\ addr = 0 /\ len = 0
       /\ addr6 \in V6Addrs /\ len6 \in 0..V6Bits /\ table = <<>> /\ NoCtl
    \/ /\ addr \in V4Addrs /\ len = 0
       /\ addr6 = [k \in Words |-> 0] /\ len6 = 0
       /\ table \in BoundedSeq(Routes, MaxRoutes) /\ NoCtl
    \/ /\ addr = 0 /\ len = 0 /\ addr6 = [k \in Words |-> 0] /\ len6 = 0 /\ table = <<>>
       /\ ctl \in BoundedSeq(Cmsgs, MaxCmsgs) /\ search \in Searches

Spec == Init /\ [][UNCHANGED mcVars]_mcVars

(* CidrMaskMatchV4 is prefix match on bit strings, for every prefix of     *)
(* the table's form.                                                       *)
V4MatchesReference ==
    \A p \in PrefixesV4(len) :
        CidrMaskMatchV4(addr, p, len) <=> PrefixMatchV4(addr, p, len)

(* CidrMaskMatchV6 is prefix match on bit strings, including prefixes      *)
(* that end inside a word and the full 4-word length.                      *)
V6MatchesReference ==
    \A a \in V6Addrs :
        LET p == PrefixV6(a, len6) IN
        CidrMaskMatchV6(addr6, p, len6) <=> PrefixMatchV6(addr6, p, len6)

(* The scan picks an interface exactly when the peer is reachable by a    *)
(* route of another usable interface, and then one of those whose route   *)
(* is longest and, among the longest, cheapest after the ULONG sum.        *)
ScanPicksBestRoute ==
    LET idx == ScanRoutes(addr, table).index IN
    IF Candidates(addr, table) = {} THEN idx = 0
    ELSE idx \in BestInterfaces(addr, table)

(* FindInCmsgHdr, over control information laid out by the stack, returns *)
(* the first header of the requested level and type, or NULL when there is *)
(* none, and never walks past ControlInfoLength: the SIZE_T Len must reach *)
(* exactly 0 after the last header.                                        *)
FindsFirstPktinfo ==
    FindInCmsgHdr(ctl, PaddedLength(ctl), search.level, search.type)
        = FirstMatch(ctl, search.level, search.type)
=============================================================================
