---------------------------- MODULE EndpointCache ----------------------------
(***************************************************************************)
(* What a peer's endpoint promises the senders of driver/socket.c, without *)
(* locks, generations or retries: the endpoint is an address and a source  *)
(* interface (0 when unset) that change only in whole steps.               *)
(*                                                                         *)
(*   - a datagram from the peer sets both at once (Learn);                 *)
(*   - the source can be dropped (Clear);                                  *)
(*   - the source can be resolved for the address the endpoint holds at   *)
(*     that moment, to the route of some table version the OS has had     *)
(*     (possibly an older one: freshness is not promised here);           *)
(*   - a send to the peer carries the endpoint as one value, and only with *)
(*     a source set;                                                       *)
(*   - a reply carries any address and interface of an incoming datagram. *)
(***************************************************************************)
EXTENDS Naturals

CONSTANTS
    Peers, Addrs4, Addrs6, NoAddr, Ifs,
    RouteOf(_, _)   \* RouteOf(v, a): the OS route of a in table version v

VARIABLES
    addr,   \* [Peers -> Addrs \cup {NoAddr}]
    src,    \* [Peers -> Ifs \cup {0}]
    ver,    \* [Families -> Nat]: forwarding-table versions
    sent    \* set of [addr, src] pairs handed to the network, not completed

vars == <<addr, src, ver, sent>>

Families == {"v4", "v6"}
Addrs    == Addrs4 \cup Addrs6
Fam(a)   == IF a \in Addrs4 THEN "v4" ELSE IF a \in Addrs6 THEN "v6" ELSE "none"

Init ==
    /\ addr \in [Peers -> Addrs \cup {NoAddr}]
    /\ src = [p \in Peers |-> 0]
    /\ ver = [f \in Families |-> 0]
    /\ sent = {}

TableChange(f) ==
    /\ ver' = [ver EXCEPT ![f] = @ + 1]
    /\ UNCHANGED <<addr, src, sent>>

Learn(p, a, i) ==
    /\ addr' = [addr EXCEPT ![p] = a]
    /\ src' = [src EXCEPT ![p] = i]
    /\ UNCHANGED <<ver, sent>>

Clear(p) ==
    /\ src' = [src EXCEPT ![p] = 0]
    /\ UNCHANGED <<addr, ver, sent>>

(* Some table version up to the current one routes the current address.  *)
Resolve(p) ==
    /\ Fam(addr[p]) \in Families
    /\ \E v \in 0..ver[Fam(addr[p])] : src' = [src EXCEPT ![p] = RouteOf(v, addr[p])]
    /\ UNCHANGED <<addr, ver, sent>>

Send(p) ==
    /\ src[p] # 0
    /\ sent' = sent \cup {[addr |-> addr[p], src |-> src[p]]}
    /\ UNCHANGED <<addr, src, ver>>

Reply(a, i) ==
    /\ sent' = sent \cup {[addr |-> a, src |-> i]}
    /\ UNCHANGED <<addr, src, ver>>

Complete(d) ==
    /\ sent' = sent \ {d}
    /\ UNCHANGED <<addr, src, ver>>

Next ==
    \/ \E f \in Families : TableChange(f)
    \/ \E p \in Peers : Clear(p) \/ Resolve(p) \/ Send(p)
    \/ \E p \in Peers, a \in Addrs, i \in Ifs : Learn(p, a, i)
    \/ \E a \in Addrs, i \in Ifs : Reply(a, i)
    \/ \E d \in sent : Complete(d)

Spec == Init /\ [][Next]_vars
=============================================================================
