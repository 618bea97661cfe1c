--------------------------- MODULE EndpointResolver ---------------------------
(***************************************************************************)
(* The per-peer endpoint cache of driver/socket.c and the two send paths   *)
(* that read it.                                                           *)
(*                                                                         *)
(* A peer's ENDPOINT holds the remote address, the source pkt-info         *)
(* (interface index and address, abstracted here to the interface index,   *)
(* 0 meaning "unset"), the RoutingGeneration it was resolved under and an  *)
(* UpdateGeneration bumped by every writer.  Writers (the resolver's slow  *)
(* path, SocketSetPeerEndpoint, SocketClearPeerEndpointSrc) hold the       *)
(* EndpointLock exclusively; a sender holds it shared from the end of      *)
(* SocketResolvePeerEndpointSrc until it has copied the endpoint into its  *)
(* send context.  Exclusive sections touch nothing but the endpoint, so    *)
(* each is one step; a shared holder is a member of readers[p].            *)
(*                                                                         *)
(* The operating system is the environment: its forwarding table per      *)
(* family is a version number routeVer[f], and every change queues one    *)
(* RouteNotification, which later adds 2 to RoutingGeneration[f].          *)
(***************************************************************************)
EXTENDS Integers, FiniteSets

CONSTANTS
    Peers,            \* the device's peers
    Threads,          \* threads calling the send entry points
    Receivers,        \* CPUs running Receive for the peer's datagrams
    Addrs4, Addrs6,   \* remote IPv4 / IPv6 addresses (with port)
    NoAddr,           \* si_family == 0: the peer has no endpoint
    Ifs,              \* interface indices of the host (all > 0)
    RouteOf(_, _),    \* RouteOf(v, a): the interface the OS picks for a in
                      \* table version v, 0 when no route matches
    MaxRouteChanges,  \* [Families -> Nat]: bound on forwarding-table changes
    MaxWrites,        \* bound on SetPeerEndpoint/ClearPeerEndpointSrc calls
    MaxSends,         \* bound on sends per thread
    SockInit          \* possible values of [f |-> Wg->Sockf # NULL]

ASSUME Ifs \subseteq Nat \ {0}
ASSUME MaxRouteChanges \in [{"v4", "v6"} -> Nat] /\ MaxWrites \in Nat /\ MaxSends \in Nat \ {0}

Families == {"v4", "v6"}
Addrs    == Addrs4 \cup Addrs6
Fam(a)   == IF a \in Addrs4 THEN "v4" ELSE IF a \in Addrs6 THEN "v6" ELSE "none"
SendIds  == Threads \X (1..MaxSends)

VARIABLES
    routeVer,     \* [Families -> Nat]: version of the OS forwarding table
    pending,      \* [Families -> Nat]: route notifications not yet delivered
    routingGen,   \* RoutingGenerationV4 / RoutingGenerationV6
    sock,         \* [Families -> BOOLEAN]: Wg->Sock4 / Wg->Sock6 non-NULL
    addr,         \* Peer->Endpoint.Addr
    src,          \* Peer->Endpoint.Src4/Src6.ipi_ifindex (0 = unset)
    epGen,        \* Peer->Endpoint.RoutingGeneration
    updGen,       \* Peer->Endpoint.UpdateGeneration
    basis,        \* history: where src came from (resolved from which
                  \* table version for which address, learned, cleared)
    readers,      \* [Peers -> SUBSET Threads]: shared holders of EndpointLock
    writes,       \* number of SetPeerEndpoint/ClearPeerEndpointSrc calls
    pc,           \* [Threads -> label]
    kind,         \* "nbl" (SocketSendNblsToPeer) or "buf" (SocketSendBufferToPeer)
    peerOf,       \* the peer a thread sends to
    snap,         \* the local UpdateGeneration of the resolver
    found,        \* BestIndex after the table scan
    qver,         \* history: table version the scan read
    qaddr,        \* history: the address the scan looked up
    sendNo,       \* number of sends a thread has started
    own,          \* [SendIds -> [ctx, data]]: ownership of the send context
                  \* and of the payload (NBL chain or MDL) of each send
    wsk,          \* send IRPs handed to WSK, not yet completed
    rx,           \* [Receivers -> ...]: each receiver's progress through
                  \* SocketSetPeerEndpointFromNbl
    mibTables     \* forwarding tables from GetIpForwardTable2 not yet freed

vars == <<routeVer, pending, routingGen, sock, addr, src, epGen, updGen,
          basis, readers, writes, pc, kind, peerOf, snap, found, qver, qaddr,
          sendNo, own, wsk, rx, mibTables>>
envVars  == <<routeVer, pending, routingGen, sock, mibTables>>
epVars   == <<addr, src, epGen, updGen, basis>>
thrVars  == <<pc, kind, peerOf, snap, found, qver, qaddr, sendNo>>

Basis == [kind : {"none", "cleared", "learned"}, addr : Addrs \cup {NoAddr}, ver : Nat]
         \cup [kind : {"resolved"}, addr : Addrs \cup {NoAddr}, ver : Nat]
Owned == {"none", "live", "freed", "double"}
Ep    == [addr : Addrs, src : Ifs \cup {0}, basis : Basis]

\* Giving an object back: a second release of the same object is recorded.
Release(s) == IF s = "live" THEN "freed" ELSE "double"

CurrentId(t) == <<t, sendNo[t]>>

(* Every variable in its range.  RoutingGenerationV4/V6 start at 1 (line  *)
(* 31) and RouteNotification adds 2 (line 861), so a routing generation   *)
(* stays odd and never equals the 0 SocketClearPeerEndpointSrc stores in  *)
(* an endpoint (line 586), also once the ULONG wraps.                     *)
TypeOK ==
    /\ \A f \in Families : routeVer[f] \in 0..MaxRouteChanges[f]
    /\ \A f \in Families : pending[f] \in 0..MaxRouteChanges[f]
    /\ \A f \in Families : routingGen[f] \in {1 + 2 * k : k \in 0..MaxRouteChanges[f]}
    /\ sock \in SockInit
    /\ addr \in [Peers -> Addrs \cup {NoAddr}]
    /\ src \in [Peers -> Ifs \cup {0}]
    /\ epGen \in [Peers -> Nat]
    /\ updGen \in [Peers -> Nat]
    /\ basis \in [Peers -> Basis]
    /\ readers \in [Peers -> SUBSET Threads]
    /\ writes \in 0..MaxWrites
    /\ pc \in [Threads -> {"idle", "resolve", "query", "write", "reverify", "send"}]
    /\ kind \in [Threads -> {"nbl", "buf"}]
    /\ peerOf \in [Threads -> Peers]
    /\ snap \in [Threads -> Nat]
    /\ found \in [Threads -> Ifs \cup {0}]
    /\ mibTables \in Nat
    /\ sendNo \in [Threads -> 0..MaxSends]
    /\ own \in [SendIds -> [ctx : Owned, data : Owned]]
    /\ wsk \subseteq [id : SendIds, ep : Ep]
    /\ rx \in [Receivers -> [pc : {"idle", "compare", "set"}, peer : Peers,
                             sameAddr : BOOLEAN, ep : Ep]]

-----------------------------------------------------------------------------
(* The resolver's fast-path test, socket.c:239-244.                        *)
FastValid(p) ==
    /\ Fam(addr[p]) \in Families
    /\ epGen[p] = routingGen[Fam(addr[p])]
    /\ src[p] # 0

(* The outcomes of the slow path's OS calls for address a                 *)
(* (socket.c:250-290): GetIpForwardTable2 fails; the MemAllocate of If    *)
(* fails (socket.c:258, returning without FreeMibTable); the scan finds    *)
(* BestIndex and, when it is non-zero, GetBestRoute2 succeeds or fails.    *)
(* With no family the AF_UNSPEC table holds routes of both families, no    *)
(* CIDR test applies, and GetBestRoute2 rejects the unspecified            *)
(* destination, or the table is empty and BestIndex stays 0.               *)
QueryOutcomes(a) ==
    LET best == IF Fam(a) \in Families THEN RouteOf(routeVer[Fam(a)], a) ELSE 0 IN
    [res : {"tableErr", "noIf"}, best : {0}]
    \cup {[res |-> "ok", best |-> best]}
    \cup (IF best # 0 \/ Fam(a) \notin Families THEN {[res |-> "routeErr", best |-> 0]} ELSE {})

(* Fault variant: a cleanup label that returns the context and forgets    *)
(* the payload.                                                            *)
FreeSendCtxOnly(id) ==
    own' = [own EXCEPT ![id] = [ctx |-> Release(@.ctx), data |-> @.data]]

(* The cleanup labels of both send functions: the context goes back to the *)
(* lookaside list and the payload (NBL chain via FreeSendNetBufferList, or *)
(* the MDL via MemFreeDataAndMdlChain) is freed.                           *)
FreeSend(id) ==
    own' = [own EXCEPT ![id] = [ctx |-> Release(@.ctx), data |-> Release(@.data)]]

(* Returning from a send entry point: the thread's locals are dead.        *)
Finish(t) ==
    /\ pc' = [pc EXCEPT ![t] = "idle"]
    /\ snap' = [snap EXCEPT ![t] = 0]
    /\ found' = [found EXCEPT ![t] = 0]
    /\ qver' = [qver EXCEPT ![t] = 0]
    /\ qaddr' = [qaddr EXCEPT ![t] = NoAddr]

-----------------------------------------------------------------------------
(* OS environment: a forwarding-table change, and the delivery of its     *)
(* NotifyRouteChange2 callback RouteNotification (socket.c:855-862).       *)
RouteChange(f) ==
    /\ routeVer[f] < MaxRouteChanges[f]
    /\ routeVer' = [routeVer EXCEPT ![f] = @ + 1]
    /\ pending' = [pending EXCEPT ![f] = @ + 1]
    /\ UNCHANGED <<routingGen, sock, mibTables, epVars, readers, writes, thrVars, own, wsk, rx>>

(* Fault variant: InterlockedAdd by 1, so a generation can become even.   *)
RouteNotificationByOne(f) ==
    /\ pending[f] > 0
    /\ pending' = [pending EXCEPT ![f] = @ - 1]
    /\ routingGen' = [routingGen EXCEPT ![f] = @ + 1]
    /\ UNCHANGED <<routeVer, sock, mibTables, epVars, readers, writes, thrVars, own, wsk, rx>>

RouteNotification(f) ==
    /\ pending[f] > 0
    /\ pending' = [pending EXCEPT ![f] = @ - 1]
    /\ routingGen' = [routingGen EXCEPT ![f] = @ + 2]
    /\ UNCHANGED <<routeVer, sock, mibTables, epVars, readers, writes, thrVars, own, wsk, rx>>

-----------------------------------------------------------------------------
(* Starting a send: the thread takes send number n of its budget.         *)
Begin(t, p, k) ==
    /\ pc[t] = "idle"
    /\ sendNo[t] < MaxSends
    /\ sendNo' = [sendNo EXCEPT ![t] = @ + 1]
    /\ kind' = [kind EXCEPT ![t] = k]
    /\ peerOf' = [peerOf EXCEPT ![t] = p]

NextId(t) == <<t, sendNo[t] + 1>>

(* SocketSendNblsToPeer up to the resolver call (socket.c:337-346).  The   *)
(* chain belongs to the layer from the call on; without a context it is    *)
(* freed at cleanupNbls.                                                   *)
SendNblsToPeer(t) ==
    /\ \E p \in Peers, gotCtx \in BOOLEAN :
        /\ Begin(t, p, "nbl")
        /\ own' = [own EXCEPT ![NextId(t)] =
                     IF gotCtx THEN [ctx |-> "live", data |-> "live"]
                               ELSE [ctx |-> "none", data |-> "freed"]]
        /\ pc' = [pc EXCEPT ![t] = IF gotCtx THEN "resolve" ELSE "idle"]
    /\ UNCHANGED <<envVars, epVars, readers, writes, snap, found, qver, qaddr, wsk, rx>>

(* SocketSendBufferToPeer up to the resolver call (socket.c:393-410): a    *)
(* context, then an MDL for a copy of the buffer; a missing MDL sends the  *)
(* context back to the lookaside list.                                     *)
SendBufferToPeer(t) ==
    /\ \E p \in Peers, res \in {"ok", "noCtx", "noMdl"} :
        /\ Begin(t, p, "buf")
        /\ own' = [own EXCEPT ![NextId(t)] =
                     CASE res = "ok"    -> [ctx |-> "live", data |-> "live"]
                       [] res = "noCtx" -> [ctx |-> "none", data |-> "none"]
                       [] OTHER         -> [ctx |-> "freed", data |-> "none"]]
        /\ pc' = [pc EXCEPT ![t] = IF res = "ok" THEN "resolve" ELSE "idle"]
    /\ UNCHANGED <<envVars, epVars, readers, writes, snap, found, qver, qaddr, wsk, rx>>

(* SocketResolvePeerEndpointSrc, label retry (socket.c:236-246): take the  *)
(* lock shared, snapshot UpdateGeneration, return holding it on the fast  *)
(* path, otherwise drop it.                                                *)
ResolveAcquire(t) ==
    LET p == peerOf[t] IN
    /\ pc[t] = "resolve"
    /\ snap' = [snap EXCEPT ![t] = updGen[p]]
    /\ IF FastValid(p)
         THEN /\ readers' = [readers EXCEPT ![p] = @ \cup {t}]
              /\ pc' = [pc EXCEPT ![t] = "send"]
         ELSE /\ pc' = [pc EXCEPT ![t] = "query"]
              /\ UNCHANGED readers
    /\ UNCHANGED <<envVars, epVars, writes, kind, peerOf, found, qver, qaddr,
                   sendNo, own, wsk, rx>>

(* The unlocked slow path (socket.c:247-292): the table scan and           *)
(* GetBestRoute2 for the endpoint's current address.  An error returns     *)
(* from the resolver and the caller frees its context and payload.         *)
ResolveQuery(t) ==
    LET p == peerOf[t] IN
    /\ pc[t] = "query"
    /\ \E r \in QueryOutcomes(addr[p]) :
        /\ mibTables' = IF r.res = "noIf" THEN mibTables + 1 ELSE mibTables
        /\ IF r.res # "ok"
          THEN /\ FreeSend(CurrentId(t))
               /\ Finish(t)
          ELSE /\ found' = [found EXCEPT ![t] = r.best]
               /\ qver' = [qver EXCEPT ![t] =
                            IF Fam(addr[p]) \in Families THEN routeVer[Fam(addr[p])] ELSE 0]
               /\ qaddr' = [qaddr EXCEPT ![t] = addr[p]]
               /\ pc' = [pc EXCEPT ![t] = "write"]
               /\ UNCHANGED <<own, snap>>
    /\ UNCHANGED <<routeVer, pending, routingGen, sock, epVars, readers, writes, kind, peerOf, sendNo, wsk, rx>>

(* Fault variants of the UpdateGeneration test at socket.c:294: dropped,  *)
(* or compared with the value the local holds only after the write.       *)
WriterSinceNever(p, t) == FALSE
WriterSinceOffByOne(p, t) == updGen[p] # snap[t] + 1

(* socket.c:294: some writer took the lock since the snapshot.            *)
WriterSince(p, t) == updGen[p] # snap[t]

(* The exclusive section (socket.c:293-322): retry if any writer ran since *)
(* the snapshot; otherwise store BestIndex under the generation read now,  *)
(* bump UpdateGeneration, and fail with BAD_NETWORK_PATH when BestIndex=0. *)
ResolveWrite(t) ==
    LET p == peerOf[t]
        f == Fam(addr[p])
        bestIndex == IF f \in Families THEN found[t] ELSE 0
    IN
    /\ pc[t] = "write"
    /\ readers[p] = {}
    /\ IF WriterSince(p, t)
         THEN /\ pc' = [pc EXCEPT ![t] = "resolve"]
              /\ UNCHANGED <<epVars, snap, own, found, qver, qaddr>>
         ELSE /\ IF f \in Families
                   THEN /\ epGen' = [epGen EXCEPT ![p] = routingGen[f]]
                        /\ src' = [src EXCEPT ![p] = found[t]]
                        /\ basis' = [basis EXCEPT ![p] =
                                       [kind |-> "resolved", addr |-> qaddr[t], ver |-> qver[t]]]
                   ELSE UNCHANGED <<epGen, src, basis>>
              /\ updGen' = [updGen EXCEPT ![p] = @ + 1]
              /\ UNCHANGED addr
              /\ IF bestIndex = 0
                   THEN FreeSend(CurrentId(t)) /\ Finish(t)
                   ELSE /\ pc' = [pc EXCEPT ![t] = "reverify"]
                        /\ snap' = [snap EXCEPT ![t] = @ + 1]
                        /\ UNCHANGED <<own, found, qver, qaddr>>
    /\ UNCHANGED <<envVars, readers, writes, kind, peerOf, sendNo, wsk, rx>>

(* Fault variant: the re-check after re-taking the lock dropped.           *)
ReverifyOkAlways(p, t) == TRUE

(* socket.c:324: no writer ran since our own write.                        *)
ReverifyOk(p, t) == updGen[p] = snap[t]

(* Re-taking the lock shared and re-checking UpdateGeneration             *)
(* (socket.c:323-329).                                                     *)
ResolveReverify(t) ==
    LET p == peerOf[t] IN
    /\ pc[t] = "reverify"
    /\ IF ReverifyOk(p, t)
         THEN /\ readers' = [readers EXCEPT ![p] = @ \cup {t}]
              /\ pc' = [pc EXCEPT ![t] = "send"]
         ELSE /\ pc' = [pc EXCEPT ![t] = "resolve"]
              /\ UNCHANGED readers
    /\ UNCHANGED <<envVars, epVars, writes, kind, peerOf, snap, found, qver, qaddr,
                   sendNo, own, wsk, rx>>

(* SendAsync (socket.c:150-197): under the RCU read lock pick the device   *)
(* socket of the endpoint's family; none gives NETWORK_UNREACHABLE and the *)
(* caller cleans up, otherwise the IRP is handed to WSK and its completion  *)
(* owns the context and the payload.                                       *)
(* o is what the send owns when it calls SendAsync.                        *)
SendAsync(id, ep, o) ==
    LET reachable == Fam(ep.addr) \in Families /\ sock[Fam(ep.addr)] IN
    /\ own' = [own EXCEPT ![id] =
                 IF reachable THEN o ELSE [ctx |-> Release(o.ctx), data |-> Release(o.data)]]
    /\ wsk' = IF reachable THEN wsk \cup {[id |-> id, ep |-> ep]} ELSE wsk

(* The rest of both send functions (socket.c:349-386, 413-425): copy the   *)
(* endpoint into the context, drop the shared lock, SendAsync; on failure  *)
(* free the context and the payload.  The statistics are not modelled.     *)
SendResolved(t) ==
    LET p == peerOf[t] IN
    /\ pc[t] = "send"
    /\ readers' = [readers EXCEPT ![p] = @ \ {t}]
    /\ SendAsync(CurrentId(t), [addr |-> addr[p], src |-> src[p], basis |-> basis[p]],
                  own[CurrentId(t)])
    /\ Finish(t)
    /\ UNCHANGED <<envVars, epVars, writes, kind, peerOf, sendNo, rx>>

(* SocketSendBufferAsReplyToNbl (socket.c:429-457): context, MDL, then the *)
(* endpoint of the incoming datagram (SocketEndpointFromNbl, which fails on *)
(* a datagram of no known family or without pkt-info), then SendAsync.  No  *)
(* peer state is read.                                                     *)
SendReply(t) ==
    /\ \E res \in {"ok", "noCtx", "noMdl", "badAddr"}, a \in Addrs, i \in Ifs :
        LET id == NextId(t)
            ep == [addr |-> a, src |-> i, basis |-> [kind |-> "learned", addr |-> a, ver |-> 0]]
        IN
        /\ Begin(t, peerOf[t], "buf")
        /\ IF res = "ok"
             THEN SendAsync(id, ep, [ctx |-> "live", data |-> "live"])
             ELSE /\ own' = [own EXCEPT ![id] =
                         CASE res = "noCtx" -> [ctx |-> "none", data |-> "none"]
                           [] res = "noMdl" -> [ctx |-> "freed", data |-> "none"]
                           [] OTHER         -> [ctx |-> "freed", data |-> "freed"]]
                  /\ UNCHANGED wsk
    /\ UNCHANGED <<envVars, epVars, readers, writes, pc, snap, found, qver, qaddr, rx>>

(* SendComplete (socket.c:63-73): WSK completes the IRP; the chain or MDL *)
(* and the context are freed.                                              *)
SendComplete(w) ==
    /\ wsk' = wsk \ {w}
    /\ FreeSend(w.id)
    /\ UNCHANGED <<envVars, epVars, readers, writes, thrVars, rx>>

-----------------------------------------------------------------------------
(* SocketSetPeerEndpointFromNbl (socket.c:570-577), on receiver r:         *)
(* SocketEndpointFromNbl (socket.c:478-505) builds the endpoint of a       *)
(* received datagram, stamped with the routing generation current at parse *)
(* time.  Receive runs on every CPU, so several receivers race.            *)
RxParse(r) ==
    /\ rx[r].pc = "idle"
    /\ writes < MaxWrites
    /\ writes' = writes + 1
    /\ \E p \in Peers, a \in Addrs, i \in Ifs :
         rx' = [rx EXCEPT ![r] =
                  [pc |-> "compare", peer |-> p, sameAddr |-> FALSE,
                   ep |-> [addr |-> a, src |-> i,
                           basis |-> [kind |-> "learned", addr |-> a, ver |-> routingGen[Fam(a)]]]]]
    /\ UNCHANGED <<envVars, epVars, readers, thrVars, own, wsk>>

RxIdle == [pc |-> "idle", peer |-> CHOOSE p \in Peers : TRUE, sameAddr |-> FALSE,
           ep |-> [addr |-> CHOOSE a \in Addrs : TRUE, src |-> CHOOSE i \in Ifs : TRUE,
                   basis |-> [kind |-> "none", addr |-> NoAddr, ver |-> 0]]]

(* EndpointEq (socket.c:515-527) reads Peer->Endpoint without the lock     *)
(* (socket.c:540), the address first and the pkt-info after it; a writer   *)
(* may run between the two reads.  This step is the read of the address.   *)
RxCompareAddr(r) ==
    LET p == rx[r].peer IN
    /\ rx[r].pc = "compare"
    /\ rx' = [rx EXCEPT ![r].pc = "set", ![r].sameAddr = (rx[r].ep.addr = addr[p])]
    /\ UNCHANGED <<envVars, epVars, readers, writes, thrVars, own, wsk>>

(* The rest of EndpointEq: the pkt-info, read now.                         *)
EndpointEq(r, p) == rx[r].sameAddr /\ rx[r].ep.src = src[p]

(* Fault variant: the address copied and the pkt-info forgotten.         *)
CopyEndpointAddrOnly(p, e) ==
    /\ addr' = [addr EXCEPT ![p] = e.addr]
    /\ UNCHANGED src

(* socket.c:543-556: the address and its pkt-info (Src4/Src6, with the    *)
(* control-message header describing it) copied for the endpoint's family. *)
CopyEndpoint(p, e) ==
    /\ addr' = [addr EXCEPT ![p] = e.addr]
    /\ src' = [src EXCEPT ![p] = e.src]

(* SocketSetPeerEndpoint (socket.c:531-567) after the address read: return *)
(* if EndpointEq held, otherwise copy under the exclusive lock.  The       *)
(* parse-time generation travels in ep.basis.ver.                          *)
RxSet(r) ==
    LET p == rx[r].peer IN
    /\ rx[r].pc = "set"
    /\ rx' = [rx EXCEPT ![r] = RxIdle]
    /\ IF EndpointEq(r, p)
         THEN UNCHANGED epVars
         ELSE /\ readers[p] = {}
              /\ CopyEndpoint(p, rx[r].ep)
              /\ epGen' = [epGen EXCEPT ![p] = rx[r].ep.basis.ver]
              /\ updGen' = [updGen EXCEPT ![p] = @ + 1]
              /\ basis' = [basis EXCEPT ![p] = rx[r].ep.basis]
    /\ UNCHANGED <<envVars, readers, writes, thrVars, own, wsk>>

(* SocketClearPeerEndpointSrc (socket.c:581-590).                          *)
ClearPeerEndpointSrc(p) ==
    /\ writes < MaxWrites
    /\ readers[p] = {}
    /\ writes' = writes + 1
    /\ epGen' = [epGen EXCEPT ![p] = 0]
    /\ updGen' = [updGen EXCEPT ![p] = @ + 1]
    /\ src' = [src EXCEPT ![p] = 0]
    /\ basis' = [basis EXCEPT ![p] = [kind |-> "cleared", addr |-> addr[p], ver |-> 0]]
    /\ UNCHANGED <<envVars, addr, readers, thrVars, own, wsk, rx>>

-----------------------------------------------------------------------------
Init ==
    /\ routeVer = [f \in Families |-> 0]
    /\ pending = [f \in Families |-> 0]
    /\ routingGen = [f \in Families |-> 1]
    /\ sock \in SockInit
    /\ addr \in [Peers -> Addrs \cup {NoAddr}]
    /\ src = [p \in Peers |-> 0]
    /\ epGen = [p \in Peers |-> 0]
    /\ updGen = [p \in Peers |-> 0]
    /\ basis = [p \in Peers |-> [kind |-> "none", addr |-> NoAddr, ver |-> 0]]
    /\ readers = [p \in Peers |-> {}]
    /\ writes = 0
    /\ pc = [t \in Threads |-> "idle"]
    /\ kind = [t \in Threads |-> "nbl"]
    /\ peerOf = [t \in Threads |-> CHOOSE p \in Peers : TRUE]
    /\ snap = [t \in Threads |-> 0]
    /\ found = [t \in Threads |-> 0]
    /\ qver = [t \in Threads |-> 0]
    /\ qaddr = [t \in Threads |-> NoAddr]
    /\ sendNo = [t \in Threads |-> 0]
    /\ own = [id \in SendIds |-> [ctx |-> "none", data |-> "none"]]
    /\ wsk = {}
    /\ rx = [r \in Receivers |-> RxIdle]
    /\ mibTables = 0

(* Every bounded caller has returned and WSK has completed every IRP.      *)
Quiescent ==
    /\ \A t \in Threads : pc[t] = "idle" /\ sendNo[t] = MaxSends
    /\ \A r \in Receivers : rx[r].pc = "idle"
    /\ wsk = {}

Done == Quiescent /\ UNCHANGED vars

Thread(t) ==
    \/ SendNblsToPeer(t) \/ SendBufferToPeer(t) \/ SendReply(t)
    \/ ResolveAcquire(t) \/ ResolveQuery(t)
    \/ ResolveWrite(t) \/ ResolveReverify(t) \/ SendResolved(t)

Next ==
    \/ \E t \in Threads : Thread(t)
    \/ \E w \in wsk : SendComplete(w)
    \/ \E f \in Families : RouteChange(f) \/ RouteNotification(f)
    \/ \E r \in Receivers : RxParse(r) \/ RxCompareAddr(r) \/ RxSet(r)
    \/ \E p \in Peers : ClearPeerEndpointSrc(p)
    \/ Done

(* Threads are scheduled (weak fairness); the exclusive acquisition of the *)
(* EndpointLock is strongly fair because an EX_SPIN_LOCK with a waiting    *)
(* writer blocks new shared acquirers.  WSK completes every IRP and the OS *)
(* delivers every route notification.  Route changes and endpoint writes   *)
(* are the environment's choice and not fair.                              *)
Fairness ==
    /\ \A t \in Threads :
         /\ WF_vars(ResolveAcquire(t)) /\ WF_vars(ResolveQuery(t))
         /\ SF_vars(ResolveWrite(t)) /\ WF_vars(ResolveReverify(t))
         /\ WF_vars(SendResolved(t))
    /\ \A f \in Families : WF_vars(RouteNotification(f))
    /\ WF_vars(\E w \in wsk : SendComplete(w))
    /\ \A r \in Receivers : WF_vars(RxCompareAddr(r)) /\ SF_vars(RxSet(r))

Spec == Init /\ [][Next]_vars /\ Fairness

-----------------------------------------------------------------------------
(* Properties                                                              *)

(* Optimistic concurrency of SocketResolvePeerEndpointSrc: a source the    *)
(* resolver stored was looked up for the address the endpoint holds now.   *)
(* The lookup runs unlocked (socket.c:247-292) while SocketSetPeerEndpoint *)
(* may replace the address; only the UpdateGeneration re-check at          *)
(* socket.c:294 keeps the old address's route off the new address.          *)
ResolvedForCurrentAddr ==
    \A p \in Peers : basis[p].kind = "resolved" => basis[p].addr = addr[p]

(* Every datagram handed to WSK for a peer carries a source interface      *)
(* (non-zero ipi_ifindex) that was resolved or learned for the very        *)
(* address it is sent to.  A writer between the exclusive section and the  *)
(* shared re-acquire (socket.c:320-323) could clear the source; the        *)
(* re-check at socket.c:324 sends the resolver round again.                 *)
SentWithOwnSource ==
    \A w \in wsk :
        /\ w.ep.src # 0
        /\ w.ep.basis.kind \in {"resolved", "learned"}
        /\ w.ep.basis.addr = w.ep.addr

(* Ownership on every path of both send functions and SendComplete: the    *)
(* context and the payload are released at most once, and once a send has *)
(* returned and WSK holds no IRP of it, nothing of it is left unreleased.  *)
SendOwnershipExact ==
    \A id \in SendIds :
        /\ own[id].ctx # "double" /\ own[id].data # "double"
        /\ (/\ id[2] <= sendNo[id[1]]
            /\ (id[2] = sendNo[id[1]] => pc[id[1]] = "idle")
            /\ \A w \in wsk : w.id # id)
           => "live" \notin {own[id].ctx, own[id].data}

(* The resolver's retry loop ends: every send returns once the endpoint    *)
(* writers it races with have stopped.                                     *)
SendTerminates == \A t \in Threads : pc[t] # "idle" ~> pc[t] = "idle"

(* The routing-generation contract: a cached source that passes the fast   *)
(* path reflects every forwarding-table change whose notification has      *)
(* already been delivered.  socket.c:301/310 read the generation after the *)
(* table was scanned, so a change notified during the scan is stamped as   *)
(* already accounted for.                                                   *)
FreshAfterNotification ==
    \A p \in Peers :
        (FastValid(p) /\ basis[p].kind = "resolved")
            => basis[p].ver >= routeVer[Fam(addr[p])] - pending[Fam(addr[p])]

(* Every forwarding table GetIpForwardTable2 hands the resolver is given   *)
(* back with FreeMibTable: the resolver's allocations do not grow without  *)
(* bound across sends.  The early return at socket.c:258-259 skips it.     *)
MibTablesFreed == mibTables = 0

(* The endpoint cache as its senders see it (EndpointCache): the locks,    *)
(* generations and retries of socket.c:229-590 implement a cache whose     *)
(* address and source change only in whole steps, whose source is resolved *)
(* only for the address it is stored with, and whose sends carry one       *)
(* consistent (address, source) pair with a source set.  A datagram in a   *)
(* WSK IRP is mapped to its (address, source) pair.                        *)
Cache == INSTANCE EndpointCache WITH
    ver  <- routeVer,
    sent <- {[addr |-> w.ep.addr, src |-> w.ep.src] : w \in wsk}

ImplementsEndpointCache == Cache!Spec
=============================================================================
