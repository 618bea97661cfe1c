# TLA+ models of the wireguard-nt UDP transport (`src/driver/socket.c`)

This directory holds TLA+ models of the WSK socket layer of the wireguard-nt
driver. All of it is in one file, `src/driver/socket.c` (988 lines). Every
definition is translated from that file. `PROJECT.json` maps each modelled
definition to the lines it stands for.

## 1. Inventory

### Components, their state and operations

| Component | State (in the code) | Operations | Model |
|---|---|---|---|
| Transport bootstrap | `WskInitStatus`, `WskIsIniting` push lock, `WskRegistration`, `WskProviderNpi`, `WskHasIpv4/6Transport`, route notifier handles, lookaside list | `WskInit`, `WskUnload`, `RouteNotification` | WskTransport, refined to WskInitOnce; `RouteNotification` in EndpointResolver |
| Socket object | `SOCKET{Sock, Device, ItemsInFlight}` (rundown protection) | `CreateAndBindSocket`, `SetSockOpt`, `CloseSocket`, `RaiseEventOnComplete` | SocketLifecycle (outcomes, `CloseSocket`); SocketInitRetry (`SetSockOpt`, the family option, `WskBind`, `WskGetLocalAddress`) |
| Device socket pair | `Wg->Sock4`, `Wg->Sock6` (RCU), `Wg->IncomingPort`, `SocketUpdateLock` | `SocketInit` (retrying up to 100 times), `SocketReinit` | `SocketReinit` in SocketLifecycle; `SocketInit` and its retry loop in SocketInitRetry |
| Send-context pool | `SocketSendCtxCache` lookaside, `SOCKET_SEND_CTX` | allocation in the send functions, `SendComplete` | EndpointResolver |
| Source-address resolver | `Peer->Endpoint` fields `Src4/6`, `RoutingGeneration`, `UpdateGeneration`; `Peer->EndpointLock` | `SocketResolvePeerEndpointSrc` | EndpointResolver (the route choice is abstract there); the scan in RouteScan |
| Outbound send paths | none of their own beyond the context | `SocketSendNblsToPeer`, `SocketSendBufferToPeer`, `SocketSendBufferAsReplyToNbl`, `SendAsync` | EndpointResolver |
| Win7 polyfill | a heap reference count per `WskSendMessages` call | `PolyfilledWskSendMessages`, `PolyfilledSendComplete` | Polyfill |
| Inbound receive path | the datagram batch; `Wg->IsUp`; `ifInDiscards` | `Receive` (WSK callback) | SocketLifecycle |
| Endpoint management | `Peer->Endpoint` (address, source, `SrcCmsghdr`) | `SocketEndpointFromNbl`, `EndpointEq`, `SocketSetPeerEndpoint`, `SocketSetPeerEndpointFromNbl`, `SocketClearPeerEndpointSrc`, `FindInCmsgHdr` | EndpointResolver, refined to EndpointCache; ControlInfo |
| CIDR match | none (pure) | `CidrMaskMatchV4`, `CidrMaskMatchV6` | CidrMatch |

### How the components interact

- **Shared state under a reader-writer spinlock.** The endpoint of a peer has three writers:
  - the resolver's slow path;
  - `SocketSetPeerEndpoint`, called from the receive side of the engine;
  - `SocketClearPeerEndpointSrc`, called by the engine's timers and configuration.

  It has one reader: the send paths, which hold the lock shared from the end of the resolver until they have copied the endpoint. The resolver reads the endpoint's address without the lock while it queries the OS. It detects concurrent writers through `UpdateGeneration`.
- **OS callbacks.** `NotifyRouteChange2` calls `RouteNotification`, which adds 2 to the per-family routing generation. That invalidates every cached source of the family.
- **RCU.** `SendAsync` reads `Wg->Sock4/6` under `RcuReadLock`. `SocketReinit` publishes new pointers, waits in `RcuSynchronize`, and then closes the old sockets.
- **Rundown protection.** `Receive` (a WSK callback) acquires `ItemsInFlight` per datagram. The engine releases it later. `CloseSocket` waits for all of them before it calls `WskCloseSocket`.
- **I/O completion.** Every send ends in `SendComplete`, run by WSK. The completion owns the context and the payload once `SendAsync` has succeeded.

### What is hard

- Endpoint writes interleaving with the resolver's unlocked query and its two re-checks (lines 294 and 324).
- Route changes and their delayed notifications racing the resolver's table scan.
- Ownership of the context and of the payload on every failure path.
- Socket swap racing `SendAsync` and `Receive`, and `CloseSocket` waiting for in-flight datagrams.
- A partially failed close, init or bind.
- The ephemeral-port retry loop.
- The polyfill's completion counting.

### What makes each component correct

- **Resolver:** a cached source is used only while no notified route change is newer than it. A source stored by the resolver was looked up for the endpoint's current address. A send never copies a cleared source. The retry loop ends.
- **Send paths:** the context and the payload are released exactly once, by the completion or by the failure path.
- **Socket pair / socket object:** no reader sees a freed socket. A socket is freed only after its in-flight datagrams are released and WSK has closed it. Every old socket is closed exactly once.
- **SocketInit:** retries ask for a fresh ephemeral port, and a port that is free on both families is found.
- **Bootstrap:** a failure rolls back exactly what succeeded. The cached status is returned to every later caller.
- **Polyfill:** the original IRP completes exactly once, after the last sub-send.

## 2. Plan

The modules, in order of importance:

1. **EndpointResolver** (done). The endpoint cache, the resolver, the three send entry points, `SendAsync`, `SendComplete`, the endpoint writers, and route notifications.
2. **SocketLifecycle** (done). The device socket pair under RCU, `SocketReinit`, `CloseSocket` with rundown protection, `Receive` and the engine's release of datagrams, and `SendAsync` as an RCU reader. Properties:
   - no use of a freed socket by a reader, a callback or an in-flight datagram;
   - every old socket closed exactly once;
   - the close eventually completes.

   It should also show the `IoAllocateIrp` failure in `CloseSocket`. Done: no use after free, the close completes, and the `IoAllocateIrp` failure. Still open: a separate exactly-once-close property. It needs a close counter and a mutant that reads `Old4` outside `SocketUpdateLock`.
3. **SocketInitRetry** (done). `SocketInit` with `CreateAndBindSocket` and an OS port allocator. It shows that retries re-request the port written back into `Sa4`. It also shows that the family options `SetSockOpt` sets before `WskBind` keep the IPv6 socket from colliding with the IPv4 socket of the same call.
4. **CidrMatch and RouteScan** (done). `CidrMaskMatchV4/V6` over reduced-width addresses, and the table scan of the resolver as a fold over a small table. Both are checked against reference definitions; for the scan, any longest, cheapest route is accepted, while the code picks the last one in table order. MCEndpointResolver takes its IPv4 routes from RouteScan.
5. **WskTransport** (done). `WskInit` and `WskUnload` with failure at each step, three concurrent callers and the cached status, refined to the once-only initialiser WskInitOnce.
6. **Polyfill** (done). `PolyfilledWskSendMessages` and its reference count, with the unhandled allocation failure of the count.
7. **Abstract endpoint cache** (done). EndpointCache states what the endpoint promises its senders, and EndpointResolver is shown to implement it. It promises no freshness: a resolved source may come from any table version the OS has had. Freshness is the separate `FreshAfterNotification`, which the code violates.
8. **ControlInfo** (done). `FindInCmsgHdr` over runs of control-message headers, with the SIZE_T length at reduced width.

## 3. Modules and runs

### EndpointResolver (`EndpointResolver.tla`, `MCEndpointResolver.tla`)

**State.**
- The OS forwarding table per family is a version number `routeVer`. Each change queues one notification (`pending`). Delivering it adds 2 to `routingGen` (`RoutingGenerationV4/V6`).
- Per peer: `addr`, `src` (interface index; the source address is determined by the interface), `epGen` (`Endpoint->RoutingGeneration`) and `updGen` (`UpdateGeneration`).
- `readers` holds the shared holders of `EndpointLock`. Exclusive sections are single steps, guarded by `readers[p] = {}`.
- Per sending thread: a program counter through the resolver (`resolve`, `query`, `write`, `reverify`, `send`) and the resolver's locals (`snap` is the local `UpdateGeneration`, `found` is `BestIndex`).
- `own` tracks the context and payload of every send. `wsk` holds the IRPs handed to WSK. `rx[r]` is receiver r's progress between `SocketEndpointFromNbl` and `SocketSetPeerEndpoint`; `Receive` runs on every CPU, so receivers race each other. `mibTables` counts forwarding tables not yet freed.
- `basis`, `qver` and `qaddr` are history variables. They record which table version and address a source was computed from.

**Actions.**
- `SendNblsToPeer`, `SendBufferToPeer`, `SendReply`: the entry points, including their allocation failures.
- `ResolveAcquire`, `ResolveQuery`, `ResolveWrite`, `ResolveReverify`: the four segments of `SocketResolvePeerEndpointSrc`, split at its lock boundaries.
- `SendResolved` (with `SendAsync`) and `SendComplete`.
- `RxParse`, `RxCompareAddr` and `RxSet`: `SocketSetPeerEndpointFromNbl`. `EndpointEq` at line 540 reads the endpoint without the lock, the address first and the pkt-info after it. `RxCompareAddr` is the read of the address, and `RxSet` reads the pkt-info and copies the endpoint (`CopyEndpoint`) under the exclusive lock. Another receiver's write can fall between the two reads. The comparison can then be torn: an update is skipped although the endpoint never equalled the datagram's.
- `ClearPeerEndpointSrc`.
- `RouteChange` (the OS) and `RouteNotification`.

**Abstractions.** The result of the scan is the constant operator `RouteOf(version, address)`. The MC module composes RouteScan here: for the IPv4 addresses (a1 = 01, a2 = 10 at 2-bit width), `RouteOf` is `ScanRoutes` over a forwarding table per version. Each table carries the tunnel's own default route, which the scan must skip. Version 0 has a host route to a1 over interface 1 and a default route over interface 2. In version 1, a1 moves to interface 2 and a2 has no route. The IPv6 address b1 leaves by interface 2, because RouteScan scans IPv4 only. The outcomes of the OS calls are enumerated: table query error, interface-row allocation failure, `GetBestRoute2` error, and success. Statistics, `SrcCmsghdr` and IRQLs are left out.

**Bounds.** One peer, interfaces 1 and 2, and one IPv4 table change (IPv6 changes run the same code). Two endpoint writes: datagrams or clears. One send per thread. An IPv4 socket and no IPv6 socket, so sends to b1 take the `NETWORK_UNREACHABLE` path. There are two configurations:
- `MCEndpointResolver.cfg`: two sending threads and two receivers, over a1 and a2. Receivers are interchangeable, so symmetry over them is used; it is sound for these safety properties.
- `MCEndpointResolverLive.cfg`: one thread and two receivers, over a1, a2 and b1, so the endpoint roams between families. No symmetry is used, because this run also checks liveness.

Running both configurations at full size (two threads, two receivers, both families) takes over six minutes. These bounds let every check interleave with a write, a route change and its notification, a torn comparison, and either a second thread or a change of family.

**Abstract specification.** `EndpointCache` is the endpoint as its senders see it: an address and a source (0 when unset) per peer, with these steps:
- `Learn`: a datagram sets the address and the source together.
- `Clear`: the source is dropped.
- `Resolve`: the source is set to the route, in some table version up to the current one, of the address the endpoint holds at that moment.
- `Send`: the current pair is sent, only when a source is set.
- `Reply`: any pair from an incoming datagram is sent.
- `Complete`: a sent pair completes.

The mapping is `ver <- routeVer`, and `sent` is the set of (address, source) pairs of the IRPs in `wsk`. Under it, every step of the resolver, the send paths and the writers is a `Cache!Next` step or a stutter. A torn comparison that skips an update is a stutter. TLC checks `ImplementsEndpointCache == Cache!Spec` as a property.

**Fairness.**
- Threads are weakly fair.
- The exclusive acquisitions (`ResolveWrite`, each receiver's `RxSet`) are strongly fair, because an `EX_SPIN_LOCK` with a waiting writer blocks new shared acquirers.
- WSK completes every IRP, and the OS delivers every notification.
- Route changes and endpoint writes are not fair.

| Run | cfg | Expect | Shows |
|---|---|---|---|
| resolver_safety | MCEndpointResolver.cfg (2 threads, 2 receivers, IPv4) | pass | `ResolvedForCurrentAddr`: the line-294 re-check keeps an old address's route off a new address. `SentWithOwnSource`: the line-324 re-check keeps a cleared source out of a send. `SendOwnershipExact`: every path frees context and payload exactly once. `TypeOK` also states that a routing generation stays odd. It starts at 1 (line 31) and `RouteNotification` adds 2 (line 861), so it never equals the 0 that `SocketClearPeerEndpointSrc` stores, even after the ULONG wraps. `ImplementsEndpointCache`: the refinement above, torn comparisons included. |
| resolver_liveness | MCEndpointResolverLive.cfg (1 thread, 2 receivers, both families) | pass | The same four safety properties while the endpoint roams between families, and `SendTerminates`: the retry loop ends once the writers stop. |
| resolver_stale_generation | MCEndpointResolverFresh.cfg | violation | `FreshAfterNotification`. The resolver scans table version 0, then a route change is notified (generation 1 becomes 3), then the resolver stores the version-0 route under generation 3. The fast path keeps using the wrong interface until the next route change. Cause: the generation is read at socket.c:301/310, after the scan. |
| resolver_mib_leak | MCEndpointResolverMib.cfg | violation | `MibTablesFreed`. socket.c:258-259 returns without `FreeMibTable`. |

Each property of the passing runs has a mutant in `PROJECT.json`. The mutant is a plausible fault of the mapped code, and TLC finds the property violated under it:
- `RouteNotification` adding 1 instead of 2, which makes a generation even (`TypeOK`);
- dropping the line-294 re-check;
- dropping the line-324 re-check;
- a cleanup label that frees only the context;
- comparing against the already incremented local `UpdateGeneration`, which makes the loop livelock;
- `SocketSetPeerEndpoint` copying the address and not the pkt-info, which only the refinement notices.

resolver_liveness repeats the safety mutants under its own configuration.

### SocketLifecycle (`SocketLifecycle.tla`, `MCSocketLifecycle.tla`)

**State.**
- `sock` is `Wg->Sock4`. `Wg->Sock6` is read and written by the same lines, so one pointer is modelled.
- Per SOCKET: `mem` (unused, live, freed), `wskOpen` (its WSK socket exists and is not closed, so WSK may call `Receive` with it as context), `rundown` (`ExWaitForRundownProtectionRelease` has begun, so `ExAcquireRundownProtection` fails) and `inFlight` (rundown references held by datagrams handed to the engine).
- Per control thread (a caller of `SocketInit`/`SocketReinit`): a program counter, the socket it creates or closes (`target`), `Old4` (`old`), and `grace`, the readers that were inside an RCU read section when the new pointer was published and that `RcuSynchronize` still waits for.
- Per sender: whether it is inside `SendAsync`'s RCU read section, and the pointer it dereferenced.

**Actions.**
- `CreateAndBindSocket`: success, allocation failure, failure before a WSK socket exists, failure after it exists (`SetSockOpt`, `WskBind`, `WskGetLocalAddress`), or `SocketReinit(Wg, NULL, NULL, 0)` on device down. Both failures go through `CloseSocket`.
- `Publish` (the `SocketUpdateLock` section), `Synchronize` (`RcuSynchronize`, then `CloseSocket(Old4)`).
- `RundownBegin`, `RundownWait`, `CloseAndFree`: `CloseSocket`, including the `IoAllocateIrp` failure at line 652-653 when the constant `IrpAllocCanFail` allows it.
- `SendEnter`, `SendExit`: `SendAsync`'s read section.
- `Receive` (one datagram per step) and `EngineRelease` (the engine's `WskRelease` plus `ExReleaseRundownProtection`, modelled from the spec because receive.c is not in this repository).

**Bounds.** Four sockets, so a run sees several swaps, a failed bind and a device-down. Two control threads race their swaps. Two senders. At most two wrapped datagrams per socket. The run checks a liveness property, so it uses no symmetry.

**Fairness.** Control threads and senders are weakly fair: they are kernel threads that run. The engine releases every datagram it received (weak fairness). Datagram arrival, new sends and new reinitialisations are not fair: they come from the network and the user.

| Run | cfg | Expect | Shows |
|---|---|---|---|
| lifecycle | MCSocketLifecycle.cfg | pass | `NoUseAfterFree`: no freed SOCKET is reachable from `Wg->Sock4`, a sender's read section, an in-flight datagram or an open WSK socket. The grace period, the rundown wait and close-before-free give this. `ReinitCompletes`: `SocketReinit` and a failed `CreateAndBindSocket` return, because no datagram is wrapped once the rundown has begun. |
| lifecycle_close_irp_failure | MCSocketLifecycleIrp.cfg | violation | `NoUseAfterFree`. A bind fails, `CloseSocket`'s `IoAllocateIrp` fails, and the SOCKET is freed with its WSK socket still open (socket.c:651-653 jump to `freeIt`). The invariant fails on that open WSK socket, whose `SocketContext` is the freed SOCKET. In this trace the bind had failed, so no datagram can arrive; after a successful bind, a later `Receive` would use freed memory. |

Mutants: skipping the grace period breaks `NoUseAfterFree`. A grace period that waits for a moment with no reader at all, including readers that entered after the swap, can be starved by overlapping senders, and `ReinitCompletes` fails. An engine release without a matching acquisition breaks `TypeOK`.

### SocketInitRetry (`SocketInitRetry.tla`, `MCSocketInitRetry.tla`)

**State.** The `Port` argument, the transports WskInit found, the ports other programs hold per family (`busy`), the OS's ephemeral allocator (`cursor` into `EphemeralOrder`), `Sa4.sin_port` and `Sa6.sin6_port`, `New4`/`New6`, the sockets of this call still open, `Retries`, the status, and what `SocketReinit` published (`Wg->Sock4/6`, `Wg->IncomingPort`). `tried` is a history variable: the ports the IPv4 socket was bound to.

**Actions.** `BindV4` (lines 805-810) and `BindV6` (lines 812-834) are the two halves of one attempt. `CreateAndBindSocket` is one step per family. `SetSockOpt` (lines 667-691) either succeeds or fails, when `IoAllocateIrp` or `WskControlSocket` fails. `FamilyOption` (lines 733-744) sets `UDP_NOCHECKSUM` on an IPv4 socket and `IPV6_V6ONLY` on an IPv6 one. A failure ends the call. Once the option is in force, the step has the outcome of `WskBind` followed by `WskGetLocalAddress` (`BindResult`, lines 756-780), which writes the bound port back into `Sa4` at line 774. Any other step may also fail (`other`). SocketLifecycle models those other failures in detail. `WskBind` fails with address in use when the port is in `Claimed`: the ports of the socket's own family, or of both families for a dual-stack IPv6 socket, which is one without `IPV6_V6ONLY`. `InUse` counts both the ports in `busy` and those of this call's still-open sockets, so the attempt's IPv4 socket holds its port against the IPv6 bind. Each WSK call waits on `RaiseEventOnComplete`'s event, so it is synchronous and one step. A failed IPv6 bind closes `New4` (lines 818-819). It retries while the port was ephemeral and `Retries++ < 100` (line 820). A success calls `SocketReinit` with the port chosen by the ternary at lines 830-832.

**Bounds.** Three ports, handed out by the ephemeral allocator in order. The requested port is 0 or 2. Every subset of ports is busy per family, with every combination of transports. `MaxRetries` = 2 stands for 100: two retries already show both the retry and the exhausted budget.

| Run | cfg | Expect | Shows |
|---|---|---|---|
| socket_init_retry | MCSocketInitRetry.cfg | pass | `NoSocketLeak`: the open sockets are exactly the published ones. `PortAgreement`: both families are published on `IncomingPort`. `AddressInUseIsReal`: SocketInit fails with address in use only for a port another program holds in a family with a transport. The mutant `FamilyOptionUnchecked` ignores a failed `IPV6_V6ONLY`; the IPv6 socket is then dual-stack, collides with `New4` on the same port, and TLC reports the violation. |
| socket_init_retry_same_port | MCSocketInitRetryFresh.cfg | violation | `RetriesTryFreshPorts`. Port 1 is busy for IPv6. The IPv4 socket binds ephemeral port 1 and the IPv6 bind fails. Each retry binds port 1 again, because `Sa4` still holds it (socket.c:774, 821), so SocketInit gives up after retrying one port. |

Mutants: not closing `New4` breaks `NoSocketLeak`; binding IPv6 to `Port` instead of `Sa4`'s port breaks `PortAgreement`; `Retries <= 100` breaks `TypeOK`'s bound on `Retries`.

### WskTransport and WskInitOnce (`WskTransport.tla`, `WskInitOnce.tla`, `MCWskTransport.tla`)

**State.** `WskInitStatus` (a status is a step name, "success" or "retry"), the owner of `WskIsIniting`, how many times each resource is held (lookaside list, registration, provider NPI, the two route notifiers), the transport flags, and per calling thread: its program counter, the cleanup label its failure jumps to, its local `Status`, the buffer overflows it has seen, and its return value. `unloaded` records that `WskUnload` has run.

**Actions.** `FastPath` (lines 868-870) is the unlocked read. `Acquire` (lines 871-874) takes the lock and reads the status again. `InitStep` covers each step that succeeds or fails into the ladder at the code's label. `Query` is the transport-list loop (lines 894-935): a buffer overflow, a failure, or success with the UDP transports of one of `TransportLists`. `Publish` is lines 957-959. `Unwind` runs the cleanup ladder from its entry, caches the status and releases the lock (lines 961-972). `WskUnload` (lines 976-988) runs once no call is in progress.

**Abstract specification.** `WskInitOnce` is a once-only initialiser. A result starts undecided and is decided once by one caller. Every caller returns the decided result. Unload happens after all calls have returned. `WskTransport` implements it under the mapping `result <- WskInitStatus`, and TLC checks `Once!Spec` as a property.

**Bounds.** Three threads, so that two can wait for the lock while one initialises. One buffer overflow per caller. Two transport lists: IPv4 and IPv6 UDP, or `AF_UNSPEC` with a non-UDP entry. There is no fairness and no liveness property: a push-lock waiter is not guaranteed to be scheduled in any order the code relies on.

| Run | cfg | Expect | Shows |
|---|---|---|---|
| wsk_transport | MCWskTransport.cfg | pass | `ResourcesMatchStatus`: with the lock free, every resource is held once after success and not at all after a failure or `WskUnload`. `ImplementsInitOnce`: the refinement above. |

Mutants: a failed IPv6 notifier entering the ladder below `cleanupRouteNotifierV4` breaks `ResourcesMatchStatus`. Not re-reading the status under the lock breaks `ImplementsInitOnce`, and so does not caching a failure. `WskUnload` tearing down after a failure breaks `TypeOK`.

### Polyfill (`Polyfill.tla`)

**State.** The call's number of buffers, its program counter (allocating the count, looping, the final decrement, returned), the loop index, `*RefCount` and whether it is freed, the sub-IRPs WSK has not completed, the buffers dropped for want of a context, and how often the original IRP's completion routine ran.

**Actions.** `AllocRef` (lines 115-118) may fail when `RefAllocCanFail`. `SubmitBuf` is one loop round (lines 119-131), and its context allocation may fail. `LoopEnd` ends the loop. `Final` is the loop's own decrement (lines 132-139). `SubComplete(b)` is `PolyfilledSendComplete` (lines 88-101), run by WSK for any pending sub-IRP at any time.

**Bounds and fairness.** Up to four buffers, enough for completions before, between and after submissions. The submitter and WSK's completions are weakly fair: a kernel thread runs to its end, and WSK completes every IRP it accepted.

| Run | cfg | Expect | Shows |
|---|---|---|---|
| polyfill | MCPolyfill.cfg | pass | `CompletedLast`: the original IRP completes at most once, only after the loop and every sub-send, and no completion touches the freed count. `EventuallyCompleted`: it does complete. |
| polyfill_refcount_alloc | MCPolyfillRefAlloc.cfg | violation | `CompletedWhenQuiescent`. The count's allocation fails, the call returns an error without completing the IRP, and `SendAsync` ignores the error (socket.c:116-117, 175), so the send context and its payload are never freed. |

Mutants: a count starting at 0 breaks `CompletedLast`; skipping the final decrement breaks `EventuallyCompleted`; a loop running one buffer too far breaks `TypeOK`.

### CidrMatch, RouteScan and ControlInfo (`CidrMatch.tla`, `RouteScan.tla`, `ControlInfo.tla`, `MCRouteScan.tla`)

These modules are pure algorithms checked against reference definitions over bounded inputs. Each state of `MCRouteScan` is one input: an IPv4 address and length, an IPv6 address and length, an address and a table, or a run of control-message headers and the pkt-info searched for.

- **CidrMatch.** `CidrMaskMatchV4` and `CidrMaskMatchV6` are modelled with `Bitwise`'s `&` at reduced width: a 2-bit IPv4 address, and an IPv6 address of four 2-bit words. Both keep the zero-length test, the whole-word comparison and the masked leftover word. Byte order is left out because both sides are in network order. The reference is prefix match on bit strings, with table prefixes obtained by arithmetic rather than by a mask.
- **RouteScan.** The loop of lines 260-286 is a `FoldLeft` of `Consider` over the table. `Consider` keeps the code's order of `continue`s: own interface, shorter prefix, no match, interface down or without an IP row, equal length with a higher metric. The metric is summed modulo 2^`MW`. The reference is the set of interfaces whose usable, matching route has the longest prefix and the lowest summed metric. The tables have up to three routes over five interfaces: two usable ones whose metrics differ only after the sum wraps, one down, one without an IP row, and the tunnel's own.
- **ControlInfo.** `FindInCmsgHdr` (lines 459-474) is a recursive `Walk` over a sequence of headers. Each header is given by its level, its type and its data length, and byte offsets follow from the 64-bit layout (16-byte header, 8-byte alignment). `Len` is a SIZE_T kept at `SW` = 8 bits; the real value of 64 bits is beyond TLC's integers. The inputs are every run of up to three headers, each the pkt-info or the ECN header of either family, laid out with every header padded to `WSA_CMSG_SPACE`. Both searches of `SocketEndpointFromNbl` are run on each. The reference is the first header of the requested level and type.

| Run | cfg | Expect | Shows |
|---|---|---|---|
| pure_operators | MCRouteScan.cfg | pass | `V4MatchesReference`, `V6MatchesReference`: both matchers are prefix match for every address, length and table prefix, including lengths ending inside a word and the full length. `ScanPicksBestRoute`: the scan returns interface 0 exactly when no route is usable, and otherwise an interface with a longest, cheapest route. It never returns the tunnel's own interface. `FindsFirstPktinfo`: the search returns the first matching header, or NULL, and `Len` reaches exactly 0 at the end of the control information. |

Mutants: a mask one bit short breaks `V4MatchesReference`; comparing one whole word too few breaks `V6MatchesReference`; skipping routes as long as the best one (`<=` at line 264) breaks `ScanPicksBestRoute`; stepping by the unaligned `cmsg_len` walks past the control information and breaks `FindsFirstPktinfo`.

### Not modelled (and why)

- **Weak memory ordering** (`ReadNoFence`/`WriteNoFence` of `WskInitStatus`): TLC explores only sequentially consistent interleavings.
- **Counter wrap.** The 32-bit wrap of `UpdateGeneration` and of the routing generations needs 2^31 or more events. The counters are unbounded in the model.
- **Metric wrap in the route scan.** The sum is modelled modulo 2^`MW`, as the code computes it. The IP helper accepts only metrics far below 2^31, so no property states what a wrapped sum would mean.
- **Statistics** (`TxBytes`, `ifOutDiscards` and the rest, updated without synchronisation): lost increments change only counters that no control decision reads.
- **`AllKeepalive`** (lines 353, 369-370): `SocketSendNblsToPeer` sets it TRUE after the endpoint is resolved and clears it for any packet whose length is not `MessageDataLen(0)`. Only the engine reads it, and it does not change any state of this file, so the send models leave it out together with the byte and packet counts summed in the same loop.
- **Win7 version probe** (lines 876-881): it only chooses between `WskSendMessages` and the polyfill, and Polyfill models the latter.
- **An unpadded last control-message header.** If WSK reported a `ControlInfoLength` whose last header was not padded to `WSA_CMSG_SPACE`, `Len` would wrap and `FindInCmsgHdr` would walk past the control information. Nothing in this repository says WSK produces such a layout, so only padded layouts are checked.
- **Logging, string formatting, `SockaddrToString`:** no property depends on them.
- **IRQL annotations and pool types:** not behaviour at this level.
