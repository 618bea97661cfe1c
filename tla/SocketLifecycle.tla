--------------------------- MODULE SocketLifecycle ---------------------------
(***************************************************************************)
(* The lifetime of the device's UDP sockets in driver/socket.c.            *)
(*                                                                         *)
(* A SOCKET is created and bound by CreateAndBindSocket, published in      *)
(* Wg->Sock4 by SocketReinit under SocketUpdateLock, read by SendAsync     *)
(* inside an RCU read section, and called back by WSK through Receive,     *)
(* which wraps each datagram after ExAcquireRundownProtection on           *)
(* ItemsInFlight.  The engine later releases each wrapped datagram.        *)
(* SocketReinit unpublishes the old socket, waits for an RCU grace period  *)
(* and calls CloseSocket, which waits for the rundown to drain, closes the *)
(* WSK socket and frees the SOCKET.                                         *)
(*                                                                         *)
(* Wg->Sock6 is handled by the same lines of code as Wg->Sock4; one        *)
(* pointer is modelled.                                                    *)
(***************************************************************************)
EXTENDS Naturals, FiniteSets

CONSTANTS
    Sockets,          \* SOCKET objects the driver may allocate
    NULL,             \* the empty socket pointer
    Ctls,             \* threads calling SocketInit / SocketReinit
    Senders,          \* threads in SendAsync
    MaxInFlight,      \* bound on wrapped datagrams held by the engine per socket
    IrpAllocCanFail   \* whether IoAllocateIrp in CloseSocket may fail

ASSUME NULL \notin Sockets /\ MaxInFlight \in Nat \ {0} /\ IrpAllocCanFail \in BOOLEAN

VARIABLES
    sock,       \* Wg->Sock4
    mem,        \* [Sockets -> {"unused", "live", "freed"}]: the SOCKET allocation
    wskOpen,    \* [Sockets -> BOOLEAN]: Socket->Sock is a WSK socket not yet closed
    rundown,    \* [Sockets -> BOOLEAN]: ExWaitForRundownProtectionRelease has begun
    inFlight,   \* [Sockets -> Nat]: rundown references held by wrapped datagrams
    cpc,        \* [Ctls -> label]
    target,     \* the socket a control thread creates, publishes or closes
    old,        \* Old4 in SocketReinit
    grace,      \* [Ctls -> SUBSET Senders]: readers RcuSynchronize still waits for
    spc,        \* [Senders -> {"idle", "rcu"}]
    sptr        \* the socket pointer a sender dereferenced

vars == <<sock, mem, wskOpen, rundown, inFlight, cpc, target, old, grace, spc, sptr>>
sockVars == <<mem, wskOpen, rundown, inFlight>>
ctlVars  == <<cpc, target, old, grace>>
sndVars  == <<spc, sptr>>

TypeOK ==
    /\ sock \in Sockets \cup {NULL}
    /\ mem \in [Sockets -> {"unused", "live", "freed"}]
    /\ wskOpen \in [Sockets -> BOOLEAN]
    /\ rundown \in [Sockets -> BOOLEAN]
    /\ inFlight \in [Sockets -> 0..MaxInFlight]
    /\ cpc \in [Ctls -> {"idle", "swap", "sync", "rundown", "drain", "close"}]
    /\ target \in [Ctls -> Sockets \cup {NULL}]
    /\ old \in [Ctls -> Sockets \cup {NULL}]
    /\ grace \in [Ctls -> SUBSET Senders]
    /\ spc \in [Senders -> {"idle", "rcu"}]
    /\ sptr \in [Senders -> Sockets \cup {NULL}]

-----------------------------------------------------------------------------
(* CreateAndBindSocket (socket.c:695-792).  MemAllocate may fail (nothing  *)
(* to undo); WskSocket may fail (the SOCKET has no Sock); any later step   *)
(* (the three SetSockOpt calls, WskBind, WskGetLocalAddress) may fail with *)
(* the WSK socket open and its Receive callback armed; both failures end   *)
(* in CloseSocket.  SocketReinit(Wg, NULL, ...) on device down is the      *)
(* "down" choice.                                                          *)
CreateAndBindSocket(c) ==
    /\ cpc[c] = "idle"
    /\ \/ /\ target' = [target EXCEPT ![c] = NULL]
          /\ cpc' = [cpc EXCEPT ![c] = "swap"]
          /\ UNCHANGED sockVars
       \/ \E s \in Sockets, res \in {"ok", "wskFail", "bindFail"} :
            /\ mem[s] = "unused"
            /\ mem' = [mem EXCEPT ![s] = "live"]
            /\ wskOpen' = [wskOpen EXCEPT ![s] = res # "wskFail"]
            /\ target' = [target EXCEPT ![c] = s]
            /\ cpc' = [cpc EXCEPT ![c] = IF res = "ok" THEN "swap" ELSE "rundown"]
            /\ UNCHANGED <<rundown, inFlight>>
    /\ UNCHANGED <<sock, old, grace, sndVars>>

(* SocketReinit's critical section (socket.c:842-849): read the old       *)
(* pointer and publish the new one under SocketUpdateLock.  The readers    *)
(* now inside an RCU read section are those RcuSynchronize must wait for.  *)
Publish(c) ==
    /\ cpc[c] = "swap"
    /\ old' = [old EXCEPT ![c] = sock]
    /\ sock' = target[c]
    /\ grace' = [grace EXCEPT ![c] = {r \in Senders : spc[r] = "rcu"}]
    /\ cpc' = [cpc EXCEPT ![c] = "sync"]
    /\ UNCHANGED <<sockVars, target, sndVars>>

(* Fault variant: the grace period is not waited for.                     *)
GraceElapsedNever(c) == TRUE

(* Fault variant: the wait lasts until no reader at all is in a read       *)
(* section, including readers that entered after the swap.                 *)
GraceElapsedQuiescent(c) == \A r \in Senders : spc[r] = "idle"

(* RcuSynchronize (socket.c:850) returns once every reader that was inside *)
(* a read section at the swap has left it.                                 *)
GraceElapsed(c) == grace[c] = {}

(* After RcuSynchronize, CloseSocket(Old4) (socket.c:850-852).  A NULL old *)
(* pointer makes CloseSocket return at once.                               *)
Synchronize(c) ==
    /\ cpc[c] = "sync"
    /\ GraceElapsed(c)
    /\ target' = [target EXCEPT ![c] = old[c]]
    /\ cpc' = [cpc EXCEPT ![c] = IF old[c] = NULL THEN "idle" ELSE "rundown"]
    /\ UNCHANGED <<sock, sockVars, old, grace, sndVars>>

(* CloseSocket, ExWaitForRundownProtectionRelease (socket.c:646): first    *)
(* new acquisitions are refused, then the wait for the count to drain.     *)
RundownBegin(c) ==
    /\ cpc[c] = "rundown"
    /\ rundown' = [rundown EXCEPT ![target[c]] = TRUE]
    /\ cpc' = [cpc EXCEPT ![c] = "drain"]
    /\ UNCHANGED <<sock, mem, wskOpen, inFlight, target, old, grace, sndVars>>

(* Fault variant: the wait returns without the references being dropped. *)
DrainedAlways(s) == TRUE

Drained(s) == inFlight[s] = 0

RundownWait(c) ==
    /\ cpc[c] = "drain"
    /\ Drained(target[c])
    /\ cpc' = [cpc EXCEPT ![c] = "close"]
    /\ UNCHANGED <<sock, sockVars, target, old, grace, sndVars>>

(* The rest of CloseSocket (socket.c:647-664): with a WSK socket, allocate *)
(* an IRP, WskCloseSocket and wait for it (WSK completes the close after   *)
(* in-progress callbacks return), then MemFree.  When IoAllocateIrp fails  *)
(* the code jumps to freeIt and frees the SOCKET with its WSK socket open. *)
CloseAndFree(c) ==
    LET s == target[c] IN
    /\ cpc[c] = "close"
    /\ \E irpOk \in IF IrpAllocCanFail THEN BOOLEAN ELSE {TRUE} :
         wskOpen' = [wskOpen EXCEPT ![s] = IF irpOk THEN FALSE ELSE @]
    /\ mem' = [mem EXCEPT ![s] = "freed"]
    /\ cpc' = [cpc EXCEPT ![c] = "idle"]
    /\ target' = [target EXCEPT ![c] = NULL]
    /\ old' = [old EXCEPT ![c] = NULL]
    /\ UNCHANGED <<sock, rundown, inFlight, grace, sndVars>>

-----------------------------------------------------------------------------
(* SendAsync (socket.c:159-168): RcuReadLock and RcuDereference of        *)
(* Wg->Sock4; a NULL pointer ends the section with NETWORK_UNREACHABLE.    *)
SendEnter(r) ==
    /\ spc[r] = "idle"
    /\ IF sock = NULL
         THEN UNCHANGED sndVars
         ELSE /\ spc' = [spc EXCEPT ![r] = "rcu"]
              /\ sptr' = [sptr EXCEPT ![r] = sock]
    /\ UNCHANGED <<sock, sockVars, ctlVars>>

(* SendAsync (socket.c:169-196): WskSendMessages / WskSendTo through       *)
(* Socket->Sock->Dispatch, then RcuReadUnlock.                             *)
SendExit(r) ==
    /\ spc[r] = "rcu"
    /\ spc' = [spc EXCEPT ![r] = "idle"]
    /\ sptr' = [sptr EXCEPT ![r] = NULL]
    /\ grace' = [c \in Ctls |-> grace[c] \ {r}]
    /\ UNCHANGED <<sock, sockVars, cpc, target, old>>

-----------------------------------------------------------------------------
(* ExAcquireRundownProtection succeeds until the rundown has begun.       *)
AcquireRundown(s) == ~rundown[s]

(* Receive (socket.c:595-628), the WSK callback, for one datagram on a     *)
(* socket whose WSK socket is open.  It is wrapped when an NBL can be      *)
(* allocated, the device is up and the rundown reference is acquired;      *)
(* otherwise it goes straight back to WSK through WskRelease.              *)
Receive(s) ==
    /\ wskOpen[s]
    /\ inFlight[s] < MaxInFlight
    /\ \E wrapped \in BOOLEAN :
         inFlight' = [inFlight EXCEPT ![s] =
                        IF wrapped /\ AcquireRundown(s) THEN @ + 1 ELSE @]
    /\ UNCHANGED <<sock, mem, wskOpen, rundown, ctlVars, sndVars>>

(* Fault variant: a release without a matching acquisition.               *)
EngineReleaseUnchecked(s) ==
    /\ inFlight' = [inFlight EXCEPT ![s] = @ - 1]
    /\ UNCHANGED <<sock, mem, wskOpen, rundown, ctlVars, sndVars>>

(* The engine's release of a wrapped datagram (receive.c, not under src/):  *)
(* WskRelease on the socket of the indication, then                        *)
(* ExReleaseRundownProtection(&Socket->ItemsInFlight).                      *)
EngineRelease(s) ==
    /\ inFlight[s] > 0
    /\ inFlight' = [inFlight EXCEPT ![s] = @ - 1]
    /\ UNCHANGED <<sock, mem, wskOpen, rundown, ctlVars, sndVars>>

-----------------------------------------------------------------------------
Init ==
    /\ sock = NULL
    /\ mem = [s \in Sockets |-> "unused"]
    /\ wskOpen = [s \in Sockets |-> FALSE]
    /\ rundown = [s \in Sockets |-> FALSE]
    /\ inFlight = [s \in Sockets |-> 0]
    /\ cpc = [c \in Ctls |-> "idle"]
    /\ target = [c \in Ctls |-> NULL]
    /\ old = [c \in Ctls |-> NULL]
    /\ grace = [c \in Ctls |-> {}]
    /\ spc = [r \in Senders |-> "idle"]
    /\ sptr = [r \in Senders |-> NULL]

Ctl(c) ==
    \/ CreateAndBindSocket(c) \/ Publish(c) \/ Synchronize(c)
    \/ RundownBegin(c) \/ RundownWait(c) \/ CloseAndFree(c)

(* All sockets used up and every control thread back in SocketInit's      *)
(* caller: the bounded run ends here.                                      *)
Done ==
    /\ \A s \in Sockets : mem[s] # "unused"
    /\ \A c \in Ctls : cpc[c] = "idle"
    /\ UNCHANGED vars

Next ==
    \/ \E c \in Ctls : Ctl(c)
    \/ \E r \in Senders : SendEnter(r) \/ SendExit(r)
    \/ \E s \in Sockets : Receive(s) \/ EngineRelease(s)
    \/ Done

(* Control threads and senders are scheduled (weak fairness); the engine   *)
(* releases every datagram it was handed.  Datagram arrival and new sends  *)
(* are not forced.                                                         *)
Fairness ==
    /\ \A c \in Ctls : WF_vars(Publish(c) \/ Synchronize(c) \/ RundownBegin(c)
                               \/ RundownWait(c) \/ CloseAndFree(c))
    /\ \A r \in Senders : WF_vars(SendExit(r))
    /\ \A s \in Sockets : WF_vars(EngineRelease(s))

Spec == Init /\ [][Next]_vars /\ Fairness

-----------------------------------------------------------------------------
(* Properties                                                              *)

(* No freed SOCKET is reachable: not through Wg->Sock4, not from a sender  *)
(* inside its RCU read section, not from a datagram the engine still holds,*)
(* and not as the context of a WSK socket that can still call Receive.    *)
(* This is what the RCU grace period of SocketReinit, the rundown wait of  *)
(* CloseSocket and the close-before-free order of CloseSocket provide.     *)
NoUseAfterFree ==
    /\ sock # NULL => mem[sock] = "live" /\ wskOpen[sock]
    /\ \A r \in Senders : spc[r] = "rcu" => mem[sptr[r]] = "live" /\ wskOpen[sptr[r]]
    /\ \A s \in Sockets : inFlight[s] > 0 => mem[s] = "live" /\ wskOpen[s]
    /\ \A s \in Sockets : wskOpen[s] => mem[s] = "live"

(* SocketReinit returns: the grace period ends, the rundown drains and the *)
(* old socket is closed, whatever datagrams keep arriving.                 *)
ReinitCompletes == \A c \in Ctls : cpc[c] # "idle" ~> cpc[c] = "idle"
=============================================================================
