--------------------------- MODULE SocketInitRetry ---------------------------
(***************************************************************************)
(* SocketInit (driver/socket.c:796-836): bind an IPv4 socket, then an IPv6 *)
(* socket on the port the IPv4 one got, retrying the pair when the IPv6    *)
(* bind finds the port taken and an ephemeral port was asked for, and      *)
(* hand both to SocketReinit.                                              *)
(*                                                                         *)
(* The OS side is the set of ports other programs hold per family and an   *)
(* ephemeral-port allocator that hands out the ports of EphemeralOrder in  *)
(* turn, skipping those in use.  A port is a small number; 0 is the        *)
(* "any port" request.  CreateAndBindSocket is one step per family: its    *)
(* bind outcome, the socket options set before the bind, or a failure of  *)
(* another of its steps; SocketLifecycle models its close in detail.       *)
(***************************************************************************)
EXTENDS Naturals, FiniteSets, Sequences

CONSTANTS
    Ports,          \* the non-zero ports of the model
    EphemeralOrder, \* the order in which the OS hands out ephemeral ports
    ReqPorts,       \* the Port arguments SocketInit is called with
    MaxRetries      \* the retry budget, 100 in the code

ASSUME /\ 0 \notin Ports
       /\ EphemeralOrder \in Seq(Ports)
       /\ ReqPorts \subseteq Ports \cup {0}
       /\ MaxRetries \in Nat

Families == {"v4", "v6"}
NoSocket == 0

VARIABLES
    port,         \* the Port argument
    hasTransport, \* [Families -> BOOLEAN]: WskHasIpv4Transport / WskHasIpv6Transport
    busy,         \* [Families -> SUBSET Ports]: ports bound by other programs
    cursor,       \* index of the ephemeral allocator into EphemeralOrder
    sa4,          \* Sa4.sin_port
    sa6,          \* Sa6.sin6_port
    new,          \* [Families -> Ports \cup {NoSocket}]: port of New4 / New6
    open,         \* set of <<family, port>>: sockets of this call not yet closed
    retries,      \* Retries
    pc,           \* "v4", "v6", "done"
    status,       \* "none", "ok", "exists", "other"
    incomingPort, \* Wg->IncomingPort
    published,    \* [Families -> Ports \cup {NoSocket}]: Wg->Sock4 / Wg->Sock6
    tried         \* history: the ports the IPv4 socket was bound to

vars == <<port, hasTransport, busy, cursor, sa4, sa6, new, open, retries, pc,
          status, incomingPort, published, tried>>

TypeOK ==
    /\ port \in ReqPorts
    /\ hasTransport \in [Families -> BOOLEAN]
    /\ busy \in [Families -> SUBSET Ports]
    /\ cursor \in 1..Len(EphemeralOrder) + 1
    /\ sa4 \in Ports \cup {0} /\ sa6 \in Ports \cup {0}
    /\ new \in [Families -> Ports \cup {NoSocket}]
    /\ open \subseteq Families \X Ports
    /\ retries \in 0..MaxRetries
    /\ pc \in {"v4", "v6", "done"}
    /\ status \in {"none", "ok", "exists", "other"}
    /\ incomingPort \in Ports \cup {0}
    /\ published \in [Families -> Ports \cup {NoSocket}]
    /\ tried \subseteq Ports

-----------------------------------------------------------------------------
(* The OS ephemeral allocator: the first entry of EphemeralOrder at or     *)
(* after index i that is not in use, as <<index, port>>, or <<0, 0>> when  *)
(* none is left.                                                           *)
RECURSIVE NextEphemeral(_, _)
NextEphemeral(inUse, i) ==
    IF i > Len(EphemeralOrder) THEN <<0, 0>>
    ELSE IF EphemeralOrder[i] \in inUse THEN NextEphemeral(inUse, i + 1)
    ELSE <<i, EphemeralOrder[i]>>

(* Ports of family f in use: other programs' and this call's open sockets. *)
InUse(f) == busy[f] \cup {p \in Ports : <<f, p>> \in open}

(* The ports WskBind finds taken for a socket of family f: a dual-stack   *)
(* IPv6 socket (IPV6_V6ONLY not set) claims the port in both families.    *)
Claimed(f, dual) == IF dual THEN InUse("v4") \cup InUse("v6") ELSE InUse(f)

(* The outcome of WskBind on family f for the requested port p followed   *)
(* by WskGetLocalAddress (socket.c:756-780): the bound port, or the error. *)
BindResult(f, p, dual) ==
    IF p = 0
      THEN LET e == NextEphemeral(Claimed(f, dual), cursor) IN
           IF e[1] = 0 THEN [st |-> "other", port |-> 0, next |-> cursor]
                       ELSE [st |-> "ok", port |-> e[2], next |-> e[1] + 1]
      ELSE IF p \in Claimed(f, dual)
             THEN [st |-> "exists", port |-> p, next |-> cursor]
             ELSE [st |-> "ok", port |-> p, next |-> cursor]

(* SetSockOpt (lines 667-691): IoAllocateIrp fails, or WskControlSocket    *)
(* completes with its status; TRUE when the option is in force.             *)
SetSockOpt == BOOLEAN

(* Fault variant: the status of the family's option is not checked, and   *)
(* the call goes on to the bind whether or not the option took.           *)
FamilyOptionUnchecked(f, ok) == [fail |-> FALSE, dual |-> f = "v6" /\ ~ok]

(* Lines 733-744: UDP_NOCHECKSUM on an IPv4 socket, IPV6_V6ONLY on an      *)
(* IPv6 one; a failure ends the call.  Yields whether the call goes on and *)
(* whether the socket is left dual-stack.                                  *)
FamilyOption(f, ok) == [fail |-> ~ok, dual |-> FALSE]

(* The outcome of CreateAndBindSocket(f, p) (lines 695-792): the bind's,   *)
(* once the family's option is in force, or "other" when another step     *)
(* fails (MemAllocate, IoAllocateIrp, WskSocket, the pkt-info option at    *)
(* lines 746-754, WskGetLocalAddress).  Every failure closes the socket    *)
(* at cleanupIrp/cleanupSocket.                                            *)
CreateAndBindSocket(f, p) ==
    LET other == [st |-> "other", port |-> p, next |-> cursor] IN
    {other} \cup {IF o.fail THEN other ELSE BindResult(f, p, o.dual) :
                  o \in {FamilyOption(f, ok) : ok \in SetSockOpt}}

-----------------------------------------------------------------------------
(* SocketInit, lines 805-810: the IPv4 socket, bound to the port in Sa4;   *)
(* WskGetLocalAddress writes the bound port back into Sa4 (line 774).       *)
(* Without an IPv4 transport the step is skipped.                          *)
BindV4 ==
    /\ pc = "v4"
    /\ IF ~hasTransport["v4"]
         THEN /\ pc' = "v6"
              /\ UNCHANGED <<cursor, sa4, new, open, status, tried>>
         ELSE \E r \in CreateAndBindSocket("v4", sa4) :
                /\ cursor' = r.next
                /\ IF r.st = "ok"
                     THEN /\ sa4' = r.port
                          /\ new' = [new EXCEPT !["v4"] = r.port]
                          /\ open' = open \cup {<<"v4", r.port>>}
                          /\ tried' = tried \cup {r.port}
                          /\ pc' = "v6"
                          /\ UNCHANGED status
                     ELSE /\ status' = r.st
                          /\ pc' = "done"
                          /\ UNCHANGED <<sa4, new, open, tried>>
    /\ UNCHANGED <<port, hasTransport, busy, sa6, retries, incomingPort, published>>

(* The port Sa4 holds at "goto retry" (lines 820-821): what the IPv4 bind       *)
(* will ask for.  Nothing resets it, so it is the port last bound.         *)
RetryPort == sa4

(* Fault variant: IPv6 is bound to the requested port, not Sa4's.         *)
V6PortFromRequest == port

(* Line 814: Sa6.sin6_port = Sa4.sin_port.                                 *)
V6Port == sa4

(* Fault variant: the budget test compares before incrementing.          *)
RetryAllowedOffByOne(r) == r <= MaxRetries

(* Line 820: Retries++ < 100.                                              *)
RetryAllowed(r) == r < MaxRetries

(* Fault variant: the IPv4 socket is not closed before the retry.         *)
CloseNew4Leaking == open

(* Lines 818-819: CloseSocket(New4); New4 = NULL.                          *)
CloseNew4 == open \ {<<"v4", new["v4"]>>}

(* SocketReinit (lines 826-832), as seen by SocketInit: both sockets are   *)
(* published and IncomingPort is the IPv4 port, else the IPv6 port, else   *)
(* Port; IncomingPort is written only when a socket is published.          *)
Publish(n4, n6) ==
    /\ published' = [f \in Families |-> IF f = "v4" THEN n4 ELSE n6]
    /\ incomingPort' =
         IF n4 = NoSocket /\ n6 = NoSocket THEN incomingPort
         ELSE IF hasTransport["v4"] THEN sa4
         ELSE IF hasTransport["v6"] THEN sa6' ELSE port

(* SocketInit, lines 812-834: the IPv6 socket on Sa4's port; on failure    *)
(* close New4 and retry while the port was ephemeral and the budget lasts; *)
(* on success hand both sockets to SocketReinit.                           *)
BindV6 ==
    /\ pc = "v6"
    /\ LET p6 == V6Port IN
       IF ~hasTransport["v6"]
         THEN /\ status' = "ok"
              /\ Publish(new["v4"], NoSocket)
              /\ pc' = "done"
              /\ UNCHANGED <<cursor, sa4, sa6, new, open, retries>>
         ELSE \E r \in CreateAndBindSocket("v6", p6) :
                /\ cursor' = r.next
                /\ IF r.st = "ok"
                     THEN /\ sa6' = r.port
                          /\ new' = [new EXCEPT !["v6"] = r.port]
                          /\ open' = open \cup {<<"v6", r.port>>}
                          /\ status' = "ok"
                          /\ Publish(new["v4"], r.port)
                          /\ pc' = "done"
                          /\ UNCHANGED <<sa4, retries>>
                     ELSE /\ sa6' = p6
                          /\ open' = CloseNew4
                          /\ new' = [new EXCEPT !["v4"] = NoSocket]
                          /\ IF r.st = "exists" /\ port = 0 /\ RetryAllowed(retries)
                               THEN /\ retries' = retries + 1
                                    /\ sa4' = RetryPort
                                    /\ pc' = "v4"
                                    /\ UNCHANGED status
                               ELSE /\ status' = r.st
                                    /\ pc' = "done"
                                    /\ UNCHANGED <<sa4, retries>>
                          /\ UNCHANGED <<incomingPort, published>>
    /\ UNCHANGED <<port, hasTransport, busy, tried>>

-----------------------------------------------------------------------------
(* A call of SocketInit(Wg, Port) with every combination of transports     *)
(* and of ports other programs hold; IncomingPort starts unset.            *)
Init ==
    /\ port \in ReqPorts
    /\ hasTransport \in [Families -> BOOLEAN]
    /\ busy \in [Families -> SUBSET Ports]
    /\ cursor = 1
    /\ sa4 = port
    /\ sa6 = 0
    /\ new = [f \in Families |-> NoSocket]
    /\ open = {}
    /\ retries = 0
    /\ pc = "v4"
    /\ status = "none"
    /\ incomingPort = 0
    /\ published = [f \in Families |-> NoSocket]
    /\ tried = {}

(* SocketInit has returned; the run ends.                                  *)
Done == pc = "done" /\ UNCHANGED vars

Next == BindV4 \/ BindV6 \/ Done

Spec == Init /\ [][Next]_vars /\ WF_vars(BindV4 \/ BindV6)

-----------------------------------------------------------------------------
(* Properties                                                              *)

(* After SocketInit returns, the sockets of this call still open are       *)
(* exactly those SocketReinit published: a failed IPv6 bind closes the     *)
(* IPv4 socket of its attempt (lines 818-819) before the retry overwrites  *)
(* New4, and a failure publishes nothing.                                   *)
NoSocketLeak ==
    pc = "done" =>
        open = {<<f, published[f]>> : f \in {g \in Families : published[g] # NoSocket}}

(* A successful SocketInit publishes both families on one port, and        *)
(* IncomingPort is that port, whether it was asked for or ephemeral.       *)
PortAgreement ==
    (pc = "done" /\ status = "ok") =>
        \A f \in Families :
            hasTransport[f] => published[f] = incomingPort /\ incomingPort # 0

(* SocketInit for a given port fails with "address in use" only when      *)
(* another program holds that port in a family the host has a transport   *)
(* for.  The IPv4 socket of the same call holds the port when the IPv6    *)
(* socket is bound to it (line 814), so the IPv6 socket must be IPV6_V6ONLY *)
(* before its WskBind (lines 740-744); a dual-stack IPv6 socket would      *)
(* collide with it.                                                        *)
AddressInUseIsReal ==
    (pc = "done" /\ status = "exists" /\ port # 0) =>
        \E f \in Families : hasTransport[f] /\ port \in busy[f]

(* With an ephemeral port asked for, SocketInit gives up on "address in    *)
(* use" only after trying MaxRetries + 1 different ports, as the spec's    *)
(* port-collision scenario requires: each retry asks the OS for a new      *)
(* ephemeral port.                                                         *)
RetriesTryFreshPorts ==
    (pc = "done" /\ status = "exists" /\ port = 0) =>
        Cardinality(tried) = MaxRetries + 1
=============================================================================
