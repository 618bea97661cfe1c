---------------------------- MODULE WskTransport ----------------------------
(***************************************************************************)
(* The transport bootstrap of driver/socket.c: WskInit (lines 866-973),    *)
(* which any number of threads may call, and WskUnload (lines 976-988),   *)
(* called once when the driver unloads.                                    *)
(*                                                                         *)
(* WskInit reads the cached WskInitStatus without a lock; while it is      *)
(* STATUS_RETRY it takes the WskIsIniting push lock, reads it again, and   *)
(* runs the initialisation steps in order.  A failing step jumps into the  *)
(* cleanup ladder, which undoes the steps before it in reverse order; the  *)
(* status reached, success or failure, is cached for every later caller.  *)
(* A status is the name of the step that failed, "success" or "retry".     *)
(***************************************************************************)
EXTENDS Naturals, Sequences, FiniteSets

CONSTANTS
    Threads,        \* threads calling WskInit
    NoThread,       \* no owner of WskIsIniting
    TransportLists, \* the transport lists the WSK provider may report
    MaxOverflows    \* bound on STATUS_BUFFER_OVERFLOW answers to one caller

ASSUME NoThread \notin Threads /\ MaxOverflows \in Nat

(* The initialisation steps in code order; the ones that acquire a         *)
(* resource are named after it.                                            *)
Steps == <<"lookaside", "register", "npi", "query", "callbacks", "notifyV4", "notifyV6">>
Resources == {"lookaside", "register", "npi", "notifyV4", "notifyV6"}

(* The cleanup ladder, lines 961-972, top to bottom.                       *)
Ladder == <<"notifyV4", "npi", "register", "lookaside">>

Statuses == {"retry", "success"} \cup {Steps[i] : i \in 1..Len(Steps)}

VARIABLES
    status,     \* WskInitStatus
    lockOwner,  \* WskIsIniting
    held,       \* [Resources -> Int]: how many times each resource is held
    hasV4,      \* WskHasIpv4Transport
    hasV6,      \* WskHasIpv6Transport
    pc,         \* [Threads -> "start", "acquire", a step, "unwind", "done"]
    from,       \* [Threads -> Nat]: the ladder entry a failure jumps to
    err,        \* [Threads -> Statuses]: the local Status
    overflows,  \* [Threads -> Nat]: buffer-overflow answers seen
    ret,        \* [Threads -> Statuses]: what WskInit returned
    unloaded    \* WskUnload has run

vars == <<status, lockOwner, held, hasV4, hasV6, pc, from, err, overflows, ret, unloaded>>

TypeOK ==
    /\ status \in Statuses
    /\ lockOwner \in Threads \cup {NoThread}
    /\ held \in [Resources -> 0..1]
    /\ hasV4 \in BOOLEAN /\ hasV6 \in BOOLEAN
    /\ pc \in [Threads -> {"start", "acquire", "publish", "unwind", "done"}
                          \cup {Steps[i] : i \in 1..Len(Steps)}]
    /\ from \in [Threads -> 1..Len(Ladder) + 1]
    /\ err \in [Threads -> Statuses]
    /\ overflows \in [Threads -> 0..MaxOverflows]
    /\ ret \in [Threads -> Statuses]
    /\ unloaded \in BOOLEAN

-----------------------------------------------------------------------------
(* Fault variant: a failed IPv6 notifier registration skips cancelling the *)
(* IPv4 notifier.                                                          *)
FailEntrySkipV4(s) ==
    CASE s = "lookaside" -> 5
      [] s = "register"  -> 4
      [] s = "npi"       -> 3
      [] s \in {"query", "callbacks", "notifyV4", "notifyV6"} -> 2

(* The cleanup label each step's failure jumps to, as an index into Ladder *)
(* (Len(Ladder) + 1 is cleanupIniting, which releases nothing).            *)
FailEntry(s) ==
    CASE s = "lookaside" -> 5
      [] s = "register"  -> 4
      [] s = "npi"       -> 3
      [] s \in {"query", "callbacks", "notifyV4"} -> 2
      [] s = "notifyV6"  -> 1

(* The resources the ladder releases when entered at index i.            *)
Unwound(i) == {Ladder[j] : j \in i..Len(Ladder)}

StepAfter(s) ==
    LET i == CHOOSE k \in 1..Len(Steps) : Steps[k] = s IN
    IF i = Len(Steps) THEN "publish" ELSE Steps[i + 1]

-----------------------------------------------------------------------------
(* The unlocked fast path, lines 868-870.                                  *)
FastPath(t) ==
    /\ pc[t] = "start"
    /\ IF status # "retry"
         THEN /\ ret' = [ret EXCEPT ![t] = status]
              /\ pc' = [pc EXCEPT ![t] = "done"]
         ELSE /\ pc' = [pc EXCEPT ![t] = "acquire"]
              /\ UNCHANGED ret
    /\ UNCHANGED <<status, lockOwner, held, hasV4, hasV6, from, err, overflows, unloaded>>

(* Fault variant: the status is not read again under the lock.            *)
StillRetryUnchecked(t) == TRUE

(* Lines 872-873: read WskInitStatus again under the lock.                 *)
StillRetry(t) == status = "retry"

(* Lines 871-874: take WskIsIniting; if another thread finished the       *)
(* initialisation meanwhile, go to cleanupIniting with its status.         *)
Acquire(t) ==
    /\ pc[t] = "acquire"
    /\ lockOwner = NoThread
    /\ lockOwner' = t
    /\ IF StillRetry(t)
         THEN pc' = [pc EXCEPT ![t] = "lookaside"] /\ UNCHANGED <<from, err>>
         ELSE /\ pc' = [pc EXCEPT ![t] = "unwind"]
              /\ from' = [from EXCEPT ![t] = Len(Ladder) + 1]
              /\ err' = [err EXCEPT ![t] = status]
    /\ UNCHANGED <<status, held, hasV4, hasV6, overflows, ret, unloaded>>

(* One initialisation step other than the transport query: the lookaside  *)
(* list, WskRegister, WskCaptureProviderNPI, the static receive callback  *)
(* and the two NotifyRouteChange2 calls (lines 883-956).  Success holds    *)
(* the step's resource; failure jumps into the ladder.                     *)
InitStep(t) ==
    LET s == pc[t] IN
    /\ s \in {"lookaside", "register", "npi", "callbacks", "notifyV4", "notifyV6"}
    /\ \/ /\ held' = IF s \in Resources THEN [held EXCEPT ![s] = @ + 1] ELSE held
          /\ pc' = [pc EXCEPT ![t] = StepAfter(s)]
          /\ UNCHANGED <<from, err>>
       \/ /\ pc' = [pc EXCEPT ![t] = "unwind"]
          /\ from' = [from EXCEPT ![t] = FailEntry(s)]
          /\ err' = [err EXCEPT ![t] = s]
          /\ UNCHANGED held
    /\ UNCHANGED <<status, lockOwner, hasV4, hasV6, overflows, ret, unloaded>>

(* The transport-list query loop, lines 893-935: allocate a buffer and ask *)
(* WSK_TRANSPORT_LIST_QUERY; a too small buffer repeats with the size the  *)
(* provider reported; on success every UDP datagram transport sets the     *)
(* flag of its family, AF_UNSPEC both.                                      *)
Query(t) ==
    /\ pc[t] = "query"
    /\ \/ /\ overflows[t] < MaxOverflows
          /\ overflows' = [overflows EXCEPT ![t] = @ + 1]
          /\ UNCHANGED <<pc, from, err, hasV4, hasV6>>
       \/ /\ pc' = [pc EXCEPT ![t] = "unwind"]
          /\ from' = [from EXCEPT ![t] = FailEntry("query")]
          /\ err' = [err EXCEPT ![t] = "query"]
          /\ UNCHANGED <<overflows, hasV4, hasV6>>
       \/ \E list \in TransportLists :
            LET udp == {x \in list : x.type = "dgram" /\ x.proto = "udp"} IN
            /\ hasV4' = (hasV4 \/ \E x \in udp : x.family \in {"unspec", "inet"})
            /\ hasV6' = (hasV6 \/ \E x \in udp : x.family \in {"unspec", "inet6"})
            /\ pc' = [pc EXCEPT ![t] = "callbacks"]
            /\ UNCHANGED <<from, err, overflows>>
    /\ UNCHANGED <<status, lockOwner, held, ret, unloaded>>

(* Lines 957-959: cache success, release the lock, return it.             *)
Publish(t) ==
    /\ pc[t] = "publish"
    /\ status' = "success"
    /\ lockOwner' = NoThread
    /\ ret' = [ret EXCEPT ![t] = "success"]
    /\ pc' = [pc EXCEPT ![t] = "done"]
    /\ UNCHANGED <<held, hasV4, hasV6, from, err, overflows, unloaded>>

(* Fault variant: cleanupIniting leaves WskInitStatus as it was.           *)
StatusNotCached(t) == status

(* Line 970: WriteNoFence(&WskInitStatus, Status).                          *)
CachedStatus(t) == err[t]

(* The cleanup ladder from the entry the failure jumped to, then           *)
(* cleanupIniting: cache the status, release the lock, return it.         *)
Unwind(t) ==
    /\ pc[t] = "unwind"
    /\ held' = [r \in Resources |-> IF r \in Unwound(from[t]) THEN held[r] - 1 ELSE held[r]]
    /\ status' = CachedStatus(t)
    /\ lockOwner' = NoThread
    /\ ret' = [ret EXCEPT ![t] = err[t]]
    /\ pc' = [pc EXCEPT ![t] = "done"]
    /\ UNCHANGED <<hasV4, hasV6, from, err, overflows, unloaded>>

(* Fault variant: WskUnload tears down whatever the status.               *)
UnloadAlways == TRUE

(* Lines 979-980: WskUnload does nothing unless the status is success.     *)
UnloadReleases == status = "success"

(* WskUnload, lines 976-988, at driver unload once no WskInit is running:  *)
(* under the lock, release everything when the status is success.         *)
WskUnload ==
    /\ ~unloaded
    /\ \A t \in Threads : pc[t] = "done"
    /\ lockOwner = NoThread
    /\ held' = IF UnloadReleases THEN [r \in Resources |-> held[r] - 1] ELSE held
    /\ unloaded' = TRUE
    /\ UNCHANGED <<status, lockOwner, hasV4, hasV6, pc, from, err, overflows, ret>>

-----------------------------------------------------------------------------
Init ==
    /\ status = "retry"
    /\ lockOwner = NoThread
    /\ held = [r \in Resources |-> 0]
    /\ hasV4 = FALSE /\ hasV6 = FALSE
    /\ pc = [t \in Threads |-> "start"]
    /\ from = [t \in Threads |-> Len(Ladder) + 1]
    /\ err = [t \in Threads |-> "retry"]
    /\ overflows = [t \in Threads |-> 0]
    /\ ret = [t \in Threads |-> "retry"]
    /\ unloaded = FALSE

Thread(t) == FastPath(t) \/ Acquire(t) \/ InitStep(t) \/ Query(t) \/ Publish(t) \/ Unwind(t)

(* The driver has unloaded; nothing more happens.                          *)
Done == unloaded /\ UNCHANGED vars

Next == (\E t \in Threads : Thread(t)) \/ WskUnload \/ Done

Spec == Init /\ [][Next]_vars

-----------------------------------------------------------------------------
(* Properties                                                              *)

(* Whenever no WskInit holds the lock, the resources held are exactly what *)
(* the cached status says: all of them once after success, none after a   *)
(* failure or before the first attempt, and none after WskUnload.  The    *)
(* cleanup ladder must undo exactly the steps that succeeded.             *)
ResourcesMatchStatus ==
    lockOwner = NoThread =>
        \A r \in Resources :
            held[r] = IF status = "success" /\ ~unloaded THEN 1 ELSE 0

(* WskInit implements the once-only initialiser of WskInitOnce: the       *)
(* cached status is the decided outcome, each call's return value is its   *)
(* result.  This fails if a second initialisation could run, if a failure  *)
(* were not cached, or if a caller returned a status other than the one    *)
(* cached.                                                                 *)
Once == INSTANCE WskInitOnce WITH
            result <- status, ret <- ret, unloaded <- unloaded,
            Outcomes <- Statuses \ {"retry"}

ImplementsInitOnce == Once!Spec
=============================================================================
