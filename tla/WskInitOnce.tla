----------------------------- MODULE WskInitOnce -----------------------------
(***************************************************************************)
(* What WskInit promises its callers, without locks or steps: the first    *)
(* attempt that finishes decides the outcome, success or a failure status, *)
(* in the same step as it returns it; every other call returns that same   *)
(* outcome; WskUnload runs once, after every call has returned.            *)
(***************************************************************************)
CONSTANTS
    Threads,    \* callers of WskInit
    Outcomes    \* the statuses an initialisation can end with

VARIABLES
    result,     \* the decided outcome, "retry" before it is decided
    ret,        \* [Threads -> Outcomes \cup {"retry"}]: what each call returned
    unloaded    \* WskUnload has run

vars == <<result, ret, unloaded>>

Init ==
    /\ result = "retry"
    /\ ret = [t \in Threads |-> "retry"]
    /\ unloaded = FALSE

(* The first call to finish decides the outcome and returns it.           *)
Decide(t, r) ==
    /\ result = "retry"
    /\ ret[t] = "retry"
    /\ result' = r
    /\ ret' = [ret EXCEPT ![t] = r]
    /\ UNCHANGED unloaded

(* A later call returns the decided outcome.                              *)
Return(t) ==
    /\ result # "retry"
    /\ ret[t] = "retry"
    /\ ret' = [ret EXCEPT ![t] = result]
    /\ UNCHANGED <<result, unloaded>>

Unload ==
    /\ ~unloaded
    /\ \A t \in Threads : ret[t] # "retry"
    /\ unloaded' = TRUE
    /\ UNCHANGED <<result, ret>>

Next ==
    \/ \E t \in Threads, r \in Outcomes : Decide(t, r)
    \/ \E t \in Threads : Return(t)
    \/ Unload

Spec == Init /\ [][Next]_vars
=============================================================================
