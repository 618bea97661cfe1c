------------------------------ MODULE Polyfill ------------------------------
(***************************************************************************)
(* PolyfilledWskSendMessages and PolyfilledSendComplete (driver/socket.c:  *)
(* 75-140), used on Windows 7 where WSK has no WskSendMessages.  One call  *)
(* sends each buffer of the list with its own WskSendTo IRP; a shared      *)
(* reference count, holding one reference for the submitting loop and one  *)
(* per IRP handed to WSK, runs the completion routine of the original IRP  *)
(* when it drops to zero.  That routine is SendAsync's SendComplete,       *)
(* which frees the send context and the buffer list.                       *)
(*                                                                         *)
(* WSK completes the sub-IRPs at any time, on any processor, while the     *)
(* loop is still submitting.                                               *)
(***************************************************************************)
EXTENDS Naturals, FiniteSets

CONSTANTS
    MaxBufs,         \* bound on the buffers of one list
    RefAllocCanFail  \* whether MemAllocate of the reference count may fail

ASSUME MaxBufs \in Nat \ {0} /\ RefAllocCanFail \in BOOLEAN

VARIABLES
    n,          \* buffers in BufferList
    pc,         \* "alloc", "loop", "final", "done": the submitting call
    i,          \* the buffer the loop is at
    ref,        \* *RefCount
    refFreed,   \* RefCount has been freed
    pending,    \* buffers whose sub-IRP WSK has not completed yet
    dropped,    \* buffers skipped because their context was not allocated
    completed,  \* times the original IRP's completion routine ran
    touchedFreed \* a completion decremented a freed reference count

vars == <<n, pc, i, ref, refFreed, pending, dropped, completed, touchedFreed>>

TypeOK ==
    /\ n \in 1..MaxBufs
    /\ pc \in {"alloc", "loop", "final", "done"}
    /\ i \in 1..n + 1
    /\ ref \in 0..MaxBufs + 1
    /\ refFreed \in BOOLEAN
    /\ pending \subseteq 1..n
    /\ dropped \subseteq 1..n
    /\ completed \in Nat
    /\ touchedFreed \in BOOLEAN

-----------------------------------------------------------------------------
(* Dropping one reference (InterlockedDecrement); the last one runs the    *)
(* original IRP's completion routine and frees the count (lines 93-99 and  *)
(* 132-138).                                                               *)
DropRef ==
    /\ ref' = ref - 1
    /\ touchedFreed' = (touchedFreed \/ refFreed)
    /\ IF ref - 1 = 0
         THEN completed' = completed + 1 /\ refFreed' = TRUE
         ELSE UNCHANGED <<completed, refFreed>>

(* Fault variant: the count starts at zero.                               *)
InitialRefZero == 0

(* Line 118: WriteNoFence(RefCount, 1), the loop's own reference.          *)
InitialRef == 1

(* Lines 115-117: allocate the count.  On failure the call returns         *)
(* STATUS_INSUFFICIENT_RESOURCES without completing the IRP.               *)
AllocRef ==
    /\ pc = "alloc"
    /\ \/ /\ ref' = InitialRef
          /\ pc' = "loop"
       \/ /\ RefAllocCanFail
          /\ pc' = "done"
          /\ UNCHANGED ref
    /\ UNCHANGED <<n, i, refFreed, pending, dropped, completed, touchedFreed>>

(* Fault variant: the loop runs one buffer past the list.                 *)
MoreBufsOffByOne(k) == k <= n + 1

(* Line 119: Buf != NULL.                                                  *)
MoreBufs(k) == k <= n

(* One round of the loop, lines 119-131: allocate a context (skip the      *)
(* buffer if that fails), take a reference, hand the IRP to WskSendTo.     *)
SubmitBuf ==
    /\ pc = "loop"
    /\ MoreBufs(i)
    /\ \/ /\ ref' = ref + 1
          /\ pending' = pending \cup {i}
          /\ UNCHANGED dropped
       \/ /\ dropped' = dropped \cup {i}
          /\ UNCHANGED <<ref, pending>>
    /\ i' = i + 1
    /\ UNCHANGED <<n, pc, refFreed, completed, touchedFreed>>

(* The loop ends after the last buffer.                                    *)
LoopEnd ==
    /\ pc = "loop"
    /\ ~MoreBufs(i)
    /\ pc' = "final"
    /\ UNCHANGED <<n, i, ref, refFreed, pending, dropped, completed, touchedFreed>>

(* Fault variant: the loop's reference is never dropped.                  *)
FinalDropSkipped == UNCHANGED <<ref, refFreed, completed, touchedFreed>>

(* Lines 132-139: drop the loop's reference and return STATUS_SUCCESS.      *)
FinalDrop == DropRef

Final ==
    /\ pc = "final"
    /\ FinalDrop
    /\ pc' = "done"
    /\ UNCHANGED <<n, i, pending, dropped>>

(* PolyfilledSendComplete, lines 88-101: WSK completes the sub-IRP of      *)
(* buffer b; drop its reference and free its context.                      *)
SubComplete(b) ==
    /\ b \in pending
    /\ pending' = pending \ {b}
    /\ DropRef
    /\ UNCHANGED <<n, pc, i, dropped>>

-----------------------------------------------------------------------------
Init ==
    /\ n \in 1..MaxBufs
    /\ pc = "alloc"
    /\ i = 1
    /\ ref = 0
    /\ refFreed = FALSE
    /\ pending = {}
    /\ dropped = {}
    /\ completed = 0
    /\ touchedFreed = FALSE

(* The call has returned and WSK has completed every sub-IRP.             *)
Quiescent == pc = "done" /\ pending = {}

Done == Quiescent /\ UNCHANGED vars

Next == AllocRef \/ SubmitBuf \/ LoopEnd \/ Final \/ (\E b \in 1..MaxBufs : SubComplete(b)) \/ Done

(* The submitting call runs to its end, and WSK completes every IRP it    *)
(* was handed (weak fairness on both).                                     *)
Spec == Init /\ [][Next]_vars
        /\ WF_vars(AllocRef \/ SubmitBuf \/ LoopEnd \/ Final)
        /\ \A b \in 1..MaxBufs : WF_vars(SubComplete(b))

-----------------------------------------------------------------------------
(* Properties                                                              *)

(* The original IRP's completion runs at most once, and only after the     *)
(* loop has stopped reading the buffer list and WSK has completed every    *)
(* sub-IRP: SendComplete frees the list and the context the loop and the   *)
(* sub-IRPs use.  No completion touches the count after it was freed.      *)
CompletedLast ==
    /\ completed <= 1
    /\ completed = 1 => pc = "done" /\ pending = {}
    /\ ~touchedFreed

(* The original IRP is completed: SendAsync treats the call as having      *)
(* consumed its context, which only SendComplete frees.                    *)
EventuallyCompleted == <>(completed = 1)

(* Once the call has returned and WSK is done, the original IRP has been   *)
(* completed exactly once.                                                 *)
CompletedWhenQuiescent == Quiescent => completed = 1
=============================================================================
