------------------------------- MODULE Mutex -------------------------------
(***************************************************************************)
(* sync::Mutex (src/sync/mutex.rs): an AtomicBool and a waker set.         *)
(*                                                                         *)
(* Every task of Task repeatedly creates a LockFuture and polls it, or     *)
(* calls try_lock, holds the guard, and drops it.  One action is one       *)
(* atomic access: a swap, load or store of `mutexLocked`, or one call on the*)
(* waker set (atomic by WakerSetLock).  Tasks run on several threads, so   *)
(* the steps of different tasks interleave freely.                         *)
(*                                                                         *)
(* A pending future is polled again when its waker has been called, which  *)
(* is exactly when its entry is "notified"; it may also be polled for no   *)
(* reason (the future is part of a larger one) or dropped.                 *)
(***************************************************************************)
EXTENDS WakerSetOps, LockTasks

VARIABLES
    mutexLocked,   \* Mutex.mutexLocked
    mutexWakers,   \* Mutex.mutexWakers
    pc        \* where each task is in lock(), try_lock() or the guard's drop

vars == <<mutexLocked, mutexWakers, pc>>

(* Places inside one poll of LockFuture, in the order of its loop. *)
Polling == {"remove", "try_lock", "insert", "recheck"}
PC == Polling \cup {"idle", "pending", "holding", "notify"}

TypeOK ==
    /\ mutexLocked \in BOOLEAN
    /\ mutexWakers \in [Task -> EntryStates]
    /\ pc \in [Task -> PC]

Init ==
    /\ mutexLocked = FALSE
    /\ mutexWakers = NewWakerSet(Task)
    /\ pc = [t \in Task |-> "idle"]

Goto(t, label) == pc' = [pc EXCEPT ![t] = label]

-----------------------------------------------------------------------------
(* lock(): a new future has no key, so its first poll starts at try_lock.  *)
Lock(t) ==
    /\ pc[t] = "idle"
    /\ Goto(t, "try_lock")
    /\ UNCHANGED <<mutexLocked, mutexWakers>>

(* The task polls its pending future again.                                *)
Poll(t) ==
    /\ pc[t] = "pending"
    /\ Goto(t, "remove")
    /\ UNCHANGED <<mutexLocked, mutexWakers>>

(* "If the current task is in the set, remove it." *)
RemoveEntry(t) ==
    /\ pc[t] = "remove"
    /\ mutexWakers' = Remove(mutexWakers, t)
    /\ Goto(t, "try_lock")
    /\ UNCHANGED mutexLocked

(* try_lock() inside the poll: mutexLocked.swap(true). *)
TryAcquire(t) ==
    /\ pc[t] = "try_lock"
    /\ mutexLocked' = TRUE
    /\ Goto(t, IF mutexLocked THEN "insert" ELSE "holding")
    /\ UNCHANGED mutexWakers

(* "Insert this lock operation." *)
InsertEntry(t) ==
    /\ pc[t] = "insert"
    /\ mutexWakers' = Insert(mutexWakers, t)
    /\ Goto(t, "recheck")
    /\ UNCHANGED mutexLocked

(* Mutant: Pending without looking at `mutexLocked` again. *)
NoRecheck(t) ==
    /\ pc[t] = "recheck"
    /\ Goto(t, "pending")
    /\ UNCHANGED <<mutexLocked, mutexWakers>>

(* "If the mutex is still mutexLocked, return."  Otherwise go round the loop.*)
Recheck(t) ==
    /\ pc[t] = "recheck"
    /\ Goto(t, IF mutexLocked THEN "pending" ELSE "remove")
    /\ UNCHANGED <<mutexLocked, mutexWakers>>

(* Mutant: the notification is not passed on. *)
DropFutureForgets(t) ==
    /\ pc[t] = "pending"
    /\ mutexWakers' = Remove(mutexWakers, t)
    /\ Goto(t, "idle")
    /\ UNCHANGED mutexLocked

(* Drop for LockFuture: the operation is cancelled while it is blocked.    *)
DropFuture(t) ==
    /\ pc[t] = "pending"
    /\ mutexWakers' \in Cancel(mutexWakers, t)
    /\ Goto(t, "idle")
    /\ UNCHANGED mutexLocked

(* Mutant: the result of the swap is not looked at. *)
TryLockUnchecked(t) ==
    /\ pc[t] = "idle"
    /\ mutexLocked' = TRUE
    /\ Goto(t, "holding")
    /\ UNCHANGED mutexWakers

(* Mutex::try_lock() called on its own, by Debug::fmt too: it barges in    *)
(* front of the blocked operations.                                        *)
TryLock(t) ==
    /\ pc[t] = "idle"
    /\ mutexLocked' = TRUE
    /\ Goto(t, IF mutexLocked THEN "idle" ELSE "holding")
    /\ UNCHANGED mutexWakers

(* Drop for MutexGuard: the store first, then the notification. *)
DropGuard(t) ==
    /\ pc[t] = "holding"
    /\ mutexLocked' = FALSE
    /\ Goto(t, "notify")
    /\ UNCHANGED mutexWakers

NotifyWaiter(t) ==
    /\ pc[t] = "notify"
    /\ mutexWakers' \in NotifyAny(mutexWakers)
    /\ Goto(t, "idle")
    /\ UNCHANGED mutexLocked

(* What a thread does on its own once it has started it. *)
Running(t) ==
    RemoveEntry(t) \/ TryAcquire(t) \/ InsertEntry(t) \/ Recheck(t) \/ NotifyWaiter(t)

Next ==
    \E t \in Task : Running(t) \/ Lock(t) \/ Poll(t) \/ DropFuture(t) \/ TryLock(t) \/ DropGuard(t)

Spec == Init /\ [][Next]_vars

-----------------------------------------------------------------------------
(* A thread does not stop inside a poll or a drop, and the executor polls a*)
(* task whose waker has been called.  Nothing is assumed about how long a  *)
(* guard is held, nor that anybody locks at all.                           *)
WokenPoll(t) == mutexWakers[t] = "notified" /\ Poll(t)
Fairness == \A t \in Task : WF_vars(Running(t)) /\ WF_vars(WokenPoll(t))

-----------------------------------------------------------------------------
Holders == {t \in Task : pc[t] = "holding"}

(* MutualExclusion: at most one MutexGuard exists, and `mutexLocked` says exactly*)
(* whether one does, whatever polls, cancellations, try_locks and drops    *)
(* interleave (MutexGuard::deref_mut relies on it).                        *)
MutualExclusion ==
    /\ \A t, u \in Holders : t = u
    /\ mutexLocked <=> Holders # {}

(* A task is responsible for the waiting ones when it is about to notify, is*)
(* in the middle of a poll, or has been notified and will be polled.       *)
Responsible(t) == pc[t] \in Polling \cup {"notify"} \/ mutexWakers[t] = "notified"

(* NoLostWakeup: while the mutex is free, a blocked lock() is never left   *)
(* waiting with nobody on the way to wake it.  The hazards are an unlock   *)
(* between the failed try_lock and the insert, a notified future that is   *)
(* dropped, a notified task overtaken by a try_lock, and a notification    *)
(* skipped because another entry is already notified.                      *)
NoLostWakeup ==
    ~mutexLocked /\ Waiting(mutexWakers) # {} => \E t \in Task : Responsible(t)

(* EntryMatchesFuture: a future is in the waker set exactly while it holds a*)
(* key: no entry is leaked by a completed or cancelled lock(), and a future*)
(* that returned Pending is registered.                                    *)
EntryMatchesFuture ==
    \A t \in Task : mutexWakers[t] # "absent" <=> pc[t] \in {"remove", "recheck", "pending"}

(* FreeMutexIsTaken: a free mutex with blocked operations is acquired, or  *)
(* the operations go away; it does not stay free while they sleep.         *)
FreeMutexIsTaken ==
    (~mutexLocked /\ Waiting(mutexWakers) # {}) ~> (mutexLocked \/ Waiting(mutexWakers) = {})
=============================================================================
