---------------------------- MODULE MutexProofs ----------------------------
(***************************************************************************)
(* Proofs about Mutex, for every set of tasks.                             *)
(*                                                                         *)
(* MutualExclusion and EntryMatchesFuture are inductive on top of TypeOK.  *)
(* NoLostWakeup is inductive on top of the two: the task that stops being  *)
(* responsible either has just acquired the mutex, or has found it mutexLocked,*)
(* or hands the responsibility on through the waker set, and which of the  *)
(* two waker-set facts is needed is a lemma of WakerSetFacts.              *)
(***************************************************************************)
EXTENDS Mutex, WakerSetFacts, TLAPS

MutexInv == TypeOK /\ MutualExclusion /\ EntryMatchesFuture /\ NoLostWakeup

-----------------------------------------------------------------------------
(* MutexInvInit: the invariant holds in a mutex nobody has mutexLocked yet.*)
LEMMA MutexInvInit == Init => MutexInv
  BY DEF Init, MutexInv, TypeOK, MutualExclusion, EntryMatchesFuture, NoLostWakeup,
         Holders, NewWakerSet, EntryStates, PC, Polling, Waiting

(* MutexInvStep: every step of a poll, a cancellation, a try_lock and a    *)
(* guard's drop preserves the invariant.                                   *)
LEMMA MutexInvStep == MutexInv /\ [Next]_vars => MutexInv'
  <1> SUFFICES ASSUME MutexInv, [Next]_vars PROVE MutexInv'
    OBVIOUS
  <1> USE DEF MutexInv, TypeOK, MutualExclusion, EntryMatchesFuture, NoLostWakeup,
              Holders, Responsible, PC, Polling, Goto
  <1>1. ASSUME NEW t \in Task, Lock(t) PROVE MutexInv'
    BY <1>1 DEF Lock
  <1>2. ASSUME NEW t \in Task, Poll(t) PROVE MutexInv'
    BY <1>2 DEF Poll
  <1>3. ASSUME NEW t \in Task, RemoveEntry(t) PROVE MutexInv'
    BY <1>3 DEF RemoveEntry, Remove, Waiting, EntryStates
  <1>4. ASSUME NEW t \in Task, TryAcquire(t) PROVE MutexInv'
    BY <1>4 DEF TryAcquire
  <1>5. ASSUME NEW t \in Task, InsertEntry(t) PROVE MutexInv'
    BY <1>5 DEF InsertEntry, Insert, Waiting, EntryStates
  <1>6. ASSUME NEW t \in Task, Recheck(t) PROVE MutexInv'
    BY <1>6 DEF Recheck
  <1>7. ASSUME NEW t \in Task, DropFuture(t) PROVE MutexInv'
    <2>1. PICK new \in Cancel(mutexWakers, t) : mutexWakers' = new
      BY <1>7 DEF DropFuture
    <2>2. /\ new \in [Task -> EntryStates]
          /\ new[t] = "absent"
          /\ \A o \in Task \ {t} : new[o] = "absent" <=> mutexWakers[o] = "absent"
          /\ \A o \in Task \ {t} : mutexWakers[o] = "notified" => new[o] = "notified"
          /\ mutexWakers[t] = "notified" /\ Waiting(new) # {}
               => \E o \in Task : new[o] = "notified"
          /\ \A o \in Task : new[o] = "waiting" => mutexWakers[o] = "waiting"
      BY CancelFacts
    <2>3. TypeOK'
      BY <1>7, <2>1, <2>2 DEF DropFuture
    <2>4. MutualExclusion'
      BY <1>7 DEF DropFuture
    <2>5. EntryMatchesFuture'
      BY <1>7, <2>1, <2>2 DEF DropFuture
    <2>6. NoLostWakeup'
      <3> SUFFICES ASSUME ~mutexLocked', Waiting(mutexWakers') # {}
                   PROVE  \E o \in Task : Responsible(o)'
        OBVIOUS
      <3>1. CASE mutexWakers[t] = "notified"
        BY <2>1, <2>2, <3>1
      <3>2. CASE mutexWakers[t] # "notified"
        <4>1. Waiting(mutexWakers) # {}
          BY <2>1, <2>2 DEF Waiting
        <4>2. PICK o \in Task : Responsible(o)
          BY <1>7, <4>1 DEF DropFuture
        <4>3. o # t
          BY <1>7, <3>2, <4>2 DEF DropFuture
        <4>4. Responsible(o)'
          BY <1>7, <2>1, <2>2, <4>2, <4>3 DEF DropFuture
        <4>5. QED
          BY <4>4
      <3>3. QED
        BY <3>1, <3>2
    <2>7. QED
      BY <2>3, <2>4, <2>5, <2>6
  <1>8. ASSUME NEW t \in Task, TryLock(t) PROVE MutexInv'
    BY <1>8 DEF TryLock
  <1>9. ASSUME NEW t \in Task, DropGuard(t) PROVE MutexInv'
    BY <1>9 DEF DropGuard
  <1>10. ASSUME NEW t \in Task, NotifyWaiter(t) PROVE MutexInv'
    <2>1. PICK new \in NotifyAny(mutexWakers) : mutexWakers' = new
      BY <1>10 DEF NotifyWaiter
    <2>2. /\ new \in [Task -> EntryStates]
          /\ \A o \in Task : new[o] = "absent" <=> mutexWakers[o] = "absent"
          /\ Waiting(new) # {} => \E o \in Task : new[o] = "notified"
      BY NotifyAnyFacts
    <2>3. TypeOK'
      BY <1>10, <2>1, <2>2 DEF NotifyWaiter
    <2>4. MutualExclusion'
      BY <1>10 DEF NotifyWaiter
    <2>5. EntryMatchesFuture'
      BY <1>10, <2>1, <2>2 DEF NotifyWaiter
    <2>6. NoLostWakeup'
      BY <1>10, <2>1, <2>2 DEF NotifyWaiter, Waiting
    <2>7. QED
      BY <2>3, <2>4, <2>5, <2>6
  <1>11. CASE UNCHANGED vars
    BY <1>11 DEF vars, Waiting
  <1>12. QED
    BY <1>1, <1>2, <1>3, <1>4, <1>5, <1>6, <1>7, <1>8, <1>9, <1>10, <1>11 DEF Next, Running

(* MutexInvariant: the conjunction of the three invariants with TypeOK is  *)
(* an invariant of the specification.                                      *)
THEOREM MutexInvariant == Spec => []MutexInv
  BY MutexInvInit, MutexInvStep, PTL DEF Spec

(* TypeCorrect: the state keeps its types.                                 *)
THEOREM TypeCorrect == Spec => []TypeOK
  <1>1. MutexInv => TypeOK
    BY DEF MutexInv
  <1>2. QED
    BY <1>1, MutexInvariant, PTL

(* LockExcludes: at most one guard exists at any time, for any number of   *)
(* tasks, and `mutexLocked` is true exactly while it exists.               *)
THEOREM LockExcludes == Spec => []MutualExclusion
  <1>1. MutexInv => MutualExclusion
    BY DEF MutexInv
  <1>2. QED
    BY <1>1, MutexInvariant, PTL

(* WakeupsAreKept: for any number of tasks, no blocked lock() is ever left *)
(* behind by a free mutex without somebody on the way to wake it.          *)
THEOREM WakeupsAreKept == Spec => []NoLostWakeup
  <1>1. MutexInv => NoLostWakeup
    BY DEF MutexInv
  <1>2. QED
    BY <1>1, MutexInvariant, PTL
=============================================================================
