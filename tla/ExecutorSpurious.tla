-------------------------- MODULE ExecutorSpurious --------------------------
(***************************************************************************)
(* Executor with a condition variable that behaves as std documents it:    *)
(* "this function is susceptible to spurious wakeups", so Condvar::wait in *)
(* Sleepers::wait may return although nobody has notified the thread.      *)
(***************************************************************************)
EXTENDS Executor

(* wait() drops the guard and returns: `sleep` still counts the thread.     *)
SpuriousWakeup(w) ==
    /\ pc[w] = "asleep"
    /\ Goto(w, "find")
    /\ UNCHANGED <<queues, mine, place, task, running, hand, left>>

SpuriousNext == Next \/ \E w \in Worker : SpuriousWakeup(w)

SpuriousSpec == Init /\ [][SpuriousNext]_vars

(* NotificationKept: "if a notification comes up while no threads are        *)
(* sleeping, the next thread that attempts to go to sleep will pick up the   *)
(* notification immediately" (sleepers.rs:6): notify_one() leaves `notified` *)
(* set when no thread sleeps.  It does not, after a spurious wakeup: `sleep` *)
(* is still positive, the signal goes nowhere, and the task that was         *)
(* announced can be left in a queue with every worker asleep.                *)
NotificationKept == [][(\E t \in Thread : NotifyOne(t)) /\ Asleep = {} => notified']_vars
=============================================================================
