------------------------------ MODULE Executor ------------------------------
(***************************************************************************)
(* The task executor (src/task/executor/pool.rs and sleepers.rs): worker   *)
(* threads with a slot and a stealable FIFO queue each, a global injector  *)
(* queue, and the place where idle workers sleep.                          *)
(*                                                                         *)
(* One action is one access to state that threads share: one operation on  *)
(* a queue, the unlocked load in Sleepers::notify_one, or one critical     *)
(* section of the sleep mutex.  The slot belongs to its thread.            *)
(*                                                                         *)
(* External, modelled from how it is used: crossbeam-deque (a queue        *)
(* operation is atomic; a steal moves a batch of any size and may have to  *)
(* be retried), the condition variable (here a thread wakes only when it   *)
(* is notified, see ExecutorSpurious), and async-task, which hands out one *)
(* Runnable per wake-up: a task woken while it is idle is scheduled by     *)
(* the waking thread, one woken while it runs is scheduled again by its    *)
(* worker when the run ends, and one already scheduled is left alone.  A   *)
(* task that has completed is an idle one that is not woken any more.      *)
(***************************************************************************)
EXTENDS Naturals, Sequences, FiniteSets, Functions

CONSTANTS
    Worker,     \* threads of the pool
    External,   \* other threads that wake tasks: reactor, blocking, block_on
    Task,
    None,
    SLOT_LIMIT, \* find_runnable: how often in a row the slot may be used
    IDLE_TRIES  \* main_loop: YIELDS + SLEEPS

ASSUME ExecutorAssumption ==
    /\ None \notin Task
    /\ Worker \cap External = {} /\ IsFiniteSet(Worker)
    /\ SLOT_LIMIT \in Nat \ {0} /\ IDLE_TRIES \in Nat \ {0}

VARIABLES
    injector, local,      \* Pool.injector, Processor.worker
    slot, slot_runs,      \* Processor.slot, Processor.slot_runs
    fails,                \* main_loop's counter
    sleep, notified,      \* Sleepers.sleep, Sleepers.notified
    task,                 \* the state async-task keeps of each task
    running,              \* the task each worker runs
    hand,                 \* a Runnable on its way into a queue
    pc,
    left                  \* the queues a worker still has to try to steal from

queues == <<injector, local>>
mine   == <<slot, slot_runs, fails>>
place  == <<sleep, notified>>
vars   == <<queues, mine, place, task, running, hand, pc, left>>

Thread == Worker \cup External

Init ==
    /\ injector = <<>>
    /\ local = [w \in Worker |-> <<>>]
    /\ slot = [w \in Worker |-> None]
    /\ slot_runs = [w \in Worker |-> 0]
    /\ fails = [w \in Worker |-> 0]
    /\ sleep = 0
    /\ notified = FALSE
    /\ task = [k \in Task |-> "idle"]
    /\ running = [w \in Worker |-> None]
    /\ hand = [t \in Thread |-> None]
    /\ pc = [t \in Thread |-> IF t \in Worker THEN "none" ELSE "idle"]
    /\ left = [w \in Worker |-> {}]

Goto(t, label) == pc' = [pc EXCEPT ![t] = label]

-----------------------------------------------------------------------------
(* find_runnable(): the slot, the local queue, the injector, the others.    *)

StartRun(w, k) ==
    /\ running' = [running EXCEPT ![w] = k]
    /\ task' = [task EXCEPT ![k] = "running"]
    /\ fails' = [fails EXCEPT ![w] = 0]
    /\ Goto(w, "run")

(* Mutant: the uses of the slot are not counted. *)
TakeSlotUncounted(w) ==
    /\ pc[w] = "find"
    /\ slot_runs[w] < SLOT_LIMIT /\ slot[w] # None
    /\ slot' = [slot EXCEPT ![w] = None]
    /\ StartRun(w, slot[w])
    /\ UNCHANGED <<queues, slot_runs, place, hand, left>>

TakeSlot(w) ==
    /\ pc[w] = "find"
    /\ slot_runs[w] < SLOT_LIMIT /\ slot[w] # None
    /\ slot' = [slot EXCEPT ![w] = None]
    /\ slot_runs' = [slot_runs EXCEPT ![w] = @ + 1]
    /\ StartRun(w, slot[w])
    /\ UNCHANGED <<queues, place, hand, left>>

SkipSlot(w) ==
    /\ pc[w] = "find"
    /\ ~(slot_runs[w] < SLOT_LIMIT /\ slot[w] # None)
    /\ slot_runs' = [slot_runs EXCEPT ![w] = 0]
    /\ Goto(w, "pop")
    /\ UNCHANGED <<queues, slot, fails, place, task, running, hand, left>>

PopLocal(w) ==
    /\ pc[w] = "pop"
    /\ IF local[w] # <<>>
         THEN /\ local' = [local EXCEPT ![w] = Tail(@)]
              /\ StartRun(w, Head(local[w]))
         ELSE Goto(w, "inject") /\ UNCHANGED <<local, task, running, fails>>
    /\ UNCHANGED <<injector, slot, slot_runs, place, hand, left>>

(* steal_batch_and_pop: the first task to run, n more into the own queue.   *)
StealInjector(w) ==
    /\ pc[w] = "inject"
    /\ IF injector # <<>>
         THEN \E n \in 0 .. Len(injector) - 1 :
                /\ local' = [local EXCEPT ![w] = @ \o SubSeq(injector, 2, n + 1)]
                /\ injector' = SubSeq(injector, n + 2, Len(injector))
                /\ StartRun(w, Head(injector))
                /\ UNCHANGED left
         ELSE /\ Goto(w, "steal")
              /\ left' = [left EXCEPT ![w] = Worker]
              /\ UNCHANGED <<queues, task, running, fails>>
    /\ UNCHANGED <<slot, slot_runs, place, hand>>

StealFrom(w, v) ==
    /\ pc[w] = "steal" /\ v \in left[w]
    /\ IF local[v] # <<>>
         THEN \E n \in 0 .. Len(local[v]) - 1 :
                /\ local' = [u \in Worker |->
                       IF u = v THEN SubSeq(local[v], n + 2, Len(local[v]))
                       ELSE IF u = w THEN local[w] \o SubSeq(local[v], 2, n + 1)
                       ELSE local[u]]
                /\ left' = [left EXCEPT ![w] = {}]
                /\ StartRun(w, Head(local[v]))
         ELSE /\ left' = [left EXCEPT ![w] = @ \ {v}]
              /\ UNCHANGED <<local, task, running, fails, pc>>
    /\ UNCHANGED <<injector, slot, slot_runs, place, hand>>

(* "Loop while no task was stolen and any steal operation needs to be       *)
(* retried."                                                                *)
Retry(w) ==
    /\ pc[w] = "steal"
    /\ left' = [left EXCEPT ![w] = {}]
    /\ Goto(w, "inject")
    /\ UNCHANGED <<queues, mine, place, task, running, hand>>

(* main_loop: nothing found.  Yield or nap and look again, or go to sleep.  *)
FoundNothing(w) ==
    /\ pc[w] = "steal" /\ left[w] = {}
    /\ IF fails[w] + 1 <= IDLE_TRIES
         THEN fails' = [fails EXCEPT ![w] = @ + 1] /\ Goto(w, "find")
         ELSE UNCHANGED fails /\ Goto(w, "wait")
    /\ UNCHANGED <<queues, slot, slot_runs, place, task, running, hand, left>>

(* Mutant: a pending notification does not keep the thread awake. *)
WaitRegardless(w) ==
    /\ pc[w] = "wait"
    /\ notified' = FALSE
    /\ fails' = [fails EXCEPT ![w] = 0]
    /\ sleep' = sleep + 1
    /\ Goto(w, "asleep")
    /\ UNCHANGED <<queues, slot, slot_runs, task, running, hand, left>>

(* Sleepers::wait(): pick up a pending notification, or sleep.              *)
Wait(w) ==
    /\ pc[w] = "wait"
    /\ notified' = FALSE
    /\ fails' = [fails EXCEPT ![w] = 0]
    /\ IF notified THEN UNCHANGED sleep /\ Goto(w, "find")
                   ELSE sleep' = sleep + 1 /\ Goto(w, "asleep")
    /\ UNCHANGED <<queues, slot, slot_runs, task, running, hand, left>>

-----------------------------------------------------------------------------
(* A thread wakes task k: another thread at any time, a worker from inside  *)
(* the task it runs (itself included: that is task::yield_now).             *)
Wake(t, k) ==
    /\ pc[t] = IF t \in Worker THEN "run" ELSE "idle"
    /\ \/ /\ task[k] = "idle"
          /\ task' = [task EXCEPT ![k] = "scheduled"]
          /\ hand' = [hand EXCEPT ![t] = k]
          /\ Goto(t, "schedule")
       \/ /\ task[k] = "running"
          /\ task' = [task EXCEPT ![k] = "rewoken"]
          /\ UNCHANGED <<hand, pc>>
    /\ UNCHANGED <<queues, mine, place, running, left>>

(* The poll is over: task.run() returns, and schedules the task again if it *)
(* was woken meanwhile.                                                     *)
EndRun(w) ==
    /\ pc[w] = "run"
    /\ running' = [running EXCEPT ![w] = None]
    /\ LET k == running[w]
       IN  IF task[k] = "rewoken"
             THEN /\ task' = [task EXCEPT ![k] = "scheduled"]
                  /\ hand' = [hand EXCEPT ![w] = k]
                  /\ Goto(w, "schedule")
             ELSE /\ task' = [task EXCEPT ![k] = "idle"]
                  /\ Goto(w, "find")
                  /\ UNCHANGED hand
    /\ UNCHANGED <<queues, mine, place, left>>

(* Mutant: the task that was in the slot is dropped. *)
ScheduleOverwrites(w) ==
    /\ pc[w] = "schedule" /\ w \in Worker
    /\ slot' = [slot EXCEPT ![w] = hand[w]]
    /\ hand' = [hand EXCEPT ![w] = None]
    /\ Goto(w, IF running[w] = None THEN "find" ELSE "run")
    /\ UNCHANGED <<queues, slot_runs, fails, place, task, running, left>>

(* schedule() on a worker thread: into the slot; a task pushed out of it    *)
(* goes to the local queue, and only then is a sleeper notified.            *)
ScheduleOnWorker(w) ==
    /\ pc[w] = "schedule" /\ w \in Worker
    /\ slot' = [slot EXCEPT ![w] = hand[w]]
    /\ hand' = [hand EXCEPT ![w] = None]
    /\ IF slot[w] # None
         THEN local' = [local EXCEPT ![w] = Append(@, slot[w])] /\ Goto(w, "load")
         ELSE UNCHANGED local /\ Goto(w, IF running[w] = None THEN "find" ELSE "run")
    /\ UNCHANGED <<injector, slot_runs, fails, place, task, running, left>>

(* schedule() on any other thread: into the injector of POOL, whose first    *)
(* use starts the worker threads.                                           *)
ScheduleElsewhere(x) ==
    /\ pc[x] = "schedule" /\ x \in External
    /\ injector' = Append(injector, hand[x])
    /\ hand' = [hand EXCEPT ![x] = None]
    /\ pc' = [t \in Thread |-> IF t = x THEN "load"
                               ELSE IF pc[t] = "none" THEN "find" ELSE pc[t]]
    /\ UNCHANGED <<local, mine, place, task, running, left>>

(* Sleepers::notify_one(): the load outside the lock, then the lock.        *)
AfterNotify(t) ==
    IF t \in External THEN "idle" ELSE IF running[t] = None THEN "find" ELSE "run"

LoadNotified(t) ==
    /\ pc[t] = "load"
    /\ Goto(t, IF notified THEN AfterNotify(t) ELSE "notify")
    /\ UNCHANGED <<queues, mine, place, task, running, hand, left>>

(* Condvar::notify_one(): the values pc can have once it has woken one of   *)
(* the threads that wait, if there are any.                                 *)
Asleep == {w \in Worker : pc[w] = "asleep"}
Signalled == IF Asleep = {} THEN {pc} ELSE {[pc EXCEPT ![w] = "find"] : w \in Asleep}

(* Mutant: the woken thread stays in the count. *)
NotifyOneKeepsCount(t) ==
    /\ pc[t] = "notify"
    /\ \/ /\ sleep > 0
          /\ pc' \in {[p EXCEPT ![t] = AfterNotify(t)] : p \in Signalled}
          /\ UNCHANGED notified
       \/ /\ sleep = 0
          /\ notified' = TRUE
          /\ Goto(t, AfterNotify(t))
    /\ UNCHANGED <<queues, mine, sleep, task, running, hand, left>>

NotifyOne(t) ==
    /\ pc[t] = "notify"
    /\ \/ /\ sleep > 0
          /\ sleep' = sleep - 1
          /\ pc' \in {[p EXCEPT ![t] = AfterNotify(t)] : p \in Signalled}
          /\ UNCHANGED notified
       \/ /\ sleep = 0
          /\ notified' = TRUE
          /\ Goto(t, AfterNotify(t))
          /\ UNCHANGED sleep
    /\ UNCHANGED <<queues, mine, task, running, hand, left>>

-----------------------------------------------------------------------------
(* What a thread does next on its own. *)
Search(w) ==
    \/ TakeSlot(w) \/ SkipSlot(w) \/ PopLocal(w) \/ StealInjector(w)
    \/ (\E v \in Worker : StealFrom(w, v)) \/ FoundNothing(w) \/ Wait(w)
Schedule(t) == ScheduleOnWorker(t) \/ ScheduleElsewhere(t) \/ LoadNotified(t) \/ NotifyOne(t)

Next ==
    \/ \E w \in Worker : Search(w) \/ Retry(w) \/ EndRun(w)
    \/ \E t \in Thread : Schedule(t) \/ \E k \in Task : Wake(t, k)

Spec == Init /\ [][Next]_vars

(* Threads go on and every poll of a task returns (tasks are cooperative);  *)
(* nothing is assumed about when tasks are woken.                           *)
Fairness ==
    /\ \A w \in Worker : WF_vars(Search(w)) /\ WF_vars(EndRun(w))
    /\ \A t \in Thread : WF_vars(Schedule(t))
FairSpec == Spec /\ Fairness

-----------------------------------------------------------------------------
(* Every place in which task k waits to be run. *)
Places(k) ==
    (IF k \in Range(injector) THEN {<<"injector", None>>} ELSE {})
      \cup {<<"local", w>> : w \in {v \in Worker : k \in Range(local[v])}}
      \cup {<<"slot", w>> : w \in {v \in Worker : slot[v] = k}}
      \cup {<<"hand", t>> : t \in {u \in Thread : hand[u] = k}}

(* OneRunnable: a scheduled task is in exactly one place, and there once,    *)
(* whatever is stolen, replaced in a slot or rescheduled meanwhile, and a    *)
(* running task is in none and on one worker only: no wake-up is lost or run *)
(* twice.                                                                    *)
OneRunnable ==
    /\ IsInjective(injector) /\ \A w \in Worker : IsInjective(local[w])
    /\ \A k \in Task :
        /\ Cardinality(Places(k)) = IF task[k] = "scheduled" THEN 1 ELSE 0
        /\ Cardinality({w \in Worker : running[w] = k})
             = IF task[k] \in {"running", "rewoken"} THEN 1 ELSE 0

(* NoTaskStranded: the workers never all sleep beside a queued task with no  *)
(* notification pending or on its way; and no worker sleeps on its own slot, *)
(* which nobody else can reach, though find_runnable skips it at the limit.  *)
NoTaskStranded ==
    /\ Asleep = Worker /\ (injector # <<>> \/ \E w \in Worker : local[w] # <<>>)
         => notified \/ \E t \in Thread : pc[t] \in {"load", "notify"}
    /\ \A w \in Asleep : slot[w] = None /\ local[w] = <<>>

(* SleepCountExact: Sleepers.sleep is "how many threads are currently a      *)
(* sleep" (sleepers.rs:9): notify_one relies on it to choose between waking  *)
(* a thread and leaving the notification for the next one.                   *)
SleepCountExact == sleep = Cardinality(Asleep)

(* LocalTaskRuns: a task in a worker's queue is run, even when other tasks   *)
(* keep waking each other into the slot: SLOT_LIMIT bounds how often the     *)
(* slot goes first.                                                          *)
InLocalQueue(k) == \E w \in Worker : k \in Range(local[w])
LocalTaskRuns == \A k \in Task : InLocalQueue(k) ~> task[k] # "scheduled"
=============================================================================
