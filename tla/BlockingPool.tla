---------------------------- MODULE BlockingPool ----------------------------
(***************************************************************************)
(* The pool that runs blocking closures: src/task/spawn_blocking.rs.        *)
(*                                                                         *)
(* A pool thread waits in recv_timeout() ("recv"), and one atomic operation *)
(* on SLEEPING is one step.  A task may run for ever.                       *)
(***************************************************************************)
EXTENDS Naturals, Sequences, FiniteSets

CONSTANTS
    Jobs,       \* how many closures are given to spawn_blocking()
    Threads     \* a bound on the threads that exist at the same time

ASSUME PoolAssumption == Jobs \in Nat /\ Threads \in Nat \ {0}

VARIABLES
    sleeping,   \* SLEEPING
    queue,      \* POOL.sender / POOL.receiver
    pool,       \* pool[th]: where thread th is
    holds,      \* holds[th]: the job it has taken
    spawned,    \* the jobs that were given to spawn_blocking()
    started     \* the jobs that have run

poolVars == <<sleeping, queue, pool, holds, spawned, started>>

PoolThread == 1..Threads
Job == 1..Jobs
NoJob == 0

(* The Lazy POOL has started its first thread.                             *)
PoolInit ==
    /\ sleeping = 1 /\ queue = <<>>
    /\ pool = [th \in PoolThread |-> IF th = 1 THEN "recv" ELSE "none"]
    /\ holds = [th \in PoolThread |-> NoJob]
    /\ spawned = {} /\ started = {}

SpawnBlocking(j) ==
    /\ j = Cardinality(spawned) + 1
    /\ spawned' = spawned \union {j} /\ queue' = Append(queue, j)
    /\ UNCHANGED <<sleeping, pool, holds, started>>

Goes(th, pc) == pool' = [pool EXCEPT ![th] = pc]

(* POOL.receiver.recv_timeout(timeout)                                     *)
Recv(th) ==
    /\ pool[th] = "recv" /\ queue # <<>>
    /\ holds' = [holds EXCEPT ![th] = Head(queue)] /\ queue' = Tail(queue)
    /\ Goes(th, "took")
    /\ UNCHANGED <<sleeping, spawned, started>>

TimeOut(th) ==
    /\ pool[th] = "recv" /\ queue = <<>>
    /\ Goes(th, "expired")
    /\ UNCHANGED <<sleeping, queue, holds, spawned, started>>

(* Mutant: the last sleeping thread leaves like any other. *)
LeaveAlways(th) ==
    /\ pool[th] = "expired"
    /\ sleeping' = sleeping - 1
    /\ Goes(th, "none")
    /\ UNCHANGED <<queue, holds, spawned, started>>

(* After the time-out: SLEEPING.fetch_sub(1) == 1, then compare_and_swap.   *)
Leave(th) ==
    /\ pool[th] = "expired"
    /\ sleeping' = sleeping - 1
    /\ Goes(th, IF sleeping = 1 THEN "last" ELSE "none")
    /\ UNCHANGED <<queue, holds, spawned, started>>

Stay(th) ==
    /\ pool[th] = "last"
    /\ sleeping' = IF sleeping = 0 THEN 1 ELSE sleeping
    /\ Goes(th, IF sleeping = 0 THEN "recv" ELSE "none")
    /\ UNCHANGED <<queue, holds, spawned, started>>

(* With a task: fetch_sub, and start_thread() if no thread sleeps.          *)
Took(th) ==
    /\ pool[th] = "took"
    /\ sleeping' = sleeping - 1
    /\ Goes(th, IF sleeping = 1 THEN "start" ELSE "run")
    /\ UNCHANGED <<queue, holds, spawned, started>>

StartThread(th) ==
    /\ pool[th] = "start"
    /\ sleeping' = sleeping + 1
    /\ Goes(th, "create")
    /\ UNCHANGED <<queue, holds, spawned, started>>

CreateThread(th) ==
    /\ pool[th] = "create"
    /\ \E new \in PoolThread :
        /\ pool[new] = "none" /\ \A o \in 1..(new - 1) : pool[o] # "none"
        /\ pool' = [pool EXCEPT ![th] = "run", ![new] = "recv"]
    /\ UNCHANGED <<sleeping, queue, holds, spawned, started>>

RunJob(th) ==
    /\ pool[th] = "run"
    /\ started' = started \union {holds[th]}
    /\ Goes(th, "running")
    /\ UNCHANGED <<sleeping, queue, holds, spawned>>

JobReturns(th) ==
    /\ pool[th] = "running"
    /\ holds' = [holds EXCEPT ![th] = NoJob]
    /\ Goes(th, "again")
    /\ UNCHANGED <<sleeping, queue, spawned, started>>

(* POOL.receiver.try_recv()                                                *)
TryRecvJob(th) ==
    /\ pool[th] = "again"
    /\ IF queue = <<>> THEN Goes(th, "load") /\ UNCHANGED <<queue, holds>>
       ELSE /\ holds' = [holds EXCEPT ![th] = Head(queue)] /\ queue' = Tail(queue)
            /\ Goes(th, "run")
    /\ UNCHANGED <<sleeping, spawned, started>>

(* SLEEPING.load() > 0, and fetch_add(1) if not.                           *)
LoadSleeping(th) ==
    /\ pool[th] = "load"
    /\ Goes(th, IF sleeping > 0 THEN "none" ELSE "sleep")
    /\ UNCHANGED <<sleeping, queue, holds, spawned, started>>

(* Mutant: a thread that goes back to sleep is not counted. *)
SleepUncounted(th) ==
    /\ pool[th] = "sleep"
    /\ Goes(th, "recv")
    /\ UNCHANGED <<sleeping, queue, holds, spawned, started>>

Sleep(th) ==
    /\ pool[th] = "sleep"
    /\ sleeping' = sleeping + 1
    /\ Goes(th, "recv")
    /\ UNCHANGED <<queue, holds, spawned, started>>

PoolStep(th) ==
    \/ Recv(th) \/ Leave(th) \/ Stay(th) \/ Took(th) \/ StartThread(th) \/ CreateThread(th)
    \/ RunJob(th) \/ TryRecvJob(th) \/ LoadSleeping(th) \/ Sleep(th)

PoolNext ==
    \/ \E j \in Job : SpawnBlocking(j)
    \/ \E th \in PoolThread : PoolStep(th) \/ TimeOut(th) \/ JobReturns(th)

PoolSpec == PoolInit /\ [][PoolNext]_poolVars

(* The operating system runs every thread; nothing makes a job return.      *)
PoolFairness == \A th \in PoolThread : WF_poolVars(PoolStep(th))

---------------------------------------------------------------------------
(* SLEEPING is the number of threads that wait, have just stopped waiting,   *)
(* or are about to exist: fetch_add, fetch_sub and compare_and_swap of       *)
(* threads that come and go never let it drift (or wrap below 0).           *)
SleepingIsExact ==
    sleeping = Cardinality({th \in PoolThread : pool[th] \in {"recv", "expired", "took", "create"}})

(* A closure given to spawn_blocking() is run even if all the jobs before it *)
(* block for ever: there is always a thread that waits or will wait, however *)
(* the time-outs of idle threads fall.  (There are finitely many, so that    *)
(* each is run if again and again all have been.)                           *)
BlockingJobStarts == []<>(spawned = started)
=============================================================================
