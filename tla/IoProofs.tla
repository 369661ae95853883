------------------------------ MODULE IoProofs ------------------------------
(***************************************************************************)
(* Proofs about async_std::fs::File, for any number of tasks, blocking     *)
(* threads, calls and failures: the guard is held by one task or one job,  *)
(* no task that waits for it is forgotten, cache and disk together are the *)
(* file its callers know, and what they are told about it is true.         *)
(*                                                                         *)
(* And about the writers of src/io/, for any bytes, sinks, failures and    *)
(* capacities: no byte that is given to them is lost or doubled.           *)
(***************************************************************************)
EXTENDS File, PollAdapters, SequenceTheorems, WellFoundedInduction, TLAPS

-----------------------------------------------------------------------------
(* The control part of the invariant: who holds the guard.                  *)

TaskPC == {"idle", "poll", "list", "held", "drain", "wait", "join"}
ThreadPC == {"none", "run", "drain", "release"}
Jobs == {"none", "read", "drain", "flush", "sync_all", "set_len"}

AllOps == Ops \cup LastOps \cup {NoOp}
TaskState == [pc : TaskPC, op : AllOps, join : SUBSET Thread]
ThreadState == [pc : ThreadPC, job : Jobs, n : Int]

ControlTypes ==
  /\ locked \in BOOLEAN
  /\ wakers \subseteq Task /\ woken \subseteq Task
  /\ task \in [Task -> TaskState]
  /\ thread \in [Thread -> ThreadState]

(* The guard is in one hand, a task's or a job's.                           *)
GuardInOneHand ==
  /\ \A t, u \in Task : task[t].pc = "held" /\ task[u].pc = "held" => t = u
  /\ \A th, tj \in Thread : thread[th].pc = "run" /\ thread[tj].pc = "run" => th = tj
  /\ \A t \in Task, th \in Thread : ~(task[t].pc = "held" /\ thread[th].pc = "run")
  /\ \A t \in Task : task[t].pc = "held" => locked
  /\ \A th \in Thread : thread[th].pc = "run" => locked
  /\ locked => (\E t \in Task : task[t].pc = "held") \/ \E th \in Thread : thread[th].pc = "run"

(* Only sync_all and set_len await a job, and only while they do so.        *)
JoinsFit == \A t \in Task : task[t].join # {} => task[t].pc = "join"

ControlInv == ControlTypes /\ GuardInOneHand /\ JoinsFit /\ NoWaiterStranded

-----------------------------------------------------------------------------
(* What the steps do to the control part.                                   *)

Unlocks(t) ==
  /\ locked' = FALSE
  /\ task' = [task EXCEPT ![t].pc = "drain"]
  /\ UNCHANGED <<wakers, woken, thread>>

Hires(job, n, th) ==
  thread[th] = NoJob /\ thread' = [thread EXCEPT ![th] = [pc |-> "run", job |-> job, n |-> n]]

Parks(t) ==
  /\ wakers' = wakers \cup {t}
  /\ task' = [task EXCEPT ![t].pc = "wait"]
  /\ \E job \in Jobs, n \in Int, th \in Thread : Hires(job, n, th)
  /\ UNCHANGED <<locked, woken>>

Joins(t) ==
  /\ \E job \in Jobs, n \in Int, th \in Thread :
        Hires(job, n, th) /\ task' = [task EXCEPT ![t].pc = "join", ![t].join = {th}]
  /\ UNCHANGED <<locked, wakers, woken>>

(* OpTyped: the operands of the operations.                                 *)
LEMMA OpTyped ==
  \A op \in AllOps : /\ op.kind = "read" => op.n \in ReadSizes /\ op.n \in Nat
                     /\ op.kind = "write" => op.buf \in Seq(Nat)
                     /\ op.kind \in {"seekStart", "seekCurrent", "seekEnd"} => op.n \in Int
                     /\ op.kind = "set_len" => op.n = 1
  <1>1. SUFFICES ASSUME NEW op \in AllOps
                 PROVE  /\ op.kind = "read" => op.n \in ReadSizes /\ op.n \in Nat
                        /\ op.kind = "write" => op.buf \in Seq(Nat)
                        /\ op.kind \in {"seekStart", "seekCurrent", "seekEnd"} => op.n \in Int
                        /\ op.kind = "set_len" => op.n = 1
    OBVIOUS
  <1>2. CASE \E n \in ReadSizes : op = Op("read", n, <<>>)
    BY <1>2, FileAssumption DEF Op
  <1>3. CASE \E b \in Buffers : op = Op("write", 0, b)
    <2>1. PICK b \in Buffers : op = Op("write", 0, b)
      BY <1>3
    <2>2. b \in Seq(Nat)
      BY FileAssumption, SeqMonotonic
    <2>3. QED
      BY <2>1, <2>2 DEF Op
  <1>4. CASE \E sk \in Seeks : op = Op(sk[1], sk[2], <<>>)
    BY <1>4, FileAssumption DEF Op
  <1>5. CASE op \in {Op("flush", 0, <<>>), Op("sync_all", 0, <<>>), Op("set_len", 1, <<>>), NoOp} \cup LastOps
    BY <1>5 DEF Op, NoOp, LastOps
  <1>6. QED
    BY <1>2, <1>3, <1>4, <1>5 DEF AllOps, Ops

(* FlushMoves: poll_flush goes on, fails, or gives the guard to a job.      *)
LEMMA FlushMoves ==
  ASSUME ControlTypes, NEW t \in Task, NEW s, NEW ACTION Fn, FlushThen(t, s, Fn)
  PROVE  Fn \/ Unlocks(t) \/ Parks(t)
  <1>1. \A job \in Jobs, n \in Int : Spawn(t, s, job, n) => Parks(t)
    BY DEF Spawn, Parks, Hires
  <1>2. ASSUME NEW r, Fail(t, r) PROVE Unlocks(t)
    BY <1>2 DEF Fail, Return, Unlocks
  <1>3. ASSUME Drain(t, s) PROVE Unlocks(t) \/ Parks(t)
    <2>1. CASE s.werr
      BY <1>2, <1>3, <2>1 DEF Drain
    <2>2. CASE ~s.werr
      BY <1>1, <1>3, <2>2 DEF Drain, Jobs
    <2>3. QED
      BY <2>1, <2>2
  <1>4. Spawn(t, s, "flush", 0) => Parks(t)
    BY <1>1 DEF Jobs
  <1>5. QED
    BY <1>3, <1>4 DEF FlushThen

(* HoldingMoves: an operation with the guard returns it, or hands it to a   *)
(* job and waits, in the lock's list or for the job itself.                 *)
LEMMA HoldingMoves ==
  ASSUME ControlTypes, NEW t \in Task, HoldingStep(t)
  PROVE  task[t].pc = "held" /\ (Unlocks(t) \/ Parks(t) \/ Joins(t))
  <1>1. task[t].pc = "held"
    BY DEF HoldingStep, PollReadCached, PollReadFile, PollWrite, PollSeekCached, PollSeekFile,
           PollFlush, SyncAll, SetLen, Holds
  <1>2. ASSUME NEW s, NEW o, NEW v, NEW p, Return(t, s, o, v, p) PROVE Unlocks(t)
    BY <1>2 DEF Return, Unlocks
  <1>3. ASSUME NEW s, Fail(t, s) PROVE Unlocks(t)
    BY <1>2, <1>3 DEF Fail
  <1>4. ASSUME NEW s, NEW job \in Jobs, NEW n \in Int, Spawn(t, s, job, n) PROVE Parks(t)
    BY <1>4 DEF Spawn, Parks, Hires
  <1>5. ASSUME NEW s, NEW job \in Jobs, NEW n \in Int, NEW v, SpawnAndJoin(t, s, job, n, v) PROVE Joins(t)
    BY <1>5 DEF SpawnAndJoin, Joins, Hires
  <1>6. ASSUME NEW s, Drain(t, s) PROVE Unlocks(t) \/ Parks(t)
    BY <1>3, <1>4, <1>6 DEF Drain, Jobs
  <1>7. task[t].op \in AllOps
    BY DEF ControlTypes, TaskState
  <1>8. ASSUME NEW s, StartRead(t, s), task[t].op.kind = "read" PROVE Parks(t)
    BY <1>4, <1>7, <1>8, OpTyped DEF StartRead, Jobs
  <1>9. CASE PollReadCached(t)
    BY <1>1, <1>2, <1>9 DEF PollReadCached
  <1>10. CASE PollReadFile(t)
    <2>1. task[t].op.kind = "read"
      BY <1>10 DEF PollReadFile, Holds
    <2>2. \/ Fail(t, [state EXCEPT !.rerr = FALSE]) \/ StartRead(t, state)
          \/ FlushThen(t, state, StartRead(t, state))
      BY <1>10 DEF PollReadFile
    <2>3. FlushThen(t, state, StartRead(t, state)) => StartRead(t, state) \/ Unlocks(t) \/ Parks(t)
      BY FlushMoves
    <2>4. QED
      BY <1>1, <1>3, <1>8, <2>1, <2>2, <2>3
  <1>11. CASE PollWrite(t)
    <2>1. \/ \E s : Fail(t, s)
          \/ \E s, o, v, p : Return(t, s, o, v, p)
          \/ \E s : Drain(t, s)
      BY <1>11 DEF PollWrite
    <2>2. QED
      BY <1>1, <1>2, <1>3, <1>6, <2>1
  <1>12. CASE PollSeekCached(t)
    BY <1>1, <1>2, <1>12 DEF PollSeekCached
  <1>13. CASE PollSeekFile(t)
    <2> DEFINE u == Unread(state)
               to == SeekTo(task[t].op, u.cursor, Len(u.disk))
               ends == IF to < 0 THEN Fail(t, u)
                       ELSE Return(t, [u EXCEPT !.cursor = to], Out(task[t].op, "ok", to, <<>>),
                                   view, SeekTo(task[t].op, at, Len(view)))
    <2>1. FlushThen(t, u, ends)
      BY <1>13 DEF PollSeekFile
    <2>2. ends => Unlocks(t)
      BY <1>2, <1>3
    <2> HIDE DEF u, to, ends
    <2>3. QED
      BY <1>1, <2>1, <2>2, FlushMoves
  <1>14. CASE PollFlush(t)
    <2> DEFINE ends == Return(t, state, Out(task[t].op, "ok", 0, <<>>), view, at)
    <2>1. FlushThen(t, state, ends)
      BY <1>14 DEF PollFlush
    <2>2. ends => Unlocks(t)
      BY <1>2
    <2> HIDE DEF ends
    <2>3. QED
      BY <1>1, <2>1, <2>2, FlushMoves
  <1>15. CASE SyncAll(t)
    <2> DEFINE ends == SpawnAndJoin(t, state, "sync_all", 0, view)
    <2>1. FlushThen(t, state, ends)
      BY <1>15 DEF SyncAll
    <2>2. ends => Joins(t)
      BY <1>5 DEF Jobs
    <2> HIDE DEF ends
    <2>3. QED
      BY <1>1, <2>1, <2>2, FlushMoves
  <1>16. CASE SetLen(t)
    <2> DEFINE u == Unread(state)
               ends == \/ SpawnAndJoin(t, u, "set_len", task[t].op.n, Resized(view, task[t].op.n))
                       \/ SpawnAndJoin(t, u, "sync_all", 0, view)
    <2>1. FlushThen(t, u, ends)
      BY <1>16 DEF SetLen
    <2>2. task[t].op.n \in Int
      BY <1>7, <1>16, OpTyped DEF SetLen, Holds
    <2>3. ends => Joins(t)
      BY <1>5, <2>2 DEF Jobs
    <2> HIDE DEF u, ends
    <2>4. QED
      BY <1>1, <2>1, <2>3, FlushMoves
  <1>17. QED
    BY <1>9, <1>10, <1>11, <1>12, <1>13, <1>14, <1>15, <1>16 DEF HoldingStep

JobSteps(th) == JobRead(th) \/ JobDrain(th) \/ JobFlush(th) \/ JobSync(th) \/ JobSetLen(th)

(* JobMoves: a job drops the guard.                                         *)
LEMMA JobMoves ==
  ASSUME NEW th \in Thread, JobSteps(th)
  PROVE  /\ thread[th].pc = "run" /\ locked' = FALSE
         /\ thread' = [thread EXCEPT ![th].pc = "drain"]
         /\ UNCHANGED <<wakers, task, woken>>
  <1>1. ASSUME NEW s, EndJob(th, s)
        PROVE  /\ locked' = FALSE /\ thread' = [thread EXCEPT ![th].pc = "drain"]
               /\ UNCHANGED <<wakers, task, woken>>
    BY <1>1 DEF EndJob
  <1>2. thread[th].pc = "run"
    BY DEF JobSteps, JobRead, JobDrain, JobFlush, JobSync, JobSetLen, Runs
  <1>3. \E s : EndJob(th, s)
    <2>1. CASE JobRead(th)
      BY <2>1 DEF JobRead
    <2>2. CASE JobDrain(th)
      BY <2>2 DEF JobDrain
    <2>3. CASE JobFlush(th)
      BY <2>3 DEF JobFlush
    <2>4. CASE JobSync(th)
      BY <2>4 DEF JobSync
    <2>5. CASE JobSetLen(th)
      BY <2>5 DEF JobSetLen
    <2>6. QED
      BY <2>1, <2>2, <2>3, <2>4, <2>5 DEF JobSteps
  <1>4. QED
    BY <1>1, <1>2, <1>3

(* PcSet: a task moves.                                                     *)
LEMMA PcSet ==
  ASSUME task \in [Task -> TaskState], NEW t \in Task, NEW to \in TaskPC,
         task' = [task EXCEPT ![t].pc = to]
  PROVE  /\ task' \in [Task -> TaskState]
         /\ task'[t].pc = to /\ task'[t].op = task[t].op /\ task'[t].join = task[t].join
         /\ \A u \in Task \ {t} : task'[u] = task[u]
  BY DEF TaskState

(* StateSet: a task begins, or is done.                                     *)
LEMMA StateSet ==
  ASSUME task \in [Task -> TaskState], NEW t \in Task, NEW r \in TaskState,
         task' = [task EXCEPT ![t] = r]
  PROVE  task' \in [Task -> TaskState] /\ task'[t] = r /\ \A u \in Task \ {t} : task'[u] = task[u]
  OBVIOUS

(* IdleFits: the task that does nothing, and the thread without a job.      *)
LEMMA IdleFits == /\ IdleTask \in TaskState /\ IdleTask.pc = "idle"
                  /\ NoJob \in ThreadState /\ NoJob.pc = "none"
  BY DEF IdleTask, TaskState, TaskPC, AllOps, NoJob, ThreadState, ThreadPC, Jobs

(* HiresOne: a thread without a job gets one.                               *)
LEMMA HiresOne ==
  ASSUME thread \in [Thread -> ThreadState],
         NEW job \in Jobs, NEW n \in Int, NEW th \in Thread, Hires(job, n, th)
  PROVE  /\ thread' \in [Thread -> ThreadState]
         /\ thread[th].pc = "none" /\ thread'[th].pc = "run" /\ thread'[th].job = job /\ thread'[th].n = n
         /\ \A tj \in Thread \ {th} : thread'[tj] = thread[tj]
  <1>1. [pc |-> "run", job |-> job, n |-> n] \in ThreadState
    BY DEF ThreadState, ThreadPC
  <1>2. QED
    BY <1>1, IdleFits DEF Hires

(* ThreadSet: a thread goes on with its job.                                *)
LEMMA ThreadSet ==
  ASSUME thread \in [Thread -> ThreadState], NEW th \in Thread, NEW to \in ThreadPC,
         thread' = [thread EXCEPT ![th].pc = to]
  PROVE  /\ thread' \in [Thread -> ThreadState]
         /\ thread'[th].pc = to /\ thread'[th].job = thread[th].job /\ thread'[th].n = thread[th].n
         /\ \A tj \in Thread \ {th} : thread'[tj] = thread[tj]
  BY DEF ThreadState

-----------------------------------------------------------------------------
(* The steps, one lemma each.                                               *)

(* BeginKeeps: a call, or the drop of the file or of a future.              *)
LEMMA BeginKeeps ==
  ASSUME ControlInv, NEW t \in Task, NEW r \in TaskState, r.pc \in {"poll", "idle"}, r.join = {},
         task' = [task EXCEPT ![t] = r], woken' = woken \ {t}, task[t].pc # "held",
         task[t].pc # "drain", UNCHANGED <<locked, wakers, thread>>
  PROVE  ControlInv'
  <1>0. task \in [Task -> TaskState]
    BY DEF ControlInv, ControlTypes
  <1>1. task' \in [Task -> TaskState] /\ task'[t] = r /\ \A u \in Task \ {t} : task'[u] = task[u]
    BY <1>0, StateSet
  <1>2. ControlTypes'
    BY <1>1 DEF ControlInv, ControlTypes
  <1>3. GuardInOneHand'
    BY <1>1 DEF ControlInv, GuardInOneHand
  <1>4. NoWaiterStranded'
    BY <1>1 DEF ControlInv, NoWaiterStranded
  <1>5. JoinsFit'
    BY <1>1 DEF ControlInv, JoinsFit
  <1>6. QED
    BY <1>2, <1>3, <1>4, <1>5 DEF ControlInv

(* LockKeeps: Lock::poll_lock, on the lock alone.                           *)
LEMMA LockKeeps ==
  ASSUME ControlInv, NEW t \in Task, PollLock(t)
  PROVE  ControlInv'
  <1>1. /\ task[t].pc \in {"poll", "wait"} /\ locked' = TRUE /\ woken' = woken \ {t}
        /\ UNCHANGED <<wakers, thread>>
    BY DEF PollLock
  <1>2. /\ task' \in [Task -> TaskState] /\ task'[t].pc = IF locked THEN "list" ELSE "held"
        /\ task'[t].join = task[t].join
        /\ \A u \in Task \ {t} : task'[u] = task[u]
    <2>1. task \in [Task -> TaskState]
      BY DEF ControlInv, ControlTypes
    <2>2. CASE locked
      BY <2>1, <2>2, PcSet DEF PollLock, TaskPC
    <2>3. CASE ~locked
      BY <2>1, <2>3, PcSet DEF PollLock, TaskPC
    <2>4. QED
      BY <2>2, <2>3
  <1>3. ControlTypes'
    BY <1>1, <1>2 DEF ControlInv, ControlTypes
  <1>4. GuardInOneHand'
    BY <1>1, <1>2 DEF ControlInv, GuardInOneHand
  <1>5. NoWaiterStranded'
    BY <1>1, <1>2 DEF ControlInv, NoWaiterStranded
  <1>6. JoinsFit'
    BY <1>1, <1>2 DEF ControlInv, JoinsFit
  <1>7. QED
    BY <1>3, <1>4, <1>5, <1>6 DEF ControlInv

(* ListKeeps: Lock::poll_lock, with the list of wakers locked.              *)
LEMMA ListKeeps ==
  ASSUME ControlInv, NEW t \in Task, PollList(t)
  PROVE  ControlInv'
  <1>0. task \in [Task -> TaskState]
    BY DEF ControlInv, ControlTypes
  <1>1. /\ task[t].pc = "list" /\ locked' = TRUE /\ UNCHANGED <<woken, thread>>
    BY DEF PollList
  <1>2. CASE locked
    <2>1. wakers' = wakers \cup {t} /\ task' = [task EXCEPT ![t].pc = "wait"]
      BY <1>2 DEF PollList
    <2>2. /\ task' \in [Task -> TaskState] /\ task'[t].pc = "wait" /\ task'[t].join = task[t].join
          /\ \A u \in Task \ {t} : task'[u] = task[u]
      BY <1>0, <2>1, PcSet DEF TaskPC
    <2>3. ControlTypes'
      BY <1>1, <2>1, <2>2 DEF ControlInv, ControlTypes
    <2>4. GuardInOneHand'
      BY <1>1, <1>2, <2>2 DEF ControlInv, GuardInOneHand
    <2>5. NoWaiterStranded'
      BY <1>1, <2>1, <2>2 DEF ControlInv, NoWaiterStranded
    <2>6. JoinsFit'
      BY <1>1, <2>2 DEF ControlInv, JoinsFit
    <2>7. QED
      BY <2>3, <2>4, <2>5, <2>6 DEF ControlInv
  <1>3. CASE ~locked
    <2>1. wakers' = wakers /\ task' = [task EXCEPT ![t].pc = "held"]
      BY <1>3 DEF PollList
    <2>2. /\ task' \in [Task -> TaskState] /\ task'[t].pc = "held" /\ task'[t].join = task[t].join
          /\ \A u \in Task \ {t} : task'[u] = task[u]
      BY <1>0, <2>1, PcSet DEF TaskPC
    <2>3. ControlTypes'
      BY <1>1, <2>1, <2>2 DEF ControlInv, ControlTypes
    <2>4. GuardInOneHand'
      BY <1>1, <1>3, <2>2 DEF ControlInv, GuardInOneHand
    <2>5. NoWaiterStranded'
      BY <1>1, <2>1, <2>2 DEF ControlInv, NoWaiterStranded
    <2>6. JoinsFit'
      BY <1>1, <2>2 DEF ControlInv, JoinsFit
    <2>7. QED
      BY <2>3, <2>4, <2>5, <2>6 DEF ControlInv
  <1>4. QED
    BY <1>2, <1>3

(* HoldingKeeps: an operation that holds the guard.                         *)
LEMMA HoldingKeeps ==
  ASSUME ControlInv, NEW t \in Task, HoldingStep(t)
  PROVE  ControlInv'
  <1>0. ControlTypes /\ task \in [Task -> TaskState] /\ thread \in [Thread -> ThreadState]
    BY DEF ControlInv, ControlTypes
  <1>1. task[t].pc = "held" /\ (Unlocks(t) \/ Parks(t) \/ Joins(t))
    BY <1>0, HoldingMoves
  <1>2. locked /\ (\A u \in Task \ {t} : task[u].pc # "held") /\ \A th \in Thread : thread[th].pc # "run"
    BY <1>1 DEF ControlInv, GuardInOneHand
  <1>3. CASE Unlocks(t)
    <2>1. locked' = FALSE /\ UNCHANGED <<wakers, woken, thread>>
      BY <1>3 DEF Unlocks
    <2>2. /\ task' \in [Task -> TaskState] /\ task'[t].pc = "drain" /\ task'[t].join = task[t].join
          /\ \A u \in Task \ {t} : task'[u] = task[u]
      BY <1>0, <1>3, PcSet DEF Unlocks, TaskPC
    <2>3. ControlTypes'
      BY <2>1, <2>2 DEF ControlInv, ControlTypes
    <2>4. GuardInOneHand'
      BY <1>2, <2>1, <2>2 DEF GuardInOneHand
    <2>5. NoWaiterStranded'
      BY <2>1, <2>2 DEF ControlInv, NoWaiterStranded
    <2>6. JoinsFit'
      BY <1>1, <2>2 DEF ControlInv, JoinsFit
    <2>7. QED
      BY <2>3, <2>4, <2>5, <2>6 DEF ControlInv
  <1>4. CASE Parks(t)
    <2>1. wakers' = wakers \cup {t} /\ UNCHANGED <<locked, woken>>
      BY <1>4 DEF Parks
    <2>2. /\ task' \in [Task -> TaskState] /\ task'[t].pc = "wait" /\ task'[t].join = task[t].join
          /\ \A u \in Task \ {t} : task'[u] = task[u]
      BY <1>0, <1>4, PcSet DEF Parks, TaskPC
    <2>3. PICK th \in Thread : /\ thread' \in [Thread -> ThreadState]
                               /\ thread[th].pc = "none" /\ thread'[th].pc = "run"
                               /\ \A tj \in Thread \ {th} : thread'[tj] = thread[tj]
      <3>1. PICK job \in Jobs, n \in Int, th \in Thread : Hires(job, n, th)
        BY <1>4 DEF Parks
      <3>2. QED
        BY <1>0, <3>1, HiresOne
    <2>4. ControlTypes'
      BY <2>1, <2>2, <2>3 DEF ControlInv, ControlTypes
    <2>5. GuardInOneHand'
      BY <1>2, <2>1, <2>2, <2>3 DEF GuardInOneHand
    <2>6. NoWaiterStranded'
      BY <1>2, <2>1, <2>2, <2>3 DEF ControlInv, NoWaiterStranded
    <2>7. JoinsFit'
      BY <1>1, <2>2 DEF ControlInv, JoinsFit
    <2>8. QED
      BY <2>4, <2>5, <2>6, <2>7 DEF ControlInv
  <1>5. CASE Joins(t)
    <2>1. UNCHANGED <<locked, wakers, woken>>
      BY <1>5 DEF Joins
    <2>2. PICK job \in Jobs, n \in Int, th \in Thread :
             Hires(job, n, th) /\ task' = [task EXCEPT ![t].pc = "join", ![t].join = {th}]
      BY <1>5 DEF Joins
    <2>3. /\ task' \in [Task -> TaskState] /\ task'[t].pc = "join"
          /\ \A u \in Task \ {t} : task'[u] = task[u]
      BY <1>0, <2>2 DEF TaskState, TaskPC
    <2>4. /\ thread' \in [Thread -> ThreadState]
          /\ thread[th].pc = "none" /\ thread'[th].pc = "run"
          /\ \A tj \in Thread \ {th} : thread'[tj] = thread[tj]
      BY <1>0, <2>2, HiresOne
    <2>5. ControlTypes'
      BY <2>1, <2>3, <2>4 DEF ControlInv, ControlTypes
    <2>6. GuardInOneHand'
      BY <1>2, <2>1, <2>3, <2>4 DEF GuardInOneHand
    <2>7. NoWaiterStranded'
      BY <1>2, <2>1, <2>3, <2>4 DEF ControlInv, NoWaiterStranded
    <2>8. JoinsFit'
      BY <2>3 DEF ControlInv, JoinsFit
    <2>9. QED
      BY <2>5, <2>6, <2>7, <2>8 DEF ControlInv
  <1>6. QED
    BY <1>1, <1>3, <1>4, <1>5

(* WakeAllKeeps: Drop for LockGuard wakes everybody, from a task or a job.  *)
LEMMA WakeAllKeeps ==
  ASSUME ControlInv, NEW W \in SUBSET Task, woken' = (woken \cup Woken) \ W, wakers' = {},
         \A t \in W : task[t].pc # "wait",
         task' \in [Task -> TaskState], thread' \in [Thread -> ThreadState], locked' = locked,
         \A t \in Task : \/ task'[t] = task[t]
                         \/ task[t].pc = "drain" /\ task'[t].pc = "idle" /\ task'[t].join = {},
         \A th \in Thread : thread'[th] = thread[th] \/ (thread[th].pc # "run" /\ thread'[th].pc # "run")
  PROVE  ControlInv'
  <1>1. ControlTypes'
    BY DEF ControlInv, ControlTypes, Woken
  <1>2. GuardInOneHand'
    BY DEF ControlInv, GuardInOneHand
  <1>3. NoWaiterStranded'
    BY DEF ControlInv, NoWaiterStranded, Woken
  <1>4. JoinsFit'
    BY DEF ControlInv, JoinsFit
  <1>5. QED
    BY <1>1, <1>2, <1>3, <1>4 DEF ControlInv

(* JobKeeps: a job drops the guard.                                         *)
LEMMA JobKeeps ==
  ASSUME ControlInv, NEW th \in Thread, JobSteps(th)
  PROVE  ControlInv'
  <1>0. thread \in [Thread -> ThreadState]
    BY DEF ControlInv, ControlTypes
  <1>1. /\ thread[th].pc = "run" /\ locked' = FALSE /\ UNCHANGED <<wakers, task, woken>>
        /\ thread' = [thread EXCEPT ![th].pc = "drain"]
    BY JobMoves
  <1>2. /\ thread' \in [Thread -> ThreadState] /\ thread'[th].pc = "drain"
        /\ \A tj \in Thread \ {th} : thread'[tj] = thread[tj]
    BY <1>0, <1>1, ThreadSet DEF ThreadPC
  <1>3. (\A u \in Task : task[u].pc # "held") /\ \A tj \in Thread \ {th} : thread[tj].pc # "run"
    BY <1>1 DEF ControlInv, GuardInOneHand
  <1>4. ControlTypes'
    BY <1>1, <1>2 DEF ControlInv, ControlTypes
  <1>5. GuardInOneHand'
    BY <1>1, <1>2, <1>3 DEF GuardInOneHand
  <1>6. NoWaiterStranded'
    BY <1>1, <1>2 DEF ControlInv, NoWaiterStranded
  <1>7. JoinsFit'
    BY <1>1 DEF ControlInv, JoinsFit
  <1>8. QED
    BY <1>4, <1>5, <1>6, <1>7 DEF ControlInv

(* ReleaseKeeps: the closure returns, and who joined it is done.            *)
LEMMA ReleaseKeeps ==
  ASSUME ControlInv, NEW th \in Thread, ThreadRelease(th)
  PROVE  ControlInv'
  <1>1. /\ thread[th].pc = "release" /\ thread' = [thread EXCEPT ![th] = NoJob]
        /\ task' = [t \in Task |-> IF th \in task[t].join THEN IdleTask ELSE task[t]]
        /\ UNCHANGED <<locked, wakers, woken>>
    BY DEF ThreadRelease
  <1>2. /\ task' \in [Task -> TaskState] /\ \A t \in Task : task'[t] = task[t] \/ task'[t].pc = "idle"
    BY <1>1, IdleFits DEF ControlInv, ControlTypes
  <1>3. /\ thread' \in [Thread -> ThreadState] /\ thread'[th].pc = "none"
        /\ \A tj \in Thread \ {th} : thread'[tj] = thread[tj]
    BY <1>1, IdleFits DEF ControlInv, ControlTypes
  <1>4. ControlTypes'
    BY <1>1, <1>2, <1>3 DEF ControlInv, ControlTypes
  <1>5. JoinsFit' /\ \A t \in Task : task[t].pc # "join" => task'[t] = task[t]
    BY <1>1 DEF ControlInv, JoinsFit, IdleTask
  <1>6. GuardInOneHand'
    BY <1>1, <1>2, <1>3, <1>5 DEF ControlInv, GuardInOneHand
  <1>7. NoWaiterStranded'
    BY <1>1, <1>2, <1>3, <1>5 DEF ControlInv, NoWaiterStranded
  <1>8. QED
    BY <1>4, <1>5, <1>6, <1>7 DEF ControlInv

(* TaskDrainKeeps: the second half of Drop for LockGuard, in a task.        *)
LEMMA TaskDrainKeeps ==
  ASSUME ControlInv, NEW t \in Task, TaskDrain(t)
  PROVE  ControlInv'
  <1>1. /\ task[t].pc = "drain" /\ wakers' = {} /\ woken' = (woken \cup Woken) \ {t}
        /\ task' = [task EXCEPT ![t] = IdleTask] /\ UNCHANGED <<locked, thread>>
    BY DEF TaskDrain
  <1>2. task \in [Task -> TaskState] /\ thread \in [Thread -> ThreadState]
    BY DEF ControlInv, ControlTypes
  <1>3. task' \in [Task -> TaskState] /\ task'[t] = IdleTask /\ \A u \in Task \ {t} : task'[u] = task[u]
    BY <1>1, <1>2, IdleFits, StateSet
  <1>4. \A u \in Task : \/ task'[u] = task[u]
                        \/ task[u].pc = "drain" /\ task'[u].pc = "idle" /\ task'[u].join = {}
    BY <1>1, <1>3 DEF IdleTask
  <1>5. {t} \in SUBSET Task /\ (\A u \in {t} : task[u].pc # "wait") /\ thread' = thread /\ locked' = locked
    BY <1>1
  <1>6. QED
    BY <1>1, <1>2, <1>3, <1>4, <1>5, WakeAllKeeps

(* ThreadDrainKeeps: the second half of Drop for LockGuard, in a job.       *)
LEMMA ThreadDrainKeeps ==
  ASSUME ControlInv, NEW th \in Thread, ThreadDrain(th)
  PROVE  ControlInv'
  <1>1. /\ thread[th].pc = "drain" /\ wakers' = {} /\ woken' = (woken \cup Woken) \ {}
        /\ thread' = [thread EXCEPT ![th].pc = "release"] /\ UNCHANGED <<locked, task>>
    BY DEF ThreadDrain
  <1>2. task' \in [Task -> TaskState] /\ thread \in [Thread -> ThreadState] /\ \A u \in Task : task'[u] = task[u]
    BY <1>1 DEF ControlInv, ControlTypes
  <1>3. /\ thread' \in [Thread -> ThreadState]
        /\ \A tj \in Thread : thread'[tj] = thread[tj] \/ (thread[tj].pc # "run" /\ thread'[tj].pc # "run")
    BY <1>1, <1>2, ThreadSet DEF ThreadPC
  <1>4. {} \in SUBSET Task /\ (\A u \in {} : task[u].pc # "wait") /\ locked' = locked
    BY <1>1
  <1>5. QED
    BY <1>1, <1>2, <1>3, <1>4, WakeAllKeeps

-----------------------------------------------------------------------------
(* ControlStep: every step preserves the control part.                      *)
LEMMA ControlStep == ControlInv /\ [Next]_vars => ControlInv'
  <1> SUFFICES ASSUME ControlInv, [Next]_vars PROVE ControlInv'
    OBVIOUS
  <1>1. ASSUME NEW t \in Task, NEW op \in AllOps
        PROVE  /\ [pc |-> "poll", op |-> op, join |-> {}] \in TaskState
               /\ [pc |-> "poll", op |-> op, join |-> {}].pc = "poll"
               /\ [pc |-> "poll", op |-> op, join |-> {}].join = {}
    BY DEF TaskState, TaskPC
  <1>2. ASSUME NEW t \in Task, NEW op \in Ops, Start(t, op) PROVE ControlInv'
    <2>1. /\ task' = [task EXCEPT ![t] = [pc |-> "poll", op |-> op, join |-> {}]]
          /\ woken' = woken \ {t} /\ task[t].pc = "idle" /\ UNCHANGED <<locked, wakers, thread>>
      BY <1>2 DEF Start
    <2>2. op \in AllOps
      BY DEF AllOps
    <2>3. PICK r \in TaskState : /\ r = [pc |-> "poll", op |-> op, join |-> {}]
                                 /\ r.pc = "poll" /\ r.join = {}
      BY <1>1, <2>2
    <2>4. QED
      BY <2>1, <2>3, BeginKeeps
  <1>3. ASSUME NEW t \in Task, NEW op \in LastOps, StartDrop(t, op) PROVE ControlInv'
    <2>1. /\ task' = [task EXCEPT ![t] = [pc |-> "poll", op |-> op, join |-> {}]]
          /\ woken' = woken \ {t} /\ task[t].pc = "idle" /\ UNCHANGED <<locked, wakers, thread>>
      BY <1>3 DEF StartDrop
    <2>2. op \in AllOps
      BY DEF AllOps
    <2>3. PICK r \in TaskState : /\ r = [pc |-> "poll", op |-> op, join |-> {}]
                                 /\ r.pc = "poll" /\ r.join = {}
      BY <1>1, <2>2
    <2>4. QED
      BY <2>1, <2>3, BeginKeeps
  <1>4. ASSUME NEW t \in Task, Cancel(t) PROVE ControlInv'
    <2>1. /\ task' = [task EXCEPT ![t] = IdleTask] /\ woken' = woken \ {t}
          /\ task[t].pc \in {"wait", "join"} /\ UNCHANGED <<locked, wakers, thread>>
      BY <1>4 DEF Cancel
    <2>2. PICK r \in TaskState : r = IdleTask /\ r.pc = "idle" /\ r.join = {}
      BY IdleFits DEF IdleTask
    <2>3. QED
      BY <2>1, <2>2, BeginKeeps
  <1>5. ASSUME NEW th \in Thread, ThreadStep(th) PROVE ControlInv'
    BY <1>5, JobKeeps, ThreadDrainKeeps, ReleaseKeeps DEF ThreadStep, JobSteps
  <1>6. ASSUME UNCHANGED vars PROVE ControlInv'
    BY <1>6 DEF vars, ControlInv, ControlTypes, GuardInOneHand, JoinsFit, NoWaiterStranded
  <1>7. QED
    BY <1>2, <1>3, <1>4, <1>5, <1>6, LockKeeps, ListKeeps, HoldingKeeps, TaskDrainKeeps DEF Next

-----------------------------------------------------------------------------
(* The data part.  First, what writes and truncations do to the bytes.      *)

Bytes == Seq(Nat)

(* WriteFits: a write overwrites in place and may extend the file.          *)
LEMMA WriteFits ==
  ASSUME NEW b \in Bytes, NEW pos \in Int, NEW x \in Bytes
  PROVE  /\ WriteAt(b, pos, x) \in Bytes
         /\ Len(WriteAt(b, pos, x)) = IF x = <<>> THEN Len(b) ELSE Max2(Len(b), pos + Len(x))
         /\ x # <<>> => \A i \in 1 .. Max2(Len(b), pos + Len(x)) :
              WriteAt(b, pos, x)[i] = IF i > pos /\ i <= pos + Len(x) THEN x[i - pos]
                                      ELSE IF i <= Len(b) THEN b[i] ELSE 0
  <1>1. CASE x = <<>>
    BY <1>1 DEF WriteAt
  <1>2. CASE x # <<>>
    <2> DEFINE m == Max2(Len(b), pos + Len(x))
               e(i) == IF i > pos /\ i <= pos + Len(x) THEN x[i - pos]
                       ELSE IF i <= Len(b) THEN b[i] ELSE 0
    <2>1. Len(b) \in Nat /\ Len(x) \in Nat
      BY DEF Bytes
    <2>2. m \in Nat
      BY <2>1 DEF Max2
    <2>3. \A i \in 1 .. m : e(i) \in Nat
      <3>1. SUFFICES ASSUME NEW i \in 1 .. m PROVE e(i) \in Nat
        OBVIOUS
      <3>2. CASE i > pos /\ i <= pos + Len(x)
        <4>1. i - pos \in 1 .. Len(x)
          BY <2>1, <2>2, <3>2
        <4>2. QED
          BY <3>2, <4>1, ElementOfSeq DEF Bytes
      <3>3. CASE ~(i > pos /\ i <= pos + Len(x))
        <4>1. i <= Len(b) => i \in 1 .. Len(b)
          BY <2>1, <2>2
        <4>2. QED
          BY <3>3, <4>1, ElementOfSeq DEF Bytes
      <3>4. QED
        BY <3>2, <3>3
    <2>4. WriteAt(b, pos, x) = [i \in 1 .. m |-> e(i)]
      BY <1>2 DEF WriteAt
    <2> HIDE DEF m, e
    <2>5. [i \in 1 .. m |-> e(i)] \in Seq(Nat)
      BY <2>2, <2>3, IsASeq
    <2>6. Len([i \in 1 .. m |-> e(i)]) = m
      BY <2>2
    <2>7. \A i \in 1 .. m : [j \in 1 .. m |-> e(j)][i] = e(i)
      OBVIOUS
    <2>8. WriteAt(b, pos, x) \in Bytes /\ Len(WriteAt(b, pos, x)) = m
          /\ \A i \in 1 .. m : WriteAt(b, pos, x)[i] = e(i)
      BY <2>4, <2>5, <2>6, <2>7 DEF Bytes
    <2>9. QED
      BY <1>2, <2>8 DEF m, e
  <1>3. QED
    BY <1>1, <1>2

(* WritesJoin: two writes one behind the other are one write of both.       *)
LEMMA WritesJoin ==
  ASSUME NEW b \in Bytes, NEW pos \in Nat, NEW x \in Bytes, NEW y \in Bytes
  PROVE  WriteAt(WriteAt(b, pos, x), pos + Len(x), y) = WriteAt(b, pos, x \o y)
  <1>0. Len(b) \in Nat /\ Len(x) \in Nat /\ Len(y) \in Nat
    BY DEF Bytes
  <1>1. CASE y = <<>>
    <2>1. x \o y = x
      BY <1>1, ConcatEmptySeq DEF Bytes
    <2>2. QED
      BY <1>1, <2>1 DEF WriteAt
  <1>2. CASE x = <<>>
    <2>1. x \o y = y /\ Len(x) = 0
      BY <1>2, ConcatEmptySeq DEF Bytes
    <2>2. WriteAt(b, pos, x) = b
      BY <1>2 DEF WriteAt
    <2>3. QED
      BY <2>1, <2>2
  <1>3. CASE x # <<>> /\ y # <<>>
    <2> DEFINE w == WriteAt(b, pos, x)
               l == WriteAt(w, pos + Len(x), y)
               z == x \o y
               r == WriteAt(b, pos, z)
    <2>1. Len(x) > 0 /\ Len(y) > 0
      BY <1>0, <1>3, EmptySeq DEF Bytes
    <2>2. /\ w \in Bytes /\ Len(w) = Max2(Len(b), pos + Len(x))
          /\ \A i \in 1 .. Len(w) : w[i] = IF i > pos /\ i <= pos + Len(x) THEN x[i - pos]
                                           ELSE IF i <= Len(b) THEN b[i] ELSE 0
      BY <1>3, WriteFits
    <2>3. /\ z \in Bytes /\ Len(z) = Len(x) + Len(y) /\ z # <<>>
          /\ \A i \in 1 .. Len(x) + Len(y) : z[i] = IF i <= Len(x) THEN x[i] ELSE y[i - Len(x)]
      <3>1. /\ z \in Bytes /\ Len(z) = Len(x) + Len(y)
            /\ \A i \in 1 .. Len(x) + Len(y) : z[i] = IF i <= Len(x) THEN x[i] ELSE y[i - Len(x)]
        BY ConcatProperties DEF Bytes
      <3>2. z # <<>>
        BY <1>0, <2>1, <3>1
      <3>3. QED
        BY <3>1, <3>2
    <2>4. pos + Len(x) \in Int
      BY <1>0
    <2> HIDE DEF w, z
    <2>5. /\ l \in Bytes /\ Len(l) = Max2(Len(w), pos + Len(x) + Len(y))
          /\ \A i \in 1 .. Len(l) : l[i] = IF i > pos + Len(x) /\ i <= pos + Len(x) + Len(y)
                                           THEN y[i - (pos + Len(x))]
                                           ELSE IF i <= Len(w) THEN w[i] ELSE 0
      BY <1>3, <2>2, <2>4, WriteFits
    <2>6. /\ r \in Bytes /\ Len(r) = Max2(Len(b), pos + Len(z))
          /\ \A i \in 1 .. Len(r) : r[i] = IF i > pos /\ i <= pos + Len(z) THEN z[i - pos]
                                           ELSE IF i <= Len(b) THEN b[i] ELSE 0
      <3>1. z \in Bytes /\ z # <<>> /\ pos \in Int
        BY <2>3
      <3>2. QED
        BY <3>1, WriteFits
    <2> HIDE DEF l, r
    <2>7. Len(l) = Len(r)
      BY <1>0, <2>1, <2>2, <2>3, <2>5, <2>6 DEF Max2
    <2>8. ASSUME NEW i \in 1 .. Len(l) PROVE l[i] = r[i]
      <3>0. Len(l) \in Nat /\ i \in Nat /\ i \in 1 .. Len(r)
        BY <2>5, <2>7 DEF Bytes
      <3>1. CASE i > pos + Len(x) /\ i <= pos + Len(x) + Len(y)
        <4>1. l[i] = y[i - (pos + Len(x))]
          BY <2>5, <3>1
        <4>2. r[i] = z[i - pos]
          BY <1>0, <2>3, <2>6, <3>0, <3>1
        <4>3. z[i - pos] = y[(i - pos) - Len(x)]
          <5>1. i - pos \in 1 .. Len(x) + Len(y) /\ ~(i - pos <= Len(x))
            BY <1>0, <3>0, <3>1
          <5>2. QED
            BY <2>3, <5>1
        <4>4. (i - pos) - Len(x) = i - (pos + Len(x))
          BY <1>0, <3>0
        <4>5. QED
          BY <4>1, <4>2, <4>3, <4>4
      <3>2. CASE i > pos /\ i <= pos + Len(x)
        <4>1. i \in 1 .. Len(w)
          BY <1>0, <2>2, <3>0, <3>2 DEF Max2
        <4>2. l[i] = w[i]
          BY <1>0, <2>5, <3>2, <4>1
        <4>3. w[i] = x[i - pos]
          BY <2>2, <3>2, <4>1
        <4>4. r[i] = z[i - pos]
          BY <1>0, <2>3, <2>6, <3>0, <3>2
        <4>5. z[i - pos] = x[i - pos]
          BY <1>0, <2>3, <3>0, <3>2
        <4>6. QED
          BY <4>2, <4>3, <4>4, <4>5
      <3>3. CASE ~(i > pos /\ i <= pos + Len(x) + Len(y))
        <4>1. r[i] = IF i <= Len(b) THEN b[i] ELSE 0
          BY <1>0, <2>3, <2>6, <3>0, <3>3
        <4>2. l[i] = IF i <= Len(w) THEN w[i] ELSE 0
          BY <1>0, <2>5, <3>0, <3>3
        <4>3. i <= Len(w) => w[i] = IF i <= Len(b) THEN b[i] ELSE 0
          BY <1>0, <2>2, <3>0, <3>3
        <4>4. i <= Len(b) => i <= Len(w)
          BY <1>0, <2>2, <3>0 DEF Max2
        <4>5. QED
          BY <4>1, <4>2, <4>3, <4>4
      <3>4. QED
        BY <1>0, <3>0, <3>1, <3>2, <3>3
    <2>9. l = r
      BY <2>5, <2>6, <2>7, <2>8, SeqEqual DEF Bytes
    <2>10. QED
      BY <2>9 DEF l, r, w, z
  <1>4. QED
    BY <1>1, <1>2, <1>3

(* ResizeFits: a truncated file is a file.                                  *)
LEMMA ResizeFits ==
  ASSUME NEW b \in Bytes, NEW n \in Nat
  PROVE  Resized(b, n) \in Bytes
  <1> DEFINE e(i) == IF i <= Len(b) THEN b[i] ELSE 0
  <1>1. Len(b) \in Nat
    BY DEF Bytes
  <1>2. \A i \in 1 .. n : e(i) \in Nat
    BY <1>1 DEF Bytes
  <1>3. Resized(b, n) = [i \in 1 .. n |-> e(i)]
    BY DEF Resized
  <1> HIDE DEF e
  <1>4. QED
    BY <1>2, <1>3, IsASeq DEF Bytes

-----------------------------------------------------------------------------
(* The data part of the invariant.                                          *)

StateRec ==
  [disk : Bytes, cursor : Nat, mode : {"Idle", "Reading", "Writing"}, start : Nat,
   cache : Bytes, cap : Nat, flushed : BOOLEAN, rerr : BOOLEAN, werr : BOOLEAN]

StateFits(s) ==
  /\ s \in StateRec
  /\ Len(s.cache) <= s.cap /\ s.start <= Len(s.cache)
  /\ s.mode # "Reading" => s.start = 0
  /\ s.mode = "Idle" => s.cache = <<>>
  /\ s.mode = "Reading" => Len(s.cache) <= s.cursor
  /\ s.mode = "Writing" => ~s.flushed

(* An empty read cache means the end of the file, unless a caller asked for *)
(* nothing.                                                                 *)
EndFits(s) ==
  0 \notin ReadSizes => (s.mode = "Reading" /\ s.cache = <<>> => Len(s.disk) <= s.cursor)

ReadFits(s) ==
  s.mode = "Reading" /\ s.cache # <<>> =>
    /\ s.cursor <= Len(s.disk)
    /\ s.cache = SubSeq(s.disk, s.cursor - Len(s.cache) + 1, s.cursor)

Contents(s) == IF s.mode = "Writing" THEN WriteAt(s.disk, s.cursor, s.cache) ELSE s.disk

Agrees(s, v, p) == Actual(s) = p /\ ReadFits(s) /\ v = Contents(s)

(* What a job finds, as the operation that spawned it left it.              *)
JobFits(s, job, n) ==
  /\ job = "read" => /\ s.mode # "Writing" /\ s.start = Len(s.cache)
                     /\ n \in Nat /\ n <= s.cap /\ (0 \notin ReadSizes => n # 0)
  /\ job = "drain" => s.mode = "Writing"
  /\ job = "flush" => s.mode # "Writing"
  /\ job = "set_len" => s.mode = "Idle" /\ n \in Nat

JobsFit == \A th \in Thread : thread[th].pc = "run" => JobFits(state, thread[th].job, thread[th].n)

(* Until its job has run, set_len is known to its caller only.              *)
LengthFits ==
  fault # "torn" =>
    \A th \in Thread : Runs(th, "set_len") => view = Resized(state.disk, thread[th].n)

HistoryFits == view \in Bytes /\ at \in Int /\ fault \in {"none", "clean", "torn"}

DataInv ==
  /\ HistoryFits /\ StateFits(state) /\ EndFits(state)
  /\ state.werr => fault # "none"
  /\ JobsFit /\ LengthFits /\ CacheIsFile

(* Once the File is being dropped, only its owner uses it, and it is done   *)
(* when nothing is left in the cache.                                       *)
LastKinds == {"drop", "into_raw_fd"}
DropFits ==
  ~open =>
    /\ \A t \in Task : \/ task[t].pc = "idle"
                       \/ task[t].pc # "join" /\ task[t].op.kind \in LastKinds
    /\ (\A t \in Task : task[t].pc \in {"idle", "drain"}) =>
         /\ \A th \in Thread : thread[th].pc # "run"
         /\ fault = "none" => state.disk = view

(* CacheSplits: CacheIsFile, in terms of the operators above.               *)
LEMMA CacheSplits ==
  CacheIsFile <=>
    (fault # "torn" => /\ Actual(state) = at /\ ReadFits(state)
                       /\ (\A th \in Thread : ~Runs(th, "set_len")) => view = Contents(state))
  BY DEF CacheIsFile, ReadFits, Contents

(* SameData: errors, the flag and a larger buffer are no data.              *)
LEMMA SameData ==
  ASSUME NEW s, NEW r \in StateRec, StateFits(s), EndFits(s), r.disk = s.disk, r.cursor = s.cursor,
         r.mode = s.mode, r.start = s.start, r.cache = s.cache, s.cap <= r.cap,
         r.mode = "Writing" => ~r.flushed
  PROVE  /\ StateFits(r) /\ EndFits(r) /\ Actual(r) = Actual(s)
         /\ ReadFits(r) <=> ReadFits(s)
         /\ Contents(r) = Contents(s)
         /\ \A v, p : Agrees(s, v, p) <=> Agrees(r, v, p)
  <1>1. StateFits(r)
    <2>1. Len(s.cache) \in Nat /\ s.cap \in Nat /\ r.cap \in Nat
      BY DEF StateFits, StateRec, Bytes
    <2>2. QED
      BY <2>1 DEF StateFits
  <1>2. EndFits(r)
    BY DEF EndFits
  <1>3. Actual(r) = Actual(s)
    BY DEF Actual
  <1>4. (ReadFits(r) <=> ReadFits(s)) /\ Contents(r) = Contents(s)
    BY DEF ReadFits, Contents
  <1>5. QED
    BY <1>1, <1>2, <1>3, <1>4 DEF Agrees

(* ErrorTaken: mem::take of a deferred error.                               *)
LEMMA ErrorTaken ==
  ASSUME NEW s, StateFits(s), EndFits(s), NEW r, r \in {[s EXCEPT !.werr = FALSE], [s EXCEPT !.rerr = FALSE]}
  PROVE  /\ StateFits(r) /\ EndFits(r) /\ (r.werr => s.werr)
         /\ \A v, p : Agrees(s, v, p) => Agrees(r, v, p)
  <1>1. /\ r \in StateRec /\ r.disk = s.disk /\ r.cursor = s.cursor /\ r.mode = s.mode
        /\ r.start = s.start /\ r.cache = s.cache /\ r.cap = s.cap /\ r.flushed = s.flushed
        /\ (r.werr => s.werr)
    <2>1. s \in StateRec
      BY DEF StateFits
    <2>2. CASE r = [s EXCEPT !.werr = FALSE]
      BY <2>1, <2>2 DEF StateRec
    <2>3. CASE r = [s EXCEPT !.rerr = FALSE]
      BY <2>1, <2>3 DEF StateRec
    <2>4. QED
      BY <2>2, <2>3
  <1>2. s.cap <= r.cap /\ (r.mode = "Writing" => ~r.flushed)
    BY <1>1 DEF StateFits, StateRec
  <1>3. QED
    BY <1>1, <1>2, SameData

(* UnreadKeeps: poll_unread changes neither contents nor position.          *)
LEMMA UnreadKeeps ==
  ASSUME NEW s, StateFits(s), EndFits(s)
  PROVE  /\ StateFits(Unread(s)) /\ EndFits(Unread(s)) /\ Unread(s).mode # "Reading"
         /\ Unread(s).flushed = s.flushed /\ Unread(s).werr = s.werr
         /\ \A v, p : Agrees(s, v, p) => Agrees(Unread(s), v, p)
  <1>0. s \in StateRec /\ Len(s.cache) \in Nat /\ s.cursor \in Nat /\ s.start \in Nat /\ s.cap \in Nat
    BY DEF StateFits, StateRec, Bytes
  <1>1. CASE s.mode # "Reading"
    BY <1>1 DEF Unread
  <1>2. CASE s.mode = "Reading"
    <2>1. PICK r : r = Unread(s)
      OBVIOUS
    <2>2. s.cursor - (Len(s.cache) - s.start) \in Nat
      BY <1>0, <1>2 DEF StateFits
    <2>3. /\ r.disk = s.disk /\ r.cursor = s.cursor - (Len(s.cache) - s.start) /\ r.mode = "Idle"
          /\ r.start = 0 /\ r.cache = <<>> /\ r.cap = s.cap
          /\ r.flushed = s.flushed /\ r.rerr = s.rerr /\ r.werr = s.werr
          /\ r \in StateRec
      BY <1>0, <1>2, <2>1, <2>2, EmptySeq DEF Unread, StateRec, Bytes
    <2>4. StateFits(r)
      BY <1>0, <2>3 DEF StateFits
    <2>5. EndFits(r)
      BY <2>3 DEF EndFits
    <2>6. Actual(r) = Actual(s)
      BY <1>0, <1>2, <2>3 DEF Actual
    <2>7. ReadFits(r) /\ Contents(r) = Contents(s)
      BY <1>2, <2>3 DEF ReadFits, Contents
    <2>8. \A v, p : Agrees(s, v, p) => Agrees(r, v, p)
      BY <2>6, <2>7 DEF Agrees
    <2>9. QED
      BY <2>1, <2>3, <2>4, <2>5, <2>8
  <1>3. QED
    BY <1>1, <1>2

-----------------------------------------------------------------------------
(* What an operation that holds the guard does to the data.                 *)

(* It ends: the answer o is true of the file.                               *)
Truthful(o, s, v, p) ==
  o.res = "ok" =>
    /\ o.op.kind = "read" =>
         IF o.n = 0 THEN o.was >= Len(v)
         ELSE o.was + o.n <= Len(v) /\ o.data = SubSeq(v, o.was + 1, o.was + o.n)
    /\ o.op.kind \in {"seekStart", "seekCurrent", "seekEnd"} => o.n = p
    /\ o.op.kind = "flush" => s.disk = v

Leaves(s, v, p) ==
  /\ StateFits(s) /\ EndFits(s) /\ v \in Bytes /\ p \in Int
  /\ s.werr => state.werr
  /\ fault # "torn" => Agrees(s, v, p)

Ends(t, s, o, v, p) ==
  /\ Return(t, s, o, v, p) /\ Leaves(s, v, p)
  /\ fault # "torn" /\ 0 \notin ReadSizes => Truthful(o, s, v, p)
  /\ task[t].op.kind \in LastKinds => state.werr \/ s.mode # "Writing"

(* It hands the guard to a job.                                             *)
Hands(t, s, job, n) ==
  /\ Leaves(s, view, at) /\ JobFits(s, job, n)
  /\ \/ job # "set_len" /\ Spawn(t, s, job, n)
     \/ /\ task[t].op.kind \notin LastKinds
        /\ SpawnAndJoin(t, s, job, n, IF job = "set_len" THEN Resized(view, n) ELSE view)

EndsOrHands(t) ==
  \/ \E s, o, v, p : Ends(t, s, o, v, p)
  \/ \E s, n : \E job \in Jobs : n \in Int /\ Hands(t, s, job, n)

(* HolderAlone: nobody else touches the data of who holds the guard.        *)
LEMMA HolderAlone ==
  ASSUME ControlInv, DataInv, NEW t \in Task, task[t].pc = "held"
  PROVE  Leaves(state, view, at) /\ \A th \in Thread : thread[th].pc # "run"
  <1>1. \A th \in Thread : thread[th].pc # "run"
    BY DEF ControlInv, GuardInOneHand
  <1>2. \A th \in Thread : ~Runs(th, "set_len")
    BY <1>1 DEF Runs
  <1>3. QED
    BY <1>1, <1>2, CacheSplits DEF DataInv, HistoryFits, Leaves, Agrees

(* FailEnds: an error is returned and forgotten.                            *)
LEMMA FailEnds ==
  ASSUME NEW t \in Task, NEW s, Leaves(s, view, at), NEW r,
         r \in {s, [s EXCEPT !.werr = FALSE], [s EXCEPT !.rerr = FALSE]}, Fail(t, r),
         task[t].op.kind \in LastKinds => state.werr
  PROVE  EndsOrHands(t)
  <1>1. Leaves(r, view, at)
    <2>1. CASE r = s
      BY <2>1
    <2>2. CASE r # s
      <3>1. StateFits(s) /\ EndFits(s) /\ r \in {[s EXCEPT !.werr = FALSE], [s EXCEPT !.rerr = FALSE]}
        BY <2>2 DEF Leaves
      <3>2. /\ StateFits(r) /\ EndFits(r) /\ (r.werr => s.werr)
            /\ \A v, p : Agrees(s, v, p) => Agrees(r, v, p)
        BY <3>1, ErrorTaken
      <3>3. QED
        BY <3>2 DEF Leaves
    <2>3. QED
      BY <2>1, <2>2
  <1>2. Return(t, r, Out(task[t].op, "err", 0, <<>>), view, at)
    BY DEF Fail
  <1>3. Out(task[t].op, "err", 0, <<>>).res = "err"
    BY DEF Out
  <1>4. Truthful(Out(task[t].op, "err", 0, <<>>), r, view, at)
    BY <1>3 DEF Truthful
  <1>5. Ends(t, r, Out(task[t].op, "err", 0, <<>>), view, at)
    BY <1>1, <1>2, <1>4 DEF Ends
  <1>6. QED
    BY <1>5 DEF EndsOrHands

(* DrainEnds: poll_drain.                                                   *)
LEMMA DrainEnds ==
  ASSUME NEW t \in Task, NEW s, Leaves(s, view, at), Drain(t, s), s.werr \/ s.mode = "Writing"
  PROVE  EndsOrHands(t)
  <1>1. CASE s.werr
    <2>1. Fail(t, [s EXCEPT !.werr = FALSE]) /\ state.werr
      BY <1>1 DEF Drain, Leaves
    <2>2. QED
      BY <2>1, FailEnds
  <1>2. CASE ~s.werr
    <2>1. Spawn(t, s, "drain", 0) /\ s.mode = "Writing"
      BY <1>2 DEF Drain
    <2>2. JobFits(s, "drain", 0) /\ "drain" \in Jobs /\ 0 \in Int
      BY <2>1 DEF JobFits, Jobs
    <2>3. Hands(t, s, "drain", 0)
      BY <2>1, <2>2 DEF Hands
    <2>4. QED
      BY <2>2, <2>3 DEF EndsOrHands
  <1>3. QED
    BY <1>1, <1>2

(* FlushEnds: poll_flush, with what follows it once all is written.         *)
LEMMA FlushEnds ==
  ASSUME NEW t \in Task, NEW s, Leaves(s, view, at), NEW ACTION Fn, FlushThen(t, s, Fn)
  PROVE  EndsOrHands(t) \/ (s.flushed /\ s.mode # "Writing" /\ Fn)
  <1>1. CASE s.flushed /\ Fn
    BY <1>1 DEF Leaves, StateFits
  <1>2. CASE ~s.flushed /\ (s.werr \/ s.mode = "Writing") /\ Drain(t, s)
    BY <1>2, DrainEnds
  <1>3. CASE ~s.flushed /\ ~s.werr /\ s.mode # "Writing" /\ Spawn(t, s, "flush", 0)
    <2>1. JobFits(s, "flush", 0) /\ "flush" \in Jobs /\ 0 \in Int
      BY <1>3 DEF JobFits, Jobs
    <2>2. Hands(t, s, "flush", 0)
      BY <1>3, <2>1 DEF Hands
    <2>3. QED
      BY <2>1, <2>2 DEF EndsOrHands
  <1>4. QED
    BY <1>1, <1>2, <1>3 DEF FlushThen

(* ReadStarts: the last part of poll_read.                                  *)
LEMMA ReadStarts ==
  ASSUME ControlTypes, NEW t \in Task, task[t].op.kind = "read", Leaves(state, view, at),
         state.mode # "Writing", state.start = Len(state.cache), StartRead(t, state)
  PROVE  EndsOrHands(t)
  <1> DEFINE n == task[t].op.n
             r == [state EXCEPT !.cap = IF Len(state.cache) < n THEN Reserve(@, n) ELSE @]
  <1>1. n \in ReadSizes /\ n \in Nat
    BY OpTyped DEF ControlTypes, TaskState
  <1>2. StateFits(state) /\ EndFits(state) /\ state \in StateRec
    BY DEF Leaves, StateFits
  <1>3. state.cap \in Nat /\ Len(state.cache) \in Nat /\ Len(state.cache) <= state.cap
    BY <1>2 DEF StateFits, StateRec, Bytes
  <1>4. Reserve(state.cap, n) \in Nat /\ Reserve(state.cap, n) >= state.cap /\ Reserve(state.cap, n) >= n
    BY <1>1, <1>3 DEF Reserve, Max2
  <1>5. /\ r \in StateRec /\ r.disk = state.disk /\ r.cursor = state.cursor /\ r.mode = state.mode
        /\ r.start = state.start /\ r.cache = state.cache /\ r.flushed = state.flushed
        /\ r.werr = state.werr
        /\ r.cap = IF Len(state.cache) < n THEN Reserve(state.cap, n) ELSE state.cap
    BY <1>2, <1>3, <1>4 DEF StateRec
  <1>6. Spawn(t, r, "read", n)
    BY DEF StartRead
  <1> HIDE DEF r
  <1>7. r.cap >= state.cap /\ r.cap >= n
    BY <1>1, <1>3, <1>4, <1>5
  <1>8. StateFits(r) /\ EndFits(r) /\ \A v, p : Agrees(state, v, p) <=> Agrees(r, v, p)
    BY <1>2, <1>5, <1>7, SameData
  <1>9. Leaves(r, view, at)
    BY <1>5, <1>8 DEF Leaves
  <1>10. JobFits(r, "read", n) /\ "read" \in Jobs /\ n \in Int
    BY <1>1, <1>5, <1>7 DEF JobFits, Jobs
  <1>11. Hands(t, r, "read", n)
    BY <1>6, <1>9, <1>10 DEF Hands
  <1>12. QED
    BY <1>10, <1>11 DEF EndsOrHands

(* ReadCachedEnds: a read from the cache.                                   *)
LEMMA ReadCachedEnds ==
  ASSUME ControlTypes, NEW t \in Task, Leaves(state, view, at), PollReadCached(t)
  PROVE  EndsOrHands(t)
  <1> DEFINE op == task[t].op
             available == Len(state.cache) - state.start
             n == Min2(available, op.n)
             r == [state EXCEPT !.start = @ + n]
             o == Out(op, "ok", n, SubSeq(state.cache, state.start + 1, n))
  <1>1. op.kind = "read" /\ state.mode = "Reading" /\ (available > 0 \/ state.cache = <<>>)
    BY DEF PollReadCached, Holds
  <1>2. op.n \in ReadSizes /\ op.n \in Nat
    BY <1>1, OpTyped DEF ControlTypes, TaskState
  <1>3. StateFits(state) /\ EndFits(state) /\ state \in StateRec
    BY DEF Leaves, StateFits
  <1>4. /\ Len(state.cache) \in Nat /\ state.start \in Nat /\ state.start <= Len(state.cache)
        /\ state.cursor \in Nat /\ Len(state.cache) <= state.cursor
        /\ state.cache \in Bytes /\ state.disk \in Bytes /\ Len(state.disk) \in Nat
    BY <1>1, <1>3 DEF StateFits, StateRec, Bytes
  <1>5. n \in Nat /\ n <= available /\ n <= op.n /\ available \in Nat
    BY <1>2, <1>4 DEF Min2
  <1>6. CASE CopyPanics(state.start, n)
    <2>1. Return(t, state, Out(op, "panic", 0, <<>>), view, at)
      BY <1>6 DEF PollReadCached
    <2>2. Truthful(Out(op, "panic", 0, <<>>), state, view, at)
      BY DEF Truthful, Out
    <2>3. Ends(t, state, Out(op, "panic", 0, <<>>), view, at)
      BY <1>1, <2>1, <2>2 DEF Ends, LastKinds
    <2>4. QED
      BY <2>3 DEF EndsOrHands
  <1>7. CASE ~CopyPanics(state.start, n)
    <2>1. Return(t, r, o, view, at + n)
      BY <1>7 DEF PollReadCached
    <2>2. state.start = 0
      BY <1>4, <1>5, <1>7 DEF CopyPanics
    <2>3. /\ r \in StateRec /\ r.disk = state.disk /\ r.cursor = state.cursor /\ r.mode = "Reading"
          /\ r.start = n /\ r.cache = state.cache /\ r.flushed = state.flushed
          /\ r.werr = state.werr /\ r.cap = state.cap
      BY <1>1, <1>3, <1>5, <2>2 DEF StateRec
    <2> HIDE DEF n, r, op, available
    <2>4. o.op = op /\ o.n = n /\ o.was = at /\ o.data = SubSeq(state.cache, 1, n) /\ o.res = "ok"
      <3>1. state.start + 1 = 1
        BY <2>2
      <3>2. QED
        BY <3>1 DEF Out
    <2> HIDE DEF o
    <2>5. StateFits(r)
      BY <1>3, <1>4, <1>5, <2>2, <2>3 DEF StateFits, available
    <2>6. EndFits(r)
      BY <1>1, <1>3, <2>3 DEF EndFits
    <2>7. ASSUME fault # "torn" PROVE Agrees(r, view, at + n) /\ at = state.cursor - Len(state.cache) /\ view = state.disk
      <3>1. Agrees(state, view, at)
        BY <2>7 DEF Leaves
      <3>2. at = state.cursor - Len(state.cache) /\ view = state.disk
        BY <1>1, <1>4, <2>2, <3>1 DEF Agrees, Actual, Contents
      <3>3. Actual(r) = at + n
        BY <1>4, <1>5, <2>3, <3>2 DEF Actual
      <3>4. ReadFits(r) /\ view = Contents(r)
        BY <1>1, <2>3, <3>1 DEF Agrees, ReadFits, Contents
      <3>5. QED
        BY <3>2, <3>3, <3>4 DEF Agrees
    <2>8. view \in Bytes /\ at + n \in Int
      BY <1>5 DEF Leaves
    <2>9. Leaves(r, view, at + n)
      BY <2>3, <2>5, <2>6, <2>7, <2>8 DEF Leaves
    <2>10. ASSUME fault # "torn", 0 \notin ReadSizes PROVE Truthful(o, r, view, at + n)
      <3>1. CASE n = 0
        <4>1. state.cache = <<>> /\ Len(state.cache) = 0
          BY <1>1, <1>2, <1>4, <1>5, <2>10, <3>1 DEF n, Min2
        <4>2. Len(state.disk) <= state.cursor
          BY <1>1, <1>3, <2>10, <4>1 DEF EndFits
        <4>3. o.was >= Len(view)
          BY <1>4, <2>4, <2>7, <2>10, <4>1, <4>2
        <4>4. QED
          BY <1>1, <2>4, <3>1, <4>3 DEF Truthful
      <3>2. CASE n # 0
        <4>1. state.cache # <<>> /\ Len(state.cache) > 0 /\ n <= Len(state.cache) /\ n \in 1 .. Len(state.cache)
          BY <1>4, <1>5, <2>2, <3>2, EmptySeq DEF available, Bytes
        <4>2. /\ state.cursor <= Len(state.disk)
              /\ state.cache = SubSeq(state.disk, state.cursor - Len(state.cache) + 1, state.cursor)
          BY <1>1, <2>10, <4>1 DEF Leaves, Agrees, ReadFits
        <4>3. at = state.cursor - Len(state.cache) /\ view = state.disk
          BY <2>7, <2>10
        <4>4. PICK k \in Nat, j \in Nat : j = state.cursor /\ k = Len(state.cache)
          BY <1>4
        <4> DEFINE i == j - k + 1
        <4>5. /\ i \in 1 .. Len(state.disk) /\ j \in 1 .. Len(state.disk) /\ k = j - i + 1
              /\ 1 \in 1 .. k /\ n \in 1 .. k /\ state.cache = SubSeq(state.disk, i, j)
          <5>1. state.cache = SubSeq(state.disk, i, j)
            BY <4>2, <4>4
          <5>2. k > 0 /\ k <= j /\ j <= Len(state.disk) /\ n \in 1 .. k
            BY <1>4, <4>1, <4>2, <4>4
          <5>3. QED
            BY <1>4, <5>1, <5>2
        <4>6. SubSeq(SubSeq(state.disk, i, j), 1, n) = SubSeq(state.disk, i + 1 - 1, i + n - 1)
          BY <1>4, <4>5, SubSeqOfSubSeq DEF Bytes
        <4>7. i + 1 - 1 = at + 1 /\ i + n - 1 = at + n
          <5>1. at \in Int /\ i = at + 1
            BY <1>4, <4>3, <4>4
          <5>2. QED
            BY <1>5, <5>1
        <4>8. o.data = SubSeq(view, o.was + 1, o.was + o.n)
          BY <2>4, <4>3, <4>5, <4>6, <4>7
        <4>9. o.was + o.n <= Len(view)
          BY <1>4, <1>5, <2>4, <4>1, <4>2, <4>3
        <4>10. QED
          BY <1>1, <2>4, <3>2, <4>8, <4>9 DEF Truthful
      <3>3. QED
        BY <3>1, <3>2
    <2>11. Ends(t, r, o, view, at + n)
      BY <1>1, <2>1, <2>9, <2>10 DEF Ends, LastKinds, op
    <2>12. QED
      BY <2>11 DEF EndsOrHands
  <1>8. QED
    BY <1>6, <1>7

(* ReadFileEnds: a read that finds nothing in the cache.                    *)
LEMMA ReadFileEnds ==
  ASSUME ControlTypes, NEW t \in Task, Leaves(state, view, at), PollReadFile(t)
  PROVE  EndsOrHands(t)
  <1>1. task[t].op.kind = "read"
    BY DEF PollReadFile, Holds
  <1>2. \/ Fail(t, [state EXCEPT !.rerr = FALSE])
        \/ /\ state.mode = "Idle" \/ (state.mode = "Reading" /\ state.start = Len(state.cache))
           /\ StartRead(t, state)
        \/ state.mode = "Writing" /\ FlushThen(t, state, StartRead(t, state))
    BY DEF PollReadFile
  <1>3. CASE Fail(t, [state EXCEPT !.rerr = FALSE])
    BY <1>1, <1>3, FailEnds DEF LastKinds
  <1>4. CASE /\ state.mode = "Idle" \/ (state.mode = "Reading" /\ state.start = Len(state.cache))
             /\ StartRead(t, state)
    <2>1. state.start = Len(state.cache)
      BY <1>4, EmptySeq DEF Leaves, StateFits
    <2>2. QED
      BY <1>1, <1>4, <2>1, ReadStarts
  <1>5. CASE state.mode = "Writing" /\ FlushThen(t, state, StartRead(t, state))
    BY <1>5, FlushEnds
  <1>6. QED
    BY <1>2, <1>3, <1>4, <1>5

(* UnreadLeaves: poll_unread leaves the file as it is.                      *)
LEMMA UnreadLeaves ==
  ASSUME Leaves(state, view, at)
  PROVE  /\ Leaves(Unread(state), view, at) /\ Unread(state).mode # "Reading"
         /\ Unread(state).werr = state.werr
  <1>1. /\ StateFits(Unread(state)) /\ EndFits(Unread(state)) /\ Unread(state).mode # "Reading"
        /\ Unread(state).flushed = state.flushed /\ Unread(state).werr = state.werr
        /\ \A v, p : Agrees(state, v, p) => Agrees(Unread(state), v, p)
    BY UnreadKeeps DEF Leaves
  <1>2. QED
    BY <1>1 DEF Leaves

(* WriteAccepted: bytes go behind what is already in the write cache.       *)
LEMMA WriteAccepted ==
  ASSUME NEW u, StateFits(u), u.mode # "Reading", NEW data \in Bytes, NEW cap \in Nat,
         u.cap <= cap, Len(u.cache) + Len(data) <= cap,
         NEW r, r = [u EXCEPT !.cap = cap, !.cache = @ \o data, !.flushed = FALSE, !.mode = "Writing"]
  PROVE  /\ StateFits(r) /\ EndFits(r) /\ r.werr = u.werr
         /\ \A v, p : Agrees(u, v, p) => Agrees(r, WriteAt(v, p, data), p + Len(data))
  <1>0. /\ u \in StateRec /\ u.cache \in Bytes /\ Len(u.cache) \in Nat /\ u.cursor \in Nat
        /\ u.disk \in Bytes /\ Len(data) \in Nat /\ u.start = 0
    BY DEF StateFits, StateRec, Bytes
  <1>1. PICK c : c = u.cache \o data
    OBVIOUS
  <1>2. c \in Bytes /\ Len(c) = Len(u.cache) + Len(data)
    BY <1>0, <1>1, ConcatProperties DEF Bytes
  <1>3. /\ r \in StateRec /\ r.disk = u.disk /\ r.cursor = u.cursor /\ r.mode = "Writing" /\ r.start = 0
        /\ r.cache = c /\ r.cap = cap /\ r.flushed = FALSE /\ r.werr = u.werr
    BY <1>0, <1>1, <1>2 DEF StateRec
  <1>4. StateFits(r)
    BY <1>0, <1>2, <1>3 DEF StateFits
  <1>5. EndFits(r)
    BY <1>3 DEF EndFits
  <1>6. ASSUME NEW v, NEW p, Agrees(u, v, p) PROVE Agrees(r, WriteAt(v, p, data), p + Len(data))
    <2>1. v = WriteAt(u.disk, u.cursor, u.cache) /\ p = u.cursor + Len(u.cache)
      <3>1. CASE u.mode = "Writing"
        BY <1>6, <3>1 DEF Agrees, Actual, Contents
      <3>2. CASE u.mode = "Idle"
        <4>1. u.cache = <<>> /\ Len(u.cache) = 0
          BY <3>2 DEF StateFits
        <4>2. p = u.cursor /\ v = u.disk
          BY <1>6, <3>2 DEF Agrees, Actual, Contents
        <4>3. QED
          BY <1>0, <4>1, <4>2 DEF WriteAt
      <3>3. QED
        BY <1>0, <3>1, <3>2 DEF StateRec
    <2>2. WriteAt(v, p, data) = WriteAt(u.disk, u.cursor, c)
      BY <1>0, <1>1, <2>1, WritesJoin
    <2>3. Contents(r) = WriteAt(u.disk, u.cursor, c) /\ ReadFits(r)
      BY <1>3 DEF Contents, ReadFits
    <2>4. Actual(r) = u.cursor + Len(c)
      BY <1>3 DEF Actual
    <2>5. Actual(r) = p + Len(data)
      BY <1>0, <1>2, <2>1, <2>4
    <2>6. QED
      BY <2>2, <2>3, <2>5 DEF Agrees
  <1>7. QED
    BY <1>3, <1>4, <1>5, <1>6

(* WriteEnds: poll_write.                                                   *)
LEMMA WriteEnds ==
  ASSUME ControlTypes, NEW t \in Task, Leaves(state, view, at), PollWrite(t)
  PROVE  EndsOrHands(t)
  <1> DEFINE op == task[t].op
             u == Unread(state)
             cap == IF u.cap < Len(op.buf)
                    THEN Reserve(u.cap, Len(u.cache) + Len(op.buf) - u.cap) ELSE u.cap
             available == cap - Len(u.cache)
             n == Min2(available, Len(op.buf))
             data == SubSeq(op.buf, 1, n)
             r == [u EXCEPT !.cap = cap, !.cache = @ \o data, !.flushed = FALSE, !.mode = "Writing"]
  <1>1. op.kind = "write"
    BY DEF PollWrite, Holds
  <1>2. op.buf \in Bytes /\ Len(op.buf) \in Nat
    BY <1>1, OpTyped DEF ControlTypes, TaskState, Bytes
  <1>3. Leaves(u, view, at) /\ u.mode # "Reading" /\ u.werr = state.werr
    BY UnreadLeaves
  <1>4. \/ Fail(t, [state EXCEPT !.werr = FALSE])
        \/ Return(t, r, Out(op, "ok", n, data), WriteAt(view, at, data), at + n)
        \/ available = 0 /\ op.buf # <<>> /\ Drain(t, u)
    BY DEF PollWrite
  <1> HIDE DEF op, u
  <1>5. StateFits(u) /\ u \in StateRec /\ u.cap \in Nat /\ Len(u.cache) \in Nat /\ Len(u.cache) <= u.cap
    BY <1>3 DEF Leaves, StateFits, StateRec, Bytes
  <1>6. cap \in Nat /\ u.cap <= cap /\ (Len(op.buf) > 0 => cap > 0)
    <2>1. PICK c \in Nat, l \in Nat, b \in Nat : c = u.cap /\ l = Len(u.cache) /\ b = Len(op.buf)
      BY <1>2, <1>5
    <2>2. cap = IF c < b THEN Reserve(c, l + b - c) ELSE c
      BY <2>1
    <2> HIDE DEF cap
    <2>3. l <= c
      BY <1>5, <2>1
    <2>4. cap \in Nat /\ c <= cap /\ (b > 0 => cap > 0)
      BY <2>2, <2>3 DEF Reserve, Max2
    <2>5. QED
      BY <2>1, <2>4
  <1> HIDE DEF cap
  <1>7. available \in Nat /\ n \in Nat /\ n <= available /\ n <= Len(op.buf)
    <2>1. PICK l \in Nat, b \in Nat : l = Len(u.cache) /\ b = Len(op.buf)
      BY <1>2, <1>5
    <2>2. l <= cap
      BY <1>5, <1>6, <2>1
    <2>3. cap - l \in Nat
      BY <1>6, <2>2
    <2>4. Min2(cap - l, b) \in Nat /\ Min2(cap - l, b) <= cap - l /\ Min2(cap - l, b) <= b
      BY <2>3 DEF Min2
    <2>5. QED
      BY <2>1, <2>3, <2>4
  <1>8. CASE Fail(t, [state EXCEPT !.werr = FALSE])
    BY <1>1, <1>8, FailEnds DEF LastKinds, op
  <1>9. CASE available = 0 /\ op.buf # <<>> /\ Drain(t, u)
    <2>1. Len(op.buf) > 0
      BY <1>2, <1>9, EmptySeq DEF Bytes
    <2>2. Len(u.cache) > 0
      BY <1>5, <1>6, <1>9, <2>1
    <2>3. u.mode = "Writing"
      BY <1>3, <1>5, <2>2, EmptySeq DEF StateFits, StateRec
    <2>4. QED
      BY <1>3, <1>9, <2>3, DrainEnds
  <1>10. CASE Return(t, r, Out(op, "ok", n, data), WriteAt(view, at, data), at + n)
    <2>1. data \in Bytes /\ Len(data) = n
      <3>1. \A i \in 1 .. n : op.buf[i] \in Nat
        BY <1>2, <1>7, ElementOfSeq DEF Bytes
      <3>2. /\ SubSeq(op.buf, 1, n) \in Seq(Nat)
            /\ Len(SubSeq(op.buf, 1, n)) = IF 1 <= n THEN n - 1 + 1 ELSE 0
        BY <1>7, <3>1, SubSeqProperties
      <3>3. QED
        BY <1>7, <3>2 DEF Bytes
    <2> HIDE DEF data
    <2>2. Len(u.cache) + Len(data) <= cap
      BY <1>5, <1>6, <1>7, <2>1
    <2>3. /\ StateFits(r) /\ EndFits(r) /\ r.werr = u.werr
          /\ \A v, p : Agrees(u, v, p) => Agrees(r, WriteAt(v, p, data), p + Len(data))
      BY <1>3, <1>5, <1>6, <2>1, <2>2, WriteAccepted
    <2> HIDE DEF n, r
    <2>4. view \in Bytes /\ at \in Int
      BY <1>3 DEF Leaves
    <2>5. WriteAt(view, at, data) \in Bytes /\ at + n \in Int
      BY <1>7, <2>1, <2>4, WriteFits
    <2>6. Leaves(r, WriteAt(view, at, data), at + n)
      BY <1>3, <2>1, <2>3, <2>5 DEF Leaves
    <2>7. Truthful(Out(op, "ok", n, data), r, WriteAt(view, at, data), at + n)
      BY <1>1 DEF Truthful, Out
    <2>8. Ends(t, r, Out(op, "ok", n, data), WriteAt(view, at, data), at + n)
      BY <1>1, <1>10, <2>6, <2>7 DEF Ends, LastKinds, op
    <2>9. QED
      BY <2>8 DEF EndsOrHands
  <1>11. QED
    BY <1>4, <1>8, <1>9, <1>10

(* SeekCachedEnds: a seek that stays in the read cache, or asks where it is. *)
LEMMA SeekCachedEnds ==
  ASSUME ControlTypes, NEW t \in Task, Leaves(state, view, at), PollSeekCached(t)
  PROVE  EndsOrHands(t)
  <1> DEFINE op == task[t].op
             s == IF op.n = 0 THEN state ELSE [state EXCEPT !.start = @ + op.n]
             o == Out(op, "ok", Actual(s), <<>>)
  <1>1. op.kind = "seekCurrent" /\ InCache(op, state) /\ Return(t, s, o, view, at + op.n)
    BY DEF PollSeekCached, Holds
  <1>2. op.n \in Int
    BY <1>1, OpTyped DEF ControlTypes, TaskState
  <1>3. /\ StateFits(state) /\ EndFits(state) /\ state \in StateRec /\ at \in Int /\ view \in Bytes
        /\ at + op.n \in Int
    BY <1>2 DEF Leaves, StateFits
  <1>4. o.op = op /\ o.res = "ok" /\ o.n = Actual(s)
    BY DEF Out
  <1> HIDE DEF op, o
  <1>5. /\ StateFits(s) /\ EndFits(s) /\ s.werr = state.werr
        /\ fault # "torn" => Agrees(s, view, at + op.n)
    <2>1. CASE op.n = 0
      <3>1. s = state /\ at + op.n = at
        BY <1>3, <2>1
      <3>2. QED
        BY <3>1 DEF Leaves
    <2>2. CASE op.n # 0
      <3>1. state.mode = "Reading" /\ state.start + op.n \in 0 .. Len(state.cache)
        BY <1>1, <2>2 DEF InCache
      <3>2. /\ Len(state.cache) \in Nat /\ state.start \in Nat /\ state.cursor \in Nat
        BY <1>3 DEF StateRec, Bytes
      <3>3. /\ s \in StateRec /\ s.disk = state.disk /\ s.cursor = state.cursor /\ s.mode = "Reading"
            /\ s.start = state.start + op.n /\ s.cache = state.cache /\ s.flushed = state.flushed
            /\ s.werr = state.werr /\ s.cap = state.cap
        BY <1>2, <1>3, <2>2, <3>1, <3>2 DEF StateRec
      <3> HIDE DEF s
      <3>4. StateFits(s)
        BY <1>2, <1>3, <3>1, <3>2, <3>3 DEF StateFits
      <3>5. EndFits(s)
        BY <1>3, <3>1, <3>3 DEF EndFits
      <3>6. ASSUME fault # "torn" PROVE Agrees(s, view, at + op.n)
        <4>1. Agrees(state, view, at)
          BY <3>6 DEF Leaves
        <4>2. at = state.cursor - Len(state.cache) + state.start
          BY <3>1, <4>1 DEF Agrees, Actual
        <4>3. Actual(s) = state.cursor - Len(state.cache) + (state.start + op.n)
          BY <3>3 DEF Actual
        <4>4. Actual(s) = at + op.n
          BY <1>2, <3>2, <4>2, <4>3
        <4>5. ReadFits(s) /\ view = Contents(s)
          BY <3>1, <3>3, <4>1 DEF Agrees, ReadFits, Contents
        <4>6. QED
          BY <4>4, <4>5 DEF Agrees
      <3>7. QED
        BY <3>3, <3>4, <3>5, <3>6
    <2>3. QED
      BY <2>1, <2>2
  <1> HIDE DEF s
  <1>6. Leaves(s, view, at + op.n)
    BY <1>3, <1>5 DEF Leaves
  <1>7. fault # "torn" => Truthful(o, s, view, at + op.n)
    BY <1>1, <1>4, <1>5 DEF Truthful, Agrees
  <1>8. Ends(t, s, o, view, at + op.n)
    BY <1>1, <1>6, <1>7 DEF Ends, LastKinds, op
  <1>9. QED
    BY <1>8 DEF EndsOrHands

(* SeekFileEnds: a seek on the file itself, after a flush.                  *)
LEMMA SeekFileEnds ==
  ASSUME ControlTypes, NEW t \in Task, Leaves(state, view, at), PollSeekFile(t)
  PROVE  EndsOrHands(t)
  <1> DEFINE op == task[t].op
             u == Unread(state)
             to == SeekTo(op, u.cursor, Len(u.disk))
             r == [u EXCEPT !.cursor = to]
             o == Out(op, "ok", to, <<>>)
             p == SeekTo(op, at, Len(view))
             Fn == IF to < 0 THEN Fail(t, u) ELSE Return(t, r, o, view, p)
  <1>1. op.kind \in {"seekStart", "seekCurrent", "seekEnd"} /\ FlushThen(t, u, Fn)
    BY DEF PollSeekFile, Holds
  <1>2. op.n \in Int
    BY <1>1, OpTyped DEF ControlTypes, TaskState
  <1>3. Leaves(u, view, at) /\ u.mode # "Reading" /\ u.werr = state.werr
    BY UnreadLeaves
  <1>4. EndsOrHands(t) \/ (u.mode # "Writing" /\ Fn)
    <2> HIDE DEF u, Fn
    <2>1. QED
      BY <1>1, <1>3, FlushEnds
  <1>5. ASSUME u.mode # "Writing", Fn PROVE EndsOrHands(t)
    <2>1. CASE to < 0
      <3>1. Fail(t, u) /\ op.kind \notin LastKinds
        BY <1>1, <1>5, <2>1 DEF LastKinds
      <3> HIDE DEF u, to
      <3>2. QED
        BY <1>3, <3>1, FailEnds
    <2>2. CASE ~(to < 0)
      <3>1. Return(t, r, o, view, p)
        BY <1>5, <2>2
      <3>2. o.op = op /\ o.res = "ok" /\ o.n = to
        BY DEF Out
      <3> HIDE DEF op, u, o
      <3>3. /\ StateFits(u) /\ u \in StateRec /\ u.mode = "Idle" /\ u.cursor \in Nat /\ u.disk \in Bytes
            /\ Len(u.disk) \in Nat /\ view \in Bytes /\ Len(view) \in Nat /\ at \in Int
        BY <1>3, <1>5 DEF Leaves, StateFits, StateRec, Bytes
      <3>4. to \in Nat /\ p \in Int
        BY <1>1, <1>2, <2>2, <3>3 DEF SeekTo
      <3>5. fault # "torn" => u.cursor = at /\ u.disk = view /\ p = to
        BY <1>3, <3>3 DEF Leaves, Agrees, Actual, Contents
      <3> HIDE DEF to, p
      <3>6. /\ r \in StateRec /\ r.disk = u.disk /\ r.cursor = to /\ r.mode = "Idle" /\ r.start = u.start
            /\ r.cache = u.cache /\ r.flushed = u.flushed /\ r.werr = u.werr /\ r.cap = u.cap
        BY <3>3, <3>4 DEF StateRec
      <3> HIDE DEF r
      <3>7. StateFits(r) /\ EndFits(r)
        BY <3>3, <3>6 DEF StateFits, EndFits
      <3>8. fault # "torn" => Agrees(r, view, p)
        BY <3>5, <3>6 DEF Agrees, Actual, ReadFits, Contents
      <3>9. Leaves(r, view, p)
        BY <1>3, <3>3, <3>4, <3>6, <3>7, <3>8 DEF Leaves
      <3>10. fault # "torn" => Truthful(o, r, view, p)
        BY <1>1, <3>2, <3>5 DEF Truthful
      <3>11. Ends(t, r, o, view, p)
        BY <1>1, <3>1, <3>9, <3>10 DEF Ends, LastKinds, op
      <3>12. QED
        BY <3>11 DEF EndsOrHands
    <2>3. QED
      BY <2>1, <2>2
  <1>6. QED
    BY <1>4, <1>5

(* FlushedEnds: poll_flush of the File.                                     *)
LEMMA FlushedEnds ==
  ASSUME ControlTypes, NEW t \in Task, Leaves(state, view, at), PollFlush(t)
  PROVE  EndsOrHands(t)
  <1> DEFINE o == Out(task[t].op, "ok", 0, <<>>)
             Fn == Return(t, state, o, view, at)
  <1>1. task[t].op.kind \in {"flush", "drop", "into_raw_fd"} /\ FlushThen(t, state, Fn)
    BY DEF PollFlush, Holds
  <1>2. EndsOrHands(t) \/ (state.mode # "Writing" /\ Fn)
    <2> HIDE DEF Fn
    <2>1. QED
      BY <1>1, FlushEnds
  <1>3. ASSUME state.mode # "Writing", Fn PROVE EndsOrHands(t)
    <2>1. o.op = task[t].op /\ o.res = "ok"
      BY DEF Out
    <2>2. fault # "torn" => Truthful(o, state, view, at)
      BY <1>1, <1>3, <2>1 DEF Truthful, Leaves, Agrees, Contents
    <2> HIDE DEF o
    <2>3. Ends(t, state, o, view, at)
      BY <1>3, <2>2 DEF Ends
    <2>4. QED
      BY <2>3 DEF EndsOrHands
  <1>4. QED
    BY <1>2, <1>3

(* SyncEnds: sync_all flushes, then hands the guard to its job.             *)
LEMMA SyncEnds ==
  ASSUME NEW t \in Task, Leaves(state, view, at), SyncAll(t)
  PROVE  EndsOrHands(t)
  <1> DEFINE Fn == SpawnAndJoin(t, state, "sync_all", 0, view)
  <1>1. task[t].op.kind = "sync_all" /\ FlushThen(t, state, Fn)
    BY DEF SyncAll, Holds
  <1>2. EndsOrHands(t) \/ Fn
    <2> HIDE DEF Fn
    <2>1. QED
      BY <1>1, FlushEnds
  <1>3. ASSUME Fn PROVE EndsOrHands(t)
    <2>1. JobFits(state, "sync_all", 0) /\ "sync_all" \in Jobs /\ 0 \in Int
      BY DEF JobFits, Jobs
    <2>2. Hands(t, state, "sync_all", 0)
      BY <1>1, <1>3, <2>1 DEF Hands, LastKinds
    <2>3. QED
      BY <2>1, <2>2 DEF EndsOrHands
  <1>4. QED
    BY <1>2, <1>3

(* SetLenEnds: set_len unreads and flushes, then hands the guard to its job. *)
LEMMA SetLenEnds ==
  ASSUME ControlTypes, NEW t \in Task, Leaves(state, view, at), SetLen(t)
  PROVE  EndsOrHands(t)
  <1> DEFINE u == Unread(state)
             n == task[t].op.n
             Fn == \/ SpawnAndJoin(t, u, "set_len", n, Resized(view, n))
                   \/ SpawnAndJoin(t, u, "sync_all", 0, view)
  <1>1. task[t].op.kind = "set_len" /\ FlushThen(t, u, Fn)
    BY DEF SetLen, Holds
  <1>2. n = 1
    BY <1>1, OpTyped DEF ControlTypes, TaskState
  <1>3. Leaves(u, view, at) /\ u.mode # "Reading"
    BY UnreadLeaves
  <1>4. EndsOrHands(t) \/ (u.mode # "Writing" /\ Fn)
    <2> HIDE DEF u, Fn
    <2>1. QED
      BY <1>1, <1>3, FlushEnds
  <1>5. ASSUME u.mode # "Writing", Fn PROVE EndsOrHands(t)
    <2> HIDE DEF u
    <2>1. u.mode = "Idle"
      BY <1>3, <1>5 DEF Leaves, StateFits, StateRec
    <2>2. /\ JobFits(u, "set_len", n) /\ "set_len" \in Jobs /\ n \in Int
          /\ JobFits(u, "sync_all", 0) /\ "sync_all" \in Jobs /\ 0 \in Int
      BY <1>2, <2>1 DEF JobFits, Jobs
    <2>3. Hands(t, u, "set_len", n) \/ Hands(t, u, "sync_all", 0)
      BY <1>1, <1>3, <1>5, <2>2 DEF Hands, LastKinds
    <2>4. QED
      BY <2>2, <2>3 DEF EndsOrHands
  <1>6. QED
    BY <1>4, <1>5

(* HoldingData: whoever holds the guard leaves the file as its callers know *)
(* it, and answers truly.                                                   *)
LEMMA HoldingData ==
  ASSUME ControlInv, DataInv, NEW t \in Task, HoldingStep(t)
  PROVE  EndsOrHands(t) /\ task[t].pc = "held" /\ \A th \in Thread : thread[th].pc # "run"
  <1>1. ControlTypes /\ task[t].pc = "held"
    BY HoldingMoves DEF ControlInv
  <1>2. Leaves(state, view, at) /\ \A th \in Thread : thread[th].pc # "run"
    BY <1>1, HolderAlone
  <1>3. EndsOrHands(t)
    BY <1>1, <1>2, ReadCachedEnds, ReadFileEnds, WriteEnds, SeekCachedEnds, SeekFileEnds,
       FlushedEnds, SyncEnds, SetLenEnds DEF HoldingStep
  <1>4. QED
    BY <1>1, <1>2, <1>3

-----------------------------------------------------------------------------
(* What a job does to the data.                                             *)

JobLeaves(th) ==
  \E s : /\ EndJob(th, s) /\ StateFits(s) /\ EndFits(s)
         /\ fault' \in {"none", "clean", "torn"}
         /\ s.werr => fault' # "none"
         /\ fault' # "torn" => Agrees(s, view, at)

(* JobFinds: what a job knows of the file.                                  *)
LEMMA JobFinds ==
  ASSUME ControlInv, DataInv, NEW th \in Thread, thread[th].pc = "run"
  PROVE  /\ StateFits(state) /\ EndFits(state) /\ HistoryFits /\ (state.werr => fault # "none")
         /\ JobFits(state, thread[th].job, thread[th].n)
         /\ fault # "torn" =>
              /\ Actual(state) = at /\ ReadFits(state)
              /\ thread[th].job # "set_len" => Agrees(state, view, at)
              /\ thread[th].job = "set_len" => view = Resized(state.disk, thread[th].n)
  <1>1. \A tj \in Thread \ {th} : thread[tj].pc # "run"
    BY DEF ControlInv, GuardInOneHand
  <1>2. thread[th].job # "set_len" => \A tj \in Thread : ~Runs(tj, "set_len")
    BY <1>1 DEF Runs
  <1>3. StateFits(state) /\ EndFits(state) /\ HistoryFits /\ (state.werr => fault # "none")
        /\ JobFits(state, thread[th].job, thread[th].n)
    BY DEF DataInv, JobsFit
  <1>4. ASSUME fault # "torn"
        PROVE  /\ Actual(state) = at /\ ReadFits(state)
               /\ thread[th].job # "set_len" => Agrees(state, view, at)
               /\ thread[th].job = "set_len" => view = Resized(state.disk, thread[th].n)
    <2>1. /\ Actual(state) = at /\ ReadFits(state)
          /\ (\A tj \in Thread : ~Runs(tj, "set_len")) => view = Contents(state)
      BY <1>4, CacheSplits DEF DataInv
    <2>2. thread[th].job = "set_len" => view = Resized(state.disk, thread[th].n)
      BY <1>4 DEF DataInv, LengthFits, Runs
    <2>3. QED
      BY <1>2, <2>1, <2>2 DEF Agrees
  <1>5. QED
    BY <1>3, <1>4

(* FaultFits: a fault is remembered, and a torn write never forgotten.      *)
LEMMA FaultFits ==
  ASSUME HistoryFits, NEW kind \in {"none", "clean", "torn"}, Fault(kind)
  PROVE  /\ fault' \in {"none", "clean", "torn"} /\ (fault' # "torn" => fault # "torn" /\ kind # "torn")
         /\ (kind # "none" => fault' # "none") /\ (kind = fault => fault' = fault)
  BY DEF HistoryFits, Fault

(* PieceFits: n bytes behind a position.                                    *)
LEMMA PieceFits ==
  ASSUME NEW b \in Bytes, NEW k \in Nat, NEW n \in Nat, n # 0 => k + n <= Len(b)
  PROVE  SubSeq(b, k + 1, k + n) \in Bytes /\ Len(SubSeq(b, k + 1, k + n)) = n
  <1>1. Len(b) \in Nat /\ k + 1 \in Int /\ k + n \in Int
    BY DEF Bytes
  <1>2. ASSUME NEW i \in k + 1 .. k + n PROVE b[i] \in Nat
    <2>1. i \in 1 .. Len(b)
      BY <1>1
    <2>2. QED
      BY <2>1, ElementOfSeq DEF Bytes
  <1>3. /\ SubSeq(b, k + 1, k + n) \in Seq(Nat)
        /\ Len(SubSeq(b, k + 1, k + n)) = IF k + 1 <= k + n THEN k + n - (k + 1) + 1 ELSE 0
    BY <1>1, <1>2, SubSeqProperties
  <1>4. QED
    BY <1>3 DEF Bytes

(* JobReadLeaves: a read into the cache.                                    *)
LEMMA JobReadLeaves ==
  ASSUME ControlInv, DataInv, NEW th \in Thread, JobRead(th)
  PROVE  JobLeaves(th)
  <1> DEFINE nb == thread[th].n
             most == Max2(0, Min2(nb, Len(state.disk) - state.cursor))
  <1>0. thread[th].pc = "run" /\ thread[th].job = "read"
    BY DEF JobRead, Runs
  <1>1. /\ StateFits(state) /\ EndFits(state) /\ HistoryFits /\ (state.werr => fault # "none")
        /\ JobFits(state, "read", nb)
        /\ fault # "torn" => Agrees(state, view, at)
    BY <1>0, JobFinds
  <1>2. /\ state.mode # "Writing" /\ state.start = Len(state.cache)
        /\ nb \in Nat /\ nb <= state.cap /\ (0 \notin ReadSizes => nb # 0)
    BY <1>1 DEF JobFits
  <1>3. /\ state \in StateRec /\ state.disk \in Bytes /\ Len(state.disk) \in Nat /\ state.cursor \in Nat
        /\ Len(state.cache) \in Nat /\ state.cap \in Nat
    BY <1>1 DEF StateFits, StateRec, Bytes
  <1>4. fault # "torn" => at = state.cursor /\ view = state.disk
    <2>1. SUFFICES ASSUME fault # "torn" PROVE at = state.cursor /\ view = state.disk
      OBVIOUS
    <2>2. Agrees(state, view, at) /\ state.mode \in {"Idle", "Reading"}
      BY <1>1, <1>2, <1>3, <2>1 DEF StateRec
    <2>3. QED
      BY <1>2, <1>3, <2>2 DEF Agrees, Actual, Contents
  <1>5. CASE \E n \in (IF most = 0 THEN {0} ELSE 1 .. most) :
               /\ EndJob(th, [state EXCEPT !.mode = "Reading", !.start = 0,
                                !.cache = SubSeq(state.disk, state.cursor + 1, state.cursor + n),
                                !.cursor = @ + n])
               /\ NoFault
    <2>1. PICK n \in (IF most = 0 THEN {0} ELSE 1 .. most) :
               /\ EndJob(th, [state EXCEPT !.mode = "Reading", !.start = 0,
                                !.cache = SubSeq(state.disk, state.cursor + 1, state.cursor + n),
                                !.cursor = @ + n])
               /\ NoFault
      BY <1>5
    <2>2. /\ n \in Nat /\ n <= nb /\ (n # 0 => state.cursor + n <= Len(state.disk))
          /\ (n = 0 /\ nb # 0 => Len(state.disk) <= state.cursor)
      BY <1>2, <1>3 DEF Max2, Min2
    <2> HIDE DEF most, nb
    <2>3. PICK c : c = SubSeq(state.disk, state.cursor + 1, state.cursor + n)
      OBVIOUS
    <2>4. c \in Bytes /\ Len(c) = n
      BY <1>3, <2>2, <2>3, PieceFits
    <2>5. PICK s : s = [state EXCEPT !.mode = "Reading", !.start = 0, !.cache = c, !.cursor = @ + n]
      OBVIOUS
    <2>6. /\ s \in StateRec /\ s.disk = state.disk /\ s.cursor = state.cursor + n /\ s.mode = "Reading"
          /\ s.start = 0 /\ s.cache = c /\ s.cap = state.cap /\ s.werr = state.werr
      <3>1. state.cursor + n \in Nat
        BY <1>3, <2>2
      <3>2. QED
        BY <1>3, <2>4, <2>5, <3>1 DEF StateRec
    <2>7. EndJob(th, s) /\ fault' = fault
      BY <2>1, <2>3, <2>5 DEF NoFault
    <2>8. StateFits(s)
      BY <1>2, <1>3, <2>2, <2>4, <2>6 DEF StateFits
    <2>9. EndFits(s)
      <3>1. c = <<>> => n = 0
        BY <2>4
      <3>2. QED
        BY <1>2, <1>3, <2>2, <2>6, <3>1 DEF EndFits
    <2>10. fault # "torn" => Agrees(s, view, at)
      <3>1. SUFFICES ASSUME fault # "torn" PROVE Agrees(s, view, at)
        OBVIOUS
      <3>2. at = state.cursor /\ view = state.disk
        BY <1>4, <3>1
      <3>3. Actual(s) = s.cursor - Len(s.cache) + s.start
        BY <2>6 DEF Actual
      <3>4. Actual(s) = at
        BY <1>3, <2>2, <2>4, <2>6, <3>2, <3>3
      <3>5. c # <<>> => n # 0
        BY <2>4, EmptySeq DEF Bytes
      <3>6. s.cursor - Len(s.cache) + 1 = state.cursor + 1
        BY <1>3, <2>2, <2>4, <2>6
      <3>7. ReadFits(s)
        BY <2>2, <2>3, <2>6, <3>5, <3>6 DEF ReadFits
      <3>8. view = Contents(s)
        BY <2>6, <3>2 DEF Contents
      <3>9. QED
        BY <3>4, <3>7, <3>8 DEF Agrees
    <2>11. QED
      BY <1>1, <2>6, <2>7, <2>8, <2>9, <2>10 DEF JobLeaves, HistoryFits
  <1>6. CASE /\ EndJob(th, [state EXCEPT !.mode = "Idle", !.start = 0, !.cache = <<>>, !.rerr = TRUE])
             /\ Fault(fault)
    <2>1. PICK s : s = [state EXCEPT !.mode = "Idle", !.start = 0, !.cache = <<>>, !.rerr = TRUE]
      OBVIOUS
    <2>2. /\ s \in StateRec /\ s.disk = state.disk /\ s.cursor = state.cursor /\ s.mode = "Idle"
          /\ s.start = 0 /\ s.cache = <<>> /\ s.cap = state.cap /\ s.werr = state.werr
      BY <1>3, <2>1, EmptySeq DEF StateRec, Bytes
    <2>3. fault' = fault /\ fault \in {"none", "clean", "torn"}
      BY <1>1, <1>6, FaultFits DEF HistoryFits
    <2>4. StateFits(s) /\ EndFits(s)
      BY <1>3, <2>2, EmptySeq DEF StateFits, EndFits
    <2>5. fault # "torn" => Agrees(s, view, at)
      BY <1>4, <2>2 DEF Agrees, Actual, ReadFits, Contents
    <2>6. QED
      BY <1>1, <1>6, <2>1, <2>2, <2>3, <2>4, <2>5 DEF JobLeaves
  <1>7. QED
    BY <1>5, <1>6 DEF JobRead

(* JobDrainLeaves: the write cache goes to the file, or part of it.         *)
LEMMA JobDrainLeaves ==
  ASSUME ControlInv, DataInv, NEW th \in Thread, JobDrain(th)
  PROVE  JobLeaves(th)
  <1>0. thread[th].pc = "run" /\ thread[th].job = "drain"
    BY DEF JobDrain, Runs
  <1>1. /\ StateFits(state) /\ EndFits(state) /\ HistoryFits /\ (state.werr => fault # "none")
        /\ JobFits(state, "drain", thread[th].n)
        /\ fault # "torn" => Agrees(state, view, at)
    BY <1>0, JobFinds
  <1>2. state.mode = "Writing"
    BY <1>1 DEF JobFits
  <1>3. /\ state \in StateRec /\ state.disk \in Bytes /\ state.cursor \in Nat /\ state.cache \in Bytes
        /\ Len(state.cache) \in Nat /\ state.cap \in Nat /\ Len(state.cache) <= state.cap
        /\ state.start = 0 /\ ~state.flushed
    BY <1>1, <1>2 DEF StateFits, StateRec, Bytes
  <1>4. fault # "torn" => /\ at = state.cursor + Len(state.cache)
                          /\ view = WriteAt(state.disk, state.cursor, state.cache)
    BY <1>1, <1>2 DEF Agrees, Actual, Contents
  <1>5. CASE /\ EndJob(th, [state EXCEPT !.disk = WriteAt(@, state.cursor, state.cache),
                                         !.cursor = @ + Len(state.cache),
                                         !.cache = <<>>, !.mode = "Idle"])
             /\ NoFault
    <2>1. PICK d, k : d = WriteAt(state.disk, state.cursor, state.cache) /\ k = state.cursor + Len(state.cache)
      OBVIOUS
    <2>2. d \in Bytes /\ k \in Nat
      BY <1>3, <2>1, WriteFits
    <2>3. PICK s : s = [state EXCEPT !.disk = d, !.cursor = k, !.cache = <<>>, !.mode = "Idle"]
      OBVIOUS
    <2>4. EndJob(th, s) /\ fault' = fault
      BY <1>5, <2>1, <2>3 DEF NoFault
    <2>5. /\ s \in StateRec /\ s.disk = d /\ s.cursor = k /\ s.mode = "Idle" /\ s.start = 0
          /\ s.cache = <<>> /\ s.cap = state.cap /\ s.werr = state.werr
      BY <1>3, <2>2, <2>3, EmptySeq DEF StateRec, Bytes
    <2>6. StateFits(s) /\ EndFits(s)
      BY <1>3, <2>5, EmptySeq DEF StateFits, EndFits
    <2>7. fault # "torn" => Agrees(s, view, at)
      BY <1>4, <2>1, <2>5 DEF Agrees, Actual, ReadFits, Contents
    <2>8. QED
      BY <1>1, <2>4, <2>5, <2>6, <2>7 DEF JobLeaves, HistoryFits
  <1>6. CASE \E k \in 0 .. Len(state.cache) - 1 :
               /\ EndJob(th, [state EXCEPT !.disk = WriteAt(@, state.cursor, SubSeq(state.cache, 1, k)),
                                           !.cursor = @ + k, !.werr = TRUE])
               /\ Fault(IF k = 0 THEN "clean" ELSE "torn")
    <2>1. PICK k \in 0 .. Len(state.cache) - 1 :
               /\ EndJob(th, [state EXCEPT !.disk = WriteAt(@, state.cursor, SubSeq(state.cache, 1, k)),
                                           !.cursor = @ + k, !.werr = TRUE])
               /\ Fault(IF k = 0 THEN "clean" ELSE "torn")
      BY <1>6
    <2>2. k \in Nat /\ k <= Len(state.cache) /\ state.cursor + k \in Nat
      BY <1>3
    <2>3. PICK x : x = SubSeq(state.cache, 1, k)
      OBVIOUS
    <2>4. x \in Bytes /\ (k = 0 => x = <<>>)
      <3>1. PICK z \in Nat : z = 0
        OBVIOUS
      <3>2. z + k <= Len(state.cache) /\ z + 1 = 1 /\ z + k = k
        BY <1>3, <2>2, <3>1
      <3>3. SubSeq(state.cache, z + 1, z + k) \in Bytes
        BY <1>3, <2>2, <3>2, PieceFits
      <3>4. k = 0 => x = <<>>
        BY <2>3, SubSeqEmpty
      <3>5. QED
        BY <2>3, <3>2, <3>3, <3>4
    <2>5. PICK d : d = WriteAt(state.disk, state.cursor, x)
      OBVIOUS
    <2>6. d \in Bytes /\ (k = 0 => d = state.disk)
      <3>1. d \in Bytes
        BY <1>3, <2>4, <2>5, WriteFits
      <3>2. k = 0 => d = state.disk
        BY <2>4, <2>5 DEF WriteAt
      <3>3. QED
        BY <3>1, <3>2
    <2>7. PICK s : s = [state EXCEPT !.disk = d, !.cursor = @ + k, !.werr = TRUE]
      OBVIOUS
    <2>8. /\ s \in StateRec /\ s.disk = d /\ s.cursor = state.cursor + k /\ s.mode = "Writing"
          /\ s.start = 0 /\ s.cache = state.cache /\ s.cap = state.cap /\ ~s.flushed
      BY <1>2, <1>3, <2>2, <2>6, <2>7 DEF StateRec
    <2>9. EndJob(th, s)
      BY <2>1, <2>3, <2>5, <2>7
    <2>10. /\ fault' \in {"none", "clean", "torn"} /\ fault' # "none"
           /\ fault' # "torn" => fault # "torn" /\ k = 0
      <3>1. CASE k = 0
        <4>1. Fault("clean")
          BY <2>1, <3>1
        <4>2. QED
          BY <1>1, <3>1, <4>1, FaultFits
      <3>2. CASE k # 0
        <4>1. Fault("torn")
          BY <2>1, <3>2
        <4>2. QED
          BY <1>1, <3>2, <4>1, FaultFits
      <3>3. QED
        BY <3>1, <3>2
    <2>11. StateFits(s) /\ EndFits(s)
      BY <1>3, <2>8 DEF StateFits, EndFits
    <2>12. ASSUME fault' # "torn" PROVE Agrees(s, view, at)
      <3>1. k = 0 /\ fault # "torn" /\ d = state.disk /\ s.cursor = state.cursor
        BY <1>3, <2>6, <2>8, <2>10, <2>12
      <3>2. QED
        BY <1>4, <2>8, <3>1 DEF Agrees, Actual, ReadFits, Contents
    <2>13. QED
      BY <2>9, <2>10, <2>11, <2>12 DEF JobLeaves
  <1>7. QED
    BY <1>5, <1>6 DEF JobDrain

(* JobFlushLeaves: the flush of the inner file.                             *)
LEMMA JobFlushLeaves ==
  ASSUME ControlInv, DataInv, NEW th \in Thread, JobFlush(th)
  PROVE  JobLeaves(th)
  <1>0. thread[th].pc = "run" /\ thread[th].job = "flush"
    BY DEF JobFlush, Runs
  <1>1. /\ StateFits(state) /\ EndFits(state) /\ HistoryFits /\ (state.werr => fault # "none")
        /\ JobFits(state, "flush", thread[th].n)
        /\ fault # "torn" => Agrees(state, view, at)
    BY <1>0, JobFinds
  <1>2. state.mode # "Writing" /\ state \in StateRec /\ state.cap <= state.cap
    BY <1>1 DEF JobFits, StateFits, StateRec
  <1>3. CASE EndJob(th, [state EXCEPT !.flushed = TRUE]) /\ NoFault
    <2>1. PICK s : s = [state EXCEPT !.flushed = TRUE]
      OBVIOUS
    <2>2. /\ s \in StateRec /\ s.disk = state.disk /\ s.cursor = state.cursor /\ s.mode = state.mode
          /\ s.start = state.start /\ s.cache = state.cache /\ s.cap = state.cap /\ s.werr = state.werr
      BY <1>2, <2>1 DEF StateRec
    <2>3. StateFits(s) /\ EndFits(s) /\ \A v, p : Agrees(state, v, p) <=> Agrees(s, v, p)
      BY <1>1, <1>2, <2>2, SameData
    <2>4. QED
      BY <1>1, <1>3, <2>1, <2>2, <2>3 DEF JobLeaves, NoFault, HistoryFits
  <1>4. CASE EndJob(th, [state EXCEPT !.werr = TRUE]) /\ Fault("clean")
    <2>1. PICK s : s = [state EXCEPT !.werr = TRUE]
      OBVIOUS
    <2>2. /\ s \in StateRec /\ s.disk = state.disk /\ s.cursor = state.cursor /\ s.mode = state.mode
          /\ s.start = state.start /\ s.cache = state.cache /\ s.cap = state.cap
      BY <1>2, <2>1 DEF StateRec
    <2>3. StateFits(s) /\ EndFits(s) /\ \A v, p : Agrees(state, v, p) <=> Agrees(s, v, p)
      BY <1>1, <1>2, <2>2, SameData
    <2>4. /\ fault' \in {"none", "clean", "torn"} /\ fault' # "none"
          /\ fault' # "torn" => fault # "torn"
      BY <1>1, <1>4, FaultFits
    <2>5. QED
      BY <1>1, <1>4, <2>1, <2>3, <2>4 DEF JobLeaves
  <1>5. QED
    BY <1>3, <1>4 DEF JobFlush

(* JobSyncLeaves: sync_all of the inner file.                               *)
LEMMA JobSyncLeaves ==
  ASSUME ControlInv, DataInv, NEW th \in Thread, JobSync(th)
  PROVE  JobLeaves(th)
  <1>0. thread[th].pc = "run" /\ thread[th].job = "sync_all" /\ EndJob(th, state) /\ fault' = fault
    BY DEF JobSync, Runs, NoFault
  <1>1. /\ StateFits(state) /\ EndFits(state) /\ HistoryFits /\ (state.werr => fault # "none")
        /\ fault # "torn" => Agrees(state, view, at)
    BY <1>0, JobFinds
  <1>2. QED
    BY <1>0, <1>1 DEF JobLeaves, HistoryFits

(* JobSetLenLeaves: set_len of the inner file.                              *)
LEMMA JobSetLenLeaves ==
  ASSUME ControlInv, DataInv, NEW th \in Thread, JobSetLen(th)
  PROVE  JobLeaves(th)
  <1>0. thread[th].pc = "run" /\ thread[th].job = "set_len" /\ fault' = fault
    BY DEF JobSetLen, Runs, NoFault
  <1>1. /\ StateFits(state) /\ EndFits(state) /\ HistoryFits /\ (state.werr => fault # "none")
        /\ JobFits(state, "set_len", thread[th].n)
        /\ fault # "torn" => Actual(state) = at /\ view = Resized(state.disk, thread[th].n)
    BY <1>0, JobFinds
  <1>2. /\ state.mode = "Idle" /\ thread[th].n \in Nat /\ state \in StateRec /\ state.disk \in Bytes
    BY <1>1 DEF JobFits, StateFits, StateRec
  <1>3. PICK d : d = Resized(state.disk, thread[th].n)
    OBVIOUS
  <1>4. d \in Bytes
    BY <1>2, <1>3, ResizeFits
  <1>5. PICK s : s = [state EXCEPT !.disk = d]
    OBVIOUS
  <1>6. /\ s \in StateRec /\ s.disk = d /\ s.cursor = state.cursor /\ s.mode = "Idle"
        /\ s.start = state.start /\ s.cache = state.cache /\ s.cap = state.cap /\ s.werr = state.werr
    BY <1>2, <1>4, <1>5 DEF StateRec
  <1>7. EndJob(th, s)
    BY <1>3, <1>5 DEF JobSetLen
  <1>8. StateFits(s) /\ EndFits(s)
    BY <1>1, <1>2, <1>6 DEF StateFits, EndFits
  <1>9. fault # "torn" => Agrees(s, view, at)
    BY <1>1, <1>2, <1>3, <1>6 DEF Agrees, Actual, ReadFits, Contents
  <1>10. QED
    BY <1>0, <1>1, <1>6, <1>7, <1>8, <1>9 DEF JobLeaves, HistoryFits

-----------------------------------------------------------------------------
(* Every step keeps the data part.                                          *)

(* NothingRuns: the data part, when no job has the guard.                   *)
LEMMA NothingRuns ==
  ASSUME NEW s, state' = s, StateFits(s), EndFits(s), HistoryFits', s.werr => fault' # "none",
         \A th \in Thread : thread'[th].pc # "run", fault' # "torn" => Agrees(s, view', at')
  PROVE  DataInv'
  <1>1. JobsFit' /\ LengthFits'
    BY DEF JobsFit, LengthFits, Runs
  <1>2. CacheIsFile'
    BY DEF CacheIsFile, Agrees, ReadFits, Contents, Actual
  <1>3. StateFits(state)' /\ EndFits(state)'
    BY DEF StateFits, EndFits
  <1>4. QED
    BY <1>1, <1>2, <1>3 DEF DataInv

(* EndsKeep: an operation ends.                                             *)
LEMMA EndsKeep ==
  ASSUME DataInv, NEW t \in Task, NEW s, NEW o, NEW v, NEW p, Ends(t, s, o, v, p),
         \A th \in Thread : thread[th].pc # "run"
  PROVE  DataInv'
  <1>1. state' = s /\ view' = v /\ at' = p /\ thread' = thread /\ fault' = fault
    BY DEF Ends, Return
  <1>2. /\ StateFits(s) /\ EndFits(s) /\ v \in Bytes /\ p \in Int /\ (s.werr => state.werr)
        /\ fault # "torn" => Agrees(s, v, p)
    BY DEF Ends, Leaves
  <1>3. HistoryFits' /\ (s.werr => fault' # "none")
    BY <1>1, <1>2 DEF DataInv, HistoryFits
  <1>4. \A th \in Thread : thread'[th].pc # "run"
    BY <1>1
  <1>5. fault' # "torn" => Agrees(s, view', at')
    BY <1>1, <1>2
  <1>6. QED
    BY <1>1, <1>2, <1>3, <1>4, <1>5, NothingRuns

(* HandsKeep: an operation hands the guard to a job.                        *)
LEMMA HandsKeep ==
  ASSUME ControlTypes, DataInv, NEW t \in Task, NEW s, NEW job \in Jobs, NEW n \in Int,
         Hands(t, s, job, n), \A th \in Thread : thread[th].pc # "run"
  PROVE  DataInv'
  <1>1. /\ state' = s /\ at' = at /\ fault' = fault
        /\ view' = IF job = "set_len" THEN Resized(view, n) ELSE view
        /\ \E th \in Thread : Hires(job, n, th)
    BY DEF Hands, Spawn, SpawnAndJoin, Hires
  <1>2. /\ StateFits(s) /\ EndFits(s) /\ (s.werr => state.werr) /\ JobFits(s, job, n)
        /\ view \in Bytes /\ at \in Int
        /\ fault # "torn" => Agrees(s, view, at)
    BY DEF Hands, Leaves
  <1>3. PICK th \in Thread : /\ thread'[th].pc = "run" /\ thread'[th].job = job /\ thread'[th].n = n
                             /\ \A tj \in Thread \ {th} : thread'[tj].pc # "run"
    <2>1. PICK th \in Thread : Hires(job, n, th)
      BY <1>1
    <2>2. thread \in [Thread -> ThreadState]
      BY DEF ControlTypes
    <2>3. /\ thread'[th].pc = "run" /\ thread'[th].job = job /\ thread'[th].n = n
          /\ \A tj \in Thread \ {th} : thread'[tj] = thread[tj]
      BY <2>1, <2>2, HiresOne
    <2>4. QED
      BY <2>3
  <1>4. StateFits(state)' /\ EndFits(state)'
    BY <1>1, <1>2 DEF StateFits, EndFits
  <1>5. JobsFit'
    <2>1. \A tj \in Thread : thread'[tj].pc = "run" => tj = th
      BY <1>3
    <2>2. JobFits(state', thread'[th].job, thread'[th].n)
      BY <1>1, <1>2, <1>3
    <2>3. QED
      BY <2>1, <2>2 DEF JobsFit, JobFits
  <1>6. CASE job = "set_len"
    <2>1. n \in Nat /\ s.mode = "Idle" /\ view' = Resized(view, n)
      BY <1>1, <1>2, <1>6 DEF JobFits
    <2>2. HistoryFits'
      BY <1>1, <1>2, <2>1, ResizeFits DEF DataInv, HistoryFits
    <2>3. fault # "torn" => view = s.disk
      BY <1>2, <2>1 DEF Agrees, Contents
    <2>4. LengthFits'
      BY <1>1, <1>3, <2>1, <2>3 DEF LengthFits, Runs
    <2>5. Runs(th, "set_len")'
      BY <1>3, <1>6 DEF Runs
    <2>6. CacheIsFile'
      BY <1>1, <1>2, <2>5 DEF CacheIsFile, Agrees, ReadFits, Actual
    <2>7. QED
      BY <1>1, <1>2, <1>4, <1>5, <2>2, <2>4, <2>6 DEF DataInv
  <1>7. CASE job # "set_len"
    <2>1. view' = view
      BY <1>1, <1>7
    <2>2. HistoryFits'
      BY <1>1, <2>1 DEF DataInv, HistoryFits
    <2>3. LengthFits'
      BY <1>3, <1>7 DEF LengthFits, Runs
    <2>4. CacheIsFile'
      BY <1>1, <1>2, <2>1 DEF CacheIsFile, Agrees, ReadFits, Actual, Contents
    <2>5. QED
      BY <1>1, <1>2, <1>4, <1>5, <2>2, <2>3, <2>4 DEF DataInv
  <1>8. QED
    BY <1>6, <1>7

(* JobsKeep: a job ends.                                                    *)
LEMMA JobsKeep ==
  ASSUME ControlInv, DataInv, NEW th \in Thread, JobSteps(th)
  PROVE  DataInv'
  <1>1. JobLeaves(th)
    BY JobReadLeaves, JobDrainLeaves, JobFlushLeaves, JobSyncLeaves, JobSetLenLeaves DEF JobSteps
  <1>2. PICK s : /\ EndJob(th, s) /\ StateFits(s) /\ EndFits(s)
                 /\ fault' \in {"none", "clean", "torn"}
                 /\ s.werr => fault' # "none"
                 /\ fault' # "torn" => Agrees(s, view, at)
    BY <1>1 DEF JobLeaves
  <1>3. state' = s /\ view' = view /\ at' = at
    BY <1>2 DEF EndJob
  <1>4. HistoryFits'
    BY <1>2, <1>3 DEF DataInv, HistoryFits
  <1>5. \A tj \in Thread : thread'[tj].pc # "run"
    <2>1. thread[th].pc = "run" /\ thread' = [thread EXCEPT ![th].pc = "drain"]
      BY JobMoves
    <2>2. \A tj \in Thread \ {th} : thread[tj].pc # "run"
      BY <2>1 DEF ControlInv, GuardInOneHand
    <2>3. thread'[th].pc = "drain" /\ \A tj \in Thread \ {th} : thread'[tj] = thread[tj]
      BY <2>1, ThreadSet DEF ControlInv, ControlTypes, ThreadPC
    <2>4. QED
      BY <2>2, <2>3
  <1>6. fault' # "torn" => Agrees(s, view', at')
    BY <1>2, <1>3
  <1>7. QED
    BY <1>2, <1>3, <1>4, <1>5, <1>6, NothingRuns

(* QuietKeeps: the data is not touched, and no job begins or ends.          *)
LEMMA QuietKeeps ==
  ASSUME DataInv, UNCHANGED <<state, view, at, fault>>,
         \A th \in Thread : thread'[th] = thread[th] \/ (thread[th].pc # "run" /\ thread'[th].pc # "run")
  PROVE  DataInv'
  <1>1. \A th \in Thread : Runs(th, "set_len")' <=> Runs(th, "set_len")
    BY DEF Runs
  <1>2. StateFits(state)' /\ EndFits(state)' /\ HistoryFits' /\ (state.werr => fault # "none")'
    BY DEF DataInv, StateFits, EndFits, HistoryFits
  <1>3. JobsFit'
    BY DEF DataInv, JobsFit, JobFits
  <1>4. LengthFits'
    BY DEF DataInv, LengthFits, Runs
  <1>5. CacheIsFile'
    BY <1>1 DEF DataInv, CacheIsFile, Actual
  <1>6. QED
    BY <1>2, <1>3, <1>4, <1>5 DEF DataInv

(* DrainTouches: the second half of Drop for LockGuard, and the end of a job. *)
LEMMA DrainTouches ==
  ASSUME ControlInv, NEW th \in Thread, ThreadDrain(th) \/ ThreadRelease(th)
  PROVE  /\ UNCHANGED <<state, view, at, fault, open>> /\ out' = NoOut
         /\ \A tj \in Thread : \/ thread'[tj] = thread[tj]
                               \/ thread[tj].pc # "run" /\ thread'[tj].pc # "run"
  <1>0. thread \in [Thread -> ThreadState]
    BY DEF ControlInv, ControlTypes
  <1>1. CASE ThreadDrain(th)
    <2>1. /\ thread[th].pc = "drain" /\ thread' = [thread EXCEPT ![th].pc = "release"]
          /\ UNCHANGED <<state, view, at, fault, open>> /\ out' = NoOut
      BY <1>1 DEF ThreadDrain
    <2>2. thread'[th].pc = "release" /\ \A tj \in Thread \ {th} : thread'[tj] = thread[tj]
      BY <1>0, <2>1, ThreadSet DEF ThreadPC
    <2>3. QED
      BY <2>1, <2>2
  <1>2. CASE ThreadRelease(th)
    <2>1. /\ thread[th].pc = "release" /\ thread' = [thread EXCEPT ![th] = NoJob]
          /\ UNCHANGED <<state, view, at, fault, open>> /\ out' = NoOut
      BY <1>2 DEF ThreadRelease
    <2>2. thread'[th].pc = "none" /\ \A tj \in Thread \ {th} : thread'[tj] = thread[tj]
      BY <1>0, <2>1, IdleFits
    <2>3. QED
      BY <2>1, <2>2
  <1>3. QED
    BY <1>1, <1>2

(* DataStep: every step preserves the data part.                            *)
LEMMA DataStep == ControlInv /\ DataInv /\ [Next]_vars => DataInv'
  <1> SUFFICES ASSUME ControlInv, DataInv, [Next]_vars PROVE DataInv'
    OBVIOUS
  <1>1. ASSUME UNCHANGED <<state, view, at, fault, thread>> PROVE DataInv'
    BY <1>1, QuietKeeps
  <1>2. ASSUME NEW t \in Task,
               \/ \E op \in Ops : Start(t, op)
               \/ \E op \in LastOps : StartDrop(t, op)
               \/ Cancel(t) \/ PollLock(t) \/ PollList(t) \/ TaskDrain(t)
        PROVE  DataInv'
    BY <1>1, <1>2 DEF Start, StartDrop, Cancel, PollLock, PollList, TaskDrain
  <1>3. ASSUME NEW t \in Task, HoldingStep(t) PROVE DataInv'
    <2>1. EndsOrHands(t) /\ \A th \in Thread : thread[th].pc # "run"
      BY <1>3, HoldingData
    <2>2. ControlTypes
      BY DEF ControlInv
    <2>3. QED
      BY <2>1, <2>2, EndsKeep, HandsKeep DEF EndsOrHands
  <1>4. ASSUME NEW th \in Thread, ThreadStep(th) PROVE DataInv'
    <2>1. CASE JobSteps(th)
      BY <2>1, JobsKeep
    <2>2. CASE ThreadDrain(th) \/ ThreadRelease(th)
      BY <2>2, DrainTouches, QuietKeeps
    <2>3. QED
      BY <1>4, <2>1, <2>2 DEF ThreadStep, JobSteps
  <1>5. ASSUME UNCHANGED vars PROVE DataInv'
    BY <1>1, <1>5 DEF vars
  <1>6. QED
    BY <1>2, <1>3, <1>4, <1>5 DEF Next

-----------------------------------------------------------------------------
(* Every step keeps what is known of a File that is being dropped.          *)

(* HeldDrop: the owner that holds the guard flushes, and has nothing left   *)
(* in the cache when it lets go of it.                                      *)
LEMMA HeldDrop ==
  ASSUME ControlInv, DataInv, DropFits, NEW t \in Task, HoldingStep(t)
  PROVE  DropFits'
  <1>1. SUFFICES ASSUME ~open' PROVE DropFits'
    BY DEF DropFits
  <1>2. EndsOrHands(t) /\ task[t].pc = "held" /\ \A th \in Thread : thread[th].pc # "run"
    BY HoldingData
  <1>3. task \in [Task -> TaskState]
    BY DEF ControlInv, ControlTypes
  <1>4. ASSUME NEW s, NEW o, NEW v, NEW p, Ends(t, s, o, v, p) PROVE DropFits'
    <2>1. /\ state' = s /\ view' = v /\ open' = open /\ thread' = thread /\ fault' = fault
          /\ task' = [task EXCEPT ![t].pc = "drain"]
      BY <1>4 DEF Ends, Return
    <2>2. /\ task'[t].pc = "drain" /\ task'[t].op = task[t].op
          /\ \A u \in Task \ {t} : task'[u] = task[u]
      BY <1>3, <2>1, PcSet DEF TaskPC
    <2>3. /\ task[t].op.kind \in LastKinds
          /\ \A u \in Task : task[u].pc = "idle" \/ (task[u].pc # "join" /\ task[u].op.kind \in LastKinds)
      BY <1>1, <1>2, <2>1 DEF DropFits
    <2>4. fault = "none" => s.disk = v
      BY <1>4, <2>3 DEF Ends, Leaves, Agrees, Contents, DataInv
    <2>5. QED
      BY <1>2, <2>1, <2>2, <2>3, <2>4 DEF DropFits
  <1>5. ASSUME NEW s, NEW job, NEW n, Hands(t, s, job, n) PROVE DropFits'
    <2>1. open' = open
      BY <1>5 DEF Hands, Spawn, SpawnAndJoin
    <2>2. /\ task[t].op.kind \in LastKinds
          /\ \A u \in Task : task[u].pc = "idle" \/ (task[u].pc # "join" /\ task[u].op.kind \in LastKinds)
      BY <1>1, <1>2, <2>1 DEF DropFits
    <2>3. task' = [task EXCEPT ![t].pc = "wait"]
      BY <1>5, <2>2 DEF Hands, Spawn
    <2>4. /\ task'[t].pc = "wait" /\ task'[t].op = task[t].op
          /\ \A u \in Task \ {t} : task'[u] = task[u]
      BY <1>3, <2>3, PcSet DEF TaskPC
    <2>5. QED
      BY <2>2, <2>4 DEF DropFits
  <1>6. QED
    BY <1>2, <1>4, <1>5 DEF EndsOrHands

(* DropStep: every step does so.                                            *)
LEMMA DropStep == ControlInv /\ DataInv /\ DropFits /\ [Next]_vars => DropFits'
  <1> SUFFICES ASSUME ControlInv, DataInv, DropFits, [Next]_vars, ~open' PROVE DropFits'
    BY DEF DropFits
  <1>0. task \in [Task -> TaskState]
    BY DEF ControlInv, ControlTypes
  <1>1. ASSUME NEW t \in Task, NEW op \in LastOps, StartDrop(t, op) PROVE DropFits'
    <2>1. /\ \A u \in Task : task[u].pc = "idle"
          /\ task' = [task EXCEPT ![t] = [pc |-> "poll", op |-> op, join |-> {}]]
      BY <1>1 DEF StartDrop
    <2>2. op.kind \in LastKinds
      BY DEF LastOps, LastKinds, Op
    <2>3. task'[t].pc = "poll" /\ task'[t].op = op /\ \A u \in Task \ {t} : task'[u] = task[u]
      BY <1>0, <2>1
    <2>4. QED
      BY <2>1, <2>2, <2>3 DEF DropFits
  <1>2. ASSUME NEW t \in Task, PollLock(t) \/ PollList(t) PROVE DropFits'
    <2>1. /\ open' = open /\ task[t].pc \in {"poll", "wait", "list"}
          /\ \E to \in {"list", "held", "wait"} : task' = [task EXCEPT ![t].pc = to]
      BY <1>2 DEF PollLock, PollList
    <2>2. PICK to \in {"list", "held", "wait"} : task' = [task EXCEPT ![t].pc = to]
      BY <2>1
    <2>3. task'[t].pc = to /\ task'[t].op = task[t].op /\ \A u \in Task \ {t} : task'[u] = task[u]
      BY <1>0, <2>2, PcSet DEF TaskPC
    <2>4. QED
      BY <2>1, <2>3 DEF DropFits
  <1>3. ASSUME NEW t \in Task, TaskDrain(t) PROVE DropFits'
    <2>1. /\ task[t].pc = "drain" /\ task' = [task EXCEPT ![t] = IdleTask]
          /\ UNCHANGED <<open, state, view, fault, thread>>
      BY <1>3 DEF TaskDrain
    <2>2. task'[t].pc = "idle" /\ \A u \in Task \ {t} : task'[u] = task[u]
      BY <1>0, <2>1, IdleFits
    <2>3. QED
      BY <2>1, <2>2 DEF DropFits
  <1>4. ASSUME NEW th \in Thread, JobSteps(th) PROVE DropFits'
    <2>1. thread[th].pc = "run" /\ task' = task
      BY <1>4, JobMoves
    <2>2. \E s : EndJob(th, s)
      BY <1>4, JobReadLeaves, JobDrainLeaves, JobFlushLeaves, JobSyncLeaves, JobSetLenLeaves
         DEF JobSteps, JobLeaves
    <2>3. open' = open
      BY <2>2 DEF EndJob
    <2>4. QED
      BY <2>1, <2>3 DEF DropFits
  <1>5. ASSUME NEW th \in Thread, ThreadDrain(th) \/ ThreadRelease(th) PROVE DropFits'
    <2>1. /\ UNCHANGED <<state, view, at, fault, open>>
          /\ \A tj \in Thread : \/ thread'[tj] = thread[tj]
                                \/ thread[tj].pc # "run" /\ thread'[tj].pc # "run"
      BY <1>5, DrainTouches
    <2>2. \A u \in Task : task[u].pc # "join"
      BY <2>1 DEF DropFits
    <2>3. \A u \in Task : task'[u] = task[u]
      <3>1. \A u \in Task : task[u].join = {}
        BY <2>2 DEF ControlInv, JoinsFit
      <3>2. QED
        BY <1>5, <3>1 DEF ThreadDrain, ThreadRelease
    <2>4. QED
      BY <2>1, <2>3 DEF DropFits
  <1>6. ASSUME NEW t \in Task, Cancel(t) \/ \E op \in Ops : Start(t, op) PROVE FALSE
    BY <1>6 DEF Cancel, Start
  <1>7. ASSUME UNCHANGED vars PROVE DropFits'
    BY <1>7 DEF vars, DropFits
  <1>8. QED
    BY <1>1, <1>2, <1>3, <1>4, <1>5, <1>6, <1>7, HeldDrop DEF Next, ThreadStep, JobSteps

(* AnswerStep: whatever a step returns is true.                             *)
LEMMA AnswerStep ==
  ASSUME 0 \notin ReadSizes, ControlInv, DataInv, AnswersAreTrue, [Next]_vars
  PROVE  AnswersAreTrue'
  <1>1. ASSUME out'.res # "ok" \/ out'.op.kind = "into_raw_fd" PROVE AnswersAreTrue'
    BY <1>1 DEF AnswersAreTrue
  <1>2. NoOut.res # "ok"
    BY DEF NoOut
  <1>3. ASSUME NEW t \in Task,
               \/ \E op \in Ops : Start(t, op)
               \/ \E op \in LastOps : StartDrop(t, op)
               \/ Cancel(t) \/ PollLock(t) \/ PollList(t)
        PROVE  AnswersAreTrue'
    BY <1>1, <1>2, <1>3 DEF Start, StartDrop, Cancel, PollLock, PollList
  <1>4. ASSUME NEW t \in Task, TaskDrain(t) PROVE AnswersAreTrue'
    <2>1. CASE task[t].op.kind = "into_raw_fd"
      <3>1. \E r, n, d : out' = Out(task[t].op, r, n, d)
        BY <1>4, <2>1 DEF TaskDrain
      <3>2. out'.op = task[t].op
        BY <3>1 DEF Out
      <3>3. QED
        BY <1>1, <2>1, <3>2
    <2>2. CASE task[t].op.kind # "into_raw_fd"
      BY <1>1, <1>2, <1>4, <2>2 DEF TaskDrain
    <2>3. QED
      BY <2>1, <2>2
  <1>5. ASSUME NEW t \in Task, HoldingStep(t) PROVE AnswersAreTrue'
    <2>1. EndsOrHands(t)
      BY <1>5, HoldingData
    <2>2. ASSUME NEW s, NEW o, NEW v, NEW p, Ends(t, s, o, v, p) PROVE AnswersAreTrue'
      <3>1. state' = s /\ out' = o /\ view' = v /\ at' = p /\ fault' = fault
        BY <2>2 DEF Ends, Return
      <3>2. fault # "torn" => Truthful(o, s, v, p)
        BY <2>2 DEF Ends
      <3>3. QED
        BY <3>1, <3>2 DEF AnswersAreTrue, Truthful
    <2>3. ASSUME NEW s, NEW job, NEW n, Hands(t, s, job, n) PROVE AnswersAreTrue'
      BY <1>1, <1>2, <2>3 DEF Hands, Spawn, SpawnAndJoin
    <2>4. QED
      BY <2>1, <2>2, <2>3 DEF EndsOrHands
  <1>6. ASSUME NEW th \in Thread, ThreadStep(th) PROVE AnswersAreTrue'
    <2>1. CASE JobSteps(th)
      <3>1. \E s : EndJob(th, s)
        BY <2>1, JobReadLeaves, JobDrainLeaves, JobFlushLeaves, JobSyncLeaves, JobSetLenLeaves
           DEF JobSteps, JobLeaves
      <3>2. QED
        BY <1>1, <1>2, <3>1 DEF EndJob
    <2>2. CASE ThreadDrain(th) \/ ThreadRelease(th)
      BY <1>1, <1>2, <2>2, DrainTouches
    <2>3. QED
      BY <1>6, <2>1, <2>2 DEF ThreadStep, JobSteps
  <1>7. ASSUME UNCHANGED vars PROVE AnswersAreTrue'
    BY <1>7 DEF vars, AnswersAreTrue
  <1>8. QED
    BY <1>3, <1>4, <1>5, <1>6, <1>7 DEF Next

-----------------------------------------------------------------------------
(* The theorems.                                                            *)

FileInv == ControlInv /\ DataInv /\ DropFits

(* FileInvInit: a file that has just been opened.                           *)
LEMMA FileInvInit == Init => FileInv
  <1> SUFFICES ASSUME Init PROVE FileInv
    OBVIOUS
  <1>1. /\ task \in [Task -> TaskState] /\ \A t \in Task : task[t].pc = "idle" /\ task[t].join = {}
        /\ thread \in [Thread -> ThreadState] /\ \A th \in Thread : thread[th].pc = "none"
    BY IdleFits DEF Init, IdleTask
  <1>2. locked = FALSE /\ wakers = {} /\ woken = {} /\ open = TRUE /\ fault = "none"
        /\ view = Original /\ at = 0
    BY DEF Init
  <1>3. ControlInv
    BY <1>1, <1>2 DEF ControlInv, ControlTypes, GuardInOneHand, JoinsFit, NoWaiterStranded
  <1>4. Original \in Bytes
    BY FileAssumption, SeqMonotonic DEF Bytes
  <1>5. /\ state \in StateRec /\ state.disk = Original /\ state.cursor = 0 /\ state.mode = "Idle"
        /\ state.start = 0 /\ state.cache = <<>> /\ state.cap = 0 /\ state.werr = FALSE
    <2>1. PICK f \in BOOLEAN :
             state = [disk |-> Original, cursor |-> 0, mode |-> "Idle", start |-> 0, cache |-> <<>>,
                      cap |-> 0, flushed |-> f, rerr |-> FALSE, werr |-> FALSE]
      BY DEF Init
    <2>2. <<>> \in Bytes
      BY EmptySeq DEF Bytes
    <2>3. QED
      BY <1>4, <2>1, <2>2 DEF StateRec
  <1>6. StateFits(state) /\ EndFits(state) /\ HistoryFits
    BY <1>2, <1>4, <1>5, EmptySeq DEF StateFits, EndFits, HistoryFits
  <1>7. JobsFit /\ LengthFits
    BY <1>1 DEF JobsFit, LengthFits, Runs
  <1>8. CacheIsFile
    BY <1>2, <1>5, CacheSplits DEF Actual, ReadFits, Contents
  <1>9. QED
    BY <1>2, <1>3, <1>5, <1>6, <1>7, <1>8 DEF FileInv, DataInv, DropFits

(* FileInvariant: the guard is in one hand, nobody who waits for it is      *)
(* forgotten, cache and disk together are the file the callers know, and    *)
(* who drops the file leaves nothing in the cache.                          *)
THEOREM FileInvariant == Spec => []FileInv
  <1>1. FileInv /\ [Next]_vars => FileInv'
    BY ControlStep, DataStep, DropStep DEF FileInv
  <1>2. QED
    BY <1>1, FileInvInit, PTL DEF Spec

(* NobodyIsForgotten: a Pending operation on the file has been woken, or is *)
(* in the list of a lock whose guard is still to be dropped (Lock::poll_lock *)
(* and Drop for LockGuard).                                                 *)
THEOREM NobodyIsForgotten == Spec => []NoWaiterStranded
  <1>1. FileInv => NoWaiterStranded
    BY DEF FileInv, ControlInv
  <1>2. QED
    BY <1>1, FileInvariant, PTL

(* CacheKeepsTheFile: whatever is cancelled or fails, short of a write that *)
(* fails half-way, position, read cache and write cache agree with what the *)
(* completed operations were told (LockGuard's poll_* methods).             *)
THEOREM CacheKeepsTheFile == Spec => []CacheIsFile
  <1>1. FileInv => CacheIsFile
    BY DEF FileInv, DataInv
  <1>2. QED
    BY <1>1, FileInvariant, PTL

(* AnswersHold: reads, seeks and flushes answer as an uncached file would,  *)
(* provided that nobody reads into an empty buffer, which poll_read takes   *)
(* for the end of the file.                                                 *)
THEOREM AnswersHold == Spec => [](0 \notin ReadSizes => AnswersAreTrue)
  <1> DEFINE Answered == 0 \notin ReadSizes => AnswersAreTrue
  <1>1. Init => Answered
    BY DEF Init, NoOut, AnswersAreTrue
  <1>2. FileInv /\ Answered /\ [Next]_vars => Answered'
    BY AnswerStep DEF FileInv
  <1> HIDE DEF Answered
  <1>3. Spec => []Answered
    BY <1>1, <1>2, FileInvariant, PTL DEF Spec
  <1>4. QED
    BY <1>3 DEF Answered

(* DropsKeepData: unless some write failed, every accepted byte is on the   *)
(* disk when drop(file) returns (Drop for File).                            *)
THEOREM DropsKeepData == Spec => []DropKeepsData
  <1>1. FileInv => DropKeepsData
    BY DEF FileInv, DropFits, DropKeepsData, Dropped
  <1>2. QED
    BY <1>1, FileInvariant, PTL

-----------------------------------------------------------------------------
(* The writers of src/io/ (PollAdapters).                                   *)

(* A writer whose input is late just returns Pending.                       *)
LEMMA WriterPolls ==
    ASSUME NEW d, NEW a, NEW done,
           d.k \in {"write_all", "write_fmt", "copy", "stdout", "stderr", "buf_writer"}
    PROVE  /\ a = Pending => PollAdapter(d, a, done) = Park(d)
           /\ a # Pending => PollAdapter(d, a, done) = PollFuture(d, a)
  BY DEF PollAdapter, PendingAware, Comparisons, Streams, StreamKinds, ChunkKinds

(* Which poll function is whose.                                            *)
LEMMA WriterOperators ==
    ASSUME NEW d, NEW a
    PROVE  /\ d.k = "write_all" => PollFuture(d, a) = I!WriteAll(d, a)
           /\ d.k = "write_fmt" => PollFuture(d, a) = I!WriteFmt(d, a)
           /\ d.k = "copy" => PollFuture(d, a) = I!Copy(d, a)
           /\ d.k = "buf_writer" => PollFuture(d, a) = I!BufWriter(d, a)
           /\ d.k = "stdout" => PollFuture(d, a) = I!Stdout(d, a)
           /\ d.k = "stderr" => PollFuture(d, a) = I!Stderr(d, a)
  BY DEF PollFuture

-----------------------------------------------------------------------------
(* What an input may answer once instead of what it was asked for.          *)
InputFaults == {"err", "zero", "interrupted"}
InputRec ==
    [ty : {"never", "reader", "writer", "whole"}, data : Seq(Nat), pos : Nat, open : BOOLEAN, reg : BOOLEAN, over : BOOLEAN,
     bad : BOOLEAN, fault : SUBSET InputFaults, failed : BOOLEAN, n : Nat]

PollerStates == {"woken", "polling", "idle", "done", "enough"}
WriterKinds == {"write_all", "write_fmt", "copy", "stdout", "stderr", "buf_writer"}

(* The inputs of a writer: a reader for copy(), a sink for all.             *)
Typed ==
    /\ src \in [1 .. 2 -> InputRec] /\ poller \in PollerStates
    /\ src[1].ty \in {"never", "reader"} /\ src[2].ty \in {"writer", "whole", "never"}

(* Untouched(s, t): what polling an input or its arrival do not change.      *)
Untouched(s, t) ==
    /\ t.ty = s.ty /\ t.data = s.data /\ t.pos = s.pos /\ t.fault = s.fault
    /\ t.failed = s.failed /\ t.n = s.n

(* A step that is not one of the poll function.                             *)
Quiet ==
    /\ UNCHANGED <<given, ad, output>>
    /\ poller' = "done" <=> poller = "done"
    /\ poller' = "enough" <=> poller = "enough"
    /\ \A i \in 1 .. 2 : Untouched(src[i], src'[i])

(* What the poll function is given: the answer a, and the inputs after it.  *)
Polls(a, inputs) ==
    \/ /\ ad.at # 0
       /\ \E r \in Answers(src[IF ad.at \in {1, 4} THEN 1 ELSE 2], ad.at, ad.io) :
            a = r[1] /\ inputs = [src EXCEPT ![IF ad.at \in {1, 4} THEN 1 ELSE 2] = r[2]]
    \/ ad.at = 0 /\ a = Unpolled /\ inputs = src

(* A step of the task is a quiet one, or one of the poll function.          *)
LEMMA AdapterSteps ==
    ASSUME Typed, ad.k \in WriterKinds, [AdapterNext]_pollVars
    PROVE  \/ Quiet /\ Typed'
           \/ poller = "polling" /\ \E a, inputs : Polls(a, inputs) /\ Apply(a, inputs)
<1>1. CASE StartPoll
  <2>1. Entry(ad) = {ad}
    BY DEF Entry, WriterKinds
  <2>2. UNCHANGED <<given, ad, src, output>> /\ poller = "woken" /\ poller' = "polling"
    BY <1>1, <2>1 DEF StartPoll
  <2> QED
    BY <2>2 DEF Quiet, Typed, Untouched, PollerStates
<1>2. CASE PollInput
  <2> DEFINE i == IF ad.at \in {1, 4} THEN 1 ELSE 2
  <2>1. Polled(i) = Answers(src[i], ad.at, ad.io)
    BY DEF Polled, WriterKinds, Fused, Comparisons, Joined
  <2>2. PICK r \in Polled(i) : Apply(r[1], [src EXCEPT ![i] = r[2]])
    BY <1>2 DEF PollInput
  <2>3. Polls(r[1], [src EXCEPT ![i] = r[2]])
    BY <1>2, <2>1, <2>2 DEF PollInput, Polls
  <2> QED
    BY <1>2, <2>2, <2>3 DEF PollInput
<1>3. CASE GoOn
  <2>1. Polls(Unpolled, src) /\ Apply(Unpolled, src) /\ poller = "polling"
    BY <1>3 DEF GoOn, Polls
  <2> QED
    BY <2>1
<1>4. ASSUME NEW i \in 1 .. 2, Arrive(i) PROVE Quiet /\ Typed'
  <2>1. src[i] \in InputRec /\ src[i].ty # "timer"
    BY DEF Typed
  <2> DEFINE t == [src[i] EXCEPT !.open = TRUE, !.reg = FALSE, !.n = src[i].n]
  <2>2. src' = [src EXCEPT ![i] = t] /\ t \in InputRec /\ Untouched(src[i], t)
    BY <1>4, <2>1 DEF Arrive, InputRec, Untouched, Typed
  <2> HIDE DEF t
  <2>3. UNCHANGED <<given, ad, output>>
    BY <1>4 DEF Arrive
  <2>4. /\ poller' \in PollerStates /\ (poller' = "done" <=> poller = "done")
        /\ (poller' = "enough" <=> poller = "enough")
    BY <1>4 DEF Arrive, Typed, PollerStates
  <2>5. src' \in [1 .. 2 -> InputRec] /\ \A j \in 1 .. 2 : Untouched(src[j], src'[j])
    BY <2>2 DEF Typed, Untouched
  <2> QED
    BY <2>3, <2>4, <2>5 DEF Quiet, Typed, Untouched
<1>5. CASE Rewoken \/ Finished \/ UNCHANGED pollVars
  BY <1>5 DEF Rewoken, Finished, pollVars, Quiet, Typed, Untouched, PollerStates
<1> QED
  BY <1>1, <1>2, <1>3, <1>4, <1>5 DEF AdapterNext

(* What a step of the poll function does to the task.                       *)
LEMMA Applied ==
    ASSUME NEW a, NEW inputs, NEW o, Apply(a, inputs),
           o = PollAdapter(ad, a, [i \in 1 .. 2 |-> inputs[i].over])
    PROVE  /\ UNCHANGED given
           /\ \A x : o = Loop(x) => ad' = x /\ src' = inputs /\ output' = output /\ poller' = "polling"
           /\ \A x : o = Park(x) =>
                ad' = x /\ src' = inputs /\ output' = output /\ poller' \in {"woken", "idle"}
           /\ \A x, v : o = Ready(x, v) =>
                ad' = x /\ src' = inputs /\ output' = Append(output, v) /\ poller' = "done"
<1>1. /\ ad' = o.ad /\ src' = Loaded(inputs, o) /\ UNCHANGED given
      /\ output' = IF o.r \in {"item", "ready"} THEN Append(output, o.v) ELSE output
      /\ poller' = CASE o.r = "loop" -> "polling"
                     [] o.r = "again" -> "woken"
                     [] o.r = "park" -> IF notified THEN "woken" ELSE "idle"
                     [] o.r \in {"end", "ready"} -> "done"
                     [] o.r = "item" -> IF Len(output') = MaxOut THEN "enough" ELSE "woken"
  BY DEF Apply
<1>2. ASSUME NEW x, o = Loop(x) PROVE o.r = "loop" /\ o.ad = x /\ o.load = <<>>
  BY <1>2 DEF Loop, Outcome
<1>3. ASSUME NEW x, o = Park(x) PROVE o.r = "park" /\ o.ad = x /\ o.load = <<>>
  BY <1>3 DEF Park, Outcome
<1>4. ASSUME NEW x, NEW v, o = Ready(x, v) PROVE o.r = "ready" /\ o.ad = x /\ o.v = v /\ o.load = <<>>
  BY <1>4 DEF Ready, Outcome
<1>5. o.load = <<>> => src' = inputs
  BY <1>1 DEF Loaded
<1> QED
  BY <1>1, <1>2, <1>3, <1>4, <1>5

-----------------------------------------------------------------------------
(* What a writer answers.                                                   *)

(* Refused: an error, an interruption or a zero; nothing was taken.         *)
Refused(a, s, t) ==
    /\ a \in {Err, [t |-> "interrupted"], Some(0)}
    /\ t.data = s.data /\ t.pos = s.pos /\ t.n = s.n /\ t.failed

(* Not ready: the waker is registered.                                      *)
Late(a, s, t) == a = Pending /\ Untouched(s, t)

(* The sink took the first k bytes, k > 0 unless there are none.            *)
Took(a, s, t, io) ==
    \E k \in Nat :
        /\ a = Some(k) /\ t.data = s.data \o SubSeq(io, 1, k)
        /\ IF io = <<>> THEN k = 0 ELSE k \in 1 .. Len(io)
        /\ s.ty = "whole" => k = Len(io)
        /\ t.pos = s.pos /\ t.n = s.n /\ t.failed = s.failed

(* The sink was flushed.                                                    *)
Flushed(a, s, t) ==
    a = Some(0) /\ t.data = s.data /\ t.n = Len(s.data) /\ t.pos = s.pos /\ t.failed = s.failed

(* Taking k of an input changes its position only.                          *)
LEMMA TakenInput ==
    ASSUME NEW s \in InputRec, s.ty # "ready", NEW k \in Int, s.pos + k \in Nat
    PROVE  /\ Taken(s, k) \in InputRec /\ Taken(s, k).pos = s.pos + k /\ Taken(s, k).ty = s.ty
           /\ Taken(s, k).data = s.data /\ Taken(s, k).n = s.n /\ Taken(s, k).failed = s.failed
           /\ Taken(s, k).fault = s.fault
<1>1. (s.ty = "ready") = FALSE
  OBVIOUS
<1>2. Taken(s, k) = [s EXCEPT !.pos = s.pos + k, !.open = FALSE]
  BY <1>1 DEF Taken
<1> QED
  BY <1>2 DEF InputRec

(* What a sink answers to a write or to a flush, and what it then holds.    *)
LEMMA WriterAnswer ==
    ASSUME NEW s \in InputRec, s.ty \in {"writer", "whole"}, NEW go \in {2, 3}, NEW io,
           go = 2 => io \in Seq(Nat), NEW r \in Answers(s, go, io)
    PROVE  /\ r[2] \in InputRec /\ r[2].ty = s.ty
           /\ \/ Late(r[1], s, r[2])
              \/ Refused(r[1], s, r[2]) /\ (go = 3 => r[1] = Err)
              \/ go = 2 /\ Took(r[1], s, r[2], io)
              \/ go = 3 /\ Flushed(r[1], s, r[2])
<1> DEFINE x == Taken(s, 0)
<1>1. /\ x \in InputRec /\ x.ty = s.ty /\ x.data = s.data /\ x.pos = s.pos /\ x.n = s.n
      /\ x.failed = s.failed
  <2>1. s.pos \in Nat /\ s.pos + 0 = s.pos
    BY DEF InputRec
  <2> QED
    BY <2>1, TakenInput
<1> HIDE DEF x
<1>2. CASE ~ s.open
  <2>1. r = <<Pending, [s EXCEPT !.reg = TRUE]>>
    BY <1>2 DEF Answers
  <2>2. [s EXCEPT !.reg = TRUE] \in InputRec /\ Untouched(s, [s EXCEPT !.reg = TRUE])
    BY DEF InputRec, Untouched
  <2> QED
    BY <2>1, <2>2 DEF Late, Untouched
<1>3. CASE s.open
  <2>1. \/ \E f \in s.fault : /\ go = 3 => f = "err"
                              /\ r = <<IF f = "zero" THEN Some(0) ELSE [t |-> f],
                                       [x EXCEPT !.fault = {}, !.failed = TRUE]>>
        \/ r \in WriteAnswers(s, go, io)
    BY <1>3 DEF Answers, x
  <2>2. CASE \E f \in s.fault : /\ go = 3 => f = "err"
                                /\ r = <<IF f = "zero" THEN Some(0) ELSE [t |-> f],
                                         [x EXCEPT !.fault = {}, !.failed = TRUE]>>
    <3>1. PICK f \in s.fault : /\ go = 3 => f = "err"
                               /\ r = <<IF f = "zero" THEN Some(0) ELSE [t |-> f],
                                        [x EXCEPT !.fault = {}, !.failed = TRUE]>>
      BY <2>2
    <3>2. f \in InputFaults
      BY DEF InputRec
    <3> DEFINE y == [x EXCEPT !.fault = {}, !.failed = TRUE]
    <3>3. y \in InputRec /\ y.ty = s.ty /\ y.data = s.data /\ y.pos = s.pos /\ y.n = s.n /\ y.failed
      BY <1>1 DEF InputRec
    <3> HIDE DEF y
    <3>4. r[2] = y /\ r[1] = IF f = "zero" THEN Some(0) ELSE [t |-> f]
      BY <3>1 DEF y
    <3>5. r[1] \in {Err, [t |-> "interrupted"], Some(0)} /\ (go = 3 => r[1] = Err)
      BY <3>1, <3>2, <3>4 DEF InputFaults, Err
    <3> QED
      BY <3>3, <3>4, <3>5 DEF Refused
  <2>3. CASE r \in WriteAnswers(s, go, io) /\ go = 3
    <3>1. r = <<Some(0), [x EXCEPT !.n = Len(s.data)]>>
      BY <2>3 DEF WriteAnswers, x
    <3>2. Len(s.data) \in Nat
      BY DEF InputRec
    <3>3. [x EXCEPT !.n = Len(s.data)] \in InputRec
      BY <1>1, <3>2 DEF InputRec
    <3> QED
      BY <1>1, <2>3, <3>1, <3>3 DEF Flushed, InputRec
  <2>4. CASE r \in WriteAnswers(s, go, io) /\ go = 2
    <3>1. PICK k \in IF s.ty = "whole" \/ io = <<>> THEN {Len(io)} ELSE 1 .. Len(io) :
              r = <<Some(k), [x EXCEPT !.data = @ \o SubSeq(io, 1, k)]>>
      <4>1. WriteAnswers(s, go, io) =
              {<<Some(k), [x EXCEPT !.data = @ \o SubSeq(io, 1, k)]>> :
                  k \in IF s.ty = "whole" \/ io = <<>> THEN {Len(io)} ELSE 1 .. Len(io)}
        <5>1. go # 3
          BY <2>4
        <5> QED
          BY <5>1, Zenon DEF WriteAnswers, x
      <4> QED
        BY <2>4, <4>1
    <3>2. io \in Seq(Nat) /\ Len(io) \in Nat /\ (io = <<>> <=> Len(io) = 0)
      BY <2>4, EmptySeq, LenProperties
    <3>3. k \in Nat /\ k <= Len(io) /\ (IF io = <<>> THEN k = 0 ELSE k \in 1 .. Len(io))
          /\ (s.ty = "whole" => k = Len(io))
      BY <3>1, <3>2
    <3>4. SubSeq(io, 1, k) \in Seq(Nat)
      BY <3>2, <3>3, SubSeqProperties
    <3> DEFINE y == [x EXCEPT !.data = @ \o SubSeq(io, 1, k)]
    <3>5. s.data \o SubSeq(io, 1, k) \in Seq(Nat)
      BY <3>4, ConcatProperties DEF InputRec
    <3>6. /\ y \in InputRec /\ y.ty = s.ty /\ y.data = s.data \o SubSeq(io, 1, k) /\ y.pos = s.pos
          /\ y.n = s.n /\ y.failed = s.failed
      BY <1>1, <3>5 DEF InputRec
    <3> HIDE DEF y
    <3>7. r[1] = Some(k) /\ r[2] = y
      BY <3>1 DEF y
    <3> QED
      BY <2>4, <3>3, <3>6, <3>7 DEF Took
  <2> QED
    BY <2>1, <2>2, <2>3, <2>4
<1> QED
  BY <1>2, <1>3

-----------------------------------------------------------------------------
(* A sequence is its first k elements and the others.                       *)
LEMMA SeqSplit ==
    ASSUME NEW s \in Seq(Nat), NEW k \in 0 .. Len(s)
    PROVE  /\ SubSeq(s, 1, k) \in Seq(Nat) /\ Len(SubSeq(s, 1, k)) = k
           /\ SubSeq(s, k + 1, Len(s)) \in Seq(Nat) /\ Len(SubSeq(s, k + 1, Len(s))) = Len(s) - k
           /\ SubSeq(s, 1, k) \o SubSeq(s, k + 1, Len(s)) = s
           /\ SubSeq(s, k + 1, Len(s)) = <<>> <=> k = Len(s)
<1>1. Len(s) \in Nat /\ k \in Nat /\ k <= Len(s) /\ \A i \in 1 .. Len(s) : s[i] \in Nat
  BY LenProperties, ElementOfSeq
<1>2. SubSeq(s, 1, k) \in Seq(Nat) /\ Len(SubSeq(s, 1, k)) = k
  <2>1. \A i \in 1 .. k : s[i] \in Nat
    BY <1>1
  <2> QED
    BY <1>1, <2>1, SubSeqProperties
<1>3. SubSeq(s, k + 1, Len(s)) \in Seq(Nat) /\ Len(SubSeq(s, k + 1, Len(s))) = Len(s) - k
  <2>1. \A i \in k + 1 .. Len(s) : s[i] \in Nat
    BY <1>1
  <2>2. k + 1 \in Int /\ Len(s) \in Int
    BY <1>1
  <2>3. /\ SubSeq(s, k + 1, Len(s)) \in Seq(Nat)
        /\ Len(SubSeq(s, k + 1, Len(s))) = IF k + 1 <= Len(s) THEN Len(s) - (k + 1) + 1 ELSE 0
    BY <2>1, <2>2, SubSeqProperties
  <2> QED
    BY <1>1, <2>3
<1>4. SubSeq(s, 1, k) \o SubSeq(s, k + 1, Len(s)) = SubSeq(s, 1, Len(s))
  <2>1. 1 \in 1 .. Len(s) + 1 /\ k \in 1 - 1 .. Len(s) /\ Len(s) \in k .. Len(s)
    BY <1>1
  <2> QED
    BY <2>1, ConcatAdjacentSubSeq
<1>5. SubSeq(s, 1, Len(s)) = s
  BY SubSeqFull
<1>6. SubSeq(s, k + 1, Len(s)) = <<>> <=> k = Len(s)
  <2> DEFINE v == SubSeq(s, k + 1, Len(s))
  <2>1. v \in Seq(Nat) /\ Len(v) = Len(s) - k
    BY <1>3
  <2> HIDE DEF v
  <2>2. v = <<>> <=> Len(v) = 0
    BY <2>1, EmptySeq
  <2>3. v = <<>> <=> k = Len(s)
    BY <1>1, <2>1, <2>2
  <2> QED
    BY <2>3 DEF v
<1> QED
  BY <1>2, <1>3, <1>4, <1>5, <1>6

(* Concatenation is associative.                                            *)
LEMMA SeqAssoc ==
    ASSUME NEW s \in Seq(Nat), NEW t \in Seq(Nat), NEW u \in Seq(Nat)
    PROVE  (s \o t) \o u = s \o (t \o u)
  OBVIOUS

(* SeqMoved: moving the first k elements of t to the end of s.              *)
LEMMA SeqMoved ==
    ASSUME NEW s \in Seq(Nat), NEW t \in Seq(Nat), NEW k \in 0 .. Len(t)
    PROVE  /\ s \o SubSeq(t, 1, k) \in Seq(Nat)
           /\ Len(s \o SubSeq(t, 1, k)) = Len(s) + k
           /\ (s \o SubSeq(t, 1, k)) \o SubSeq(t, k + 1, Len(t)) = s \o t
<1>1. /\ SubSeq(t, 1, k) \in Seq(Nat) /\ Len(SubSeq(t, 1, k)) = k
      /\ SubSeq(t, k + 1, Len(t)) \in Seq(Nat)
      /\ SubSeq(t, 1, k) \o SubSeq(t, k + 1, Len(t)) = t
  BY SeqSplit
<1> DEFINE u == SubSeq(t, 1, k)
           v == SubSeq(t, k + 1, Len(t))
<1>2. u \in Seq(Nat) /\ v \in Seq(Nat) /\ u \o v = t /\ Len(u) = k
  BY <1>1
<1> HIDE DEF u, v
<1>3. (s \o u) \o v = s \o t
  <2>1. (s \o u) \o v = s \o (u \o v)
    BY <1>2, SeqAssoc
  <2> QED
    BY <1>2, <2>1
<1>4. s \o u \in Seq(Nat) /\ Len(s \o u) = Len(s) + k
  BY <1>2, ConcatProperties
<1> QED
  BY <1>3, <1>4 DEF u, v

-----------------------------------------------------------------------------
(* WriterStep: a poll of the writer.                                        *)
LEMMA WriterStep ==
    ASSUME Typed, NEW a, NEW inputs, Polls(a, inputs), src[2].ty \in {"writer", "whole"},
           ad.at \in {2, 3}, ad.at = 2 => ad.io \in Seq(Nat)
    PROVE  /\ inputs \in [1 .. 2 -> InputRec] /\ inputs[1] = src[1] /\ inputs[2].ty = src[2].ty
           /\ \/ Late(a, src[2], inputs[2])
              \/ Refused(a, src[2], inputs[2]) /\ (ad.at = 3 => a = Err)
              \/ ad.at = 2 /\ Took(a, src[2], inputs[2], ad.io)
              \/ ad.at = 3 /\ Flushed(a, src[2], inputs[2])
<1>1. PICK r \in Answers(src[2], ad.at, ad.io) : a = r[1] /\ inputs = [src EXCEPT ![2] = r[2]]
  BY DEF Polls
<1>2. src[2] \in InputRec
  BY DEF Typed
<1>3. /\ r[2] \in InputRec /\ r[2].ty = src[2].ty
      /\ \/ Late(r[1], src[2], r[2])
         \/ Refused(r[1], src[2], r[2]) /\ (ad.at = 3 => r[1] = Err)
         \/ ad.at = 2 /\ Took(r[1], src[2], r[2], ad.io)
         \/ ad.at = 3 /\ Flushed(r[1], src[2], r[2])
  BY <1>1, <1>2, WriterAnswer, Zenon
<1>4. inputs \in [1 .. 2 -> InputRec] /\ inputs[1] = src[1] /\ inputs[2] = r[2]
  BY <1>1, <1>3 DEF Typed
<1> QED
  BY <1>1, <1>3, <1>4

(* Record: an adapter has the fields that Make gives it.                    *)
Record(x) ==
    x = [k |-> x.k, at |-> x.at, p |-> x.p, n |-> x.n, acc |-> x.acc, io |-> x.io]

(* Returned(v, good): what the future has returned: nothing while it runs, then *)
(* an error after a failure or Ok(v) if the work was good.                  *)
Returned(v, good) ==
    /\ poller # "enough"
    /\ poller # "done" => output = <<>>
    /\ poller = "done" => \/ /\ \E w : output = <<I!Error(w)>>
                             /\ src[1].failed \/ src[2].failed
                          \/ output = <<I!Ok(v)>> /\ good

(* WriteAllFuture::poll, answer by answer.                                  *)
LEMMA WriteAllPoll ==
    ASSUME NEW x, NEW a, Record(x)
    PROVE  /\ a = Unpolled => I!WriteAll(x, a) = Ready(x, I!Ok(0))
           /\ a \in {Err, [t |-> "interrupted"], Some(0)} => I!WriteAll(x, a) = Ready(x, I!Error(0))
           /\ \A k \in Nat \ {0} : a = Some(k) =>
                LET rest == SubSeq(x.acc, k + 1, Len(x.acc))
                IN  I!WriteAll(x, a) =
                      IF rest = <<>> THEN Ready([x EXCEPT !.acc = rest], I!Ok(0))
                      ELSE Loop([x EXCEPT !.acc = rest, !.at = 2, !.io = rest])
<1>1. a = Unpolled => I!WriteAll(x, a) = Ready(x, I!Ok(0))
  BY DEF Unpolled, I!WriteAll, Ready, I!Ready, Outcome, I!Outcome
<1>2. a \in {Err, [t |-> "interrupted"], Some(0)} => I!WriteAll(x, a) = Ready(x, I!Error(0))
  BY DEF I!WriteAll, Ready, I!Ready, Outcome, I!Outcome, Err, Some, I!IsErr
<1>3. ASSUME NEW k \in Nat \ {0}, a = Some(k)
      PROVE  LET rest == SubSeq(x.acc, k + 1, Len(x.acc))
             IN  I!WriteAll(x, a) =
                   IF rest = <<>> THEN Ready([x EXCEPT !.acc = rest], I!Ok(0))
                   ELSE Loop([x EXCEPT !.acc = rest, !.at = 2, !.io = rest])
  <2>1. a.t = "some" /\ a.v = k /\ ~ I!IsErr(a)
    BY <1>3 DEF Some, I!IsErr
  <2> DEFINE rest == I!From(x.acc, k + 1)
  <2>2. I!WriteAll(x, a) = IF rest = <<>> THEN I!Ready(I!Acc(x, rest), I!Ok(0))
                           ELSE I!Loop(I!PollWrite(I!Acc(x, rest), rest))
    BY <2>1 DEF I!WriteAll
  <2> HIDE DEF rest
  <2>3. I!PollWrite(I!Acc(x, rest), rest) = [x EXCEPT !.acc = rest, !.at = 2, !.io = rest]
    BY DEF Record, I!PollWrite, I!Acc
  <2>4. I!Acc(x, rest) = [x EXCEPT !.acc = rest]
    BY DEF I!Acc
  <2> QED
    BY <2>2, <2>3, <2>4 DEF Ready, I!Ready, Outcome, I!Outcome, Loop, I!Loop, rest, I!From
<1> QED
  BY <1>1, <1>2, <1>3

(* The three ways a poll function goes on.                                  *)
Waits(inputs) ==
    ad' = ad /\ src' = inputs /\ output' = output /\ poller' \in {"woken", "idle"}
Loops(x, inputs) ==
    ad' = x /\ src' = inputs /\ output' = output /\ poller' = "polling"
Returns(x, v, inputs) ==
    ad' = x /\ src' = inputs /\ output' = Append(output, v) /\ poller' = "done"

(* Turn: the adapter is polled, with the answer a and the inputs after it.  *)
Turn(a, inputs) ==
    /\ poller = "polling" /\ given' = given /\ Polls(a, inputs)
    /\ a = Pending => Waits(inputs)
    /\ \A x : a # Pending /\ PollFuture(ad, a) = Loop(x) => Loops(x, inputs)
    /\ \A x, v : a # Pending /\ PollFuture(ad, a) = Ready(x, v) => Returns(x, v, inputs)

(* A step of a writer is a quiet one, or a turn of its poll function.       *)
LEMMA WriterTurns ==
    ASSUME Typed, ad.k \in WriterKinds, [AdapterNext]_pollVars
    PROVE  (Quiet /\ Typed') \/ \E a, inputs : Turn(a, inputs)
<1>1. ASSUME NEW a, NEW inputs, Polls(a, inputs), Apply(a, inputs), poller = "polling"
      PROVE  Turn(a, inputs)
  <2> DEFINE o == PollAdapter(ad, a, [i \in 1 .. 2 |-> inputs[i].over])
  <2>1. (a = Pending => o = Park(ad)) /\ (a # Pending => o = PollFuture(ad, a))
    BY WriterPolls DEF WriterKinds
  <2>2. /\ UNCHANGED given
        /\ \A x : o = Loop(x) => ad' = x /\ src' = inputs /\ output' = output /\ poller' = "polling"
        /\ \A x : o = Park(x) =>
                ad' = x /\ src' = inputs /\ output' = output /\ poller' \in {"woken", "idle"}
        /\ \A x, v : o = Ready(x, v) =>
                ad' = x /\ src' = inputs /\ output' = Append(output, v) /\ poller' = "done"
    BY <1>1, Applied
  <2> HIDE DEF o
  <2> QED
    BY <1>1, <2>1, <2>2 DEF Turn, Waits, Loops, Returns
<1> QED
  BY <1>1, AdapterSteps

(* The types are kept by a turn that keeps the kinds of the inputs.         *)
LEMMA TypedAfter ==
    ASSUME Typed, NEW inputs \in [1 .. 2 -> InputRec], src' = inputs,
           inputs[1].ty = src[1].ty, inputs[2].ty = src[2].ty,
           poller' \in {"woken", "idle", "polling", "done"}
    PROVE  Typed'
  BY DEF Typed, PollerStates

(* A refused write took nothing and is on record.                           *)
LEMMA RefusedIs ==
    ASSUME NEW a, NEW s, NEW t, Refused(a, s, t)
    PROVE  /\ a \in {Err, [t |-> "interrupted"], Some(0)} /\ a # Pending /\ a # Unpolled
           /\ t.data = s.data /\ t.failed
  BY DEF Refused, Err, Some, Pending, Unpolled

(* Some(v) is none of the other answers.                                    *)
LEMMA SomeIs ==
    ASSUME NEW v, NEW a, a = Some(v)
    PROVE  /\ a # Pending /\ a # Unpolled /\ a.t = "some" /\ a.v = v
           /\ ~ I!IsErr(a)
  BY DEF Some, Pending, Unpolled, I!IsErr

-----------------------------------------------------------------------------
(* write_all()                                                              *)
WriteAllFits ==
    /\ ad.k = "write_all" /\ given.ad.k = "write_all" /\ src[2].ty \in {"writer", "whole"}
    /\ given.ad.acc \in Seq(Nat)
    /\ Record(ad) /\ ad.at \in {0, 2} /\ ad.acc \in Seq(Nat)
    /\ src[2].data \o ad.acc = given.ad.acc
    /\ Returned(0, ad.acc = <<>>)
    /\ poller # "done" => IF ad.at = 0 THEN ad.acc = <<>> ELSE ad.io = ad.acc /\ ad.acc # <<>>

(* Every step keeps what write_all() has and what the sink has together.    *)
LEMMA WriteAllKept ==
    ASSUME Typed, WriteAllFits, [AdapterNext]_pollVars
    PROVE  Typed' /\ WriteAllFits'
<1>1. CASE Quiet /\ Typed'
  <2>1. /\ given' = given /\ ad' = ad /\ output' = output
        /\ (poller' = "done" <=> poller = "done") /\ (poller' = "enough" <=> poller = "enough")
    BY <1>1 DEF Quiet
  <2>2. /\ src'[2].ty = src[2].ty /\ src'[2].data = src[2].data
        /\ src'[1].failed = src[1].failed /\ src'[2].failed = src[2].failed
    BY <1>1 DEF Quiet, Untouched
  <2>3. Returned(0, ad.acc = <<>>)'
    BY <2>1, <2>2 DEF WriteAllFits, Returned
  <2> QED
    BY <1>1, <2>1, <2>2, <2>3 DEF WriteAllFits
<1>2. ASSUME NEW a, NEW inputs, Turn(a, inputs)
      PROVE  Typed' /\ WriteAllFits'
  <2>1. /\ given' = given /\ Polls(a, inputs) /\ (a = Pending => Waits(inputs))
        /\ \A x : a # Pending /\ I!WriteAll(ad, a) = Loop(x) => Loops(x, inputs)
        /\ \A x, v : a # Pending /\ I!WriteAll(ad, a) = Ready(x, v) => Returns(x, v, inputs)
    BY <1>2, WriterOperators DEF Turn, WriteAllFits
  <2>2. /\ output = <<>> /\ Record(ad) /\ ad.acc \in Seq(Nat) /\ given.ad.acc \in Seq(Nat)
        /\ src[2].data \o ad.acc = given.ad.acc /\ src[2].data \in Seq(Nat)
        /\ src[2].ty \in {"writer", "whole"} /\ ad.k = "write_all" /\ given.ad.k = "write_all"
    BY <1>2 DEF WriteAllFits, Returned, Typed, InputRec, Turn
  <2>3. Append(output, I!Ok(0)) = <<I!Ok(0)>> /\ Append(output, I!Error(0)) = <<I!Error(0)>>
    BY <2>2
  <2>4. CASE ad.at = 0
    <3>1. a = Unpolled /\ inputs = src /\ ad.acc = <<>>
      BY <1>2, <2>1, <2>4 DEF Polls, WriteAllFits, Turn
    <3>2. a # Pending /\ I!WriteAll(ad, a) = Ready(ad, I!Ok(0))
      BY <2>2, <3>1, WriteAllPoll DEF Unpolled, Pending
    <3>3. ad' = ad /\ src' = src /\ output' = <<I!Ok(0)>> /\ poller' = "done"
      BY <2>1, <2>3, <3>1, <3>2 DEF Returns
    <3> QED
      BY <2>1, <3>1, <3>3 DEF WriteAllFits, Returned, Typed, PollerStates
  <2>5. CASE ad.at = 2
    <3>1. ad.io = ad.acc /\ ad.acc # <<>>
      BY <1>2, <2>5 DEF WriteAllFits, Turn
    <3>2. /\ inputs \in [1 .. 2 -> InputRec] /\ inputs[1] = src[1] /\ inputs[2].ty = src[2].ty
          /\ \/ Late(a, src[2], inputs[2])
             \/ Refused(a, src[2], inputs[2])
             \/ Took(a, src[2], inputs[2], ad.acc)
      BY <2>1, <2>2, <2>5, <3>1, WriterStep
    <3>4. CASE Late(a, src[2], inputs[2])
      <4>1. Waits(inputs) /\ inputs[2].data = src[2].data
        BY <2>1, <3>4 DEF Late, Untouched
      <4>2. WriteAllFits'
        BY <1>2, <2>1, <2>2, <2>5, <3>1, <3>2, <4>1 DEF WriteAllFits, Returned, Waits
      <4> QED
        BY <3>2, <4>1, <4>2, TypedAfter DEF Waits
    <3>5. CASE Refused(a, src[2], inputs[2])
      <4>1. a # Pending /\ I!WriteAll(ad, a) = Ready(ad, I!Error(0))
        BY <2>2, <3>5, RefusedIs, WriteAllPoll
      <4>2. Returns(ad, I!Error(0), inputs) /\ inputs[2].data = src[2].data /\ inputs[2].failed
        BY <2>1, <3>5, <4>1, RefusedIs
      <4>3. WriteAllFits'
        BY <2>1, <2>2, <2>3, <2>5, <3>2, <4>2 DEF WriteAllFits, Returned, Returns
      <4> QED
        BY <3>2, <4>2, <4>3, TypedAfter DEF Returns
    <3>6. CASE Took(a, src[2], inputs[2], ad.acc)
      <4>1. PICK k \in 1 .. Len(ad.acc) :
                a = Some(k) /\ inputs[2].data = src[2].data \o SubSeq(ad.acc, 1, k)
        BY <3>1, <3>6 DEF Took
      <4>2. k \in Nat \ {0} /\ k \in 0 .. Len(ad.acc)
        BY <2>2, LenProperties
      <4> DEFINE rest == SubSeq(ad.acc, k + 1, Len(ad.acc))
      <4>3. rest \in Seq(Nat) /\ inputs[2].data \o rest = given.ad.acc
        <5>1. SubSeq(ad.acc, k + 1, Len(ad.acc)) \in Seq(Nat)
          BY <2>2, <4>2, SeqSplit
        <5>2. (src[2].data \o SubSeq(ad.acc, 1, k)) \o SubSeq(ad.acc, k + 1, Len(ad.acc))
                = src[2].data \o ad.acc
          BY <2>2, <4>2, SeqMoved
        <5> QED
          BY <2>2, <4>1, <5>1, <5>2
      <4>4. a # Pending /\ I!WriteAll(ad, a) =
                IF rest = <<>> THEN Ready([ad EXCEPT !.acc = rest], I!Ok(0))
                ELSE Loop([ad EXCEPT !.acc = rest, !.at = 2, !.io = rest])
        <5>1. a # Pending
          BY <4>1, SomeIs
        <5> QED
          BY <2>2, <4>1, <4>2, <5>1, WriteAllPoll
      <4> HIDE DEF rest
      <4>5. CASE rest = <<>>
        <5>1. Returns([ad EXCEPT !.acc = rest], I!Ok(0), inputs)
          BY <2>1, <4>4, <4>5
        <5>2. Record(ad') /\ ad'.k = ad.k /\ ad'.at = 2 /\ ad'.acc = rest
          BY <2>2, <2>5, <5>1 DEF Record, Returns
        <5>3. WriteAllFits'
          BY <2>1, <2>2, <2>3, <3>2, <4>3, <4>5, <5>1, <5>2 DEF WriteAllFits, Returned, Returns
        <5> QED
          BY <3>2, <5>1, <5>3, TypedAfter DEF Returns
      <4>6. CASE rest # <<>>
        <5>1. Loops([ad EXCEPT !.acc = rest, !.at = 2, !.io = rest], inputs)
          BY <2>1, <4>4, <4>6
        <5>2. Record(ad') /\ ad'.k = ad.k /\ ad'.at = 2 /\ ad'.acc = rest /\ ad'.io = rest
          BY <2>2, <5>1 DEF Record, Loops
        <5>3. WriteAllFits'
          <6>1. Returned(0, ad.acc = <<>>)'
            BY <2>2, <5>1 DEF Returned, Loops
          <6>2. src'[2] = inputs[2] /\ given' = given
            BY <2>1, <5>1 DEF Loops
          <6>3. src'[2].ty \in {"writer", "whole"} /\ ad'.k = "write_all" /\ given'.ad.k = "write_all"
            BY <2>2, <3>2, <5>2, <6>2
          <6>4. src'[2].data \o ad'.acc = given'.ad.acc /\ ad'.acc \in Seq(Nat) /\ given'.ad.acc \in Seq(Nat)
            BY <2>2, <4>3, <5>2, <6>2
          <6>5. Record(ad') /\ ad'.at = 2 /\ ad'.io = ad'.acc /\ ad'.acc # <<>>
            BY <4>6, <5>2
          <6> QED
            BY <6>1, <6>3, <6>4, <6>5 DEF WriteAllFits
        <5> QED
          BY <3>2, <5>1, <5>3, TypedAfter DEF Loops
      <4> QED
        BY <4>5, <4>6
    <3> QED
      BY <3>2, <3>4, <3>5, <3>6
  <2> QED
    BY <2>4, <2>5 DEF WriteAllFits
<1> QED
  BY <1>1, <1>2, WriterTurns DEF WriterKinds, WriteAllFits

-----------------------------------------------------------------------------
(* write_fmt(), over a writer that takes all it is given                    *)
WriteFmtFits ==
    /\ ad.k = "write_fmt" /\ given.ad.k = "write_fmt" /\ src[2].ty = "whole"
    /\ Record(ad) /\ ad.acc \in Seq(Nat) /\ given.ad.acc = ad.acc
    /\ \/ ad.at = 2 /\ ad.n = 0 /\ src[2].data = <<>> /\ ad.io = ad.acc /\ ad.acc # <<>>
       \/ ad.at = 3 /\ ad.n = Len(ad.acc) /\ src[2].data = ad.acc
    /\ Returned(0, ad.at = 3 /\ src[2].n = Len(ad.acc))

(* WriteFmtFuture::poll, answer by answer.                                  *)
LEMMA WriteFmtPoll ==
    ASSUME NEW x, NEW a, Record(x)
    PROVE  /\ a \in {Err, [t |-> "interrupted"]} => I!WriteFmt(x, a) = Ready(x, I!Error(0))
           /\ x.at = 2 /\ a = Some(0) => I!WriteFmt(x, a) = Ready(x, I!Error(0))
           /\ x.at = 3 /\ a = Some(0) => I!WriteFmt(x, a) = Ready(x, I!Ok(0))
           /\ \A k \in Nat \ {0} : x.at = 2 /\ a = Some(k) /\ x.n + k = Len(x.acc) =>
                I!WriteFmt(x, a) = Loop([x EXCEPT !.n = Len(x.acc), !.at = 3])
<1>1. a \in {Err, [t |-> "interrupted"]} => I!WriteFmt(x, a) = Ready(x, I!Error(0))
  BY DEF I!WriteFmt, Ready, I!Ready, Outcome, I!Outcome, Err, I!IsErr
<1>2. x.at = 2 /\ a = Some(0) => I!WriteFmt(x, a) = Ready(x, I!Error(0))
  BY DEF I!WriteFmt, Ready, I!Ready, Outcome, I!Outcome, Some, I!IsErr
<1>3. x.at = 3 /\ a = Some(0) => I!WriteFmt(x, a) = Ready(x, I!Ok(0))
  BY DEF I!WriteFmt, Ready, I!Ready, Outcome, I!Outcome, Some, I!IsErr
<1>4. ASSUME NEW k \in Nat \ {0}, x.at = 2, a = Some(k), x.n + k = Len(x.acc)
      PROVE  I!WriteFmt(x, a) = Loop([x EXCEPT !.n = Len(x.acc), !.at = 3])
  <2>1. a.v = k /\ ~ I!IsErr(a)
    BY <1>4, SomeIs
  <2> DEFINE now == [x EXCEPT !.n = @ + a.v]
  <2>2. I!WriteFmt(x, a) =
          I!Loop(IF now.n = Len(x.acc) THEN I!PollFlush(now) ELSE I!PollWrite(now, x.acc))
    BY <1>4, <2>1 DEF I!WriteFmt
  <2>3. now = [x EXCEPT !.n = Len(x.acc)]
    BY <1>4, <2>1
  <2>4. now.n = Len(x.acc)
    BY <2>3 DEF Record
  <2>5. I!PollFlush(now) = [x EXCEPT !.n = Len(x.acc), !.at = 3]
    BY <2>3 DEF Record, I!PollFlush, I!At
  <2> HIDE DEF now
  <2> QED
    BY <2>2, <2>4, <2>5 DEF Loop, I!Loop, Outcome, I!Outcome
<1> QED
  BY <1>1, <1>2, <1>3, <1>4

(* Every step of write_fmt() over a writer that takes all it is given.      *)
LEMMA WriteFmtKept ==
    ASSUME Typed, WriteFmtFits, [AdapterNext]_pollVars
    PROVE  Typed' /\ WriteFmtFits'
<1>1. CASE Quiet /\ Typed'
  <2>1. /\ given' = given /\ ad' = ad /\ output' = output
        /\ (poller' = "done" <=> poller = "done") /\ (poller' = "enough" <=> poller = "enough")
    BY <1>1 DEF Quiet
  <2>2. /\ src'[2].ty = src[2].ty /\ src'[2].data = src[2].data /\ src'[2].n = src[2].n
        /\ src'[1].failed = src[1].failed /\ src'[2].failed = src[2].failed
    BY <1>1 DEF Quiet, Untouched
  <2>3. Returned(0, ad.at = 3 /\ src[2].n = Len(ad.acc))'
    BY <2>1, <2>2 DEF WriteFmtFits, Returned
  <2> QED
    BY <1>1, <2>1, <2>2, <2>3 DEF WriteFmtFits
<1>2. ASSUME NEW a, NEW inputs, Turn(a, inputs)
      PROVE  Typed' /\ WriteFmtFits'
  <2>1. /\ given' = given /\ Polls(a, inputs) /\ (a = Pending => Waits(inputs))
        /\ \A x : a # Pending /\ I!WriteFmt(ad, a) = Loop(x) => Loops(x, inputs)
        /\ \A x, v : a # Pending /\ I!WriteFmt(ad, a) = Ready(x, v) => Returns(x, v, inputs)
    BY <1>2, WriterOperators DEF Turn, WriteFmtFits
  <2>2. /\ output = <<>> /\ Record(ad) /\ ad.acc \in Seq(Nat) /\ given.ad.acc = ad.acc
        /\ src[2].ty = "whole" /\ ad.k = "write_fmt" /\ given.ad.k = "write_fmt" /\ ad.at \in {2, 3}
    BY <1>2 DEF WriteFmtFits, Returned, Turn
  <2>3. Append(output, I!Ok(0)) = <<I!Ok(0)>> /\ Append(output, I!Error(0)) = <<I!Error(0)>>
    BY <2>2
  <2>4. /\ inputs \in [1 .. 2 -> InputRec] /\ inputs[1] = src[1] /\ inputs[2].ty = src[2].ty
        /\ \/ Late(a, src[2], inputs[2])
           \/ Refused(a, src[2], inputs[2]) /\ (ad.at = 3 => a = Err)
           \/ ad.at = 2 /\ Took(a, src[2], inputs[2], ad.io)
           \/ ad.at = 3 /\ Flushed(a, src[2], inputs[2])
    <3>1. ad.at = 2 => ad.io \in Seq(Nat)
      BY DEF WriteFmtFits
    <3> QED
      BY <2>1, <2>2, <3>1, WriterStep
  <2>5. CASE Late(a, src[2], inputs[2])
    <3>1. Waits(inputs) /\ inputs[2].data = src[2].data
      BY <2>1, <2>5 DEF Late, Untouched
    <3>2. Returned(0, ad.at = 3 /\ src[2].n = Len(ad.acc))'
      BY <2>2, <3>1 DEF Returned, Waits
    <3>3. WriteFmtFits'
      BY <2>1, <2>4, <3>1, <3>2 DEF WriteFmtFits, Waits
    <3> QED
      BY <2>4, <3>1, <3>3, TypedAfter DEF Waits
  <2>6. CASE Refused(a, src[2], inputs[2]) /\ (ad.at = 3 => a = Err)
    <3>1. a # Pending /\ I!WriteFmt(ad, a) = Ready(ad, I!Error(0))
      <4>1. a \in {Err, [t |-> "interrupted"], Some(0)} /\ a # Pending
        BY <2>6, RefusedIs
      <4>2. a = Some(0) => ad.at = 2
        BY <2>2, <2>6 DEF Err, Some
      <4> QED
        BY <2>2, <4>1, <4>2, WriteFmtPoll
    <3>2. Returns(ad, I!Error(0), inputs) /\ inputs[2].data = src[2].data /\ inputs[2].failed
      BY <2>1, <2>6, <3>1, RefusedIs
    <3>3. Returned(0, ad.at = 3 /\ src[2].n = Len(ad.acc))'
      BY <2>3, <3>2 DEF Returned, Returns
    <3>4. WriteFmtFits'
      BY <2>1, <2>4, <3>2, <3>3 DEF WriteFmtFits, Returns
    <3> QED
      BY <2>4, <3>2, <3>4, TypedAfter DEF Returns
  <2>7. CASE ad.at = 2 /\ Took(a, src[2], inputs[2], ad.io)
    <3>1. ad.n = 0 /\ src[2].data = <<>> /\ ad.io = ad.acc /\ ad.acc # <<>>
      BY <2>7 DEF WriteFmtFits
    <3>2. a = Some(Len(ad.acc)) /\ inputs[2].data = <<>> \o SubSeq(ad.acc, 1, Len(ad.acc))
      BY <2>2, <2>7, <3>1 DEF Took
    <3>3. inputs[2].data = ad.acc /\ Len(ad.acc) \in Nat \ {0}
      BY <2>2, <3>1, <3>2, SubSeqFull, EmptySeq, LenProperties
    <3>4. a # Pending /\ I!WriteFmt(ad, a) = Loop([ad EXCEPT !.n = Len(ad.acc), !.at = 3])
      <4>1. a # Pending
        BY <3>2, SomeIs
      <4>2. ad.n + Len(ad.acc) = Len(ad.acc)
        BY <3>1, <3>3
      <4> QED
        BY <2>2, <2>7, <3>2, <3>3, <4>1, <4>2, WriteFmtPoll
    <3>5. Loops([ad EXCEPT !.n = Len(ad.acc), !.at = 3], inputs)
      BY <2>1, <3>4
    <3>6. Record(ad') /\ ad'.k = ad.k /\ ad'.at = 3 /\ ad'.acc = ad.acc /\ ad'.n = Len(ad.acc)
      BY <2>2, <3>5 DEF Record, Loops
    <3>7. Returned(0, ad.at = 3 /\ src[2].n = Len(ad.acc))'
      BY <2>2, <3>5 DEF Returned, Loops
    <3>8. src'[2].data = ad.acc /\ src'[2].ty = "whole"
      BY <2>2, <2>4, <3>3, <3>5 DEF Loops
    <3>9. WriteFmtFits'
      BY <2>1, <2>2, <3>6, <3>7, <3>8 DEF WriteFmtFits
    <3> QED
      BY <2>4, <3>5, <3>9, TypedAfter DEF Loops
  <2>8. CASE ad.at = 3 /\ Flushed(a, src[2], inputs[2])
    <3>1. a = Some(0) /\ inputs[2].data = src[2].data /\ inputs[2].n = Len(src[2].data)
      BY <2>8 DEF Flushed
    <3>2. a # Pending /\ I!WriteFmt(ad, a) = Ready(ad, I!Ok(0))
      BY <2>2, <2>8, <3>1, SomeIs, WriteFmtPoll
    <3>3. Returns(ad, I!Ok(0), inputs)
      BY <2>1, <3>2
    <3>4. src[2].data = ad.acc
      BY <2>8 DEF WriteFmtFits
    <3>5. Returned(0, ad.at = 3 /\ src[2].n = Len(ad.acc))'
      BY <2>3, <2>8, <3>1, <3>3, <3>4 DEF Returned, Returns
    <3>6. WriteFmtFits'
      BY <2>1, <2>4, <3>1, <3>3, <3>5 DEF WriteFmtFits, Returns
    <3> QED
      BY <2>4, <3>3, <3>6, TypedAfter DEF Returns
  <2> QED
    BY <2>4, <2>5, <2>6, <2>7, <2>8
<1> QED
  BY <1>1, <1>2, WriterTurns DEF WriterKinds, WriteFmtFits

-----------------------------------------------------------------------------
(* What a reader answers.                                                   *)
Failed(a, s, t) ==
    a \in {Err, [t |-> "interrupted"]} /\ t.pos = s.pos /\ t.failed /\ t.fault = {}

(* Gave: a reader gave the next k bytes, or none at the end.                *)
Gave(a, s, t) ==
    \E k \in 0 .. Len(After(s.data, s.pos)) :
        /\ a = Some(SubSeq(After(s.data, s.pos), 1, k)) /\ t.pos = s.pos + k
        /\ k = 0 => s.pos = Len(s.data)
        /\ t.fault = s.fault /\ t.failed = s.failed

(* The smaller of two numbers.                                              *)
LEMMA MinOfTwo ==
    ASSUME NEW m \in Nat, NEW n \in Nat
    PROVE  Min({m, n}) = IF m <= n THEN m ELSE n
<1> DEFINE x == IF m <= n THEN m ELSE n
<1>1. x \in {m, n} /\ \A y \in {m, n} : x <= y
  OBVIOUS
<1>2. \A z \in {m, n} : (\A y \in {m, n} : z <= y) => z = x
  OBVIOUS
<1> HIDE DEF x
<1>3. Min({m, n}) = x
  BY <1>1, <1>2, Zenon DEF Min
<1> QED
  BY <1>3 DEF x

(* The sequence after its first p elements.                                 *)
LEMMA AfterAt ==
    ASSUME NEW s \in Seq(Nat), NEW p \in 0 .. Len(s)
    PROVE  /\ After(s, p) \in Seq(Nat) /\ Len(After(s, p)) = Len(s) - p
           /\ After(s, p) = <<>> <=> p = Len(s)
           /\ \A i \in 1 .. Len(s) - p : After(s, p)[i] = s[p + i]
<1>1. Len(s) \in Nat /\ p \in Nat /\ p <= Len(s)
  BY LenProperties
<1>2. After(s, p) \in Seq(Nat) /\ Len(After(s, p)) = Len(s) - p /\ (After(s, p) = <<>> <=> p = Len(s))
  BY SeqSplit DEF After
<1>3. \A i \in p + 1 .. Len(s) : s[i] \in Nat
  BY <1>1, ElementOfSeq
<1>4. p + 1 \in Int /\ Len(s) \in Int
  BY <1>1
<1>5. \A i \in 1 .. Len(s) - (p + 1) + 1 : SubSeq(s, p + 1, Len(s))[i] = s[(p + 1) + i - 1]
  BY <1>3, <1>4, SubSeqProperties
<1>6. ASSUME NEW i \in 1 .. Len(s) - p PROVE After(s, p)[i] = s[p + i]
  <2>1. i \in 1 .. Len(s) - (p + 1) + 1 /\ (p + 1) + i - 1 = p + i
    BY <1>1
  <2> QED
    BY <1>5, <2>1 DEF After
<1> QED
  BY <1>2, <1>6

(* Moving k elements from what is left.                                     *)
LEMMA AfterFacts ==
    ASSUME NEW s \in Seq(Nat), NEW p \in 0 .. Len(s), NEW k \in 0 .. Len(After(s, p))
    PROVE  /\ p + k \in 0 .. Len(s)
           /\ SubSeq(After(s, p), 1, k) \in Seq(Nat)
           /\ SubSeq(After(s, p), 1, k) \o After(s, p + k) = After(s, p)
           /\ SubSeq(After(s, p), 1, k) = <<>> <=> k = 0
           /\ After(After(s, p), k) = After(s, p + k)
<1> DEFINE t == After(s, p)
           u == SubSeq(t, 1, k)
           v == After(t, k)
           w == After(s, p + k)
<1>1. Len(s) \in Nat /\ p \in Nat /\ p <= Len(s)
  BY LenProperties
<1>2. t \in Seq(Nat) /\ Len(t) = Len(s) - p /\ \A i \in 1 .. Len(s) - p : t[i] = s[p + i]
  BY AfterAt
<1>3. k \in 0 .. Len(t)
  OBVIOUS
<1> HIDE DEF t
<1>4. k \in Nat /\ k <= Len(t) /\ p + k \in 0 .. Len(s)
  BY <1>1, <1>2, <1>3
<1>5. v \in Seq(Nat) /\ Len(v) = Len(t) - k /\ \A i \in 1 .. Len(t) - k : v[i] = t[k + i]
  BY <1>2, <1>3, AfterAt
<1>6. w \in Seq(Nat) /\ Len(w) = Len(s) - (p + k) /\ \A i \in 1 .. Len(s) - (p + k) : w[i] = s[(p + k) + i]
  BY <1>4, AfterAt
<1>7. u \in Seq(Nat) /\ Len(u) = k /\ u \o v = t
  BY <1>2, <1>3, SeqSplit DEF After
<1>8. u = <<>> <=> k = 0
  BY <1>7, EmptySeq
<1> HIDE DEF u, v, w
<1>9. v = w
  <2>1. Len(v) = Len(w) /\ Len(v) = Len(s) - (p + k)
    BY <1>1, <1>2, <1>4, <1>5, <1>6
  <2>2. ASSUME NEW i \in 1 .. Len(v) PROVE v[i] = w[i]
    <3>1. /\ i \in 1 .. Len(t) - k /\ k + i \in 1 .. Len(s) - p /\ i \in 1 .. Len(s) - (p + k)
          /\ p + (k + i) = (p + k) + i
      BY <1>1, <1>2, <1>4, <2>1
    <3>2. v[i] = t[k + i] /\ t[k + i] = s[p + (k + i)] /\ w[i] = s[(p + k) + i]
      BY <1>2, <1>5, <1>6, <3>1
    <3> QED
      BY <3>1, <3>2
  <2> QED
    BY <1>5, <1>6, <2>1, <2>2, SeqEqual
<1> QED
  BY <1>4, <1>7, <1>8, <1>9 DEF t, u, v, w

(* ReaderStep: a poll of the reader.                                        *)
LEMMA ReaderStep ==
    ASSUME Typed, NEW a, NEW inputs, Polls(a, inputs), src[1].ty = "reader", ad.at = 1,
           ad.io \in Nat \ {0}, src[1].fault \subseteq {"err", "interrupted"},
           src[1].pos <= Len(src[1].data)
    PROVE  /\ inputs \in [1 .. 2 -> InputRec] /\ inputs[2] = src[2] /\ inputs[1].ty = src[1].ty
           /\ inputs[1].data = src[1].data
           /\ \/ Late(a, src[1], inputs[1])
              \/ Failed(a, src[1], inputs[1])
              \/ Gave(a, src[1], inputs[1])
<1> DEFINE s == src[1]
           rest == After(s.data, s.pos)
           x == Taken(s, 0)
<1>1. PICK r \in Answers(s, 1, ad.io) : a = r[1] /\ inputs = [src EXCEPT ![1] = r[2]]
  BY DEF Polls
<1>2. s \in InputRec /\ s.ty = "reader" /\ s.pos \in 0 .. Len(s.data) /\ s.data \in Seq(Nat)
      /\ s.fault \subseteq {"err", "interrupted"}
  BY LenProperties DEF Typed, InputRec
<1> HIDE DEF s
<1>3. rest \in Seq(Nat) /\ Len(rest) \in Nat /\ (rest = <<>> <=> s.pos = Len(s.data))
      /\ (rest = <<>> <=> Len(rest) = 0)
  BY <1>2, AfterAt, LenProperties, EmptySeq
<1>4. /\ r[2] \in InputRec /\ r[2].ty = s.ty /\ r[2].data = s.data
      /\ \/ Late(r[1], s, r[2])
         \/ Failed(r[1], s, r[2])
         \/ Gave(r[1], s, r[2])
  <2>1. CASE ~ s.open
    <3>1. r = <<Pending, [s EXCEPT !.reg = TRUE]>>
      BY <2>1 DEF Answers
    <3>2. [s EXCEPT !.reg = TRUE] \in InputRec /\ Untouched(s, [s EXCEPT !.reg = TRUE])
      BY <1>2 DEF InputRec, Untouched
    <3> QED
      BY <3>1, <3>2 DEF Late, Untouched
  <2>2. CASE s.open
    <3>1. \/ \E f \in s.fault : r = <<IF f = "zero" THEN Some(0) ELSE [t |-> f],
                                     [x EXCEPT !.fault = {}, !.failed = TRUE]>>
          \/ r \in ReadAnswers(s, 1, ad.io)
      BY <1>2, <2>2 DEF Answers, x
    <3>2. CASE \E f \in s.fault : r = <<IF f = "zero" THEN Some(0) ELSE [t |-> f],
                                       [x EXCEPT !.fault = {}, !.failed = TRUE]>>
      <4>1. PICK f \in s.fault : r = <<IF f = "zero" THEN Some(0) ELSE [t |-> f],
                                       [x EXCEPT !.fault = {}, !.failed = TRUE]>>
        BY <3>2
      <4>2. /\ x \in InputRec /\ x.ty = s.ty /\ x.data = s.data /\ x.pos = s.pos
        <5>1. s.pos + 0 = s.pos /\ s.pos \in Nat
          BY <1>2 DEF InputRec
        <5> QED
          BY <1>2, <5>1, TakenInput
      <4> HIDE DEF x
      <4> DEFINE y == [x EXCEPT !.fault = {}, !.failed = TRUE]
      <4>3. y \in InputRec /\ y.ty = s.ty /\ y.data = s.data /\ y.pos = s.pos /\ y.failed /\ y.fault = {}
        BY <4>2 DEF InputRec
      <4> HIDE DEF y
      <4>4. r[2] = y /\ r[1] = [t |-> f] /\ f \in {"err", "interrupted"}
        BY <1>2, <4>1 DEF y
      <4> QED
        BY <4>3, <4>4 DEF Failed, Err
    <3>3. CASE r \in ReadAnswers(s, 1, ad.io)
      <4>1. r \in {<<Some(Upto(rest, k)), Taken(s, k)>> :
                      k \in IF rest = <<>> THEN {0} ELSE 1 .. Min({ad.io, Len(rest)})}
        <5>1. 1 # 4 /\ ad.io # 0
          OBVIOUS
        <5> QED
          BY <3>3, <5>1, Zenon DEF ReadAnswers
      <4> HIDE DEF rest
      <4>2. PICK k \in IF rest = <<>> THEN {0} ELSE 1 .. Min({ad.io, Len(rest)}) :
                r = <<Some(Upto(rest, k)), Taken(s, k)>>
        BY <4>1, Zenon
      <4>3. k \in 0 .. Len(rest) /\ (k = 0 => s.pos = Len(s.data))
        <5>1. Min({ad.io, Len(rest)}) = IF ad.io <= Len(rest) THEN ad.io ELSE Len(rest)
          BY <1>3, MinOfTwo
        <5> QED
          BY <1>3, <4>2, <5>1
      <4>4. Upto(rest, k) = SubSeq(rest, 1, k)
        <5>1. Min({k, Len(rest)}) = k
          BY <1>3, <4>3, MinOfTwo
        <5> QED
          BY <5>1 DEF Upto
      <4>5. k \in Int /\ s.pos + k \in Nat
        BY <1>2, <1>3, <4>3
      <4>6. /\ Taken(s, k) \in InputRec /\ Taken(s, k).pos = s.pos + k /\ Taken(s, k).ty = s.ty
            /\ Taken(s, k).data = s.data /\ Taken(s, k).failed = s.failed
            /\ Taken(s, k).fault = s.fault
        BY <1>2, <4>5, TakenInput
      <4>7. r[1] = Some(SubSeq(rest, 1, k)) /\ r[2] = Taken(s, k)
        BY <4>2, <4>4
      <4>8. Gave(r[1], s, r[2])
        BY <4>3, <4>6, <4>7 DEF Gave, rest
      <4> QED
        BY <4>6, <4>7, <4>8
    <3> QED
      BY <3>1, <3>2, <3>3
  <2> QED
    BY <2>1, <2>2
<1>5. inputs \in [1 .. 2 -> InputRec] /\ inputs[2] = src[2] /\ inputs[1] = r[2]
  BY <1>1, <1>4 DEF Typed
<1> QED
  BY <1>1, <1>4, <1>5 DEF s

-----------------------------------------------------------------------------
(* copy()                                                                   *)
CopyFits ==
    /\ ad.k = "copy" /\ given.ad.k = "copy" /\ given.s = src[1].data
    /\ src[1].ty = "reader" /\ src[1].fault \subseteq {"err", "interrupted"}
    /\ src[1].pos <= Len(given.s) /\ src[2].ty \in {"writer", "whole"}
    /\ Record(ad) /\ ad.p \in Nat \ {0} /\ ad.acc \in Seq(Nat)
    /\ src[2].data \o (ad.acc \o After(given.s, src[1].pos)) = given.s
    /\ ad.n = Len(src[2].data)
    /\ \/ ad.at = 1 /\ ad.acc = <<>> /\ ad.io = ad.p
       \/ ad.at = 2 /\ ad.acc # <<>> /\ ad.io = ad.acc
       \/ ad.at = 3 /\ ad.acc = <<>> /\ src[1].pos = Len(given.s)
    /\ Returned(ad.n, ad.at = 3 /\ src[2].n = Len(given.s))
    /\ poller = "done" /\ ad.acc # <<>> => src[2].failed

(* CopyFuture::poll, answer by answer.                                      *)
LEMMA CopyPoll ==
    ASSUME NEW x, NEW a, Record(x)
    PROVE  /\ a \in {Err, [t |-> "interrupted"]} => I!Copy(x, a) = Ready(x, I!Error(x.n))
           /\ x.at = 2 /\ a = Some(0) => I!Copy(x, a) = Ready(x, I!Error(x.n))
           /\ x.at = 3 /\ a = Some(0) => I!Copy(x, a) = Ready(x, I!Ok(x.n))
           /\ \A v : x.at = 1 /\ a = Some(v) =>
                I!Copy(x, a) = Loop(IF v = <<>> THEN [x EXCEPT !.at = 3]
                                    ELSE [x EXCEPT !.acc = v, !.at = 2, !.io = v])
           /\ \A k \in Nat \ {0} : x.at = 2 /\ a = Some(k) =>
                LET rest == SubSeq(x.acc, k + 1, Len(x.acc))
                IN  I!Copy(x, a) =
                      Loop(IF rest = <<>>
                           THEN [x EXCEPT !.n = x.n + k, !.acc = rest, !.at = 1, !.io = x.p]
                           ELSE [x EXCEPT !.n = x.n + k, !.acc = rest, !.at = 2, !.io = rest])
<1>1. a \in {Err, [t |-> "interrupted"]} => I!Copy(x, a) = Ready(x, I!Error(x.n))
  BY DEF I!Copy, Ready, I!Ready, Outcome, I!Outcome, Err, I!IsErr
<1>2. x.at = 2 /\ a = Some(0) => I!Copy(x, a) = Ready(x, I!Error(x.n))
  BY DEF I!Copy, Ready, I!Ready, Outcome, I!Outcome, Some, I!IsErr
<1>3. x.at = 3 /\ a = Some(0) => I!Copy(x, a) = Ready(x, I!Ok(x.n))
  BY DEF I!Copy, Ready, I!Ready, Outcome, I!Outcome, Some, I!IsErr
<1>4. ASSUME NEW v, x.at = 1, a = Some(v)
      PROVE  I!Copy(x, a) = Loop(IF v = <<>> THEN [x EXCEPT !.at = 3]
                                 ELSE [x EXCEPT !.acc = v, !.at = 2, !.io = v])
  <2>1. a.v = v /\ ~ I!IsErr(a)
    BY <1>4, SomeIs
  <2>2. I!Copy(x, a) = I!Loop(IF v = <<>> THEN I!PollFlush(x) ELSE I!PollWrite(I!Acc(x, v), v))
    BY <1>4, <2>1 DEF I!Copy
  <2>3. I!PollFlush(x) = [x EXCEPT !.at = 3]
    BY DEF I!PollFlush, I!At
  <2>4. I!PollWrite(I!Acc(x, v), v) = [x EXCEPT !.acc = v, !.at = 2, !.io = v]
    BY DEF Record, I!PollWrite, I!Acc
  <2> QED
    BY <2>2, <2>3, <2>4 DEF Loop, I!Loop, Outcome, I!Outcome
<1>5. ASSUME NEW k \in Nat \ {0}, x.at = 2, a = Some(k)
      PROVE  LET rest == SubSeq(x.acc, k + 1, Len(x.acc))
             IN  I!Copy(x, a) =
                   Loop(IF rest = <<>>
                        THEN [x EXCEPT !.n = x.n + k, !.acc = rest, !.at = 1, !.io = x.p]
                        ELSE [x EXCEPT !.n = x.n + k, !.acc = rest, !.at = 2, !.io = rest])
  <2>1. a.v = k /\ ~ I!IsErr(a)
    BY <1>5, SomeIs
  <2> DEFINE rest == I!From(x.acc, k + 1)
             now == [x EXCEPT !.n = @ + k, !.acc = rest]
  <2>2. I!Copy(x, a) = I!Loop(IF rest = <<>> THEN I!PollRead(now, x.p) ELSE I!PollWrite(now, rest))
    BY <1>5, <2>1 DEF I!Copy
  <2> HIDE DEF rest
  <2>3. I!PollRead(now, x.p) = [x EXCEPT !.n = x.n + k, !.acc = rest, !.at = 1, !.io = x.p]
    BY DEF Record, I!PollRead
  <2>4. I!PollWrite(now, rest) = [x EXCEPT !.n = x.n + k, !.acc = rest, !.at = 2, !.io = rest]
    BY DEF Record, I!PollWrite
  <2> HIDE DEF now
  <2> QED
    BY <2>2, <2>3, <2>4 DEF Loop, I!Loop, Outcome, I!Outcome, rest, I!From
<1> QED
  BY <1>1, <1>2, <1>3, <1>4, <1>5

(* Every step keeps reader, buffer and sink of copy() together.             *)
LEMMA CopyKept ==
    ASSUME Typed, CopyFits, [AdapterNext]_pollVars
    PROVE  Typed' /\ CopyFits'
<1>1. CASE Quiet /\ Typed'
  <2>1. /\ given' = given /\ ad' = ad /\ output' = output
        /\ (poller' = "done" <=> poller = "done") /\ (poller' = "enough" <=> poller = "enough")
    BY <1>1 DEF Quiet
  <2>2. /\ src'[2].ty = src[2].ty /\ src'[2].data = src[2].data /\ src'[2].n = src[2].n
        /\ src'[1].failed = src[1].failed /\ src'[2].failed = src[2].failed
        /\ src'[1].ty = src[1].ty /\ src'[1].data = src[1].data /\ src'[1].pos = src[1].pos
        /\ src'[1].fault = src[1].fault
    BY <1>1 DEF Quiet, Untouched
  <2>3. Returned(ad.n, ad.at = 3 /\ src[2].n = Len(given.s))'
    BY <2>1, <2>2 DEF CopyFits, Returned
  <2> QED
    BY <1>1, <2>1, <2>2, <2>3 DEF CopyFits
<1>2. ASSUME NEW a, NEW inputs, Turn(a, inputs)
      PROVE  Typed' /\ CopyFits'
  <2> DEFINE E == Returned(ad.n, ad.at = 3 /\ src[2].n = Len(given.s))
             rest == After(given.s, src[1].pos)
  <2>1. /\ given' = given /\ Polls(a, inputs) /\ (a = Pending => Waits(inputs))
        /\ \A x : a # Pending /\ I!Copy(ad, a) = Loop(x) => Loops(x, inputs)
        /\ \A x, v : a # Pending /\ I!Copy(ad, a) = Ready(x, v) => Returns(x, v, inputs)
    BY <1>2, WriterOperators DEF Turn, CopyFits
  <2>2. /\ output = <<>> /\ Record(ad) /\ ad.acc \in Seq(Nat) /\ ad.p \in Nat \ {0}
        /\ src[2].ty \in {"writer", "whole"} /\ ad.k = "copy" /\ given.ad.k = "copy"
        /\ src[1].ty = "reader" /\ src[1].fault \subseteq {"err", "interrupted"}
        /\ given.s = src[1].data /\ src[1].data \in Seq(Nat) /\ src[2].data \in Seq(Nat)
        /\ src[1].pos \in Nat /\ src[1].pos <= Len(given.s)
        /\ src[2].data \o (ad.acc \o rest) = given.s /\ ad.n = Len(src[2].data)
    BY <1>2 DEF CopyFits, Returned, Turn, Typed, InputRec
  <2>3. /\ Append(output, I!Ok(ad.n)) = <<I!Ok(ad.n)>>
        /\ Append(output, I!Error(ad.n)) = <<I!Error(ad.n)>>
    BY <2>2
  <2>3a. src[1].pos \in 0 .. Len(given.s) /\ rest \in Seq(Nat)
    BY <2>2, LenProperties, AfterAt
  <2>4. ASSUME inputs \in [1 .. 2 -> InputRec], inputs[1].ty = src[1].ty, inputs[2].ty = src[2].ty,
               inputs[1].data = src[1].data, inputs[1].pos = src[1].pos,
               inputs[1].fault \subseteq {"err", "interrupted"}, inputs[2].data = src[2].data,
               \/ Waits(inputs)
               \/ /\ Returns(ad, I!Error(ad.n), inputs)
                  /\ (inputs[1].failed /\ ad.acc = <<>>) \/ inputs[2].failed
               \/ Returns(ad, I!Ok(ad.n), inputs) /\ ad.at = 3 /\ inputs[2].n = Len(given.s)
        PROVE  Typed' /\ CopyFits'
    <3>1. ad' = ad /\ src' = inputs /\ poller' \in {"woken", "idle", "done"}
      BY <2>4 DEF Waits, Returns
    <3>2. E'
      BY <2>1, <2>2, <2>3, <2>4, <3>1 DEF Returned, Waits, Returns
    <3>3. poller' = "done" /\ ad.acc # <<>> => inputs[2].failed
      BY <2>4 DEF Waits, Returns, CopyFits
    <3>4. CopyFits'
      BY <2>1, <2>2, <2>4, <3>1, <3>2, <3>3 DEF CopyFits
    <3> QED
      BY <2>4, <3>1, <3>4, TypedAfter
  <2>5. CASE ad.at = 1
    <3>1. ad.acc = <<>> /\ ad.io = ad.p
      BY <2>5 DEF CopyFits
    <3>2. /\ inputs \in [1 .. 2 -> InputRec] /\ inputs[2] = src[2] /\ inputs[1].ty = src[1].ty
          /\ inputs[1].data = src[1].data
          /\ \/ Late(a, src[1], inputs[1])
             \/ Failed(a, src[1], inputs[1])
             \/ Gave(a, src[1], inputs[1])
      BY <2>1, <2>2, <2>5, <3>1, ReaderStep
    <3>3. CASE Late(a, src[1], inputs[1])
      BY <2>1, <2>2, <2>4, <3>2, <3>3 DEF Late, Untouched
    <3>4. CASE Failed(a, src[1], inputs[1])
      <4>1. a # Pending /\ I!Copy(ad, a) = Ready(ad, I!Error(ad.n))
        <5>1. a \in {Err, [t |-> "interrupted"]}
          BY <3>4 DEF Failed
        <5>2. a # Pending
          BY <5>1 DEF Err, Pending
        <5> QED
          BY <2>2, <5>1, <5>2, CopyPoll
      <4>2. Returns(ad, I!Error(ad.n), inputs) /\ inputs[1].failed
        BY <2>1, <3>4, <4>1 DEF Failed
      <4> QED
        BY <2>2, <2>4, <3>1, <3>2, <3>4, <4>2 DEF Failed
    <3>5. CASE Gave(a, src[1], inputs[1])
      <4>1. PICK k \in 0 .. Len(rest) :
              /\ a = Some(SubSeq(rest, 1, k)) /\ inputs[1].pos = src[1].pos + k
              /\ k = 0 => src[1].pos = Len(src[1].data)
              /\ inputs[1].fault = src[1].fault
        BY <2>2, <3>5 DEF Gave
      <4> DEFINE v == SubSeq(rest, 1, k)
      <4>2. /\ inputs[1].pos \in 0 .. Len(given.s) /\ v \in Seq(Nat) /\ (v = <<>> <=> k = 0)
            /\ v \o After(given.s, inputs[1].pos) = rest
        <5>1. given.s \in Seq(Nat) /\ k \in 0 .. Len(After(given.s, src[1].pos))
          BY <2>2, <4>1
        <5>2. /\ src[1].pos + k \in 0 .. Len(given.s)
              /\ SubSeq(After(given.s, src[1].pos), 1, k) \in Seq(Nat)
              /\ SubSeq(After(given.s, src[1].pos), 1, k) \o After(given.s, src[1].pos + k)
                   = After(given.s, src[1].pos)
              /\ SubSeq(After(given.s, src[1].pos), 1, k) = <<>> <=> k = 0
          BY <2>3a, <5>1, AfterFacts
        <5> QED
          BY <4>1, <5>2
      <4>4. a = Some(v)
        BY <4>1
      <4> HIDE DEF v
      <4>3. a # Pending /\ I!Copy(ad, a) = Loop(IF v = <<>> THEN [ad EXCEPT !.at = 3]
                                               ELSE [ad EXCEPT !.acc = v, !.at = 2, !.io = v])
        <5>1. a # Pending
          BY <4>4, SomeIs
        <5> QED
          BY <2>2, <2>5, <4>4, <5>1, CopyPoll
      <4>5. Loops(IF v = <<>> THEN [ad EXCEPT !.at = 3]
                  ELSE [ad EXCEPT !.acc = v, !.at = 2, !.io = v], inputs)
        BY <2>1, <4>3
      <4>6. E'
        BY <2>2, <4>5 DEF Returned, Loops
      <4>6a. poller' # "done"
        BY <4>5 DEF Loops
      <4>7. src' = inputs /\ <<>> \o rest = rest
        BY <2>3a, <4>5 DEF Loops
      <4>8. CASE v = <<>>
        <5>1. /\ Record(ad') /\ ad'.k = ad.k /\ ad'.at = 3 /\ ad'.acc = <<>> /\ ad'.n = ad.n
              /\ ad'.p = ad.p
          BY <2>2, <3>1, <4>5, <4>8 DEF Record, Loops
        <5>2. inputs[1].pos = src[1].pos /\ src[1].pos = Len(given.s)
          BY <2>2, <4>1, <4>2, <4>8
        <5>3. CopyFits'
          BY <2>1, <2>2, <3>1, <3>2, <4>1, <4>6, <4>6a, <4>7, <5>1, <5>2 DEF CopyFits
        <5> QED
          BY <3>2, <4>5, <4>7, <5>3, TypedAfter DEF Loops
      <4>9. CASE v # <<>>
        <5>1. /\ Record(ad') /\ ad'.k = ad.k /\ ad'.at = 2 /\ ad'.acc = v /\ ad'.n = ad.n
              /\ ad'.p = ad.p /\ ad'.io = v
          BY <2>2, <4>5, <4>9 DEF Record, Loops
        <5>2. inputs[2].data \o (v \o After(given.s, inputs[1].pos)) = given.s
          BY <2>2, <3>1, <3>2, <4>2, <4>7
        <5>3. CopyFits'
          <6>1. src'[2].data \o (ad'.acc \o After(given.s, src'[1].pos)) = given.s
            BY <4>7, <5>1, <5>2
          <6>2. /\ src'[1].pos <= Len(given.s) /\ src'[1].fault \subseteq {"err", "interrupted"}
                /\ src'[1].data = given.s /\ src'[1].ty = "reader" /\ src'[2] = src[2]
            <7>1. inputs[1].pos <= Len(given.s)
              BY <4>2
            <7>2. inputs[1].fault = src[1].fault
              BY <4>1
            <7> QED
              BY <2>2, <3>2, <4>7, <7>1, <7>2
          <6> QED
            BY <2>1, <2>2, <4>2, <4>6, <4>6a, <4>9, <5>1, <6>1, <6>2 DEF CopyFits
        <5> QED
          BY <3>2, <4>5, <4>7, <5>3, TypedAfter DEF Loops
      <4> QED
        BY <4>8, <4>9
    <3> QED
      BY <3>2, <3>3, <3>4, <3>5
  <2>6. CASE ad.at \in {2, 3}
    <3>1. ad.at = 2 => ad.io = ad.acc /\ ad.acc # <<>>
      BY DEF CopyFits
    <3>2. /\ inputs \in [1 .. 2 -> InputRec] /\ inputs[1] = src[1] /\ inputs[2].ty = src[2].ty
          /\ \/ Late(a, src[2], inputs[2])
             \/ Refused(a, src[2], inputs[2]) /\ (ad.at = 3 => a = Err)
             \/ ad.at = 2 /\ Took(a, src[2], inputs[2], ad.io)
             \/ ad.at = 3 /\ Flushed(a, src[2], inputs[2])
      BY <2>1, <2>2, <2>6, <3>1, WriterStep
    <3>3. CASE Late(a, src[2], inputs[2])
      BY <2>1, <2>2, <2>4, <3>2, <3>3 DEF Late, Untouched
    <3>4. CASE Refused(a, src[2], inputs[2]) /\ (ad.at = 3 => a = Err)
      <4>1. a \in {Err, [t |-> "interrupted"], Some(0)} /\ a # Pending
        BY <3>4, RefusedIs
      <4>2. a = Some(0) => ad.at = 2
        BY <2>6, <3>4 DEF Err, Some
      <4>3. I!Copy(ad, a) = Ready(ad, I!Error(ad.n))
        BY <2>2, <4>1, <4>2, CopyPoll
      <4>4. Returns(ad, I!Error(ad.n), inputs) /\ inputs[2].data = src[2].data /\ inputs[2].failed
        BY <2>1, <3>4, <4>1, <4>3, RefusedIs
      <4> QED
        BY <2>2, <2>4, <3>2, <4>4
    <3>5. CASE ad.at = 3 /\ Flushed(a, src[2], inputs[2])
      <4>1. a = Some(0) /\ inputs[2].data = src[2].data /\ inputs[2].n = Len(src[2].data)
        BY <3>5 DEF Flushed
      <4>2. a # Pending /\ I!Copy(ad, a) = Ready(ad, I!Ok(ad.n))
        <5>1. a # Pending
          BY <4>1, SomeIs
        <5> QED
          BY <2>2, <3>5, <4>1, <5>1, CopyPoll
      <4>3. Returns(ad, I!Ok(ad.n), inputs)
        BY <2>1, <4>2
      <4>4. src[2].data = given.s
        <5>1. ad.acc = <<>> /\ rest = <<>>
          BY <2>2, <2>3a, <3>5, AfterAt DEF CopyFits
        <5> QED
          BY <2>2, <5>1
      <4> QED
        BY <2>2, <2>4, <3>2, <3>5, <4>1, <4>3, <4>4
    <3>6. CASE ad.at = 2 /\ Took(a, src[2], inputs[2], ad.io)
      <4>1. PICK k \in 1 .. Len(ad.acc) :
                a = Some(k) /\ inputs[2].data = src[2].data \o SubSeq(ad.acc, 1, k)
        BY <3>1, <3>6 DEF Took
      <4>2. k \in Nat \ {0} /\ k \in 0 .. Len(ad.acc)
        BY <2>2, LenProperties
      <4> DEFINE left == SubSeq(ad.acc, k + 1, Len(ad.acc))
      <4>3. left \in Seq(Nat) /\ inputs[2].data \in Seq(Nat) /\ inputs[2].data \o left = src[2].data \o ad.acc
            /\ Len(inputs[2].data) = Len(src[2].data) + k
        <5>1. SubSeq(ad.acc, k + 1, Len(ad.acc)) \in Seq(Nat)
          BY <2>2, <4>2, SeqSplit
        <5>2. /\ (src[2].data \o SubSeq(ad.acc, 1, k)) \o SubSeq(ad.acc, k + 1, Len(ad.acc))
                   = src[2].data \o ad.acc
              /\ Len(src[2].data \o SubSeq(ad.acc, 1, k)) = Len(src[2].data) + k
              /\ src[2].data \o SubSeq(ad.acc, 1, k) \in Seq(Nat)
          <6>1. src[2].data \in Seq(Nat) /\ ad.acc \in Seq(Nat)
            BY <2>2
          <6> QED
            BY <4>2, <6>1, SeqMoved
        <5> QED
          BY <4>1, <5>1, <5>2
      <4>4. a # Pending /\ I!Copy(ad, a) =
              Loop(IF left = <<>>
                   THEN [ad EXCEPT !.n = ad.n + k, !.acc = left, !.at = 1, !.io = ad.p]
                   ELSE [ad EXCEPT !.n = ad.n + k, !.acc = left, !.at = 2, !.io = left])
        <5>1. a # Pending
          BY <4>1, SomeIs
        <5> QED
          BY <2>2, <3>6, <4>1, <4>2, <5>1, CopyPoll
      <4> HIDE DEF left
      <4>5. Loops(IF left = <<>>
                  THEN [ad EXCEPT !.n = ad.n + k, !.acc = left, !.at = 1, !.io = ad.p]
                  ELSE [ad EXCEPT !.n = ad.n + k, !.acc = left, !.at = 2, !.io = left], inputs)
        BY <2>1, <4>4
      <4>6. E'
        BY <2>2, <4>5 DEF Returned, Loops
      <4>7. src' = inputs
        BY <4>5 DEF Loops
      <4>6a. poller' # "done"
        BY <4>5 DEF Loops
      <4>8. /\ Record(ad') /\ ad'.k = ad.k /\ ad'.acc = left /\ ad'.n = ad.n + k /\ ad'.p = ad.p
            /\ IF left = <<>> THEN ad'.at = 1 /\ ad'.io = ad.p ELSE ad'.at = 2 /\ ad'.io = left
        <5>1. CASE left = <<>>
          BY <2>2, <4>5, <5>1 DEF Record, Loops
        <5>2. CASE left # <<>>
          BY <2>2, <4>5, <5>2 DEF Record, Loops
        <5> QED
          BY <5>1, <5>2
      <4> HIDE DEF rest
      <4>9. inputs[2].data \o (left \o rest) = given.s
        <5>1. inputs[2].data \o (left \o rest) = (inputs[2].data \o left) \o rest
          BY <2>3a, <4>3, SeqAssoc
        <5>2. (src[2].data \o ad.acc) \o rest = src[2].data \o (ad.acc \o rest)
          BY <2>2, <2>3a, SeqAssoc
        <5> QED
          BY <2>2, <4>3, <5>1, <5>2
      <4>10. CopyFits'
        <5>1. src'[2].data \o (ad'.acc \o After(given.s, src'[1].pos)) = given.s
          BY <3>2, <4>7, <4>8, <4>9 DEF rest
        <5>2. ad'.n = Len(src'[2].data)
          BY <2>2, <4>3, <4>7, <4>8
        <5> QED
          BY <2>1, <2>2, <3>2, <4>3, <4>6, <4>6a, <4>7, <4>8, <5>1, <5>2 DEF CopyFits
      <4> QED
        BY <3>2, <4>5, <4>7, <4>10, TypedAfter DEF Loops
    <3> QED
      BY <3>2, <3>3, <3>4, <3>5, <3>6
  <2> QED
    BY <2>5, <2>6 DEF CopyFits
<1> QED
  BY <1>1, <1>2, WriterTurns DEF WriterKinds, CopyFits

-----------------------------------------------------------------------------
(* Stdout and Stderr: x is the adapter, w the descriptor, g the bytes.      *)
StdIdle(x, w, g) ==
    /\ x.acc = NoVal /\ w.data \o x.p = g
    /\ \/ x.at = 0
       \/ x.at = 2 /\ x.io = x.p /\ x.p # <<>>
       \/ x.at = 3 /\ x.p = <<>>
StdWrote(x, w, g) ==
    /\ x.at = 0 /\ x.p # <<>>
    /\ \E k \in 1 .. Len(x.p) : x.acc = <<"write", Some(k)>> /\ w.data \o After(x.p, k) = g
StdRefused(x, w, g) ==
    /\ x.at = 0 /\ x.p # <<>> /\ w.failed /\ w.data \o x.p = g
    /\ \E a \in {Err, [t |-> "interrupted"], Some(0)} : x.acc = <<"write", a>>
StdFlushed(x, w, g) ==
    /\ x.at = 0 /\ x.p = <<>> /\ w.data = g
    /\ \/ x.acc = <<"flush", Some(0)>> /\ w.n = Len(g)
       \/ x.acc = <<"flush", Err>> /\ w.failed

StdFits ==
    /\ ad.k \in {"stdout", "stderr"} /\ given.ad.k = ad.k /\ src[2].ty \in {"writer", "whole"}
    /\ given.ad.p \in Seq(Nat) /\ Record(ad) /\ ad.p \in Seq(Nat)
    /\ \/ StdIdle(ad, src[2], given.ad.p)
       \/ StdWrote(ad, src[2], given.ad.p)
       \/ StdRefused(ad, src[2], given.ad.p)
       \/ StdFlushed(ad, src[2], given.ad.p)
    /\ poller = "done" => StdIdle(ad, src[2], given.ad.p)
    /\ Returned(0, ad.p = <<>> /\ src[2].n = Len(given.ad.p))

(* What Stdout and Stderr do with the result of the blocking call.          *)
LEMMA StdPolled ==
    ASSUME NEW x, NEW a, Record(x), a.t # "unpolled"
    PROVE  I!Stdout(x, a) = Loop([x EXCEPT !.acc = <<IF x.at = 3 THEN "flush" ELSE "write", a>>,
                                           !.at = 0])
<1> DEFINE c == <<IF x.at = 3 THEN "flush" ELSE "write", a>>
<1>1. I!Stdout(x, a) = I!Loop(I!At(I!Acc(x, c), 0))
  BY DEF I!Stdout
<1> HIDE DEF c
<1>2. I!At(I!Acc(x, c), 0) = [x EXCEPT !.acc = c, !.at = 0]
  BY DEF Record, I!At, I!Acc
<1> QED
  BY <1>1, <1>2 DEF Loop, I!Loop, Outcome, I!Outcome, c

(* What they do with last_op, or without one.                               *)
LEMMA StdGoesOn ==
    ASSUME NEW x, Record(x), x.p \in Seq(Nat)
    PROVE  /\ x.acc = NoVal =>
                I!Stdout(x, Unpolled) = Loop(IF x.p = <<>> THEN [x EXCEPT !.acc = NoVal, !.at = 3]
                                             ELSE [x EXCEPT !.acc = NoVal, !.at = 2, !.io = x.p])
           /\ \A r \in {Err, [t |-> "interrupted"], Some(0)} :
                x.p # <<>> /\ x.acc = <<"write", r>> =>
                  I!Stdout(x, Unpolled) = Ready([x EXCEPT !.acc = NoVal], I!Error(0))
           /\ \A k \in 1 .. Len(x.p) : x.p # <<>> /\ x.acc = <<"write", Some(k)>> =>
                I!Stdout(x, Unpolled) = Loop([x EXCEPT !.acc = NoVal, !.p = After(x.p, k)])
           /\ x.p = <<>> /\ x.acc = <<"flush", Err>> =>
                I!Stdout(x, Unpolled) = Ready([x EXCEPT !.acc = NoVal], I!Error(0))
           /\ x.p = <<>> /\ x.acc = <<"flush", Some(0)>> =>
                I!Stdout(x, Unpolled) = Ready([x EXCEPT !.acc = NoVal], I!Ok(0))
<1> DEFINE op == IF x.p = <<>> THEN "flush" ELSE "write"
           idle == I!Acc(x, NoVal)
           took == x.acc[2]
<1>1. I!Stdout(x, Unpolled) =
        IF x.acc = NoVal \/ x.acc[1] # op
        THEN I!Loop(IF op = "flush" THEN I!PollFlush(idle) ELSE I!PollWrite(idle, x.p))
        ELSE IF took.t # "some" \/ (op = "write" /\ took.v = 0) THEN I!Ready(idle, I!Error(0))
        ELSE IF op = "flush" THEN I!Ready(idle, I!Ok(0))
        ELSE IF took.v > Len(x.p) THEN I!Loop(idle)
        ELSE I!Loop([idle EXCEPT !.p = I!From(@, took.v + 1)])
  BY DEF I!Stdout, Unpolled, NoVal, I!NoVal
<1>2. idle = [x EXCEPT !.acc = NoVal]
  BY DEF I!Acc
<1>3. I!PollFlush(idle) = [x EXCEPT !.acc = NoVal, !.at = 3]
  BY <1>2 DEF Record, I!PollFlush, I!At
<1>4. I!PollWrite(idle, x.p) = [x EXCEPT !.acc = NoVal, !.at = 2, !.io = x.p]
  BY <1>2 DEF Record, I!PollWrite
<1>5. ASSUME NEW k PROVE [idle EXCEPT !.p = I!From(@, k + 1)] = [x EXCEPT !.acc = NoVal, !.p = After(x.p, k)]
  <2>1. idle.p = x.p
    BY <1>2 DEF Record
  <2>2. I!From(x.p, k + 1) = After(x.p, k)
    BY DEF I!From, After
  <2> QED
    BY <1>2, <2>1, <2>2 DEF Record
<1>6. /\ I!Ready(idle, I!Error(0)) = Ready([x EXCEPT !.acc = NoVal], I!Error(0))
      /\ I!Ready(idle, I!Ok(0)) = Ready([x EXCEPT !.acc = NoVal], I!Ok(0))
      /\ \A y : I!Loop(y) = Loop(y)
  BY <1>2 DEF Ready, I!Ready, Loop, I!Loop, Outcome, I!Outcome
<1> HIDE DEF idle
<1>7. \A c, r : <<c, r>> # NoVal
  BY DEF NoVal
<1>8. x.acc = NoVal =>
        I!Stdout(x, Unpolled) = Loop(IF x.p = <<>> THEN [x EXCEPT !.acc = NoVal, !.at = 3]
                                     ELSE [x EXCEPT !.acc = NoVal, !.at = 2, !.io = x.p])
  BY <1>1, <1>3, <1>4, <1>6
<1>9. ASSUME NEW r \in {Err, [t |-> "interrupted"], Some(0)}, x.p # <<>>, x.acc = <<"write", r>>
      PROVE  I!Stdout(x, Unpolled) = Ready([x EXCEPT !.acc = NoVal], I!Error(0))
  <2>1. x.acc # NoVal /\ x.acc[1] = op /\ took = r /\ op = "write"
    BY <1>7, <1>9
  <2>2. took.t # "some" \/ took.v = 0
    BY <1>9, <2>1 DEF Err, Some
  <2> QED
    BY <1>1, <1>6, <2>1, <2>2
<1>10. ASSUME NEW k \in 1 .. Len(x.p), x.p # <<>>, x.acc = <<"write", Some(k)>>
       PROVE  I!Stdout(x, Unpolled) = Loop([x EXCEPT !.acc = NoVal, !.p = After(x.p, k)])
  <2>1. x.acc # NoVal /\ x.acc[1] = op /\ took = Some(k) /\ op = "write"
    BY <1>7, <1>10
  <2>2. took.t = "some" /\ took.v = k /\ k # 0 /\ ~ (k > Len(x.p))
    BY <2>1, LenProperties DEF Some
  <2>3. I!Stdout(x, Unpolled) = I!Loop([idle EXCEPT !.p = I!From(@, k + 1)])
    BY <1>1, <2>1, <2>2
  <2> QED
    BY <1>5, <1>6, <2>3
<1>11. ASSUME x.p = <<>>, x.acc = <<"flush", Err>>
       PROVE  I!Stdout(x, Unpolled) = Ready([x EXCEPT !.acc = NoVal], I!Error(0))
  <2>1. x.acc # NoVal /\ x.acc[1] = op /\ took = Err /\ op = "flush"
    BY <1>7, <1>11
  <2>2. took.t # "some"
    BY <2>1 DEF Err
  <2> QED
    BY <1>1, <1>6, <2>1, <2>2
<1>12. ASSUME x.p = <<>>, x.acc = <<"flush", Some(0)>>
       PROVE  I!Stdout(x, Unpolled) = Ready([x EXCEPT !.acc = NoVal], I!Ok(0))
  <2>1. x.acc # NoVal /\ x.acc[1] = op /\ took = Some(0) /\ op = "flush"
    BY <1>7, <1>12
  <2>2. took.t = "some"
    BY <2>1 DEF Some
  <2> QED
    BY <1>1, <1>6, <2>1, <2>2
<1> QED
  BY <1>8, <1>9, <1>10, <1>11, <1>12

(* Every step keeps what the caller and the descriptor have together.       *)
LEMMA StdKept ==
    ASSUME Typed, StdFits, [AdapterNext]_pollVars
    PROVE  Typed' /\ StdFits'
<1> DEFINE E == Returned(0, ad.p = <<>> /\ src[2].n = Len(given.ad.p))
           g == given.ad.p
<1>1. CASE Quiet /\ Typed'
  <2>1. /\ given' = given /\ ad' = ad /\ output' = output
        /\ (poller' = "done" <=> poller = "done") /\ (poller' = "enough" <=> poller = "enough")
    BY <1>1 DEF Quiet
  <2>2. /\ src'[2].ty = src[2].ty /\ src'[2].data = src[2].data /\ src'[2].n = src[2].n
        /\ src'[1].failed = src[1].failed /\ src'[2].failed = src[2].failed
    BY <1>1 DEF Quiet, Untouched
  <2>3. E'
    BY <2>1, <2>2 DEF StdFits, Returned
  <2>4. /\ StdIdle(ad, src[2], g) => StdIdle(ad', src'[2], g)
        /\ StdWrote(ad, src[2], g) => StdWrote(ad', src'[2], g)
        /\ StdRefused(ad, src[2], g) => StdRefused(ad', src'[2], g)
        /\ StdFlushed(ad, src[2], g) => StdFlushed(ad', src'[2], g)
    BY <2>1, <2>2 DEF StdIdle, StdWrote, StdRefused, StdFlushed
  <2> QED
    BY <1>1, <2>1, <2>2, <2>3, <2>4 DEF StdFits
<1>2. ASSUME NEW a, NEW inputs, Turn(a, inputs)
      PROVE  Typed' /\ StdFits'
  <2>1. /\ given' = given /\ Polls(a, inputs) /\ (a = Pending => Waits(inputs))
        /\ \A x : a # Pending /\ I!Stdout(ad, a) = Loop(x) => Loops(x, inputs)
        /\ \A x, v : a # Pending /\ I!Stdout(ad, a) = Ready(x, v) => Returns(x, v, inputs)
    BY <1>2, WriterOperators DEF Turn, StdFits, I!Stderr
  <2>2. /\ output = <<>> /\ Record(ad) /\ ad.p \in Seq(Nat) /\ g \in Seq(Nat)
        /\ src[2].ty \in {"writer", "whole"} /\ ad.k \in {"stdout", "stderr"} /\ given.ad.k = ad.k
        /\ src[2].data \in Seq(Nat)
        /\ \/ StdIdle(ad, src[2], g)
           \/ StdWrote(ad, src[2], g)
           \/ StdRefused(ad, src[2], g)
           \/ StdFlushed(ad, src[2], g)
    BY <1>2 DEF StdFits, Returned, Turn, Typed, InputRec
  <2>2a. Record(ad) /\ ad.p \in Seq(Nat) /\ src[2].data \in Seq(Nat)
    BY <2>2
  <2>3. Append(output, I!Ok(0)) = <<I!Ok(0)>> /\ Append(output, I!Error(0)) = <<I!Error(0)>>
    BY <2>2
  <2>4. ASSUME NEW x, inputs \in [1 .. 2 -> InputRec], inputs[1] = src[1], inputs[2].ty = src[2].ty,
               Loops(x, inputs), Record(x), x.k = ad.k, x.p \in Seq(Nat),
               \/ StdIdle(x, inputs[2], g)
               \/ StdWrote(x, inputs[2], g)
               \/ StdRefused(x, inputs[2], g)
               \/ StdFlushed(x, inputs[2], g)
        PROVE  Typed' /\ StdFits'
    <3>1. E'
      BY <2>2, <2>4 DEF Returned, Loops
    <3>2. ad' = x /\ src'[2] = inputs[2] /\ poller' # "done" /\ given' = given
      BY <2>1, <2>4 DEF Loops
    <3>3. StdFits'
      BY <2>2, <2>4, <3>1, <3>2 DEF StdFits
    <3> QED
      BY <2>4, <3>3, TypedAfter DEF Loops
  <2>5. ASSUME NEW v, inputs = src, Returns([ad EXCEPT !.acc = NoVal], v, inputs), ad.at = 0,
               src[2].data \o ad.p = g,
               \/ v = I!Error(0) /\ src[2].failed
               \/ v = I!Ok(0) /\ ad.p = <<>> /\ src[2].n = Len(g)
        PROVE  Typed' /\ StdFits'
    <3>1. /\ Record(ad') /\ ad'.k = ad.k /\ ad'.at = 0 /\ ad'.acc = NoVal /\ ad'.p = ad.p
      BY <2>2, <2>5 DEF Record, Returns
    <3>2. given' = given /\ src' = src /\ poller' = "done" /\ output' = <<v>>
      BY <2>1, <2>3, <2>5 DEF Returns
    <3>3. E'
      BY <2>5, <3>1, <3>2 DEF Returned
    <3>4. StdIdle(ad', src'[2], g)
      BY <2>5, <3>1, <3>2 DEF StdIdle
    <3>5. StdFits'
      BY <2>2, <3>1, <3>2, <3>3, <3>4 DEF StdFits
    <3> QED
      BY <3>2, <3>5 DEF Typed, PollerStates
  <2>6. CASE ad.at = 0
    <3>1. a = Unpolled /\ inputs = src /\ a # Pending
      BY <2>1, <2>6 DEF Polls, Unpolled, Pending
    <3>2. inputs \in [1 .. 2 -> InputRec]
      BY <3>1 DEF Typed
    <3>3. CASE StdIdle(ad, src[2], g)
      <4>1. ad.acc = NoVal /\ src[2].data \o ad.p = g
        BY <3>3 DEF StdIdle
      <4> DEFINE x == IF ad.p = <<>> THEN [ad EXCEPT !.acc = NoVal, !.at = 3]
                      ELSE [ad EXCEPT !.acc = NoVal, !.at = 2, !.io = ad.p]
      <4>2. I!Stdout(ad, a) = Loop(x)
        BY <2>2, <3>1, <4>1, StdGoesOn
      <4>3. /\ Record(x) /\ x.k = ad.k /\ x.p = ad.p /\ x.acc = NoVal
            /\ IF ad.p = <<>> THEN x.at = 3 ELSE x.at = 2 /\ x.io = ad.p
        <5>1. CASE ad.p = <<>>
          BY <2>2, <5>1 DEF Record
        <5>2. CASE ad.p # <<>>
          BY <2>2, <5>2 DEF Record
        <5> QED
          BY <5>1, <5>2
      <4> HIDE DEF x
      <4>4. Loops(x, inputs)
        BY <2>1, <3>1, <4>2
      <4>5. StdIdle(x, inputs[2], g)
        BY <3>1, <4>1, <4>3 DEF StdIdle
      <4> QED
        BY <2>2, <2>4, <3>1, <3>2, <4>3, <4>4, <4>5
    <3>4. CASE StdWrote(ad, src[2], g)
      <4>1. PICK k \in 1 .. Len(ad.p) : ad.acc = <<"write", Some(k)>> /\ src[2].data \o After(ad.p, k) = g
        BY <3>4 DEF StdWrote
      <4>2. ad.p # <<>> /\ k \in 0 .. Len(ad.p)
        BY <2>2, <3>4 DEF StdWrote
      <4>3. PICK q : q = After(ad.p, k)
        OBVIOUS
      <4>4. q \in Seq(Nat) /\ src[2].data \o q = g
        BY <2>2a, <4>1, <4>2, <4>3, AfterAt
      <4>5. PICK x : x = [ad EXCEPT !.acc = NoVal, !.p = q]
        OBVIOUS
      <4>6. Record(x) /\ x.k = ad.k /\ x.p = q /\ x.acc = NoVal /\ x.at = 0
        BY <2>2a, <2>6, <4>5 DEF Record
      <4>6a. I!Stdout(ad, a) = Loop(x)
        BY <2>2a, <3>1, <4>1, <4>2, <4>3, <4>5, StdGoesOn
      <4>7. Loops(x, inputs)
        BY <2>1, <3>1, <4>6a
      <4>8. StdIdle(x, inputs[2], g)
        BY <3>1, <4>4, <4>6 DEF StdIdle
      <4> QED
        BY <2>2, <2>4, <3>1, <3>2, <4>4, <4>6, <4>7, <4>8
    <3>5. CASE StdRefused(ad, src[2], g)
      <4>1. PICK r \in {Err, [t |-> "interrupted"], Some(0)} : ad.acc = <<"write", r>>
        BY <3>5 DEF StdRefused
      <4>2. ad.p # <<>> /\ src[2].failed /\ src[2].data \o ad.p = g
        BY <3>5 DEF StdRefused
      <4>3. I!Stdout(ad, a) = Ready([ad EXCEPT !.acc = NoVal], I!Error(0))
        BY <2>2, <3>1, <4>1, <4>2, StdGoesOn
      <4>4. Returns([ad EXCEPT !.acc = NoVal], I!Error(0), inputs)
        BY <2>1, <3>1, <4>3
      <4> QED
        BY <2>5, <2>6, <3>1, <4>2, <4>4
    <3>6. CASE StdFlushed(ad, src[2], g)
      <4>1. ad.p = <<>> /\ src[2].data = g /\ src[2].data \o ad.p = g
        BY <2>2, <3>6 DEF StdFlushed
      <4>2. CASE ad.acc = <<"flush", Some(0)>> /\ src[2].n = Len(g)
        <5>1. I!Stdout(ad, a) = Ready([ad EXCEPT !.acc = NoVal], I!Ok(0))
          BY <2>2, <3>1, <4>1, <4>2, StdGoesOn
        <5>2. Returns([ad EXCEPT !.acc = NoVal], I!Ok(0), inputs)
          BY <2>1, <3>1, <5>1
        <5> QED
          BY <2>5, <2>6, <3>1, <4>1, <4>2, <5>2
      <4>3. CASE ad.acc = <<"flush", Err>> /\ src[2].failed
        <5>1. I!Stdout(ad, a) = Ready([ad EXCEPT !.acc = NoVal], I!Error(0))
          BY <2>2, <3>1, <4>1, <4>3, StdGoesOn
        <5>2. Returns([ad EXCEPT !.acc = NoVal], I!Error(0), inputs)
          BY <2>1, <3>1, <5>1
        <5> QED
          BY <2>5, <2>6, <3>1, <4>1, <4>3, <5>2
      <4> QED
        BY <3>6, <4>2, <4>3 DEF StdFlushed
    <3> QED
      BY <2>2, <3>3, <3>4, <3>5, <3>6
  <2>7. CASE ad.at \in {2, 3}
    <3>1. /\ StdIdle(ad, src[2], g) /\ ad.acc = NoVal /\ src[2].data \o ad.p = g
          /\ IF ad.at = 3 THEN ad.p = <<>> ELSE ad.io = ad.p /\ ad.p # <<>>
      <4>1. StdWrote(ad, src[2], g) \/ StdRefused(ad, src[2], g) \/ StdFlushed(ad, src[2], g) => ad.at = 0
        BY DEF StdWrote, StdRefused, StdFlushed
      <4>2. StdIdle(ad, src[2], g)
        BY <2>2, <2>7, <4>1
      <4> QED
        BY <2>7, <4>2 DEF StdIdle
    <3>1a. ad.at = 3 => src[2].data = g
      <4>1. src[2].data \o <<>> = src[2].data
        BY <2>2a
      <4> QED
        BY <3>1, <4>1
    <3>2. /\ inputs \in [1 .. 2 -> InputRec] /\ inputs[1] = src[1] /\ inputs[2].ty = src[2].ty
          /\ \/ Late(a, src[2], inputs[2])
             \/ Refused(a, src[2], inputs[2]) /\ (ad.at = 3 => a = Err)
             \/ ad.at = 2 /\ Took(a, src[2], inputs[2], ad.io)
             \/ ad.at = 3 /\ Flushed(a, src[2], inputs[2])
      BY <2>1, <2>2, <2>7, <3>1, WriterStep
    <3>3. CASE Late(a, src[2], inputs[2])
      <4>1. Waits(inputs) /\ inputs[2].data = src[2].data
        BY <2>1, <3>3 DEF Late, Untouched
      <4>2. ad' = ad /\ src' = inputs /\ given' = given /\ poller' # "done"
        BY <2>1, <4>1 DEF Waits
      <4>3. StdIdle(ad', src'[2], g)
        BY <3>1, <4>1, <4>2 DEF StdIdle
      <4>4. E'
        BY <2>2, <4>1 DEF Returned, Waits
      <4>5. StdFits'
        BY <2>2, <3>2, <4>2, <4>3, <4>4 DEF StdFits
      <4> QED
        BY <3>2, <4>1, <4>5, TypedAfter DEF Waits
    <3>4a. PICK c : c = <<IF ad.at = 3 THEN "flush" ELSE "write", a>>
      OBVIOUS
    <3>4b. PICK x : x = [ad EXCEPT !.acc = c, !.at = 0]
      OBVIOUS
    <3>4. Record(x) /\ x.k = ad.k /\ x.p = ad.p /\ x.acc = c /\ x.at = 0
      BY <2>2a, <3>4b DEF Record
    <3>5. a.t # "unpolled" /\ a # Pending => Loops(x, inputs)
      BY <2>1, <2>2a, <3>4a, <3>4b, StdPolled
    <3>6. CASE Refused(a, src[2], inputs[2]) /\ (ad.at = 3 => a = Err)
      <4>1. /\ a \in {Err, [t |-> "interrupted"], Some(0)} /\ a # Pending
            /\ inputs[2].data = src[2].data /\ inputs[2].failed
        BY <3>6, RefusedIs
      <4>2. a.t # "unpolled"
        BY <4>1 DEF Err, Some
      <4>3. CASE ad.at = 3
        <5>1. StdFlushed(x, inputs[2], g)
          <6>1. x.acc = <<"flush", Err>>
            BY <3>4, <3>4a, <3>6, <4>3
          <6> QED
            BY <3>1, <3>1a, <3>4, <4>1, <4>3, <6>1 DEF StdFlushed
        <5> QED
          BY <2>2, <2>4, <3>2, <3>4, <3>5, <4>1, <4>2, <5>1
      <4>4. CASE ad.at = 2
        <5>1. StdRefused(x, inputs[2], g)
          <6>1. x.acc = <<"write", a>>
            BY <3>4, <3>4a, <4>4
          <6>3. x.p = ad.p /\ ad.p # <<>> /\ x.at = 0
            BY <3>1, <3>4, <4>4
          <6>2. x.at = 0 /\ x.p # <<>> /\ inputs[2].failed /\ inputs[2].data \o x.p = g
            BY <3>1, <4>1, <6>3
          <6> QED
            BY <4>1, <6>1, <6>2, Zenon DEF StdRefused
        <5> QED
          BY <2>2, <2>4, <3>2, <3>4, <3>5, <4>1, <4>2, <5>1
      <4> QED
        BY <2>7, <4>3, <4>4
    <3>7. CASE ad.at = 2 /\ Took(a, src[2], inputs[2], ad.io)
      <4>1. PICK k \in 1 .. Len(ad.p) :
                a = Some(k) /\ inputs[2].data = src[2].data \o SubSeq(ad.p, 1, k)
        <5>1. ad.io = ad.p /\ ad.p # <<>>
          BY <3>1, <3>7
        <5> QED
          BY <3>7, <5>1 DEF Took
      <4>2. a.t # "unpolled" /\ a # Pending
        BY <4>1 DEF Some, Pending
      <4>3. k \in 0 .. Len(ad.p) /\ src[2].data \in Seq(Nat) /\ ad.p \in Seq(Nat)
        BY <2>2
      <4>4. inputs[2].data \o After(ad.p, k) = g
        <5>1. (src[2].data \o SubSeq(ad.p, 1, k)) \o SubSeq(ad.p, k + 1, Len(ad.p)) = src[2].data \o ad.p
          BY <4>3, SeqMoved
        <5> QED
          BY <3>1, <4>1, <5>1 DEF After
      <4>5. StdWrote(x, inputs[2], g)
        <5>1. x.acc = <<"write", Some(k)>> /\ x.p = ad.p /\ x.at = 0 /\ ad.p # <<>>
          BY <3>1, <3>4, <3>4a, <3>7, <4>1
        <5> QED
          BY <4>1, <4>4, <5>1 DEF StdWrote
      <4> QED
        BY <2>2, <2>4, <3>2, <3>4, <3>5, <4>2, <4>5
    <3>8. CASE ad.at = 3 /\ Flushed(a, src[2], inputs[2])
      <4>1. a = Some(0) /\ inputs[2].data = src[2].data /\ inputs[2].n = Len(src[2].data)
        BY <3>8 DEF Flushed
      <4>2. a.t # "unpolled" /\ a # Pending
        BY <4>1 DEF Some, Pending
      <4>3. ad.p = <<>> /\ src[2].data = g
        BY <3>1, <3>1a, <3>8
      <4>4. StdFlushed(x, inputs[2], g)
        BY <3>4, <3>4a, <3>8, <4>1, <4>3 DEF StdFlushed
      <4> QED
        BY <2>2, <2>4, <3>2, <3>4, <3>5, <4>2, <4>4
    <3> QED
      BY <3>2, <3>3, <3>6, <3>7, <3>8
  <2> QED
    BY <2>2, <2>6, <2>7 DEF StdIdle, StdWrote, StdRefused, StdFlushed
<1> QED
  BY <1>1, <1>2, WriterTurns DEF WriterKinds, StdFits

-----------------------------------------------------------------------------
(* Induction over the natural numbers, as a statement about a set: the      *)
(* form of it the provers can use.                                          *)
LEMMA SetInduction ==
    ASSUME NEW M, 0 \in M, \A n \in Nat : n \in M => n + 1 \in M
    PROVE  Nat \subseteq M
<1> DEFINE T == Nat \ M
<1> SUFFICES ASSUME T # {} PROVE FALSE
  OBVIOUS
<1>1. PICK n \in T : \A m \in T : n <= m
  <2> DEFINE R == {ss \in Nat \X Nat : ss[1] < ss[2]}
  <2>1. IsWellFoundedOn(R, Nat)
    BY NatLessThanWellFounded DEF OpToRel
  <2> HIDE DEF R
  <2>2. T \subseteq Nat
    OBVIOUS
  <2> HIDE DEF T
  <2>3. PICK n \in T : \A m \in T : <<m, n>> \notin R
    BY <2>1, <2>2, WFMin, Zenon
  <2>4. ASSUME NEW m \in T PROVE n <= m
    <3>1. m \in Nat /\ n \in Nat
      BY <2>2
    <3>2. <<m, n>> \notin R
      BY <2>3
    <3>3. m < n => <<m, n>> \in R
      BY <3>1 DEF R
    <3> QED
      BY <3>1, <3>2, <3>3
  <2> QED
    BY <2>4
<1>2. n \in Nat /\ n # 0
  BY <1>1
<1>3. n - 1 \in Nat /\ n - 1 \notin T
  BY <1>1, <1>2
<1>4. n - 1 \in M
  BY <1>3
<1>5. (n - 1) + 1 \in M
  BY <1>3, <1>4
<1>6. (n - 1) + 1 = n
  BY <1>2
<1> QED
  BY <1>5, <1>6

(* FlattenSeq as the value of a recursive function.                         *)
LEMMA FlatDef ==
    ASSUME NEW s, Len(s) # 0
    PROVE  FlattenSeq(s) = (CHOOSE f : f = [i \in 1 .. Len(s) |-> IF i = 1 THEN s[i] ELSE f[i - 1] \o s[i]])[Len(s)]
  BY DEF FlattenSeq
(* f is that function for the first n pieces.                               *)
Flattens(f, s, n) ==
    f = [i \in 1 .. n |-> IF i = 1 THEN s[i] ELSE f[i - 1] \o s[i]]

(* There is such a function, by induction on n.                             *)
LEMMA FlattenExists ==
    ASSUME NEW s, NEW m \in Nat PROVE \E f : Flattens(f, s, m)
<1> DEFINE M == {n \in Nat : \E f : Flattens(f, s, n)}
<1>1. 0 \in M
  <2> DEFINE e == [i \in 1 .. 0 |-> 0]
  <2>1. e = [i \in 1 .. 0 |-> IF i = 1 THEN s[i] ELSE e[i - 1] \o s[i]]
    OBVIOUS
  <2> HIDE DEF e
  <2> QED
    BY <2>1 DEF Flattens
<1>2. ASSUME NEW n \in Nat, n \in M PROVE n + 1 \in M
  <2>1. PICK f : Flattens(f, s, n)
    BY <1>2
  <2>2. PICK last : last = IF n = 0 THEN s[1] ELSE f[n] \o s[n + 1]
    OBVIOUS
  <2>3. PICK g : g = [i \in 1 .. n + 1 |-> IF i = n + 1 THEN last ELSE f[i]]
    OBVIOUS
  <2>4. \A i \in 1 .. n + 1 : g[i] = IF i = 1 THEN s[i] ELSE g[i - 1] \o s[i]
    <3> SUFFICES ASSUME NEW i \in 1 .. n + 1 PROVE g[i] = IF i = 1 THEN s[i] ELSE g[i - 1] \o s[i]
      OBVIOUS
    <3>1. CASE i = n + 1
      <4>1. g[i] = last
        BY <2>3, <3>1
      <4>2. CASE n = 0
        BY <2>2, <3>1, <4>1, <4>2
      <4>3. CASE n # 0
        <5>1. i - 1 \in 1 .. n + 1 /\ i - 1 # n + 1 /\ i - 1 = n /\ i # 1
          BY <3>1, <4>3
        <5>2. g[i - 1] = f[n]
          BY <2>3, <5>1
        <5> QED
          BY <2>2, <3>1, <4>1, <4>3, <5>1, <5>2
      <4> QED
        BY <4>2, <4>3
    <3>2. CASE i # n + 1
      <4>1. i \in 1 .. n /\ g[i] = f[i]
        BY <2>3, <3>2
      <4>2. f[i] = IF i = 1 THEN s[i] ELSE f[i - 1] \o s[i]
        BY <2>1, <4>1 DEF Flattens
      <4>3. i # 1 => i - 1 \in 1 .. n + 1 /\ i - 1 # n + 1
        BY <4>1
      <4>4. i # 1 => g[i - 1] = f[i - 1]
        BY <2>3, <4>3
      <4> QED
        BY <4>1, <4>2, <4>4
    <3> QED
      BY <3>1, <3>2
  <2>5. g = [i \in 1 .. n + 1 |-> g[i]]
    BY <2>3
  <2>6. Flattens(g, s, n + 1)
    <3>1. [i \in 1 .. n + 1 |-> g[i]] = [i \in 1 .. n + 1 |-> IF i = 1 THEN s[i] ELSE g[i - 1] \o s[i]]
      BY <2>4
    <3> QED
      BY <2>5, <3>1, Zenon DEF Flattens
  <2> QED
    BY <2>6
<1> HIDE DEF M
<1>3. Nat \subseteq M
  BY <1>1, <1>2, SetInduction
<1>4. m \in M
  BY <1>3
<1> QED
  BY <1>4 DEF M

(* And FlattenSeq is its last value.                                        *)
LEMMA FlattenIs ==
    ASSUME NEW s \in Seq(Seq(Nat)), s # <<>>
    PROVE  \E f : /\ Flattens(f, s, Len(s)) /\ FlattenSeq(s) = f[Len(s)]
                  /\ \A i \in 1 .. Len(s) : f[i] \in Seq(Nat)
<1>1. Len(s) \in Nat \ {0} /\ \A i \in 1 .. Len(s) : s[i] \in Seq(Nat)
  BY EmptySeq, ElementOfSeq
<1>2. PICK f : f = CHOOSE h : Flattens(h, s, Len(s))
  OBVIOUS
<1>3. Flattens(f, s, Len(s))
  <2>1. \E h : Flattens(h, s, Len(s))
    BY <1>1, FlattenExists
  <2> QED
    BY <1>2, <2>1, Zenon
<1>4. FlattenSeq(s) = f[Len(s)]
  <2>1. FlattenSeq(s) = (CHOOSE h : h = [i \in 1 .. Len(s) |-> IF i = 1 THEN s[i] ELSE h[i - 1] \o s[i]])[Len(s)]
    BY <1>1, FlatDef
  <2> QED
    BY <1>2, <2>1, Zenon DEF Flattens
<1> DEFINE M == {n \in Nat : n \in 1 .. Len(s) => f[n] \in Seq(Nat)}
<1>5. 0 \in M
  OBVIOUS
<1>6. ASSUME NEW n \in Nat, n \in M PROVE n + 1 \in M
  <2> SUFFICES ASSUME n + 1 \in 1 .. Len(s) PROVE f[n + 1] \in Seq(Nat)
    OBVIOUS
  <2>1. f[n + 1] = IF n + 1 = 1 THEN s[n + 1] ELSE f[(n + 1) - 1] \o s[n + 1]
    BY <1>3, Zenon DEF Flattens
  <2>2. CASE n = 0
    BY <1>1, <2>1, <2>2
  <2>3. CASE n # 0
    <3>1. n \in 1 .. Len(s) /\ (n + 1) - 1 = n /\ n + 1 # 1
      BY <1>1, <2>3
    <3>2. f[n] \in Seq(Nat) /\ s[n + 1] \in Seq(Nat)
      BY <1>1, <1>6, <3>1
    <3> QED
      BY <2>1, <3>1, <3>2, ConcatProperties
  <2> QED
    BY <2>2, <2>3
<1> HIDE DEF M
<1>7. Nat \subseteq M
  BY <1>5, <1>6, SetInduction
<1>8. \A i \in 1 .. Len(s) : f[i] \in Seq(Nat)
  BY <1>1, <1>7 DEF M
<1> QED
  BY <1>3, <1>4, <1>8

(* FlattenSeq is the first piece, then the others flattened, by induction.  *)
LEMMA FlattenHead ==
    ASSUME NEW s \in Seq(Seq(Nat)), s # <<>>
    PROVE  FlattenSeq(s) \in Seq(Nat) /\ FlattenSeq(s) = s[1] \o FlattenSeq(Tail(s))
<1>1. PICK t : t = Tail(s)
  OBVIOUS
<1>2. /\ Len(s) \in Nat \ {0} /\ t \in Seq(Seq(Nat)) /\ Len(t) = Len(s) - 1
      /\ \A i \in 1 .. Len(t) : t[i] = s[i + 1]
      /\ \A i \in 1 .. Len(s) : s[i] \in Seq(Nat)
  BY <1>1, EmptySeq, ElementOfSeq, HeadTailProperties
<1>3. PICK f : /\ Flattens(f, s, Len(s)) /\ FlattenSeq(s) = f[Len(s)]
               /\ \A i \in 1 .. Len(s) : f[i] \in Seq(Nat)
  BY FlattenIs
<1>4. \A i \in 1 .. Len(s) : f[i] = IF i = 1 THEN s[i] ELSE f[i - 1] \o s[i]
  BY <1>3, Zenon DEF Flattens
<1>5. CASE t = <<>>
  <2>1. Len(s) = 1 /\ FlattenSeq(t) = <<>>
    BY <1>2, <1>5 DEF FlattenSeq
  <2>2. f[1] = s[1] /\ s[1] \in Seq(Nat)
    BY <1>2, <1>4, <2>1
  <2>3. s[1] \o <<>> = s[1]
    BY <2>2
  <2> QED
    BY <1>1, <1>3, <2>1, <2>2, <2>3
<1>6. CASE t # <<>>
  <2>1. PICK h : /\ Flattens(h, t, Len(t)) /\ FlattenSeq(t) = h[Len(t)]
                 /\ \A i \in 1 .. Len(t) : h[i] \in Seq(Nat)
    BY <1>2, <1>6, FlattenIs
  <2>2. \A i \in 1 .. Len(t) : h[i] = IF i = 1 THEN t[i] ELSE h[i - 1] \o t[i]
    BY <2>1, Zenon DEF Flattens
  <2>3. Len(t) \in Nat \ {0} /\ 1 \in 1 .. Len(t) /\ 1 \in 1 .. Len(s) /\ 2 \in 1 .. Len(s)
    <3>1. Len(t) \in Nat \ {0}
      BY <1>2, <1>6, EmptySeq
    <3> QED
      BY <1>2, <3>1
  <2>4. f[2] = s[1] \o h[1]
    <3>1. f[1] = s[1] /\ f[2] = f[1] \o s[2]
      <4>1. 2 # 1 /\ 2 - 1 = 1
        OBVIOUS
      <4>2. f[2] = IF 2 = 1 THEN s[2] ELSE f[2 - 1] \o s[2]
        BY <1>4, <2>3, Zenon
      <4>3. f[1] = IF 1 = 1 THEN s[1] ELSE f[1 - 1] \o s[1]
        BY <1>4, <2>3, Zenon
      <4> QED
        BY <4>1, <4>2, <4>3
    <3>2. h[1] = t[1] /\ t[1] = s[2]
      BY <1>2, <2>2, <2>3
    <3> QED
      BY <3>1, <3>2
  <2> DEFINE M == {n \in Nat : n \in 1 .. Len(t) => f[n + 1] = s[1] \o h[n]}
  <2>5. 0 \in M
    OBVIOUS
  <2>6. ASSUME NEW n \in Nat, n \in M PROVE n + 1 \in M
    <3>0. n + 1 \in Nat
      OBVIOUS
    <3> SUFFICES ASSUME n + 1 \in 1 .. Len(t) PROVE f[(n + 1) + 1] = s[1] \o h[n + 1]
      BY <3>0, Zenon
    <3>1. CASE n = 0
      <4>1. n + 1 = 1 /\ (n + 1) + 1 = 2
        BY <3>1
      <4> QED
        BY <2>4, <4>1
    <3>2. CASE n # 0
      <4>1. /\ n \in 1 .. Len(t) /\ (n + 1) - 1 = n /\ ((n + 1) + 1) - 1 = n + 1 /\ n + 1 # 1
            /\ (n + 1) + 1 \in 1 .. Len(s) /\ (n + 1) + 1 # 1
        BY <1>2, <3>2
      <4>2. f[(n + 1) + 1] = f[n + 1] \o s[(n + 1) + 1]
        BY <1>4, <4>1
      <4>3. h[n + 1] = h[n] \o t[n + 1] /\ t[n + 1] = s[(n + 1) + 1]
        BY <1>2, <2>2, <4>1
      <4>4. f[n + 1] = s[1] \o h[n]
        BY <2>6, <4>1
      <4>5. s[1] \in Seq(Nat) /\ h[n] \in Seq(Nat) /\ s[(n + 1) + 1] \in Seq(Nat)
        BY <1>2, <2>1, <2>3, <4>1
      <4>6. PICK u, v, w : u = s[1] /\ v = h[n] /\ w = s[(n + 1) + 1]
        OBVIOUS
      <4>6a. u \in Seq(Nat) /\ v \in Seq(Nat) /\ w \in Seq(Nat)
        BY <4>5, <4>6
      <4>7. (u \o v) \o w = u \o (v \o w)
        BY <4>6a, SeqAssoc
      <4> QED
        BY <4>2, <4>3, <4>4, <4>6, <4>7
    <3> QED
      BY <3>1, <3>2
  <2> HIDE DEF M
  <2>7. Len(t) \in M
    BY <2>3, <2>5, <2>6, SetInduction
  <2>8. f[Len(t) + 1] = s[1] \o h[Len(t)] /\ Len(t) + 1 = Len(s)
    <3>1. Len(t) \in 1 .. Len(t)
      BY <2>3
    <3>2. f[Len(t) + 1] = s[1] \o h[Len(t)]
      BY <2>7, <3>1, Zenon DEF M
    <3> QED
      BY <1>2, <3>2
  <2>9. f[Len(s)] \in Seq(Nat)
    BY <1>2, <1>3
  <2> QED
    BY <1>1, <1>3, <2>1, <2>8, <2>9
<1> QED
  BY <1>5, <1>6

-----------------------------------------------------------------------------
(* BufWriter                                                                *)
Piece == Seq(Nat) \ {<<>>}

(* A BufWriter.                                                             *)
BW(go, p, n, b, w, d, io) ==
    [k |-> "buf_writer", at |-> go, p |-> p, n |-> n,
     acc |-> [buf |-> b, written |-> w, direct |-> d], io |-> io]

(* What its poll function may be doing.                                     *)
BufAt(go, p, b, w, d, io) ==
    \/ go = 0 /\ w = 0 /\ d = FALSE
    \/ go = 2 /\ d = FALSE /\ w < Len(b) /\ io = After(b, w)
    \/ go = 2 /\ d = TRUE /\ p # <<>> /\ io = p[1] /\ b = <<>> /\ w = 0
    \/ go = 3 /\ d = FALSE /\ p = <<>> /\ b = <<>> /\ w = 0

(* BufHolds: the bytes of g are in the sink, the buffer or the pieces.      *)
BufHolds(x, data, g) ==
    \E go \in {0, 2, 3}, p \in Seq(Piece), n \in Nat, b \in Seq(Nat), w \in Nat, d \in BOOLEAN :
    \E io :
        /\ x = BW(go, p, n, b, w, d, io)
        /\ w <= Len(b) /\ data \o (After(b, w) \o FlattenSeq(p)) = g

(* BufRuns: and the poll under way is one that BufWriter makes.             *)
BufRuns(x, data, g) ==
    \E go \in {0, 2, 3}, p \in Seq(Piece), n \in Nat, b \in Seq(Nat), w \in Nat, d \in BOOLEAN :
    \E io :
        /\ x = BW(go, p, n, b, w, d, io)
        /\ w <= Len(b) /\ data \o (After(b, w) \o FlattenSeq(p)) = g
        /\ BufAt(go, p, b, w, d, io)

(* Pieces, the first one and the others.                                    *)
LEMMA PieceFacts ==
    ASSUME NEW p \in Seq(Piece)
    PROVE  /\ p \in Seq(Seq(Nat)) /\ FlattenSeq(p) \in Seq(Nat)
           /\ p # <<>> => /\ p[1] \in Seq(Nat) /\ p[1] # <<>> /\ Len(p[1]) \in Nat
                          /\ Tail(p) \in Seq(Piece) /\ FlattenSeq(Tail(p)) \in Seq(Nat)
                          /\ FlattenSeq(p) = p[1] \o FlattenSeq(Tail(p))
           /\ p = <<>> => FlattenSeq(p) = <<>>
<1>1. \A q \in Seq(Piece) : q \in Seq(Seq(Nat))
  BY SeqMonotonic DEF Piece
<1>2. FlattenSeq(<<>>) = <<>> /\ <<>> \in Seq(Nat)
  BY DEF FlattenSeq
<1>3. \A q \in Seq(Piece) : FlattenSeq(q) \in Seq(Nat)
  BY <1>1, <1>2, FlattenHead
<1>4. ASSUME p # <<>>
      PROVE  /\ p[1] \in Seq(Nat) /\ p[1] # <<>> /\ Len(p[1]) \in Nat
             /\ Tail(p) \in Seq(Piece)
             /\ FlattenSeq(p) = p[1] \o FlattenSeq(Tail(p))
  <2>1. 1 \in 1 .. Len(p)
    BY <1>4, EmptySeq
  <2>2. p[1] \in Piece
    BY <2>1, ElementOfSeq
  <2>3. Tail(p) \in Seq(Piece)
    BY <1>4, HeadTailProperties
  <2>4. FlattenSeq(p) = p[1] \o FlattenSeq(Tail(p))
    BY <1>1, <1>4, FlattenHead
  <2> QED
    BY <2>2, <2>3, <2>4, LenProperties DEF Piece
<1> QED
  BY <1>1, <1>2, <1>3, <1>4

(* poll_flush() of the inner writer.                                        *)
LEMMA BufFlushes ==
    ASSUME NEW go, NEW p, NEW n, NEW b, NEW w, NEW d, NEW io
    PROVE  I!PollFlush(BW(go, p, n, b, w, d, io)) = BW(3, p, n, b, w, d, io)
  BY DEF BW, I!PollFlush, I!At

(* poll_write() to the inner writer.                                        *)
LEMMA BufWrites ==
    ASSUME NEW go, NEW p, NEW n, NEW b, NEW w, NEW d, NEW io, NEW u
    PROVE  I!PollWrite(BW(go, p, n, b, w, d, io), u) = BW(2, p, n, b, w, d, u)
<1>1. PICK x : x = BW(go, p, n, b, w, d, io)
  OBVIOUS
<1>2. I!PollWrite(x, u) = [[x EXCEPT !.at = 2] EXCEPT !.io = u]
  BY DEF I!PollWrite
<1>3. PICK y : y = [x EXCEPT !.at = 2]
  OBVIOUS
<1>4. y = BW(2, p, n, b, w, d, io)
  BY <1>1, <1>3 DEF BW
<1>5. [y EXCEPT !.io = u] = BW(2, p, n, b, w, d, u)
  BY <1>4 DEF BW
<1> QED
  BY <1>1, <1>2, <1>3, <1>5

(* A piece goes to the inner writer directly.                               *)
LEMMA BufDirects ==
    ASSUME NEW go, NEW p, NEW n, NEW b, NEW w, NEW d, NEW io, NEW u
    PROVE  [BW(go, p, n, b, w, d, io) EXCEPT !.acc.direct = u] = BW(go, p, n, b, w, u, io)
  BY DEF BW

(* A piece is put into the buffer; a piece was taken by the inner writer.   *)
Stored(x, c, q) == [x EXCEPT !.acc.buf = c, !.p = q, !.at = 0]
Sent(x, e, q)   == [x EXCEPT !.acc.direct = e, !.at = 0, !.p = q]

(* What Stored makes of a BufWriter.                                        *)
LEMMA BufStores ==
    ASSUME NEW go, NEW p, NEW n, NEW b, NEW w, NEW d, NEW io, NEW c, NEW q
    PROVE  Stored(BW(go, p, n, b, w, d, io), c, q) = BW(0, q, n, c, w, d, io)
<1>1. PICK x : x = BW(go, p, n, b, w, d, io)
  OBVIOUS
<1>2. PICK y : y = [x EXCEPT !.acc.buf = c]
  OBVIOUS
<1>3. y = BW(go, p, n, c, w, d, io)
  BY <1>1, <1>2 DEF BW
<1>4. PICK z : z = [y EXCEPT !.p = q]
  OBVIOUS
<1>5. z = BW(go, q, n, c, w, d, io)
  BY <1>3, <1>4 DEF BW
<1>6. [z EXCEPT !.at = 0] = BW(0, q, n, c, w, d, io)
  BY <1>5 DEF BW
<1>7. Stored(x, c, q) = [[[x EXCEPT !.acc.buf = c] EXCEPT !.p = q] EXCEPT !.at = 0]
  BY DEF Stored
<1> QED
  BY <1>1, <1>2, <1>4, <1>6, <1>7

(* What Sent makes of a BufWriter.                                          *)
LEMMA BufSends ==
    ASSUME NEW go, NEW p, NEW n, NEW b, NEW w, NEW d, NEW io, NEW e, NEW q
    PROVE  Sent(BW(go, p, n, b, w, d, io), e, q) = BW(0, q, n, b, w, e, io)
<1>1. PICK x : x = BW(go, p, n, b, w, d, io)
  OBVIOUS
<1>2. PICK y : y = [x EXCEPT !.acc.direct = e]
  OBVIOUS
<1>3. y = BW(go, p, n, b, w, e, io)
  BY <1>1, <1>2 DEF BW
<1>4. PICK z : z = [y EXCEPT !.at = 0]
  OBVIOUS
<1>5. z = BW(0, p, n, b, w, e, io)
  BY <1>3, <1>4 DEF BW
<1>6. [z EXCEPT !.p = q] = BW(0, q, n, b, w, e, io)
  BY <1>5 DEF BW
<1>7. Sent(x, e, q) = [[[x EXCEPT !.acc.direct = e] EXCEPT !.at = 0] EXCEPT !.p = q]
  BY DEF Sent
<1> QED
  BY <1>1, <1>2, <1>4, <1>6, <1>7

(* o is another round, with the bytes where they should be.                 *)
BufGoes(o, data, g) == \E y : o = Loop(y) /\ BufRuns(y, data, g)

(* The part of poll_write() after the buffer was flushed, if it had to be.  *)
LEMMA BufRest ==
    ASSUME NEW go, NEW p \in Seq(Piece), NEW n \in Nat, NEW b \in Seq(Nat), NEW io, NEW d, d = FALSE,
           NEW data \in Seq(Nat), NEW g, data \o (b \o FlattenSeq(p)) = g,
           p = <<>> => b = <<>>, p # <<>> /\ Len(p[1]) >= n => b = <<>>
    PROVE  BufGoes(I!BufWriterRest(BW(go, p, n, b, 0, d, io)), data, g)
<1>1. PICK x : x = BW(go, p, n, b, 0, d, io)
  OBVIOUS
<1>2. x.p = p /\ x.n = n
  BY <1>1 DEF BW
<1>3. After(b, 0) = b /\ 0 <= Len(b)
  BY SubSeqFull, LenProperties DEF After
<1>4. CASE p = <<>>
  <2>1. I!BufWriterRest(x) = I!Loop(I!PollFlush(x))
    BY <1>2, <1>4 DEF I!BufWriterRest
  <2>2. I!PollFlush(x) = BW(3, p, n, b, 0, d, io)
    <3>1. I!PollFlush(BW(go, p, n, b, 0, d, io)) = BW(3, p, n, b, 0, d, io)
      BY BufFlushes
    <3> QED
      BY <1>1, <3>1
  <2>3. BufAt(3, p, b, 0, d, io)
    BY <1>4 DEF BufAt
  <2>4. BufRuns(BW(3, p, n, b, 0, d, io), data, g)
    BY <1>3, <2>3 DEF BufRuns
  <2> QED
    BY <1>1, <2>1, <2>2, <2>4 DEF BufGoes, Loop, I!Loop, Outcome, I!Outcome
<1>5. CASE p # <<>> /\ Len(p[1]) >= n
  <2>0. PICK e \in BOOLEAN : e = TRUE
    OBVIOUS
  <2>1. I!BufWriterRest(x) = I!Loop(I!PollWrite([x EXCEPT !.acc.direct = TRUE], p[1]))
    BY <1>2, <1>5 DEF I!BufWriterRest
  <2>2. I!PollWrite([x EXCEPT !.acc.direct = TRUE], p[1]) = BW(2, p, n, b, 0, e, p[1])
    <3>1. [BW(go, p, n, b, 0, d, io) EXCEPT !.acc.direct = e] = BW(go, p, n, b, 0, e, io)
      BY BufDirects
    <3>2. I!PollWrite(BW(go, p, n, b, 0, e, io), p[1]) = BW(2, p, n, b, 0, e, p[1])
      BY BufWrites
    <3> QED
      BY <1>1, <2>0, <3>1, <3>2
  <2>3. BufAt(2, p, b, 0, e, p[1])
    BY <1>5, <2>0 DEF BufAt
  <2>4. BufRuns(BW(2, p, n, b, 0, e, p[1]), data, g)
    BY <1>3, <2>3 DEF BufRuns
  <2> QED
    BY <1>1, <2>1, <2>2, <2>4 DEF BufGoes, Loop, I!Loop, Outcome, I!Outcome
<1>6. CASE p # <<>> /\ ~ (Len(p[1]) >= n)
  <2>1. PICK c, q : c = b \o p[1] /\ q = Tail(p)
    OBVIOUS
  <2>2. I!BufWriterRest(x) = I!Loop([x EXCEPT !.acc.buf = @ \o x.p[1], !.p = Tail(@), !.at = 0])
    BY <1>2, <1>6 DEF I!BufWriterRest
  <2>3. [x EXCEPT !.acc.buf = @ \o x.p[1], !.p = Tail(@), !.at = 0] = BW(0, q, n, c, 0, d, io)
    <3>1. x.acc.buf \o x.p[1] = c /\ Tail(x.p) = q
      BY <1>1, <2>1 DEF BW
    <3>2. [x EXCEPT !.acc.buf = @ \o x.p[1], !.p = Tail(@), !.at = 0] = Stored(x, c, q)
      BY <3>1 DEF Stored
    <3>3. Stored(BW(go, p, n, b, 0, d, io), c, q) = BW(0, q, n, c, 0, d, io)
      BY BufStores
    <3> QED
      BY <1>1, <3>2, <3>3
  <2>4. BufAt(0, q, c, 0, d, io)
    BY DEF BufAt
  <2>5. /\ p[1] \in Seq(Nat) /\ q \in Seq(Piece) /\ FlattenSeq(q) \in Seq(Nat)
        /\ FlattenSeq(p) = p[1] \o FlattenSeq(q)
    BY <1>6, <2>1, PieceFacts
  <2>6. c \in Seq(Nat) /\ After(c, 0) = c /\ 0 <= Len(c)
    <3>1. c \in Seq(Nat)
      BY <2>1, <2>5, ConcatProperties
    <3> QED
      BY <3>1, SubSeqFull, LenProperties DEF After
  <2>7. (b \o p[1]) \o FlattenSeq(q) = b \o (p[1] \o FlattenSeq(q))
    BY <2>5, SeqAssoc
  <2>8. data \o (After(c, 0) \o FlattenSeq(q)) = g
    BY <2>1, <2>5, <2>6, <2>7
  <2>9. BufRuns(BW(0, q, n, c, 0, d, io), data, g)
    BY <2>4, <2>5, <2>6, <2>8 DEF BufRuns
  <2> QED
    BY <1>1, <2>2, <2>3, <2>9 DEF BufGoes, Loop, I!Loop, Outcome, I!Outcome
<1> QED
  BY <1>4, <1>5, <1>6

(* buf.drain(..written).                                                    *)
LEMMA BufDrained ==
    ASSUME NEW go, NEW p, NEW n, NEW b, NEW w, NEW d, NEW io
    PROVE  I!Drained(BW(go, p, n, b, w, d, io)) = BW(go, p, n, After(b, w), 0, d, io)
<1>1. PICK x : x = BW(go, p, n, b, w, d, io)
  OBVIOUS
<1>2. PICK c : c = After(b, w)
  OBVIOUS
<1>3. I!From(b, w + 1) = c
  BY <1>2 DEF I!From, After
<1>4. I!Drained(x) = [x EXCEPT !.acc.buf = I!From(@, x.acc.written + 1), !.acc.written = 0]
  BY DEF I!Drained
<1>5. x.acc.written = w /\ x.acc.buf = b
  BY <1>1 DEF BW
<1>6. I!Drained(x) = [x EXCEPT !.acc.buf = c, !.acc.written = 0]
  BY <1>3, <1>4, <1>5
<1>7. [x EXCEPT !.acc.buf = c, !.acc.written = 0] = BW(go, p, n, c, 0, d, io)
  <2>1. PICK y : y = [x EXCEPT !.acc.buf = c]
    OBVIOUS
  <2>2. y = BW(go, p, n, c, w, d, io)
    BY <1>1, <2>1 DEF BW
  <2>3. [y EXCEPT !.acc.written = 0] = BW(go, p, n, c, 0, d, io)
    BY <2>2 DEF BW
  <2>4. [x EXCEPT !.acc.buf = c, !.acc.written = 0] = [[x EXCEPT !.acc.buf = c] EXCEPT !.acc.written = 0]
    OBVIOUS
  <2> QED
    BY <2>1, <2>3, <2>4
<1> QED
  BY <1>1, <1>2, <1>6, <1>7

(* poll_flush_buf().                                                        *)
LEMMA BufFlush ==
    ASSUME NEW go, NEW p \in Seq(Piece), NEW n \in Nat, NEW b \in Seq(Nat), NEW w \in 0 .. Len(b),
           NEW io, NEW d, d = FALSE, NEW data \in Seq(Nat), NEW g, data \o (After(b, w) \o FlattenSeq(p)) = g
    PROVE  BufGoes(I!PollFlushBuf(BW(go, p, n, b, w, d, io)), data, g)
<1>1. PICK x : x = BW(go, p, n, b, w, d, io)
  OBVIOUS
<1>2. PICK c : c = After(b, w)
  OBVIOUS
<1>3. x.acc.written = w /\ x.acc.buf = b /\ I!From(b, w + 1) = c
  BY <1>1, <1>2 DEF BW, I!From, After
<1>4. Len(b) \in Nat /\ w \in Nat /\ w <= Len(b)
  BY LenProperties
<1>5. CASE w < Len(b)
  <2>1. I!PollFlushBuf(x) = I!Loop(I!PollWrite(x, c))
    BY <1>3, <1>5 DEF I!PollFlushBuf
  <2>2. I!PollWrite(x, c) = BW(2, p, n, b, w, d, c)
    <3>1. I!PollWrite(BW(go, p, n, b, w, d, io), c) = BW(2, p, n, b, w, d, c)
      BY BufWrites
    <3> QED
      BY <1>1, <3>1
  <2>3. BufAt(2, p, b, w, d, c)
    BY <1>2, <1>5 DEF BufAt
  <2>4. BufRuns(BW(2, p, n, b, w, d, c), data, g)
    BY <1>4, <2>3 DEF BufRuns
  <2> QED
    BY <1>1, <2>1, <2>2, <2>4 DEF BufGoes, Loop, I!Loop, Outcome, I!Outcome
<1>6. CASE ~ (w < Len(b))
  <2>1. w = Len(b)
    BY <1>4, <1>6
  <2>2. c = <<>>
    BY <1>2, <1>4, <2>1, AfterAt
  <2>3. I!PollFlushBuf(x) = I!BufWriterRest(I!Drained(x))
    BY <1>3, <1>6 DEF I!PollFlushBuf
  <2>4. I!Drained(x) = BW(go, p, n, c, 0, d, io)
    <3>1. I!Drained(BW(go, p, n, b, w, d, io)) = BW(go, p, n, After(b, w), 0, d, io)
      BY BufDrained
    <3> QED
      BY <1>1, <1>2, <3>1
  <2>5. data \o (c \o FlattenSeq(p)) = g /\ c \in Seq(Nat)
    BY <1>2, <2>2
  <2>6. BufGoes(I!BufWriterRest(BW(go, p, n, c, 0, d, io)), data, g)
    BY <2>2, <2>5, BufRest, Zenon
  <2> QED
    BY <1>1, <2>3, <2>4, <2>6
<1> QED
  BY <1>5, <1>6

(* poll_write() and poll_flush().                                           *)
LEMMA BufPoll ==
    ASSUME NEW go, NEW p \in Seq(Piece), NEW n \in Nat, NEW b \in Seq(Nat),
           NEW io, NEW d, d = FALSE, NEW data \in Seq(Nat), NEW g, data \o (After(b, 0) \o FlattenSeq(p)) = g
    PROVE  BufGoes(I!BufWriterPoll(BW(go, p, n, b, 0, d, io)), data, g)
<1>1. PICK x : x = BW(go, p, n, b, 0, d, io)
  OBVIOUS
<1>2. x.p = p /\ x.n = n /\ x.acc.buf = b
  BY <1>1 DEF BW
<1>3. Len(b) \in Nat /\ After(b, 0) = b /\ (b = <<>> <=> Len(b) = 0)
  BY SubSeqFull, LenProperties, EmptySeq DEF After
<1>4. CASE p = <<>> \/ Len(b) + Len(p[1]) > n
  <2>1. I!BufWriterPoll(x) = I!PollFlushBuf(x)
    BY <1>2, <1>4 DEF I!BufWriterPoll
  <2>2. 0 \in 0 .. Len(b)
    BY <1>3
  <2>3. BufGoes(I!PollFlushBuf(BW(go, p, n, b, 0, d, io)), data, g)
    BY <2>2, BufFlush, Zenon
  <2> QED
    BY <1>1, <2>1, <2>3
<1>5. CASE ~ (p = <<>> \/ Len(b) + Len(p[1]) > n)
  <2>1. I!BufWriterPoll(x) = I!BufWriterRest(x)
    BY <1>2, <1>5 DEF I!BufWriterPoll
  <2>2. p # <<>> /\ Len(p[1]) \in Nat /\ Len(b) + Len(p[1]) <= n
    <3>1. p # <<>> /\ Len(p[1]) \in Nat
      BY <1>5, PieceFacts
    <3> QED
      BY <1>3, <1>5, <3>1
  <2>3. Len(p[1]) >= n => b = <<>>
    BY <1>3, <2>2
  <2>4. data \o (b \o FlattenSeq(p)) = g
    BY <1>3
  <2>5. BufGoes(I!BufWriterRest(BW(go, p, n, b, 0, d, io)), data, g)
    BY <2>2, <2>3, <2>4, BufRest, Zenon
  <2> QED
    BY <1>1, <2>1, <2>5
<1> QED
  BY <1>4, <1>5
(* A sequence with an element before it.                                    *)
LEMMA Pushed ==
    ASSUME NEW T, NEW r \in T, NEW t \in Seq(T), NEW q, q = <<r>> \o t
    PROVE  q \in Seq(T) /\ q # <<>> /\ q[1] = r /\ Tail(q) = t
<1>1. q \in Seq(T) /\ Len(q) = 1 + Len(t) /\ Len(t) \in Nat
  BY ConcatProperties, LenProperties
<1>2. q # <<>> /\ q[1] = r
  BY <1>1
<1>3. \A i \in 1 .. Len(t) : q[i + 1] = t[i]
  BY <1>1
<1>4. Tail(q) \in Seq(T) /\ Len(Tail(q)) = Len(t) /\ \A i \in 1 .. Len(t) : Tail(q)[i] = q[i + 1]
  BY <1>1, <1>2
<1> QED
  BY <1>1, <1>2, <1>3, <1>4, SeqEqual

(* What is left of the piece written directly, and the pieces after it.     *)
LEMMA BufRestOf ==
    ASSUME NEW p \in Seq(Piece), p # <<>>, NEW k \in 1 .. Len(p[1]), NEW q,
           q = (IF After(p[1], k) = <<>> THEN <<>> ELSE <<After(p[1], k)>>) \o Tail(p)
    PROVE  q \in Seq(Piece) /\ After(p[1], k) \in Seq(Nat)
           /\ FlattenSeq(q) = After(p[1], k) \o FlattenSeq(Tail(p))
<1>1. /\ p[1] \in Seq(Nat) /\ Len(p[1]) \in Nat /\ Tail(p) \in Seq(Piece) /\ FlattenSeq(Tail(p)) \in Seq(Nat)
  BY PieceFacts
<1>2. PICK r, t : r = After(p[1], k) /\ t = Tail(p)
  OBVIOUS
<1>3. k \in 0 .. Len(p[1])
  BY <1>1
<1>4. r \in Seq(Nat)
  <2>1. PICK s : s = p[1]
    OBVIOUS
  <2>2. s \in Seq(Nat) /\ k \in 0 .. Len(s) /\ r = After(s, k)
    BY <1>1, <1>2, <1>3, <2>1
  <2> QED
    BY <2>2, AfterAt
<1>5. CASE r = <<>>
  <2>1. q = t
    BY <1>1, <1>2, <1>5
  <2> QED
    BY <1>1, <1>2, <1>4, <1>5, <2>1
<1>6. CASE r # <<>>
  <2>1. q = <<r>> \o t
    BY <1>2, <1>6
  <2>2. r \in Piece /\ t \in Seq(Piece)
    BY <1>1, <1>2, <1>4, <1>6 DEF Piece
  <2>3. q \in Seq(Piece) /\ q # <<>> /\ q[1] = r /\ Tail(q) = t
    BY <2>1, <2>2, Pushed
  <2>4. FlattenSeq(q) = q[1] \o FlattenSeq(Tail(q))
    BY <2>3, PieceFacts
  <2> QED
    BY <1>2, <1>4, <2>3, <2>4
<1> QED
  BY <1>5, <1>6

-----------------------------------------------------------------------------
(* The invariant of BufWriter.                                              *)
BufFits ==
    /\ ad.k = "buf_writer" /\ given.ad.k = "buf_writer" /\ src[2].ty \in {"writer", "whole"}
    /\ given.ad.p \in Seq(Piece)
    /\ BufHolds(ad, src[2].data, FlattenSeq(given.ad.p))
    /\ poller # "done" => BufRuns(ad, src[2].data, FlattenSeq(given.ad.p))
    /\ Returned(0, src[2].data = FlattenSeq(given.ad.p) /\ src[2].n = Len(FlattenSeq(given.ad.p)))

(* A BufWriter that runs has the bytes where they should be.                *)
LEMMA BufRunsHolds ==
    ASSUME NEW x, NEW data, NEW g, BufRuns(x, data, g)
    PROVE  BufHolds(x, data, g) /\ x.k = "buf_writer"
<1>1. PICK go \in {0, 2, 3}, p \in Seq(Piece), n \in Nat, b \in Seq(Nat), w \in Nat, d \in BOOLEAN :
        \E io : /\ x = BW(go, p, n, b, w, d, io)
                /\ w <= Len(b) /\ data \o (After(b, w) \o FlattenSeq(p)) = g
                /\ BufAt(go, p, b, w, d, io)
  BY Zenon DEF BufRuns
<1>2. BufHolds(x, data, g)
  BY <1>1, Zenon DEF BufHolds
<1>3. x.k = "buf_writer"
  BY <1>1 DEF BW
<1> QED
  BY <1>2, <1>3

(* BufTurns: o is a loop that keeps the bytes, or an end; t is the sink.    *)
BufTurns(o, t, g) ==
    \/ BufGoes(o, t.data, g)
    \/ t.failed /\ \E y : o = Ready(y, I!Error(0)) /\ BufHolds(y, t.data, g) /\ y.k = "buf_writer"
    \/ /\ t.data = g /\ t.n = Len(g)
       /\ \E y : o = Ready(y, I!Ok(0)) /\ BufHolds(y, t.data, g) /\ y.k = "buf_writer"

(* A round that starts without an answer.                                   *)
LEMMA BufUnpolled ==
    ASSUME NEW x, NEW data \in Seq(Nat), NEW g, BufRuns(x, data, g), x.at = 0
    PROVE  BufGoes(I!BufWriter(x, Unpolled), data, g)
<1>1. PICK go \in {0, 2, 3}, p \in Seq(Piece), n \in Nat, b \in Seq(Nat), w \in Nat, d \in BOOLEAN :
        \E io : /\ x = BW(go, p, n, b, w, d, io)
                /\ w <= Len(b) /\ data \o (After(b, w) \o FlattenSeq(p)) = g
                /\ BufAt(go, p, b, w, d, io)
  BY DEF BufRuns
<1>2. PICK io : /\ x = BW(go, p, n, b, w, d, io)
                /\ w <= Len(b) /\ data \o (After(b, w) \o FlattenSeq(p)) = g
                /\ BufAt(go, p, b, w, d, io)
  BY <1>1
<1>3. x.at = go
  BY <1>2 DEF BW
<1>4. w = 0 /\ d = FALSE
  BY <1>2, <1>3 DEF BufAt
<1>5. x = BW(go, p, n, b, 0, d, io) /\ data \o (After(b, 0) \o FlattenSeq(p)) = g
  BY <1>2, <1>4
<1>6. BufGoes(I!BufWriterPoll(BW(go, p, n, b, 0, d, io)), data, g)
  BY <1>4, <1>5, BufPoll
<1>7. I!BufWriter(x, Unpolled) = I!BufWriterPoll(x)
  BY DEF Unpolled, I!BufWriter
<1> QED
  BY <1>5, <1>6, <1>7

(* The end of a failed write: the buffer keeps what was not written.        *)
LEMMA BufFails ==
    ASSUME NEW x, NEW data, NEW g, BufHolds(x, data, g)
    PROVE  BufHolds(I!Drained(x), data, g) /\ I!Drained(x).k = "buf_writer"
<1>1. PICK go \in {0, 2, 3}, p \in Seq(Piece), n \in Nat, b \in Seq(Nat), w \in Nat, d \in BOOLEAN :
        \E io : /\ x = BW(go, p, n, b, w, d, io)
                /\ w <= Len(b) /\ data \o (After(b, w) \o FlattenSeq(p)) = g
  BY Zenon DEF BufHolds
<1>2. PICK io : /\ x = BW(go, p, n, b, w, d, io)
                /\ w <= Len(b) /\ data \o (After(b, w) \o FlattenSeq(p)) = g
  BY <1>1
<1>3. PICK c : c = After(b, w)
  OBVIOUS
<1>4. w \in 0 .. Len(b)
  BY <1>2, LenProperties
<1>5. c \in Seq(Nat)
  BY <1>3, <1>4, AfterAt
<1>6. After(c, 0) = c /\ 0 <= Len(c)
  BY <1>5, SubSeqFull, LenProperties DEF After
<1>7. I!Drained(x) = BW(go, p, n, c, 0, d, io)
  BY <1>2, <1>3, BufDrained
<1>8. data \o (After(c, 0) \o FlattenSeq(p)) = g
  BY <1>2, <1>3, <1>6
<1>9. BufHolds(I!Drained(x), data, g)
  BY <1>5, <1>6, <1>7, <1>8 DEF BufHolds
<1>10. I!Drained(x).k = "buf_writer"
  BY <1>7 DEF BW
<1> QED
  BY <1>9, <1>10

(* Only non-empty writes are made.                                          *)
LEMMA BufAsks ==
    ASSUME NEW x, NEW data, NEW g, BufRuns(x, data, g)
    PROVE  x.at \in {0, 2, 3} /\ (x.at = 2 => x.io \in Seq(Nat) /\ x.io # <<>>)
<1>1. PICK go \in {0, 2, 3}, p \in Seq(Piece), n \in Nat, b \in Seq(Nat), w \in Nat, d \in BOOLEAN :
        \E io : /\ x = BW(go, p, n, b, w, d, io)
                /\ w <= Len(b) /\ data \o (After(b, w) \o FlattenSeq(p)) = g
                /\ BufAt(go, p, b, w, d, io)
  BY Zenon DEF BufRuns
<1>2. PICK io : /\ x = BW(go, p, n, b, w, d, io) /\ w <= Len(b)
                /\ BufAt(go, p, b, w, d, io)
  BY <1>1
<1>3. x.at = go /\ x.io = io
  BY <1>2 DEF BW
<1>4. ASSUME go = 2 PROVE io \in Seq(Nat) /\ io # <<>>
  <2>1. CASE d = FALSE /\ w < Len(b) /\ io = After(b, w)
    <3>1. w \in 0 .. Len(b) /\ w # Len(b)
      BY <2>1, LenProperties
    <3> QED
      BY <2>1, <3>1, AfterAt
  <2>2. CASE p # <<>> /\ io = p[1]
    BY <2>2, PieceFacts
  <2>3. \/ d = FALSE /\ w < Len(b) /\ io = After(b, w)
        \/ p # <<>> /\ io = p[1]
    BY <1>2, <1>4 DEF BufAt
  <2> QED
    BY <2>1, <2>2, <2>3
<1> QED
  BY <1>3, <1>4

(* The answer to a flush.                                                   *)
LEMMA BufFlushed ==
    ASSUME NEW x, NEW s, NEW t, NEW g, NEW a, s.data \in Seq(Nat), BufRuns(x, s.data, g), x.at = 3,
           \/ Refused(a, s, t) /\ a = Err
           \/ Flushed(a, s, t)
    PROVE  BufTurns(I!BufWriter(x, a), t, g)
<1>1. PICK go \in {0, 2, 3}, p \in Seq(Piece), n \in Nat, b \in Seq(Nat), w \in Nat, d \in BOOLEAN :
        \E io : /\ x = BW(go, p, n, b, w, d, io)
                /\ w <= Len(b) /\ s.data \o (After(b, w) \o FlattenSeq(p)) = g
                /\ BufAt(go, p, b, w, d, io)
  BY Zenon DEF BufRuns
<1>2. PICK io : /\ x = BW(go, p, n, b, w, d, io)
                /\ w <= Len(b) /\ s.data \o (After(b, w) \o FlattenSeq(p)) = g
                /\ BufAt(go, p, b, w, d, io)
  BY <1>1
<1>3. x.at = go
  BY <1>2 DEF BW
<1>4. p = <<>> /\ b = <<>> /\ w = 0 /\ go = 3
  BY <1>2, <1>3 DEF BufAt
<1>5. s.data = g
  <2>1. After(b, w) = <<>>
    <3>1. w \in 0 .. Len(b) /\ w = Len(b)
      BY <1>4
    <3> QED
      BY <3>1, AfterAt
  <2>2. FlattenSeq(p) = <<>>
    BY <1>4, PieceFacts
  <2>3. s.data \o (<<>> \o <<>>) = s.data
    OBVIOUS
  <2> QED
    BY <1>2, <2>1, <2>2, <2>3
<1>6. BufHolds(x, s.data, g) /\ x.k = "buf_writer"
  BY BufRunsHolds
<1>7. t.data = s.data
  BY DEF Refused, Flushed
<1>8. CASE Refused(a, s, t) /\ a = Err
  <2>1. I!BufWriter(x, a) = Ready(x, I!Error(0))
    BY <1>8 DEF I!BufWriter, Err, Ready, I!Ready, Outcome, I!Outcome
  <2>2. t.failed
    BY <1>8 DEF Refused
  <2> QED
    BY <1>6, <1>7, <2>1, <2>2, Zenon DEF BufTurns
<1>9. CASE Flushed(a, s, t)
  <2>1. I!BufWriter(x, a) = Ready(x, I!Ok(0))
    BY <1>9 DEF I!BufWriter, Some, Flushed, Ready, I!Ready, Outcome, I!Outcome
  <2>2. t.n = Len(g)
    BY <1>5, <1>9 DEF Flushed
  <2> QED
    BY <1>5, <1>6, <1>7, <2>1, <2>2, Zenon DEF BufTurns
<1> QED
  BY <1>8, <1>9

(* The answer to a write that failed: an interrupted one is tried again.    *)
LEMMA BufRefused ==
    ASSUME NEW x, NEW s, NEW t, NEW g, NEW a, s.data \in Seq(Nat), BufRuns(x, s.data, g), x.at = 2,
           Refused(a, s, t)
    PROVE  BufTurns(I!BufWriter(x, a), t, g)
<1>1. PICK go \in {0, 2, 3}, p \in Seq(Piece), n \in Nat, b \in Seq(Nat), w \in Nat, d \in BOOLEAN :
        \E io : /\ x = BW(go, p, n, b, w, d, io)
                /\ w <= Len(b) /\ s.data \o (After(b, w) \o FlattenSeq(p)) = g
                /\ BufAt(go, p, b, w, d, io)
  BY Zenon DEF BufRuns
<1>2. PICK io : /\ x = BW(go, p, n, b, w, d, io)
                /\ w <= Len(b) /\ s.data \o (After(b, w) \o FlattenSeq(p)) = g
                /\ BufAt(go, p, b, w, d, io)
  BY <1>1
<1>3. x.at = go /\ x.acc.direct = d /\ go = 2
  BY <1>2 DEF BW
<1>4. t.data = s.data /\ t.failed /\ a \in {Err, [t |-> "interrupted"], Some(0)}
  BY RefusedIs
<1>5. CASE a = [t |-> "interrupted"] /\ d = FALSE
  <2>1. I!BufWriter(x, a) = I!PollFlushBuf(x)
    BY <1>3, <1>5 DEF I!BufWriter
  <2>2. w \in 0 .. Len(b) /\ d = FALSE
    BY <1>2, <1>5, LenProperties
  <2>3. PICK data : data = s.data
    OBVIOUS
  <2>4. data \in Seq(Nat) /\ data \o (After(b, w) \o FlattenSeq(p)) = g
    BY <1>2, <2>3
  <2>5. BufGoes(I!PollFlushBuf(BW(go, p, n, b, w, d, io)), data, g)
    BY <2>2, <2>4, BufFlush
  <2> QED
    BY <1>2, <1>4, <2>1, <2>3, <2>5 DEF BufTurns
<1>6. CASE ~ (a = [t |-> "interrupted"] /\ d = FALSE)
  <2>1. I!BufWriter(x, a) = Ready(I!Drained(x), I!Error(0))
    BY <1>3, <1>4, <1>6 DEF I!BufWriter, Err, Some, Ready, I!Ready, Outcome, I!Outcome
  <2>2. BufHolds(I!Drained(x), s.data, g) /\ I!Drained(x).k = "buf_writer"
    BY BufRunsHolds, BufFails
  <2> QED
    BY <1>4, <2>1, <2>2, Zenon DEF BufTurns
<1> QED
  BY <1>5, <1>6

(* Regrouping three sequences, and four.                                    *)
Associates(s, t, u)  == (s \o t) \o u = s \o (t \o u)
Regroups(u, v, r, f) == (u \o v) \o (r \o f) = u \o ((v \o r) \o f)

(* Three may be regrouped.                                                  *)
LEMMA SeqAssociates ==
    ASSUME NEW s \in Seq(Nat), NEW t \in Seq(Nat), NEW u \in Seq(Nat)
    PROVE  Associates(s, t, u)
  BY DEF Associates

(* And four.                                                                *)
LEMMA SeqRegroup ==
    ASSUME NEW u \in Seq(Nat), NEW v \in Seq(Nat), NEW r \in Seq(Nat), NEW f \in Seq(Nat)
    PROVE  Regroups(u, v, r, f)
<1>1. PICK z, y : z = r \o f /\ y = v \o r
  OBVIOUS
<1>2. z \in Seq(Nat) /\ y \in Seq(Nat)
  BY <1>1
<1>3. Associates(u, v, z) /\ Associates(v, r, f)
  BY <1>2, SeqAssociates
<1> QED
  BY <1>1, <1>3 DEF Associates, Regroups

(* The answer to a write that took k bytes.                                 *)
LEMMA BufTook ==
    ASSUME NEW x, NEW s, NEW t, NEW g, NEW a, s.data \in Seq(Nat), BufRuns(x, s.data, g), x.at = 2,
           Took(a, s, t, x.io)
    PROVE  BufTurns(I!BufWriter(x, a), t, g)
<1>1. PICK go \in {0, 2, 3}, p \in Seq(Piece), n \in Nat, b \in Seq(Nat), w \in Nat, d \in BOOLEAN :
        \E io : /\ x = BW(go, p, n, b, w, d, io)
                /\ w <= Len(b) /\ s.data \o (After(b, w) \o FlattenSeq(p)) = g
                /\ BufAt(go, p, b, w, d, io)
  BY Zenon DEF BufRuns
<1>2. PICK io : /\ x = BW(go, p, n, b, w, d, io)
                /\ w <= Len(b) /\ s.data \o (After(b, w) \o FlattenSeq(p)) = g
                /\ BufAt(go, p, b, w, d, io)
  BY <1>1
<1>3. x.at = go /\ x.acc.direct = d /\ go = 2 /\ x.io = io
  BY <1>2 DEF BW
<1>4. io \in Seq(Nat) /\ io # <<>>
  BY <1>3, BufAsks
<1>5. PICK k \in 1 .. Len(io) : a = Some(k) /\ t.data = s.data \o SubSeq(io, 1, k)
  BY <1>3, <1>4 DEF Took
<1>6. k \in Nat \ {0} /\ k \in 0 .. Len(io)
  BY <1>4, LenProperties
<1>7. PICK u, v, r, f : u = s.data /\ v = SubSeq(io, 1, k) /\ r = After(io, k) /\ f = FlattenSeq(p)
  OBVIOUS
<1>8. u \in Seq(Nat) /\ v \in Seq(Nat) /\ r \in Seq(Nat) /\ f \in Seq(Nat)
  <2>1. v \in Seq(Nat)
    BY <1>4, <1>6, <1>7
  <2>2. r \in Seq(Nat)
    BY <1>4, <1>6, <1>7, AfterAt
  <2>3. f \in Seq(Nat)
    BY <1>7, PieceFacts
  <2> QED
    BY <1>7, <2>1, <2>2, <2>3
<1>9. PICK y : y = t.data
  OBVIOUS
<1>10. y = u \o v /\ y \in Seq(Nat)
  BY <1>5, <1>7, <1>8, <1>9
<1>11. v \o r = io
  BY <1>4, <1>6, <1>7, SeqSplit DEF After
<1>12. CASE d = FALSE
  <2>1. w < Len(b) /\ io = After(b, w)
    BY <1>2, <1>3, <1>12 DEF BufAt
  <2>2. w \in 0 .. Len(b) /\ k \in 0 .. Len(After(b, w))
    BY <1>2, <1>6, <2>1, LenProperties
  <2>3. w + k \in 0 .. Len(b) /\ r = After(b, w + k)
    BY <1>7, <2>1, <2>2, AfterFacts
  <2>4. I!BufWriter(x, a) = I!PollFlushBuf([x EXCEPT !.acc.written = w + k])
    <3>1. a.t = "some" /\ a.v = k /\ x.acc.written = w
      BY <1>2, <1>5 DEF Some, BW
    <3> QED
      BY <1>3, <1>6, <1>12, <3>1 DEF I!BufWriter
  <2>5. PICK m : m = w + k
    OBVIOUS
  <2>6. [x EXCEPT !.acc.written = m] = BW(go, p, n, b, m, d, io)
    <3>1. x = BW(go, p, n, b, w, d, io)
      BY <1>2
    <3> QED
      BY <3>1 DEF BW
  <2>7. (u \o v) \o (r \o f) = u \o (io \o f)
    <3>1. Regroups(u, v, r, f)
      BY <1>8, SeqRegroup
    <3> QED
      BY <1>11, <3>1 DEF Regroups
  <2>8. y \o (After(b, m) \o FlattenSeq(p)) = g
    BY <1>2, <1>7, <1>10, <2>1, <2>3, <2>5, <2>7
  <2>9. m \in 0 .. Len(b)
    BY <2>3, <2>5
  <2>10. BufGoes(I!PollFlushBuf(BW(go, p, n, b, m, d, io)), y, g)
    BY <1>10, <1>12, <2>8, <2>9, BufFlush
  <2> QED
    BY <1>9, <2>4, <2>5, <2>6, <2>10 DEF BufTurns
<1>13. CASE d = TRUE
  <2>1. p # <<>> /\ io = p[1] /\ b = <<>> /\ w = 0
    BY <1>2, <1>3, <1>13 DEF BufAt
  <2>2. PICK q, e : q = (IF After(p[1], k) = <<>> THEN <<>> ELSE <<After(p[1], k)>>) \o Tail(p) /\ e = FALSE
    OBVIOUS
  <2>3. q \in Seq(Piece) /\ FlattenSeq(q) = r \o FlattenSeq(Tail(p)) /\ FlattenSeq(Tail(p)) \in Seq(Nat)
    <3>1. k \in 1 .. Len(p[1])
      BY <2>1
    <3> QED
      BY <1>7, <2>1, <2>2, <3>1, BufRestOf, PieceFacts
  <2>4. I!BufWriter(x, a) = Loop(Sent(x, e, q))
    <3>1. a.t = "some" /\ a.v = k /\ x.p = p
      BY <1>2, <1>5 DEF Some, BW
    <3>2. I!From(x.p[1], a.v + 1) = After(p[1], k)
      BY <3>1 DEF I!From, After
    <3>3. I!BufWriter(x, a) =
            LET rest == I!From(x.p[1], a.v + 1)
            IN  I!Loop([x EXCEPT !.acc.direct = FALSE, !.at = 0,
                                 !.p = (IF rest = <<>> THEN <<>> ELSE <<rest>>) \o Tail(@)])
      BY <1>3, <1>6, <1>13, <3>1 DEF I!BufWriter
    <3> QED
      BY <2>2, <3>1, <3>2, <3>3 DEF Sent, Loop, I!Loop, Outcome, I!Outcome
  <2>5. Sent(x, e, q) = BW(0, q, n, b, w, e, io)
    BY <1>2, BufSends
  <2>6. y \o (After(b, w) \o FlattenSeq(q)) = g
    <3>1. PICK h : h = FlattenSeq(Tail(p))
      OBVIOUS
    <3>2. h \in Seq(Nat) /\ FlattenSeq(q) = r \o h /\ f = io \o h
      BY <1>7, <2>1, <2>3, <3>1, PieceFacts
    <3>3. After(b, w) = <<>>
      <4>1. w \in 0 .. Len(b) /\ w = Len(b)
        BY <2>1
      <4> QED
        BY <4>1, AfterAt
    <3>4. (u \o v) \o (r \o h) = u \o (io \o h)
      <4>1. Regroups(u, v, r, h)
        BY <1>8, <3>2, SeqRegroup
      <4> QED
        BY <1>11, <4>1 DEF Regroups
    <3>5. <<>> \o (r \o h) = r \o h /\ <<>> \o f = f
      BY <1>8, <3>2
    <3> QED
      BY <1>2, <1>7, <1>10, <3>2, <3>3, <3>4, <3>5
  <2>7. BufAt(0, q, b, w, e, io)
    BY <2>1, <2>2 DEF BufAt
  <2>8. BufRuns(BW(0, q, n, b, w, e, io), y, g)
    BY <1>2, <2>2, <2>3, <2>6, <2>7 DEF BufRuns
  <2>9. BufGoes(I!BufWriter(x, a), y, g)
    BY <2>4, <2>5, <2>8 DEF BufGoes
  <2> QED
    BY <1>9, <2>9 DEF BufTurns
<1> QED
  BY <1>12, <1>13

(* Every step keeps pieces, buffer and sink of BufWriter together.          *)
LEMMA BufKept ==
    ASSUME Typed, BufFits, [AdapterNext]_pollVars
    PROVE  Typed' /\ BufFits'
<1> DEFINE g == FlattenSeq(given.ad.p)
           E == Returned(0, src[2].data = FlattenSeq(given.ad.p) /\ src[2].n = Len(FlattenSeq(given.ad.p)))
<1>1. CASE Quiet /\ Typed'
  <2>1. /\ given' = given /\ ad' = ad /\ output' = output
        /\ (poller' = "done" <=> poller = "done") /\ (poller' = "enough" <=> poller = "enough")
    BY <1>1 DEF Quiet
  <2>2. /\ src'[2].ty = src[2].ty /\ src'[2].data = src[2].data /\ src'[2].n = src[2].n
        /\ src'[1].failed = src[1].failed /\ src'[2].failed = src[2].failed
    BY <1>1 DEF Quiet, Untouched
  <2>3. E'
    BY <2>1, <2>2 DEF BufFits, Returned
  <2> QED
    BY <1>1, <2>1, <2>2, <2>3 DEF BufFits
<1>2. ASSUME NEW a, NEW inputs, Turn(a, inputs)
      PROVE  Typed' /\ BufFits'
  <2>1. /\ given' = given /\ Polls(a, inputs) /\ (a = Pending => Waits(inputs))
        /\ \A x : a # Pending /\ I!BufWriter(ad, a) = Loop(x) => Loops(x, inputs)
        /\ \A x, v : a # Pending /\ I!BufWriter(ad, a) = Ready(x, v) => Returns(x, v, inputs)
    BY <1>2, WriterOperators DEF Turn, BufFits
  <2>2. /\ output = <<>> /\ src[2].ty \in {"writer", "whole"} /\ src[2].data \in Seq(Nat)
        /\ given.ad.k = "buf_writer" /\ given.ad.p \in Seq(Piece) /\ BufRuns(ad, src[2].data, g)
    BY <1>2 DEF BufFits, Returned, Turn, Typed, InputRec
  <2>3. Append(output, I!Ok(0)) = <<I!Ok(0)>> /\ Append(output, I!Error(0)) = <<I!Error(0)>>
    BY <2>2
  <2>4. ad.at \in {0, 2, 3} /\ (ad.at = 2 => ad.io \in Seq(Nat))
    BY <2>2, BufAsks
  <2>5. ASSUME inputs \in [1 .. 2 -> InputRec], inputs[1] = src[1], inputs[2].ty = src[2].ty,
               a # Pending, BufTurns(I!BufWriter(ad, a), inputs[2], g)
        PROVE  Typed' /\ BufFits'
    <3>1. CASE BufGoes(I!BufWriter(ad, a), inputs[2].data, g)
      <4>1. PICK y : I!BufWriter(ad, a) = Loop(y) /\ BufRuns(y, inputs[2].data, g)
        BY <3>1 DEF BufGoes
      <4>2. Loops(y, inputs)
        BY <2>1, <2>5, <4>1
      <4>3. BufHolds(y, inputs[2].data, g) /\ y.k = "buf_writer"
        BY <4>1, BufRunsHolds
      <4>4. ad' = y /\ src'[2] = inputs[2] /\ poller' # "done" /\ given' = given
        BY <2>1, <4>2 DEF Loops
      <4>5. E'
        BY <2>2, <4>2 DEF Returned, Loops
      <4>6. BufFits'
        BY <2>2, <2>5, <4>1, <4>3, <4>4, <4>5 DEF BufFits
      <4> QED
        BY <2>5, <4>2, <4>6, TypedAfter DEF Loops
    <3>2. ASSUME NEW y, NEW v, I!BufWriter(ad, a) = Ready(y, v), BufHolds(y, inputs[2].data, g),
                 y.k = "buf_writer",
                 \/ v = I!Error(0) /\ inputs[2].failed
                 \/ v = I!Ok(0) /\ inputs[2].data = g /\ inputs[2].n = Len(g)
          PROVE  Typed' /\ BufFits'
      <4>1. Returns(y, v, inputs)
        BY <2>1, <2>5, <3>2
      <4>2. ad' = y /\ src' = inputs /\ poller' = "done" /\ given' = given /\ output' = <<v>>
        BY <2>1, <2>3, <3>2, <4>1 DEF Returns
      <4>3. E'
        BY <3>2, <4>2 DEF Returned
      <4>4. BufFits'
        BY <2>2, <2>5, <3>2, <4>2, <4>3 DEF BufFits
      <4> QED
        BY <2>5, <4>2, <4>4, TypedAfter
    <3>3. CASE inputs[2].failed /\ \E y : /\ I!BufWriter(ad, a) = Ready(y, I!Error(0))
                                          /\ BufHolds(y, inputs[2].data, g) /\ y.k = "buf_writer"
      BY <3>2, <3>3
    <3>4. CASE /\ inputs[2].data = g /\ inputs[2].n = Len(g)
               /\ \E y : /\ I!BufWriter(ad, a) = Ready(y, I!Ok(0))
                         /\ BufHolds(y, inputs[2].data, g) /\ y.k = "buf_writer"
      BY <3>2, <3>4
    <3> QED
      BY <2>5, <3>1, <3>3, <3>4 DEF BufTurns
  <2>6. CASE ad.at = 0
    <3>1. a = Unpolled /\ inputs = src /\ a # Pending
      BY <2>1, <2>6 DEF Polls, Unpolled, Pending
    <3>2. inputs \in [1 .. 2 -> InputRec]
      BY <3>1 DEF Typed
    <3>3. BufGoes(I!BufWriter(ad, Unpolled), src[2].data, g)
      BY <2>2, <2>6, BufUnpolled
    <3>4. BufTurns(I!BufWriter(ad, a), inputs[2], g)
      BY <3>1, <3>3 DEF BufTurns
    <3> QED
      BY <2>5, <3>1, <3>2, <3>4
  <2>7. CASE ad.at \in {2, 3}
    <3>1. /\ inputs \in [1 .. 2 -> InputRec] /\ inputs[1] = src[1] /\ inputs[2].ty = src[2].ty
          /\ \/ Late(a, src[2], inputs[2])
             \/ Refused(a, src[2], inputs[2]) /\ (ad.at = 3 => a = Err)
             \/ ad.at = 2 /\ Took(a, src[2], inputs[2], ad.io)
             \/ ad.at = 3 /\ Flushed(a, src[2], inputs[2])
      BY <2>1, <2>2, <2>4, <2>7, WriterStep
    <3>2. CASE Late(a, src[2], inputs[2])
      <4>1. Waits(inputs) /\ inputs[2].data = src[2].data
        BY <2>1, <3>2 DEF Late, Untouched
      <4>2. ad' = ad /\ src' = inputs /\ given' = given /\ poller' # "done" /\ output' = <<>>
        BY <2>1, <2>2, <4>1 DEF Waits
      <4>3. BufHolds(ad, src[2].data, g) /\ ad.k = "buf_writer"
        BY <2>2, BufRunsHolds
      <4>4. E'
        BY <2>2, <4>1 DEF Returned, Waits
      <4>5. BufFits'
        BY <2>2, <3>1, <4>1, <4>2, <4>3, <4>4 DEF BufFits
      <4> QED
        BY <3>1, <4>1, <4>5, TypedAfter DEF Waits
    <3>3. CASE Refused(a, src[2], inputs[2]) /\ (ad.at = 3 => a = Err)
      <4>1. a # Pending
        BY <3>3, RefusedIs
      <4>2. BufTurns(I!BufWriter(ad, a), inputs[2], g)
        <5>1. CASE ad.at = 2
          BY <2>2, <3>3, <5>1, BufRefused
        <5>2. CASE ad.at = 3
          BY <2>2, <3>3, <5>2, BufFlushed
        <5> QED
          BY <2>7, <5>1, <5>2
      <4> QED
        BY <2>5, <3>1, <4>1, <4>2
    <3>4. CASE ad.at = 2 /\ Took(a, src[2], inputs[2], ad.io)
      <4>1. a # Pending
        BY <3>4 DEF Took, Some, Pending
      <4>2. BufTurns(I!BufWriter(ad, a), inputs[2], g)
        BY <2>2, <3>4, BufTook
      <4> QED
        BY <2>5, <3>1, <4>1, <4>2
    <3>5. CASE ad.at = 3 /\ Flushed(a, src[2], inputs[2])
      <4>1. a # Pending
        BY <3>5 DEF Flushed, Some, Pending
      <4>2. BufTurns(I!BufWriter(ad, a), inputs[2], g)
        BY <2>2, <3>5, BufFlushed
      <4> QED
        BY <2>5, <3>1, <4>1, <4>2
    <3> QED
      BY <3>1, <3>2, <3>3, <3>4, <3>5
  <2> QED
    BY <2>4, <2>6, <2>7
<1> QED
  BY <1>1, <1>2, WriterTurns DEF WriterKinds, BufFits

-----------------------------------------------------------------------------
(* BytesInit: any of the writers, with any bytes, over any sink.  A copy()   *)
(* reads through a BufReader of any capacity.  write_fmt() is over a writer   *)
(* that takes all it is offered: poll_write is given the whole buffer again   *)
(* after a short write (write_fmt.rs:44).                                     *)
Faulty(ty, data, f) == [Input(ty, data) EXCEPT !.fault = f]
Sink(ty, f)       == Faulty(ty, <<>>, f)
FaultyReader(b, f) == Faulty("reader", b, f)
CopyThrough(room) == [I!copy EXCEPT !.p = room, !.io = room]

BytesInit ==
    \E ty \in {"writer", "whole"}, f \in SUBSET InputFaults :
        \/ \E b \in Seq(Nat) : \/ Begin(I!write_all(b), Nothing, Sink(ty, f))
                               \/ Begin(I!stdout(b), Nothing, Sink(ty, f))
                               \/ Begin(I!stderr(b), Nothing, Sink(ty, f))
                               \/ ty = "whole" /\ Begin(I!write_fmt(b), Nothing, Sink(ty, f))
        \/ \E b \in Seq(Nat), e \in SUBSET {"err", "interrupted"}, room \in Nat \ {0} :
                Begin(CopyThrough(room), FaultyReader(b, e), Sink(ty, f))
        \/ \E pieces \in Seq(Piece), n \in Nat : Begin(I!buf_writer(n, pieces), Nothing, Sink(ty, f))

(* The inductive invariant of the writers.                                  *)
BytesInv == Typed /\ (WriteAllFits \/ WriteFmtFits \/ CopyFits \/ StdFits \/ BufFits)

(* The inputs, as made.                                                     *)
LEMMA InputMade ==
    ASSUME NEW ty \in {"never", "reader", "writer", "whole"}, NEW data \in Seq(Nat), NEW f \in SUBSET InputFaults
    PROVE  /\ Faulty(ty, data, f) \in InputRec /\ Faulty(ty, data, f).ty = ty
           /\ Faulty(ty, data, f).data = data /\ Faulty(ty, data, f).n = 0
           /\ Faulty(ty, data, f).pos = 0 /\ Faulty(ty, data, f).fault = f
<1>1. PICK c \in BOOLEAN : c = FALSE
  OBVIOUS
<1>2. PICK d \in SUBSET InputFaults : d = {}
  OBVIOUS
<1>3. PICK r : r = [ty |-> ty, data |-> data, pos |-> 0, open |-> c, reg |-> c, over |-> c,
                    bad |-> c, fault |-> d, failed |-> c, n |-> 0]
  OBVIOUS
<1>4. Input(ty, data) = r
  <2>1. (ty = "ready") = c
    BY <1>1
  <2>2. Input(ty, data) = [ty |-> ty, data |-> data, pos |-> 0, open |-> ty = "ready", reg |-> c, over |-> c,
                           bad |-> c, fault |-> d, failed |-> c, n |-> 0]
    BY <1>1, <1>2, Zenon DEF Input
  <2> QED
    BY <1>3, <2>1, <2>2, Zenon
<1>5. r \in InputRec
  BY <1>3 DEF InputRec
<1>6. r.ty = ty /\ r.data = data /\ r.n = 0 /\ r.pos = 0
  BY <1>3
<1>7. PICK s : s = Faulty(ty, data, f)
  OBVIOUS
<1>7a. s = [r EXCEPT !.fault = f]
  BY <1>4, <1>7 DEF Faulty
<1>8. s \in InputRec
  BY <1>5, <1>7a DEF InputRec
<1>9. s.ty = ty /\ s.data = data /\ s.n = 0 /\ s.pos = 0 /\ s.fault = f
  BY <1>5, <1>6, <1>7a DEF InputRec
<1> QED
  BY <1>7, <1>8, <1>9

(* The sink, as made.                                                       *)
LEMMA SinkMade ==
    ASSUME NEW ty \in {"writer", "whole"}, NEW f \in SUBSET InputFaults, NEW w, w = Sink(ty, f)
    PROVE  w \in InputRec /\ w.ty = ty /\ w.data = <<>> /\ w.n = 0
<1>1. PICK e : e = <<>>
  OBVIOUS
<1>2. e \in Seq(Nat) /\ ty \in {"never", "reader", "writer", "whole"}
  BY <1>1
<1>3. w = Faulty(ty, e, f)
  BY <1>1 DEF Sink
<1>4. /\ Faulty(ty, e, f) \in InputRec /\ Faulty(ty, e, f).ty = ty
      /\ Faulty(ty, e, f).data = e /\ Faulty(ty, e, f).n = 0
  BY <1>2, InputMade
<1> QED
  BY <1>1, <1>3, <1>4

(* No reader.                                                               *)
LEMMA NothingMade == Nothing \in InputRec /\ Nothing.ty = "never"
<1>1. PICK c \in BOOLEAN, d \in SUBSET InputFaults : c = FALSE /\ d = {}
  OBVIOUS
<1>2. PICK e : e = <<>>
  OBVIOUS
<1>3. e \in Seq(Nat)
  BY <1>2
<1>4. Nothing = [ty |-> "never", data |-> e, pos |-> 0, open |-> c, reg |-> c, over |-> c,
                 bad |-> c, fault |-> d, failed |-> c, n |-> 0]
  <2>1. ("never" = "ready") = c
    BY <1>1
  <2>2. Nothing = [ty |-> "never", data |-> e, pos |-> 0, open |-> ("never" = "ready"), reg |-> c,
                   over |-> c, bad |-> c, fault |-> d, failed |-> c, n |-> 0]
    BY <1>1, <1>2, Zenon DEF Nothing, Input
  <2> QED
    BY <2>1, <2>2, Zenon
<1> QED
  BY <1>3, <1>4 DEF InputRec

(* The reader of copy(), as made.                                           *)
LEMMA ReaderMade ==
    ASSUME NEW b \in Seq(Nat), NEW e \in SUBSET {"err", "interrupted"}, NEW r, r = FaultyReader(b, e)
    PROVE  r \in InputRec /\ r.ty = "reader" /\ r.data = b /\ r.pos = 0 /\ r.fault = e
<1>1. "reader" \in {"never", "reader", "writer", "whole"}
  OBVIOUS
<1>2. e \in SUBSET InputFaults
  BY DEF InputFaults
<1> QED
  BY <1>1, <1>2, InputMade DEF FaultyReader

(* The first state of the task.                                             *)
LEMMA BeginIs ==
    ASSUME NEW a, NEW first \in InputRec, NEW second \in InputRec, Begin(a, first, second),
           first.ty \in {"never", "reader"}, second.ty \in {"writer", "whole"}
    PROVE  /\ Typed /\ given.ad = a /\ given.s = first.data /\ ad = a /\ src[1] = first /\ src[2] = second
           /\ poller = "woken" /\ output = <<>>
<1>1. src = <<first, second>> /\ poller = "woken" /\ output = <<>>
  BY DEF Begin
<1>2. src \in [1 .. 2 -> InputRec] /\ src[1] = first /\ src[2] = second
  BY <1>1
<1> QED
  BY <1>1, <1>2 DEF Begin, Typed, PollerStates

(* The invariant holds at first.                                            *)
LEMMA BytesAtFirst ==
    ASSUME BytesInit
    PROVE  BytesInv
<1>1. PICK ty \in {"writer", "whole"}, f \in SUBSET InputFaults :
        \/ \E b \in Seq(Nat) : \/ Begin(I!write_all(b), Nothing, Sink(ty, f))
                               \/ Begin(I!stdout(b), Nothing, Sink(ty, f))
                               \/ Begin(I!stderr(b), Nothing, Sink(ty, f))
                               \/ ty = "whole" /\ Begin(I!write_fmt(b), Nothing, Sink(ty, f))
        \/ \E b \in Seq(Nat), e \in SUBSET {"err", "interrupted"}, room \in Nat \ {0} :
                Begin(CopyThrough(room), FaultyReader(b, e), Sink(ty, f))
        \/ \E pieces \in Seq(Piece), n \in Nat : Begin(I!buf_writer(n, pieces), Nothing, Sink(ty, f))
  BY DEF BytesInit
<1>2. PICK w : w = Sink(ty, f)
  OBVIOUS
<1>3. w \in InputRec /\ w.ty = ty /\ w.data = <<>> /\ w.n = 0 /\ Nothing \in InputRec /\ Nothing.ty = "never"
  BY <1>2, SinkMade, NothingMade
<1>4. ASSUME NEW b \in Seq(Nat), Begin(I!write_all(b), Nothing, w) PROVE Typed /\ WriteAllFits
  <2>1. PICK a : a = I!write_all(b)
    OBVIOUS
  <2>2. /\ Typed /\ given.ad = a /\ ad = a /\ src[2] = w /\ poller = "woken" /\ output = <<>>
    BY <1>3, <1>4, <2>1, BeginIs
  <2>3. /\ Record(a) /\ a.k = "write_all" /\ a.acc = b
        /\ IF b = <<>> THEN a.at = 0 ELSE a.at = 2 /\ a.io = b
    BY <2>1 DEF I!write_all, I!MakeAcc, I!Make, I!At, I!PollWrite, Record
  <2>4. <<>> \o b = b
    OBVIOUS
  <2>5. Returned(0, ad.acc = <<>>)
    BY <2>2 DEF Returned
  <2>6. src[2].ty \in {"writer", "whole"} /\ src[2].data \o ad.acc = b
    BY <1>3, <2>2, <2>3, <2>4
  <2>7. ad.at \in {0, 2} /\ IF ad.at = 0 THEN b = <<>> ELSE ad.io = b /\ b # <<>>
    BY <2>2, <2>3
  <2> QED
    BY <2>2, <2>3, <2>5, <2>6, <2>7 DEF WriteAllFits
<1>5. ASSUME NEW b \in Seq(Nat), Begin(I!stdout(b), Nothing, w) \/ Begin(I!stderr(b), Nothing, w)
      PROVE  Typed /\ StdFits
  <2>1. PICK a : a \in {I!stdout(b), I!stderr(b)} /\ Begin(a, Nothing, w)
    BY <1>5
  <2>2. /\ Typed /\ given.ad = a /\ ad = a /\ src[2] = w /\ poller = "woken" /\ output = <<>>
    BY <1>3, <2>1, BeginIs
  <2>3. Record(a) /\ a.k \in {"stdout", "stderr"} /\ a.p = b /\ a.at = 0 /\ a.acc = NoVal
    BY <2>1 DEF I!stdout, I!stderr, I!Make, Record, NoVal, I!NoVal
  <2>4. <<>> \o b = b
    OBVIOUS
  <2>5. StdIdle(ad, src[2], given.ad.p)
    BY <1>3, <2>2, <2>3, <2>4 DEF StdIdle
  <2>6. Returned(0, ad.p = <<>> /\ src[2].n = Len(given.ad.p))
    BY <2>2 DEF Returned
  <2> QED
    BY <1>3, <2>2, <2>3, <2>5, <2>6 DEF StdFits
<1>6. ASSUME NEW b \in Seq(Nat), ty = "whole", Begin(I!write_fmt(b), Nothing, w) PROVE Typed /\ WriteFmtFits
  <2>1. PICK a : a = I!write_fmt(b)
    OBVIOUS
  <2>2. /\ Typed /\ given.ad = a /\ ad = a /\ src[2] = w /\ poller = "woken" /\ output = <<>>
    BY <1>3, <1>6, <2>1, BeginIs
  <2>3. /\ Record(a) /\ a.k = "write_fmt" /\ a.acc = b /\ a.n = 0
        /\ IF b = <<>> THEN a.at = 3 ELSE a.at = 2 /\ a.io = b
    BY <2>1 DEF I!write_fmt, I!MakeAcc, I!Make, I!At, I!PollWrite, I!PollFlush, Record
  <2>4. Returned(0, ad.at = 3 /\ src[2].n = Len(ad.acc))
    BY <2>2 DEF Returned
  <2> QED
    BY <1>3, <1>6, <2>2, <2>3, <2>4 DEF WriteFmtFits
<1>7. ASSUME NEW b \in Seq(Nat), NEW e \in SUBSET {"err", "interrupted"}, NEW room \in Nat \ {0},
             Begin(CopyThrough(room), FaultyReader(b, e), w)
      PROVE  Typed /\ CopyFits
  <2>1. PICK a, r : a = CopyThrough(room) /\ r = FaultyReader(b, e)
    OBVIOUS
  <2>2. r \in InputRec /\ r.ty = "reader" /\ r.data = b /\ r.pos = 0 /\ r.fault = e
    BY <2>1, ReaderMade
  <2>3. /\ Typed /\ given.ad = a /\ given.s = b /\ ad = a /\ src[1] = r /\ src[2] = w
        /\ poller = "woken" /\ output = <<>>
    BY <1>3, <1>7, <2>1, <2>2, BeginIs
  <2>4. /\ Record(a) /\ a.k = "copy" /\ a.acc = <<>> /\ a.n = 0 /\ a.p = room /\ a.io = room /\ a.at = 1
    BY <2>1 DEF CopyThrough, I!copy, I!MakeFold, I!MakeP, I!Make, I!PollRead, Record
  <2>5. After(b, 0) = b /\ 0 <= Len(b) /\ <<>> \o (<<>> \o b) = b
    BY SubSeqFull, LenProperties DEF After
  <2>6. Returned(ad.n, ad.at = 3 /\ src[2].n = Len(given.s))
    BY <2>3 DEF Returned
  <2>7. /\ src[2].data \o (ad.acc \o After(given.s, src[1].pos)) = given.s
        /\ src[1].pos <= Len(given.s) /\ ad.n = Len(src[2].data)
    BY <1>3, <2>2, <2>3, <2>4, <2>5
  <2>8. /\ ad.acc \in Seq(Nat) /\ src[1].fault \subseteq {"err", "interrupted"} /\ ad.p \in Nat \ {0}
        /\ src[2].ty \in {"writer", "whole"}
    <3>1. src[1].fault = e /\ ad.acc = <<>> /\ ad.p = room /\ src[2].ty = ty
      BY <1>3, <2>2, <2>3, <2>4
    <3>2. <<>> \in Seq(Nat)
      OBVIOUS
    <3>3. e \subseteq {"err", "interrupted"}
      OBVIOUS
    <3> QED
      BY <3>1, <3>2, <3>3
  <2> QED
    BY <2>2, <2>3, <2>4, <2>6, <2>7, <2>8 DEF CopyFits
<1>8. ASSUME NEW pieces \in Seq(Piece), NEW n \in Nat, Begin(I!buf_writer(n, pieces), Nothing, w)
      PROVE  Typed /\ BufFits
  <2>1. PICK a : a = I!buf_writer(n, pieces)
    OBVIOUS
  <2>2. /\ Typed /\ given.ad = a /\ ad = a /\ src[2] = w /\ poller = "woken" /\ output = <<>>
    BY <1>3, <1>8, <2>1, BeginIs
  <2>3. PICK b, d : b = <<>> /\ d = FALSE
    OBVIOUS
  <2>4. a = BW(0, pieces, n, b, 0, d, 0)
    BY <2>1, <2>3 DEF I!buf_writer, I!Make, BW
  <2>5. a.p = pieces /\ a.k = "buf_writer"
    BY <2>4 DEF BW
  <2>6. PICK g : g = FlattenSeq(pieces)
    OBVIOUS
  <2>7. g \in Seq(Nat)
    BY <2>6, PieceFacts
  <2>8. b \in Seq(Nat) /\ After(b, 0) = b /\ 0 <= Len(b) /\ b \o (b \o g) = g
    BY <2>3, <2>7, SubSeqFull DEF After
  <2>9. BufAt(0, pieces, b, 0, d, 0)
    BY <2>3 DEF BufAt
  <2>10. b \o (After(b, 0) \o FlattenSeq(pieces)) = g
    BY <2>6, <2>8
  <2>11. BufRuns(a, b, g)
    BY <2>3, <2>4, <2>8, <2>9, <2>10 DEF BufRuns
  <2>12. BufHolds(a, b, g)
    BY <2>11, BufRunsHolds
  <2>13. Returned(0, src[2].data = FlattenSeq(given.ad.p) /\ src[2].n = Len(FlattenSeq(given.ad.p)))
    BY <2>2 DEF Returned
  <2> QED
    BY <1>3, <2>2, <2>3, <2>5, <2>6, <2>11, <2>12, <2>13 DEF BufFits
<1> QED
  BY <1>1, <1>2, <1>4, <1>5, <1>6, <1>7, <1>8 DEF BytesInv

(* Every step keeps it.                                                     *)
LEMMA BytesStep ==
    ASSUME BytesInv, [AdapterNext]_pollVars
    PROVE  BytesInv'
  BY WriteAllKept, WriteFmtKept, CopyKept, StdKept, BufKept DEF BytesInv

(* And it implies NoByteLost.                                               *)
LEMMA BytesSafe ==
    ASSUME BytesInv
    PROVE  NoByteLost
<1>a. /\ src[2].data \o <<>> = src[2].data
      /\ given.ad.k # "copy" => src[2].data \o Discarded = src[2].data /\ Discarded = <<>>
  <2>1. src[2].data \in Seq(Nat)
    BY DEF BytesInv, Typed, InputRec
  <2>2. src[2].data \o <<>> = src[2].data
    BY <2>1
  <2>3. given.ad.k # "copy" => Discarded = <<>>
    BY DEF Discarded
  <2> QED
    BY <2>2, <2>3
<1>1. CASE WriteAllFits
  <2>1. given.ad.k = "write_all" /\ InHand = ad.acc /\ Data = given.ad.acc
    BY <1>1 DEF WriteAllFits, InHand, Data
  <2>2. src[2].data \in Seq(Nat)
    BY DEF BytesInv, Typed, InputRec
  <2>3. src[2].data \o <<>> = src[2].data
    BY <2>2
  <2>4. src[2].data \o ad.acc = given.ad.acc /\ Returned(0, ad.acc = <<>>)
    BY <1>1 DEF WriteAllFits
  <2>5. poller = "done" => IF output[1][1] = "err" THEN src[1].failed \/ src[2].failed ELSE ad.acc = <<>>
    BY <2>4 DEF Returned, I!Error, I!Ok
  <2> QED
    BY <1>a, <2>1, <2>3, <2>4, <2>5 DEF NoByteLost
<1>2. CASE WriteFmtFits
  <2>1. given.ad.k = "write_fmt" /\ InHand = After(ad.acc, ad.n) /\ Data = ad.acc
    BY <1>2 DEF WriteFmtFits, InHand, Data
  <2>2. ad.acc \in Seq(Nat) /\ Returned(0, ad.at = 3 /\ src[2].n = Len(ad.acc))
    BY <1>2 DEF WriteFmtFits
  <2>3. /\ After(ad.acc, 0) = ad.acc /\ After(ad.acc, Len(ad.acc)) = <<>>
        /\ <<>> \o ad.acc = ad.acc /\ ad.acc \o <<>> = ad.acc
    <3>1. PICK s : s = ad.acc
      OBVIOUS
    <3>2. s \in Seq(Nat) /\ 0 \in 0 .. Len(s) /\ Len(s) \in 0 .. Len(s)
      BY <2>2, <3>1, LenProperties
    <3>3. After(s, 0) = s
      BY <3>2, SubSeqFull DEF After
    <3>4. After(s, Len(s)) = <<>>
      BY <3>2, AfterAt
    <3> QED
      BY <3>1, <3>2, <3>3, <3>4
  <2>4. src[2].data \o InHand = Data /\ (ad.at = 3 => src[2].data = Data)
    <3>1. CASE ad.n = 0 /\ src[2].data = <<>> /\ ad.at = 2
      BY <2>1, <2>3, <3>1
    <3>2. CASE ad.n = Len(ad.acc) /\ src[2].data = ad.acc
      BY <2>1, <2>3, <3>2
    <3> QED
      BY <1>2, <3>1, <3>2 DEF WriteFmtFits
  <2>5. poller = "done" => IF output[1][1] = "err" THEN src[1].failed \/ src[2].failed
                           ELSE ad.at = 3 /\ src[2].n = Len(ad.acc)
    BY <2>2 DEF Returned, I!Error, I!Ok
  <2> QED
    BY <1>a, <2>1, <2>4, <2>5 DEF NoByteLost
<1>3. CASE CopyFits
  <2>1. /\ given.ad.k = "copy" /\ Data = given.s
        /\ InHand = (IF poller = "done" THEN <<>> ELSE ad.acc) \o After(given.s, src[1].pos)
        /\ Discarded = IF poller = "done" THEN ad.acc ELSE <<>>
    BY <1>3 DEF CopyFits, InHand, Data, Discarded
  <2>2. /\ src[2].data \o (ad.acc \o After(given.s, src[1].pos)) = given.s
        /\ ad.n = Len(src[2].data) /\ Returned(ad.n, ad.at = 3 /\ src[2].n = Len(given.s))
        /\ ad.at = 3 => ad.acc = <<>> /\ src[1].pos = Len(given.s)
        /\ given.s \in Seq(Nat) /\ src[2].data \in Seq(Nat)
    BY <1>3 DEF CopyFits, BytesInv, Typed, InputRec
  <2>3. ad.at = 3 => src[2].data = given.s
    <3>1. PICK s : s = given.s
      OBVIOUS
    <3>2. s \in Seq(Nat) /\ Len(s) \in 0 .. Len(s)
      BY <2>2, <3>1, LenProperties
    <3>3. After(s, Len(s)) = <<>>
      BY <3>2, AfterAt
    <3>4. src[2].data \o (<<>> \o <<>>) = src[2].data
      BY <2>2
    <3> QED
      BY <2>2, <3>1, <3>3, <3>4
  <2>4. poller = "done" => IF output[1][1] = "err" THEN src[1].failed \/ src[2].failed
                           ELSE ad.at = 3 /\ src[2].n = Len(given.s) /\ output[1][2] = ad.n
    BY <2>2 DEF Returned, I!Error, I!Ok
  <2>5. Discarded # <<>> => src[2].failed
    BY <1>3, <2>1 DEF CopyFits
  <2>6. src[2].data \o Discarded \o InHand = given.s
    <3>1. PICK rest : rest = After(given.s, src[1].pos)
      OBVIOUS
    <3>2. src[1].pos \in 0 .. Len(given.s)
      BY <1>3, <2>2, LenProperties DEF CopyFits, BytesInv, Typed, InputRec
    <3>3. rest \in Seq(Nat) /\ ad.acc \in Seq(Nat)
      BY <1>3, <2>2, <3>1, <3>2, AfterAt DEF CopyFits
    <3>4. <<>> \o rest = rest
      BY <3>3
    <3>5. PICK d, b : d = src[2].data /\ b = ad.acc
      OBVIOUS
    <3>6. (d \o b) \o rest = d \o (b \o rest)
      BY <2>2, <3>3, <3>5, SeqAssoc
    <3> QED
      BY <1>a, <2>1, <2>2, <3>1, <3>4, <3>5, <3>6
  <2> QED
    BY <2>1, <2>2, <2>3, <2>4, <2>5, <2>6 DEF NoByteLost
<1>4. CASE StdFits
  <2>1. given.ad.k \in {"stdout", "stderr"} /\ Data = given.ad.p
    BY <1>4 DEF StdFits, Data
  <2>2. InHand = IF ad.at = 0 /\ ad.acc # NoVal /\ ad.acc[1] = "write" /\ ad.acc[2].t = "some"
                 THEN After(ad.p, ad.acc[2].v) ELSE ad.p
    BY <2>1 DEF InHand
  <2>3. src[2].data \in Seq(Nat) /\ ad.p \in Seq(Nat) /\ given.ad.p \in Seq(Nat)
    BY <1>4 DEF StdFits, BytesInv, Typed, InputRec
  <2>4. src[2].data \o InHand = given.ad.p
    <3>1. CASE StdIdle(ad, src[2], given.ad.p)
      BY <2>2, <3>1 DEF StdIdle
    <3>2. CASE StdWrote(ad, src[2], given.ad.p)
      <4>1. PICK k \in 1 .. Len(ad.p) : ad.acc = <<"write", Some(k)>> /\ src[2].data \o After(ad.p, k) = given.ad.p
        BY <3>2 DEF StdWrote
      <4>2. ad.at = 0 /\ ad.acc # NoVal /\ ad.acc[1] = "write" /\ ad.acc[2].t = "some" /\ ad.acc[2].v = k
        BY <3>2, <4>1 DEF StdWrote, NoVal, Some
      <4> QED
        BY <2>2, <4>1, <4>2
    <3>3. CASE StdRefused(ad, src[2], given.ad.p)
      <4>1. PICK a \in {Err, [t |-> "interrupted"], Some(0)} : ad.acc = <<"write", a>>
        BY <3>3 DEF StdRefused
      <4>2. ad.acc[2] = a /\ src[2].data \o ad.p = given.ad.p
        BY <3>3, <4>1 DEF StdRefused
      <4>3. After(ad.p, 0) = ad.p
        BY <2>3, SubSeqFull DEF After
      <4>4. a.t = "some" => a.v = 0
        BY <4>1 DEF Err, Some
      <4> QED
        BY <2>2, <4>2, <4>3, <4>4
    <3>4. CASE StdFlushed(ad, src[2], given.ad.p)
      <4>1. ad.p = <<>> /\ src[2].data = given.ad.p /\ ad.acc[1] = "flush"
        BY <3>4 DEF StdFlushed
      <4>2. src[2].data \o <<>> = src[2].data
        BY <2>3
      <4> QED
        BY <2>2, <4>1, <4>2
    <3> QED
      BY <1>4, <3>1, <3>2, <3>3, <3>4 DEF StdFits
  <2>5. ASSUME poller = "done", ad.p = <<>> PROVE src[2].data = given.ad.p
    <3>1. src[2].data \o ad.p = given.ad.p
      BY <1>4, <2>5 DEF StdFits, StdIdle
    <3>2. src[2].data \o <<>> = src[2].data
      BY <2>3
    <3> QED
      BY <2>5, <3>1, <3>2
  <2>6. Returned(0, ad.p = <<>> /\ src[2].n = Len(given.ad.p))
    BY <1>4 DEF StdFits
  <2>7. poller = "done" => IF output[1][1] = "err" THEN src[1].failed \/ src[2].failed
                           ELSE ad.p = <<>> /\ src[2].n = Len(given.ad.p)
    BY <2>6 DEF Returned, I!Error, I!Ok
  <2> QED
    BY <1>a, <2>1, <2>4, <2>5, <2>7 DEF NoByteLost
<1>5. CASE BufFits
  <2>1. PICK g : g = FlattenSeq(given.ad.p)
    OBVIOUS
  <2>2. given.ad.k = "buf_writer" /\ Data = g /\ BufHolds(ad, src[2].data, g)
    BY <1>5, <2>1 DEF BufFits, Data
  <2>3. InHand = After(ad.acc.buf, ad.acc.written) \o FlattenSeq(ad.p)
    BY <2>2 DEF InHand
  <2>4. src[2].data \o InHand = g
    <3>1. PICK go \in {0, 2, 3}, p \in Seq(Piece), n \in Nat, b \in Seq(Nat), w \in Nat, d \in BOOLEAN :
            \E io : /\ ad = BW(go, p, n, b, w, d, io)
                    /\ w <= Len(b) /\ src[2].data \o (After(b, w) \o FlattenSeq(p)) = g
      BY <2>2, Zenon DEF BufHolds
    <3>2. ad.acc.buf = b /\ ad.acc.written = w /\ ad.p = p
      BY <3>1 DEF BW
    <3> QED
      BY <2>3, <3>1, <3>2
  <2>5. Returned(0, src[2].data = g /\ src[2].n = Len(g))
    BY <1>5, <2>1 DEF BufFits
  <2>6. poller = "done" => IF output[1][1] = "err" THEN src[1].failed \/ src[2].failed
                           ELSE src[2].data = g /\ src[2].n = Len(g)
    BY <2>5 DEF Returned, I!Error, I!Ok
  <2> QED
    BY <1>a, <2>2, <2>4, <2>6 DEF NoByteLost
<1> QED
  BY <1>1, <1>2, <1>3, <1>4, <1>5 DEF BytesInv

(* No byte is lost or doubled by write_all(), write_fmt(), copy(), stdout()  *)
(* and stderr() or BufWriter, and none is left unflushed by a successful     *)
(* end, whatever is written, however the sink takes it (short writes, late   *)
(* answers, an error, an interruption, a zero), whatever the capacity of     *)
(* BufWriter and of copy()'s buffer: NoByteLost holds in every reachable     *)
(* state.  write_fmt() is proved over writers without short writes only      *)
(* (src/io/write/write_all.rs, write_fmt.rs, io/copy.rs, io/stdout.rs,       *)
(* io/stderr.rs, io/buf_writer.rs).                                          *)
THEOREM BytesAreKept == BytesInit /\ [][AdapterNext]_pollVars => []NoByteLost
<1>1. BytesInit => BytesInv
  BY BytesAtFirst
<1>2. BytesInv /\ [AdapterNext]_pollVars => BytesInv'
  BY BytesStep
<1>3. BytesInv => NoByteLost
  BY BytesSafe
<1> QED
  BY <1>1, <1>2, <1>3, PTL
=============================================================================
