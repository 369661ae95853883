-------------------------------- MODULE File --------------------------------
(***************************************************************************)
(* async_std::fs::File (src/fs/file.rs): a read/write cache in front of    *)
(* a std::fs::File, behind an async lock whose guard can be moved into a   *)
(* job of the blocking pool.  An operation polls the lock; with the guard  *)
(* it either completes, or registers its waker, hands the guard to a       *)
(* blocking job and returns Pending.  The job drops the guard, which wakes *)
(* everybody, and the operation starts over from its first line.           *)
(*                                                                         *)
(* `view' and `at' are history: the file as the completed operations       *)
(* should have left it, were each an atomic call on an uncached file.      *)
(***************************************************************************)
EXTENDS Integers, Sequences, FiniteSets

CONSTANTS
  Task,       \* tasks that share the file through `&File'
  Thread,     \* threads of the blocking pool
  Original,   \* the contents of the file when it is opened
  Buffers,    \* buffers passed to write
  ReadSizes,  \* lengths of the buffers passed to read
  Seeks,      \* SeekFrom values, as <<"seekStart" | "seekCurrent" | "seekEnd", n>>
  MaxCalls,   \* bound: how many operations are started before the drop
  Faults      \* bound: how many I/O calls may fail

ASSUME FileAssumption ==
  /\ Faults \in Nat /\ MaxCalls \in Nat
  /\ ReadSizes \subseteq Nat
  /\ \A b \in Buffers : b \in Seq(Nat \ {0})
  /\ Original \in Seq(Nat \ {0})
  /\ Seeks \subseteq {"seekStart", "seekCurrent", "seekEnd"} \X Int

VARIABLES
  locked,  \* LockState::locked
  wakers,  \* LockState::wakers
  state,   \* State, with the inner file's contents `disk' and `cursor'
  task,    \* each task's operation and how far it has got
  woken,   \* tasks whose waker has been called since their last poll
  thread,  \* each blocking thread's job
  open,    \* FALSE once the File is being dropped
  calls,   \* operations that may still be started
  faults,  \* I/O errors that may still happen
  fault,   \* "none", "clean": a write failed; "torn": after a partial write
  view, at, \* history: contents and position as the callers know them
  out      \* what the last step returned to a caller

vars == <<locked, wakers, state, task, woken, thread, open, calls, faults,
          fault, view, at, out>>

-----------------------------------------------------------------------------
(* Operations and results. *)

Op(kind, n, buf) == [kind |-> kind, n |-> n, buf |-> buf]

NoOp == Op("none", 0, <<>>)

Ops ==
  {Op("read", n, <<>>) : n \in ReadSizes} \cup
  {Op("write", 0, b) : b \in Buffers} \cup
  {Op(sk[1], sk[2], <<>>) : sk \in Seeks} \cup
  {Op("flush", 0, <<>>), Op("sync_all", 0, <<>>), Op("set_len", 1, <<>>)}

LastOps == {Op("drop", 0, <<>>), Op("into_raw_fd", 0, <<>>)}

(* `was' is the position the operation found. *)
Out(op, res, n, data) == [op |-> op, res |-> res, n |-> n, data |-> data, was |-> at]

NoOut == [op |-> NoOp, res |-> "none", n |-> 0, data |-> <<>>, was |-> 0]

NoJob == [pc |-> "none", job |-> "none", n |-> 0]

IdleTask == [pc |-> "idle", op |-> NoOp, join |-> {}]

-----------------------------------------------------------------------------
(* The inner std::fs::File, and Vec::reserve. *)

Min2(a, b) == IF a < b THEN a ELSE b
Max2(a, b) == IF a > b THEN a ELSE b

(* write: overwrites, extends, and fills a hole with zeros. *)
WriteAt(bytes, pos, buf) ==
  IF buf = <<>> THEN bytes
  ELSE [i \in 1 .. Max2(Len(bytes), pos + Len(buf)) |->
         IF i > pos /\ i <= pos + Len(buf) THEN buf[i - pos]
         ELSE IF i <= Len(bytes) THEN bytes[i] ELSE 0]

(* set_len: truncates, or extends with zeros. *)
Resized(bytes, n) == [i \in 1 .. n |-> IF i <= Len(bytes) THEN bytes[i] ELSE 0]

(* Where a seek lands; a negative answer is an error and moves nothing. *)
SeekTo(op, pos, size) ==
  CASE op.kind = "seekStart"   -> op.n
    [] op.kind = "seekEnd"     -> size + op.n
    [] op.kind = "seekCurrent" -> pos + op.n

Reserve(cap, need) == IF need <= cap THEN cap ELSE Max2(2 * cap, need)

-----------------------------------------------------------------------------
(* Mutant: the cursor stays behind the bytes nobody has read. *)
UnreadKeepsCursor(s) ==
  IF s.mode # "Reading" THEN s
  ELSE [s EXCEPT !.cache = <<>>, !.mode = "Idle", !.start = 0]

(* poll_unread: forget the read cache and take its unread part back. *)
Unread(s) ==
  IF s.mode # "Reading" THEN s
  ELSE [s EXCEPT !.cursor = @ - (Len(s.cache) - s.start),
                 !.cache = <<>>, !.mode = "Idle", !.start = 0]

(* The position the caller sees, as poll_seek(Current(0)) computes it. *)
Actual(s) ==
  CASE s.mode = "Idle"    -> s.cursor
    [] s.mode = "Reading" -> s.cursor - Len(s.cache) + s.start
    [] s.mode = "Writing" -> s.cursor + Len(s.cache)

Init ==
  /\ locked = FALSE /\ wakers = {} /\ woken = {}
  /\ state \in {[disk |-> Original, cursor |-> 0, mode |-> "Idle", start |-> 0,
                 cache |-> <<>>, cap |-> 0, flushed |-> f,
                 rerr |-> FALSE, werr |-> FALSE] : f \in BOOLEAN}
  /\ task = [t \in Task |-> IdleTask]
  /\ thread = [th \in Thread |-> NoJob]
  /\ open = TRUE /\ calls = MaxCalls /\ faults = Faults /\ fault = "none"
  /\ view = Original /\ at = 0 /\ out = NoOut

-----------------------------------------------------------------------------
(* The life of an operation outside the lock. *)

(* A task calls read, write, flush, ...: its future is about to be polled. *)
Start(t, op) ==
  /\ open /\ task[t].pc = "idle"
  /\ calls > 0 /\ calls' = calls - 1
  /\ task' = [task EXCEPT ![t] = [pc |-> "poll", op |-> op, join |-> {}]]
  /\ woken' = woken \ {t}
  /\ out' = NoOut
  /\ UNCHANGED <<locked, wakers, state, thread, open, faults, fault, view, at>>

(* The owner drops the File, or turns it into a raw descriptor, which drops *)
(* it first.  Nobody else borrows it: no operation is in progress.          *)
StartDrop(t, op) ==
  /\ open /\ \A u \in Task : task[u].pc = "idle"
  /\ open' = FALSE
  /\ task' = [task EXCEPT ![t] = [pc |-> "poll", op |-> op, join |-> {}]]
  /\ woken' = woken \ {t}
  /\ out' = NoOut
  /\ UNCHANGED <<locked, wakers, state, thread, calls, faults, fault, view, at>>

(* A pending future is dropped.  Its waker stays in the list, its job runs on. *)
Cancel(t) ==
  /\ open /\ task[t].pc \in {"wait", "join"}
  /\ task' = [task EXCEPT ![t] = IdleTask]
  /\ woken' = woken \ {t}
  /\ out' = NoOut
  /\ UNCHANGED <<locked, wakers, state, thread, open, calls, faults, fault, view, at>>

(* A first poll, or a pending operation is polled again, woken or not (a    *)
(* sibling future was woken; block_on polls a few times before it parks).   *)
(* Lock::poll_lock, the first swap.                                         *)
PollLock(t) ==
  /\ task[t].pc \in {"poll", "wait"}
  /\ locked' = TRUE
  /\ task' = [task EXCEPT ![t].pc = IF locked THEN "list" ELSE "held"]
  /\ woken' = woken \ {t}
  /\ out' = NoOut
  /\ UNCHANGED <<wakers, state, thread, open, calls, faults, fault, view, at>>

(* Mutant: the waker is registered without trying the lock again. *)
PollListUntried(t) ==
  /\ task[t].pc = "list"
  /\ task' = [task EXCEPT ![t].pc = "wait"]
  /\ wakers' = wakers \cup {t}
  /\ out' = NoOut
  /\ UNCHANGED <<locked, state, woken, thread, open, calls, faults, fault, view, at>>

(* Lock::poll_lock, under the list's mutex: swap again, then register. *)
PollList(t) ==
  /\ task[t].pc = "list"
  /\ locked' = TRUE
  /\ IF locked
       THEN /\ task' = [task EXCEPT ![t].pc = "wait"]
            /\ wakers' = wakers \cup {t}
       ELSE /\ task' = [task EXCEPT ![t].pc = "held"]
            /\ UNCHANGED wakers
  /\ out' = NoOut
  /\ UNCHANGED <<state, woken, thread, open, calls, faults, fault, view, at>>

-----------------------------------------------------------------------------
(* Endings of a poll that holds the guard.  `s' is the State it leaves. *)

(* Ready: the guard is dropped; its first half is the store to `locked'. *)
Return(t, s, o, v, p) ==
  /\ state' = s
  /\ locked' = FALSE
  /\ task' = [task EXCEPT ![t].pc = "drain"]
  /\ out' = o /\ view' = v /\ at' = p
  /\ UNCHANGED <<wakers, woken, thread, open, calls, faults, fault>>

Fail(t, s) == Return(t, s, Out(task[t].op, "err", 0, <<>>), view, at)

(* Pending: register the waker, move the guard into a job. *)
Spawn(t, s, job, n) ==
  /\ state' = s
  /\ wakers' = wakers \cup {t}
  /\ task' = [task EXCEPT ![t].pc = "wait"]
  /\ \E th \in Thread :
       /\ thread[th] = NoJob
       /\ thread' = [thread EXCEPT ![th] = [pc |-> "run", job |-> job, n |-> n]]
  /\ out' = NoOut
  /\ UNCHANGED <<locked, woken, open, calls, faults, fault, view, at>>

(* sync_all and set_len await the job itself, with no waker registered. *)
SpawnAndJoin(t, s, job, n, v) ==
  /\ state' = s
  /\ \E th \in Thread :
       /\ thread[th] = NoJob
       /\ thread' = [thread EXCEPT ![th] = [pc |-> "run", job |-> job, n |-> n]]
       /\ task' = [task EXCEPT ![t].pc = "join", ![t].join = {th}]
  /\ view' = v /\ out' = NoOut
  /\ UNCHANGED <<locked, wakers, woken, open, calls, faults, fault, at>>

(* poll_drain, in writing mode or with an error left behind. *)
Drain(t, s) ==
  IF s.werr THEN Fail(t, [s EXCEPT !.werr = FALSE]) ELSE Spawn(t, s, "drain", 0)

(* poll_flush; `Flushed' is what the caller does once it is Ready(Ok). *)
FlushThen(t, s, Flushed) ==
  \/ s.flushed /\ Flushed
  \/ ~s.flushed /\ (s.werr \/ s.mode = "Writing") /\ Drain(t, s)
  \/ ~s.flushed /\ ~s.werr /\ s.mode # "Writing" /\ Spawn(t, s, "flush", 0)

-----------------------------------------------------------------------------
(* The operations, holding the guard. *)

Holds(t, kinds) == task[t].pc = "held" /\ task[t].op.kind \in kinds

(* The last part of poll_read: size the cache like the buffer, read into it. *)
StartRead(t, s) ==
  LET n == task[t].op.n
  IN  Spawn(t, [s EXCEPT !.cap = IF Len(s.cache) < n THEN Reserve(@, n) ELSE @], "read", n)

(* buf[..n].copy_from_slice(&self.cache[start..n]) panics unless the range  *)
(* is ordered and as long as its target.                                    *)
CopyPanics(start, n) == n < start \/ n - start # n

PollReadCached(t) ==
  LET op == task[t].op
      available == Len(state.cache) - state.start
      n == Min2(available, op.n)
  IN  /\ Holds(t, {"read"}) /\ ~state.rerr /\ state.mode = "Reading"
      /\ available > 0 \/ state.cache = <<>>
      /\ IF CopyPanics(state.start, n)
           THEN Return(t, state, Out(op, "panic", 0, <<>>), view, at)
           ELSE Return(t, [state EXCEPT !.start = @ + n],
                       Out(op, "ok", n, SubSeq(state.cache, state.start + 1, n)),
                       view, at + n)

PollReadFile(t) ==
  /\ Holds(t, {"read"})
  /\ \/ state.rerr /\ Fail(t, [state EXCEPT !.rerr = FALSE])
     \/ /\ ~state.rerr
        /\ \/ state.mode = "Idle"
           \/ state.mode = "Reading" /\ state.cache # <<>> /\ state.start = Len(state.cache)
        /\ StartRead(t, state)
     \/ ~state.rerr /\ state.mode = "Writing" /\ FlushThen(t, state, StartRead(t, state))

(* Mutant: is_flushed is not reset. *)
PollWriteStaysFlushed(t) ==
  LET op == task[t].op
      u == Unread(state)
      cap == IF u.cap < Len(op.buf)
             THEN Reserve(u.cap, Len(u.cache) + Len(op.buf) - u.cap) ELSE u.cap
      available == cap - Len(u.cache)
      n == Min2(available, Len(op.buf))
      data == SubSeq(op.buf, 1, n)
  IN  /\ Holds(t, {"write"})
      /\ \/ state.werr /\ Fail(t, [state EXCEPT !.werr = FALSE])
         \/ /\ ~state.werr /\ (available > 0 \/ op.buf = <<>>)
            /\ Return(t, [u EXCEPT !.cap = cap, !.cache = @ \o data,
                                   !.mode = "Writing"],
                      Out(op, "ok", n, data), WriteAt(view, at, data), at + n)
         \/ ~state.werr /\ available = 0 /\ op.buf # <<>> /\ Drain(t, u)

(* poll_write.  A full cache is in writing mode, so poll_drain is Pending. *)
PollWrite(t) ==
  LET op == task[t].op
      u == Unread(state)
      cap == IF u.cap < Len(op.buf)
             THEN Reserve(u.cap, Len(u.cache) + Len(op.buf) - u.cap) ELSE u.cap
      available == cap - Len(u.cache)
      n == Min2(available, Len(op.buf))
      data == SubSeq(op.buf, 1, n)
  IN  /\ Holds(t, {"write"})
      /\ \/ state.werr /\ Fail(t, [state EXCEPT !.werr = FALSE])
         \/ /\ ~state.werr /\ (available > 0 \/ op.buf = <<>>)
            /\ Return(t, [u EXCEPT !.cap = cap, !.cache = @ \o data, !.flushed = FALSE,
                                   !.mode = "Writing"],
                      Out(op, "ok", n, data), WriteAt(view, at, data), at + n)
         \/ ~state.werr /\ available = 0 /\ op.buf # <<>> /\ Drain(t, u)

(* Polling the position, or moving inside the read cache: no flush needed. *)
InCache(op, s) ==
  /\ op.kind = "seekCurrent"
  /\ \/ op.n = 0
     \/ s.mode = "Reading" /\ s.start + op.n \in 0 .. Len(s.cache)

PollSeekCached(t) ==
  LET op == task[t].op
      s == IF op.n = 0 THEN state ELSE [state EXCEPT !.start = @ + op.n]
  IN  /\ Holds(t, {"seekCurrent"}) /\ InCache(op, state)
      /\ Return(t, s, Out(op, "ok", Actual(s), <<>>), view, at + op.n)

PollSeekFile(t) ==
  LET op == task[t].op
      u == Unread(state)
      to == SeekTo(op, u.cursor, Len(u.disk))
  IN  /\ Holds(t, {"seekStart", "seekCurrent", "seekEnd"}) /\ ~InCache(op, state)
      /\ FlushThen(t, u,
           IF to < 0 THEN Fail(t, u)
           ELSE Return(t, [u EXCEPT !.cursor = to], Out(op, "ok", to, <<>>),
                       view, SeekTo(op, at, Len(view))))

(* Write::poll_flush, and block_on(self.flush()) of Drop for File. *)
PollFlush(t) ==
  /\ Holds(t, {"flush", "drop", "into_raw_fd"})
  /\ FlushThen(t, state, Return(t, state, Out(task[t].op, "ok", 0, <<>>), view, at))

(* sync_all and sync_data. *)
SyncAll(t) ==
  /\ Holds(t, {"sync_all"})
  /\ FlushThen(t, state, SpawnAndJoin(t, state, "sync_all", 0, view))

(* Mutant: the read cache is kept across set_len. *)
SetLenKeepsCache(t) ==
  LET op == task[t].op
      u == state
  IN  /\ Holds(t, {"set_len"})
      /\ FlushThen(t, u, \/ SpawnAndJoin(t, u, "set_len", op.n, Resized(view, op.n))
                         \/ SpawnAndJoin(t, u, "sync_all", 0, view))

(* set_len; nobody can tell its effect from the moment the job has the guard. *)
(* A job whose system call will fail leaves the file alone, as sync_all's does. *)
SetLen(t) ==
  LET op == task[t].op
      u == Unread(state)
  IN  /\ Holds(t, {"set_len"})
      /\ FlushThen(t, u, \/ SpawnAndJoin(t, u, "set_len", op.n, Resized(view, op.n))
                         \/ SpawnAndJoin(t, u, "sync_all", 0, view))

(* Drop for LockGuard, second half: wake every registered task.  After the  *)
(* flush of a drop the owner lets go of the file; Arc::try_unwrap of        *)
(* into_raw_fd fails while a job's guard still keeps the State alive.       *)
Woken == {t \in wakers : task[t].pc # "idle"}

TaskDrain(t) ==
  LET op == task[t].op
      shared == \E th \in Thread : thread[th] # NoJob
  IN  /\ task[t].pc = "drain"
      /\ wakers' = {}
      /\ woken' = (woken \cup Woken) \ {t}
      /\ task' = [task EXCEPT ![t] = IdleTask]
      /\ out' = IF op.kind = "into_raw_fd"
                THEN Out(op, IF shared THEN "panic" ELSE "ok", 0, <<>>) ELSE NoOut
      /\ UNCHANGED <<locked, state, thread, open, calls, faults, fault, view, at>>

-----------------------------------------------------------------------------
(* The jobs on the blocking pool.  A job ends by dropping the guard. *)

Runs(th, job) == thread[th].pc = "run" /\ thread[th].job = job

EndJob(th, s) ==
  /\ state' = s
  /\ locked' = FALSE
  /\ thread' = [thread EXCEPT ![th].pc = "drain"]
  /\ out' = NoOut
  /\ UNCHANGED <<wakers, task, woken, open, calls, view, at>>

NoFault == UNCHANGED <<faults, fault>>

Fault(kind) ==
  /\ faults > 0 /\ faults' = faults - 1
  /\ fault' = IF fault = "torn" THEN fault ELSE kind

(* read may be short; at the end of the file it reads nothing. *)
JobRead(th) ==
  LET most == Max2(0, Min2(thread[th].n, Len(state.disk) - state.cursor))
  IN  /\ Runs(th, "read")
      /\ \/ \E n \in (IF most = 0 THEN {0} ELSE 1 .. most) :
              /\ EndJob(th, [state EXCEPT !.mode = "Reading", !.start = 0,
                               !.cache = SubSeq(state.disk, state.cursor + 1, state.cursor + n),
                               !.cursor = @ + n])
              /\ NoFault
         \/ /\ EndJob(th, [state EXCEPT !.mode = "Idle", !.start = 0,
                                        !.cache = <<>>, !.rerr = TRUE])
            /\ Fault(fault)

(* write_all may fail after any part of the cache; the cache stays. *)
JobDrain(th) ==
  /\ Runs(th, "drain")
  /\ \/ /\ EndJob(th, [state EXCEPT !.disk = WriteAt(@, state.cursor, state.cache),
                                    !.cursor = @ + Len(state.cache),
                                    !.cache = <<>>, !.mode = "Idle"])
        /\ NoFault
     \/ \E k \in 0 .. Len(state.cache) - 1 :
          /\ EndJob(th, [state EXCEPT !.disk = WriteAt(@, state.cursor, SubSeq(state.cache, 1, k)),
                                      !.cursor = @ + k, !.werr = TRUE])
          /\ Fault(IF k = 0 THEN "clean" ELSE "torn")

JobFlush(th) ==
  /\ Runs(th, "flush")
  /\ \/ EndJob(th, [state EXCEPT !.flushed = TRUE]) /\ NoFault
     \/ EndJob(th, [state EXCEPT !.werr = TRUE]) /\ Fault("clean")

(* The result, an error too, goes to the caller only. *)
JobSync(th) == Runs(th, "sync_all") /\ EndJob(th, state) /\ NoFault

JobSetLen(th) ==
  /\ Runs(th, "set_len")
  /\ EndJob(th, [state EXCEPT !.disk = Resized(@, thread[th].n)])
  /\ NoFault

ThreadDrain(th) ==
  /\ thread[th].pc = "drain"
  /\ wakers' = {}
  /\ woken' = woken \cup Woken
  /\ thread' = [thread EXCEPT ![th].pc = "release"]
  /\ out' = NoOut
  /\ UNCHANGED <<locked, state, task, open, calls, faults, fault, view, at>>

(* The guard's Arc goes away, the closure returns, its JoinHandle is ready. *)
ThreadRelease(th) ==
  /\ thread[th].pc = "release"
  /\ thread' = [thread EXCEPT ![th] = NoJob]
  /\ task' = [t \in Task |-> IF th \in task[t].join THEN IdleTask ELSE task[t]]
  /\ out' = NoOut
  /\ UNCHANGED <<locked, wakers, state, woken, open, calls, faults, fault, view, at>>

-----------------------------------------------------------------------------
HoldingStep(t) ==
  \/ PollReadCached(t) \/ PollReadFile(t) \/ PollWrite(t)
  \/ PollSeekCached(t) \/ PollSeekFile(t) \/ PollFlush(t)
  \/ SyncAll(t) \/ SetLen(t)

ThreadStep(th) ==
  \/ JobRead(th) \/ JobDrain(th) \/ JobFlush(th) \/ JobSync(th) \/ JobSetLen(th)
  \/ ThreadDrain(th) \/ ThreadRelease(th)

Next ==
  \/ \E t \in Task :
       \/ \E op \in Ops : Start(t, op)
       \/ \E op \in LastOps : StartDrop(t, op)
       \/ Cancel(t) \/ PollLock(t) \/ PollList(t)
       \/ HoldingStep(t) \/ TaskDrain(t)
  \/ \E th \in Thread : ThreadStep(th)

Spec == Init /\ [][Next]_vars

-----------------------------------------------------------------------------
(* The guard is held by one task or one job exactly while `locked' is set,  *)
(* an idle file has no cache, and no position computed from cursor and      *)
(* cache underflows.                                                        *)
TypeOK ==
  /\ locked \in BOOLEAN
  /\ wakers \subseteq Task /\ woken \subseteq Task
  /\ state.mode \in {"Idle", "Reading", "Writing"}
  /\ state.cursor \in Nat /\ Actual(state) \in Nat
  /\ state.start \in 0 .. Len(state.cache)
  /\ state.mode = "Idle" => state.cache = <<>>
  /\ Len(state.cache) <= state.cap
  /\ \A t \in Task : task[t].pc \in {"idle", "poll", "list", "held", "drain", "wait", "join"}
  /\ LET holders == {t \in Task : task[t].pc = "held"} \cup
                    {th \in Thread : thread[th].pc = "run"}
     IN  Cardinality(holders) = (IF locked THEN 1 ELSE 0)

(* A Pending operation is never forgotten: its waker is called already, or  *)
(* it is in the list and somebody who will empty the list is still to come: *)
(* the guard's holder, or a guard dropped but not yet through with waking   *)
(* (poll_lock's second swap, register, Drop for LockGuard).                 *)
NoWaiterStranded ==
  \A t \in Task : task[t].pc = "wait" =>
    \/ t \in woken
    \/ /\ t \in wakers
       /\ \/ locked
          \/ \E u \in Task : task[u].pc = "drain"
          \/ \E th \in Thread : thread[th].pc = "drain"

(* Cache, cursor and disk together are the file the callers know, whatever  *)
(* was cancelled or failed on the way: the position is the one completed    *)
(* operations lead to, the read cache is the part of the disk before the    *)
(* cursor, and the write cache laid over the disk gives every byte that a   *)
(* write accepted.  A write that failed half-way is the one exception: it   *)
(* stays in the cache and is written a second time.                         *)
CacheIsFile ==
  fault # "torn" =>
    /\ Actual(state) = at
    /\ state.mode = "Reading" /\ state.cache # <<>> =>
         /\ state.cursor <= Len(state.disk)
         /\ state.cache = SubSeq(state.disk, state.cursor - Len(state.cache) + 1, state.cursor)
    /\ (\A th \in Thread : ~Runs(th, "set_len")) =>
         view = IF state.mode = "Writing"
                THEN WriteAt(state.disk, state.cursor, state.cache) ELSE state.disk

(* What a call returns is what an uncached file would have returned: a read *)
(* yields the bytes at the position it found and nothing only at the end, a *)
(* seek returns the position it leads to, a flush leaves every accepted     *)
(* byte on the disk.                                                        *)
AnswersAreTrue ==
  (out.res = "ok" /\ fault # "torn") =>
    /\ out.op.kind = "read" =>
         IF out.n = 0 THEN out.was >= Len(view)
         ELSE /\ out.was + out.n <= Len(view)
              /\ out.data = SubSeq(view, out.was + 1, out.was + out.n)
    /\ out.op.kind \in {"seekStart", "seekCurrent", "seekEnd"} => out.n = at
    /\ out.op.kind = "flush" => state.disk = view

(* Dropping the File loses nothing: unless some write failed, all accepted  *)
(* bytes are on the disk once drop returns ("our only other option here is  *)
(* losing data remaining in the write cache").                              *)
Dropped == ~open /\ \A t \in Task : task[t].pc = "idle"

DropKeepsData == (Dropped /\ fault = "none") => state.disk = view

(* "If there is cached unconsumed data ..., we can read from it": a read    *)
(* that finds its bytes in the cache returns them (poll_read).              *)
CachedReadsSucceed == out.op.kind = "read" => out.res # "panic"
=============================================================================
