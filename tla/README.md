# A TLA+ verification of async-std

async-std is an asynchronous version of Rust's standard library: a task
executor, a reactor for sockets, a pool of blocking threads, synchronisation
primitives, and asynchronous I/O, filesystem, networking and stream APIs on top
of them.  This directory models the parts whose correctness depends on
interleavings, checks them with TLC and proves the central results with TLAPS.
Source paths below are relative to `src/src/`.

## 1. Inventory

| Component | State | Operations | Interacts with | What is hard | What makes it correct |
|---|---|---|---|---|---|
| `sync/waker_set.rs` | flag word (LOCKED, NOTIFIED, NOTIFIABLE), slab of optional wakers, `notifiable` | insert, remove, cancel, notify_any / one / all | Mutex, RwLock, Channel | unlocked loads of the flag, recycled keys, a notified operation that is cancelled | each call is atomic; a notification is never lost |
| `sync/mutex.rs` | `locked`, a waker set | lock, try_lock, cancel, guard drop | WakerSet, executor | unlock between failed attempt and registration; barging; cancellation | exclusion; no sleeper beside a free mutex without a wakeup on its way |
| `sync/rwlock.rs` | word (writer bit, reader count), two waker sets | read, write, try_*, cancel, both guards' drop | WakerSet, executor | hand-over between two waker sets, cancellations on both sides | readers xor writer; neither side stranded |
| `sync/channel.rs` | ring with stamps, head, tail with mark bit; three waker sets; two handle counts | send, recv, stream poll, clone, drop, disconnect, len / is_full / is_empty | WakerSet, executor | lock-free ring with wrap-around; message, room or disconnection arriving during a poll | a bounded FIFO; nobody sleeps beside a message, room or a disconnection |
| `task/executor/` | injector, per-worker queue and slot, `sleep`, `notified` | schedule, find_runnable, wait, notify_one | async-task, crossbeam-deque, every waker | lost wakeups between "found nothing" and sleep; starvation by the slot | a runnable task is in one place, and somebody is awake or about to be woken |
| `fs/file.rs` | async lock (`locked`, list of wakers), cache, mode, flushed flag, deferred errors | read, write, seek, flush, sync, set_len, drop, into_raw_fd | blocking pool | guard moves to another thread; operations restart from their first line; cancellation while a job runs; errors reported later | cache, cursor and disk add up to the file the callers know; nobody waits for ever |
| `task/spawn_blocking.rs` | SLEEPING, an unbounded queue, threads with a receive timeout | schedule, start_thread | File, all of `fs/` | the last idle thread leaves while a task is sent | a queued task is run |
| `net/driver/mod.rs` | slab of entries, two waker lists each | register, deregister, poll loop, poll_read_with, poll_write_with | sockets, executor | edge-triggered events arriving during a poll; recycled tokens | readiness seen after registration wakes the task |
| `task/block_on.rs` | thread-local parker cache | block_on | every waker | nested calls on one thread | an inner call does not consume the outer one's wakeup |
| `task/task.rs`, `task_local.rs`, `builder.rs`, `join_handle.rs` | current-task pointer, ordered map of locals | set_current, get_current, LocalKey::with, drop_locals | executor | initialisers that touch other locals; nesting | a key finds its own value; nothing outlives the task |
| `sync/barrier.rs` | count, generation in a Mutex, a broadcast channel | wait | Mutex | generations that overlap; cancelled waits | all of a generation leave, exactly one leader |
| `future/` (race, join, try_*, timeout, MaybeDone, delay, flatten) | the polled futures and their outputs | poll | timers | polling after completion, timer against answer | outputs are delivered once, in time or not at all |
| `io/` (BufReader, BufWriter, copy, the standard handles, take, chain, read_until, ...) | buffers and positions | poll_read, poll_fill_buf, consume, poll_write, flush, seek | any reader or writer, blocking pool | Pending in the middle, short reads and writes, errors | the bytes are those of the underlying stream, each once |
| `stream/` constructors, adapters and futures | inner stream(s), counters, pending items, timers | poll_next | any stream | Pending in the middle, several inner streams | the items are those of the sequence definition |
| `collections/`, `option/`, `result/`, `vec/`, `string/`, `unit/` | what has been collected | collect, extend, sum, product | streams | the end at the first None or Err | the same value as from an iterator |
| `net/tcp`, `net/udp`, `os/unix/net` | a Watcher; for connect and bind the addresses left to try | read, write, peek, send, receive, connect, bind, accept, resolve | reactor, blocking pool | several addresses, some of which fail | the first that works, else the last error |
| `fs/` functions, ReadDir | ReadDir: idle or busy with a job | one job per call | blocking pool | a poll while the job runs | every entry once |
| `path/`, prelude, macros | none | forwarders | std | - | they forward |

`PROJECT.json` lists the same components with their status, and the hazards
(where in the code something can go wrong that a test would hardly reach) with
the properties that would catch each.

## 2. Modules

    WakerSetOps ---- WakerSetAbs <== refines == WakerSetLock (MCWakerSetLock) ---- WakerSetLockProofs
        |   \______ WakerSetFacts (lemmas)
        |______ Mutex  ---- MutexProofs      (both extend LockTasks) --\
        |______ RwLock ---- RwLockProofs -------------------------------|
        |______ Channel -------------------- ChannelProofs              |
        |        |   \______________________/____________________       |
        |   ChannelEnds                    /                     \      |
        |        |                        /                       |     |
    BoundedQueue <== refines == ChannelRing --- MCChannel --------|     |
    BlockingPool, Reactor, BlockOn, TaskLocals, Barrier ------- MCRuntime ---- RuntimeProofs
    Executor ---- ExecutorSpurious, ExecutorProofs
    File (MCFile) ---- IoProofs ------------------------------------------\
    Poll ---- StreamAdapters, FutureAdapters, IoAdapters, SocketAdapters \
         \___ Promises (what each adapter promises) --------------------- PollAdapters (MCPollAdapters)

**WakerSetOps** defines what the calls of `WakerSet` do to a set of operations
that are `"absent"`, `"waiting"` (an entry with a waker) or `"notified"` (an
entry whose waker was taken), each call in one step.  `notify_one`, `notify_any`
and `cancel` visit a slab in key order; the abstraction lets any entry come
first, and returns the set of results.  **WakerSetAbs** makes a specification of
it.  **WakerSetLock** is the code: the load of the flag before locking, the
`fetch_or` loop, the body on slab and `notifiable`, and the store in
`Lock::drop`, each a step.  It implements WakerSetAbs (`ImplementsWakerSet`): a call
takes effect when it unlocks, and a notifying call that finds the flag
unfavourable at its load; `ret` records caller, call and result, so that an early
return must be one that very call could make.  (A waker is called a moment before
the unlock.  That lets a future be polled early, which the modules built on
WakerSetAbs allow at any time.)

**Mutex**, **RwLock** and **Channel** call the operators of WakerSetOps as
atomic steps, which the refinement above justifies.  One action is one
access to shared state, so a poll is the sequence `Poll`, `RemoveEntry`, attempt,
`InsertEntry`, `Recheck` (with the prefix `Rw` in RwLock), and any other task can run in between.  `pc` is where
a task (or handle) is, and `"wait"` means the future returned Pending and is not
being polled.  It may be dropped (`DropFuture`) or polled again there at any time,
woken or not: executors are allowed to poll spuriously.

**ChannelRing** is the lock-free queue of `channel.rs`: `tail` and `head` words
made of lap, mark and index, a stamp per slot; each load, compare-exchange, slot
access and store is a step.  Words wrap at `Laps` laps, which stands for the
machine word's overflow (`wrapping_add`).  History variables keep what the words
lose by wrapping: `popped` and `pushed` are head and tail as counts, `pos` the count
behind the word a thread holds.  No guard reads them.  It implements **BoundedQueue**
(`ImplementsQueue`): a finite FIFO with a
disconnected flag and exact answers for full and empty.  **ChannelEnds** declares the
capacity and the handles, which are the same for both modules.  **Channel** then uses an
atomic queue and models everything around it: the three waker sets, the handle
counts, streams that keep their key between polls, disconnection.  **MCChannel** checks
the two halves side by side: `half` picks one of them in the initial state.

**Executor** models `schedule`, `find_runnable`, `main_loop` and `Sleepers`.
crossbeam-deque, async-task and the condition variable are external and
described in the module's header.  **ExecutorSpurious** adds spurious wakeups of
the condition variable.

**File** models `File` with its `Lock`, `LockGuard` and `State`.  The state of the
program is `locked`, `wakers` and `state` (mode, cache and its capacity, flushed
flag, deferred errors, and the inner file's disk contents and cursor), plus the
operation each task is in and the job of each blocking thread.  A step of a task
that holds the guard is atomic, since the guard excludes everyone else, and the
job of a blocking thread is one step with the guard and separate steps for
the release of `locked`, the waking of the list and the release of the guard's
Arc.  A `set_len` whose system call will fail is a job that leaves the file alone, like
that of `sync_all`, whose result goes to the caller only.  `view` and `at` are history variables: the contents and position that the
completed operations would give on an uncached file.

**BlockingPool** is `spawn_blocking`: the queue, the counter SLEEPING and the
threads, one atomic operation a step.  A thread may time out whenever the queue
is empty, and a job may run for ever.  **Reactor** is `net/driver/mod.rs` and the
waiting of every socket method: two system calls around the lock of a waker
list, the driver thread that collects events and looks them up by token, sources
that are closed and opened again under the same token.  A source that becomes
ready makes one event (`edges`), whatever becomes of it.  The socket methods are
records (`TcpRead`, `UdpSendTo`, ...) that say in which direction they wait and what
their system call does with the readiness.  **BlockOn** is one thread with a
stack of calls (`frames`), the cached parker, and wakers that are used after
their call is over.  **TaskLocals** is the race for a key or an id, and the
map of a task's values: the search, the initialiser, which may use any other task-local
(`nested` is the stack of those that run), and the insertion at the place the search
gave; on a list that is not sorted, a binary search may answer any place and find or
miss a value that is there.  `outrun` is a history variable.  **Barrier** is `wait` over overlapping generations.  **MCRuntime** holds
these side by side with Mutex, RwLock and Channel (an instance).  They share no state, so `unit` picks one of them
in the initial state and the others stand still: the run is the union of their
behaviours, not their product.  `Spec` (the mutex), `RwSpec`, `PoolSpec`, `IoSpec`, `LocalSpec` and
`BarrierSpec` are the parts on their own, which the proofs are about.

**Adapters.**  About 130 poll functions have the same shape: poll an input,
look at the answer, update some fields, return or go round the loop.  **Poll** is
that shape: an adapter is a record of its fields with `at`, the input it polls
next, and its operator maps the record and the answer to an outcome (`Item`,
`Ready`, `End`, `Loop`, `Park`, `WakeSelf`).  **StreamAdapters** (streams, their futures,
collections), **FutureAdapters**, **IoAdapters** and **SocketAdapters** hold one
operator per poll function, named after its type, and one lower-case
constructor per method.  Closures are sets or functions on the items, bytes are small
numbers (NL, CR, and one that is not UTF-8).  `read_line` and `lines` exist in a debug
build, where a false assertion is a panic, and in a release build.  **PollAdapters** is everything
around them: inputs that are late before every answer, short or failing; a task that polls,
parks and is woken only through a waker that an input was given; `ready!`, which
most poll functions begin with.  **Promises** defines the same operations on
whole sequences, without polls: `filter` is SelectSeq, `merge` an
interleaving, `lines` a cutting of the text.  `KeepsPromise` compares the two.

Mutated operators (their comments say "Mutant") are variants of the definition
that follows them, each with a plausible bug; substituting one makes the named
property fail.  `PROJECT.json` lists them under `mutants`.

## 3. What the runs show

Each run is `tlc -config <cfg> <module>`.

| Run | Module / cfg | Bounds | Properties |
|---|---|---|---|
| waker_set | MCWakerSetLock | 3 callers, unbounded sequences of calls | `SlabExclusive` only the lock's holder touches the slab; `KeysOwned` a key belongs to one future; `ImplementsWakerSet` |
| channel | MCChannel | 2 + 2 threads or handles, 2 slots; the ring: 3 messages, 4 laps starting in the last one | of the ring: `SlotExclusive` one thread in a slot; `LenIsExact`; `DropsTheRest` the destructor drops exactly what is left; `ImplementsQueue`.  Around it: `NoSenderStranded`, `NoReceiverStranded`, `NoStreamStranded`, `DisconnectIsHeard` |
| runtime | MCRuntime / Runtime | Mutex and RwLock: 3 tasks; pool: 3 jobs, at most 5 threads at once; reactor: 1 socket opened twice, 2 tasks, all methods; block_on: 4 calls, 2 deep, 3 yields; 2 threads, 2 task-locals, 3 entries; barrier of 2 with 3 tasks, 4 generations; channel: 1 + 2 handles, capacity 1 | `MutualExclusion`, `NoLostWakeup`, `FreeMutexIsTaken`; `ReadersXorWriter`, `NoReaderStranded`, `NoWriterStranded`, `WaitersServed`; `SleepingIsExact`, `BlockingJobStarts`; `NoEdgeLost`, `IoCompletes`; `BlockOnReturns`; `LocalsAgree`, `InitialisedOnce`; `Rendezvous`; `OperationsServed` |
| executor | Executor | 2 workers, 1 other thread, 3 tasks, limits of 1 | `OneRunnable`, `NoTaskStranded`, `SleepCountExact`, `LocalTaskRuns` |
| executor_spurious | ExecutorSpurious | same | `NotificationKept` is **violated** |
| file | MCFile | 2 tasks, 2 blocking threads, 3 operations and a drop, 1 I/O error, buffers of 1 and 2 bytes | `NoWaiterStranded`, `CacheIsFile`, `AnswersAreTrue`, `DropKeepsData` |
| file_cache | MCFile / FileCache | 2 tasks, 3 operations, no errors | `CachedReadsSucceed` is **violated** |
| adapters | MCPollAdapters / PollAdapters | each adapter over all inputs of up to 3 items (2 where there are two inputs), 4 items taken from an endless stream, one fault per input | `KeepsPromise`, `NoByteLost`, `SeeksAreExact`, `NotPolledAfterEnd`, `Completes` |
| comparisons | MCPollAdapters / Comparisons | two streams of up to 2 items, both late | `ComparesLexicographically` is **violated** |
| task_locals | TaskLocals | 2 threads, 2 task-locals, 3 entries | `SortedByKey` is **violated** |
| read_line | MCPollAdapters / ReadLine | `read_line` and `lines` over up to 3 bytes, the reader may fail | `AssertionsHold` is **violated** |
| interrupted | MCPollAdapters / Interrupted | `copy` of up to 3 bytes, reader and writer may be interrupted | `InterruptedIsRetried` is **violated** |

Why the bounds are enough.  In Mutex, RwLock and WakerSetLock nothing is bounded
but the number of tasks, and a lost wakeup needs three at most: one that holds or
releases, one that sleeps, one that is notified and cancelled (or barges).  The
proofs of section 5 remove these bounds, and those of Channel, ChannelRing, Executor,
BlockingPool, Reactor, TaskLocals, Barrier and File, for the safety properties.  In ChannelRing three messages on
two slots reuse a slot, so laps are compared, and starting in the last lap puts
the wrap of the word in the middle of the run; `len`, `is_full` and `is_empty` run
against both sides.  In Channel two handles of each side are needed to see a
notification go to the wrong one; capacity 2 allows two
consecutive notifications.  In Executor three tasks are one in a slot, one in a
local queue and one running; limits of 1 make the slot's limit and the way to
sleep short (the code's 16 slot runs, and 3 yields and 1 nap, only repeat the same loop).  In File three operations
are what it takes to fill a cache, consume part of it, and do something that
must take this into account; the error can hit any of the jobs.  In BlockingPool
three jobs that never return take three threads while a fourth waits, leaves or
stays; a fifth is never needed, so the bound on threads does not bind.  In Reactor a socket
that is opened twice gets its token back, so an event collected before it was
closed reaches the second owner, and two tasks compete for one list; two sockets opened once
each have also been checked (488,399 states), too slow for a run that is repeated often.  Four
calls of block_on, two deep, pass the cached parker on from an inner call to a
later outer one.  Two task-locals are enough for an initialiser inside another, in
either order of their keys, and three entries for a value that is initialised twice in a
map that has come out of order.  Three tasks at a barrier of two make one of a generation late
while the next one opens.  An adapter over three items sees one before, one in and one
after whatever its counter or closure tells apart; lateness is decided
afresh before every answer, so it does not need longer inputs.

What the adapters run leaves out, because the code does something else there:
`cycle` of an empty stream (ends instead of going on); `eq` and `ne`, and comparisons whose
right stream is late (the subject of `comparisons`); an interrupted reader under `bytes`
(returns Pending with no waker registered); `write_fmt` to a writer that takes less than it
is given: `io/write/mod.rs:207-209` promises that the whole buffer is written, and the
code sends the whole buffer again after a short write (`io/write/write_fmt.rs:44`).  Where a
panic of `read_line` and `lines` is the subject of `read_line` (a debug build whose reader
fails inside a line), `KeepsPromise` accepts the panic, and nothing else may cause one.  `NotPolledAfterEnd` leaves out `flatten` and
`flat_map`, which poll an inner stream that has ended when the outer one is Pending.

Findings.  Six runs state what a comment, a doc or an assertion of the code says and
find it false:

- **executor_spurious** (`task/executor/sleepers.rs:35`).  `wait` calls
  `Condvar::wait` once.  After a spurious wakeup `sleep` still counts the thread;
  the next `notify_one` decrements it, signals nobody and does not set
  `notified`.  The header of the file promises that "the next thread that
  attempts to go to sleep will pick up the notification immediately".
- **file_cache** (`fs/file.rs:676`).  `poll_read` copies
  `self.cache[start..n]` where `n` is a length, not an end: as soon as `start > 0`
  and something is left in the cache, the slice is too short or reversed and the
  call panics.  Two one-byte reads of a file that was first read with
  a larger buffer are enough.  (`file` takes the panic as the end of that
  operation: the guard is dropped by unwinding.)
- **comparisons** (`stream/stream/ne.rs:51`).  `ne` answers `false` as soon as
  either stream has ended, so `[1]` and `[]` are not "lexicographically not
  equal".  `eq` ignores an item that has no counterpart (`eq.rs:48`), so they are
  equal as well; `cmp` and its like answer Less when polled again after
  the left stream ended and the right one was Pending, though the right one may
  be at its end too.
- **task_locals** (`task/task_local.rs:195`).  `get_or_insert` searches, calls the
  initialiser and inserts at the index it found before.  If the initialiser is the first
  in the task to use a task-local with a smaller key, the list ("sorted by the key", line
  173) comes out of order, and a later search may miss a value and initialise it again.
  `InitialisedOnce` says that this is the only way: without such an initialiser in the
  task, values are initialised once and the list is sorted, however deep they nest.
- **read_line** (`io/buf_read/read_line.rs:43`, `lines.rs:74`).  When the reader fails after
  part of a line, the poll goes on to `debug_assert_eq!(*read, 0)` with the length of that part in
  `read`: a debug build panics where the caller should get the error.  A release build
  returns the error and leaves the part in `buf`; the next poll of `lines` swaps it with the
  rest of the line, so that the part comes back in front of the line after it
  (`KeepsPromise` promises the order of the bytes only up to such an error).
- **interrupted** (`io/copy.rs:73`, `79`).  The doc of `io::copy` says that "all instances of
  `ErrorKind::Interrupted` are handled by this function and the underlying operation is
  retried"; the code returns the error, and the BufReader it made (line 90) is dropped
  with the bytes it has read ahead.  `NoByteLost` counts those bytes apart
  (`Discarded`): they are the ones that follow what the sink has, and there are
  none unless the sink failed.

Seen while modelling and kept in the hazards or here without a run of their own:
`into_raw_fd` (`fs/file.rs:434`) can find the file shared by the blocking job
that has just woken it, and panics; `write_fmt` doubles what a short write has taken
(`io/write/write_fmt.rs:44`); `register` leaves
the slab entry of a source that the poller refuses (`net/driver/mod.rs:79`); the result
of an operation on stdin that was abandoned is thrown away, with the bytes it
read, when another kind of operation follows (`io/stdin.rs:142`, `213`); a read with an empty buffer leaves
an empty cache in reading mode, which the next reads take for the end of the file
("Empty cache in reading mode indicates that the last operation didn't read any bytes,
i.e. it reached the end of the file", `fs/file.rs:671`), so that `file` has no
length 0 among its ReadSizes; a failed `write_all` leaves the
whole cache to be written again (`fs/file.rs:816`); workers that are kept busy
never look at the injector (`task/executor/pool.rs:152`).

## 4. Assumptions

- **Memory.**  Steps interleave, memory is sequentially consistent.  The
  algorithms rely on `SeqCst` accesses or fences where two locations are
  compared, which the models take at their word; weaker orderings are not
  explored.
- **External code.**  crossbeam-deque operations are atomic, a steal takes a batch
  of any size or must be retried; async-task schedules a task once per wake; the
  condition variable wakes only when notified in `executor` (spurious wakeups
  are the subject of `executor_spurious`); std's file calls on a regular,
  seekable file do what std documents, may read less than asked for, may fail
  before or in the middle of a write, and seeks do not fail; mio reports an edge
  once, to the token the source has at that time; the parker of block_on has one
  token; the barrier's broadcast channel gives every receiver each later message;
  timers fire at any time after they are set.
- **Slab order** is abstracted to any order, as slab keys are reused in an
  order the callers do not control.
- **Fairness.**  Weak fairness of a task's own steps (a thread that is in the
  middle of a poll or a destructor goes on) and of the poll of a woken task (the
  executor polls what was woken).  Nothing forces a task to start,
  cancel, release or be polled without a wakeup, except that a thread inside
  a destructor finishes it.  In Executor: workers go on searching, polls
  return, `schedule` finishes.  In BlockingPool: threads run, nothing makes a job
  return.  In Reactor: the driver and the tasks in a poll go on, a woken task is
  polled, and every socket an operation waits for is ready in the end.  In BlockOn: the thread runs, and the
  futures become ready.  In PollAdapters: a woken task is polled, a poll ends,
  and what is late arrives.  Where there are finitely many jobs or calls,
  "each is served" is stated as `[]<>` (all are served): it costs TLC one
  automaton instead of one per job.  `FreeMutexIsTaken`, `WaitersServed` and
  `OperationsServed` say that what can be given to *somebody* is given to
  somebody; the code promises no individual fairness, since `try_lock` may barge.
- **Builds.**  Debug assertions are on or off for `read_line` and `lines`, the only
  adapters in which one can fail.  The initialiser of a task-local returns, and does not
  use the task-local it initialises (that recursion would not end).
- **Deadlock** is checked wherever the system cannot stop.  Channel may stop when
  all handles are gone (`AllGone`), File when it is dropped, the parts of MCRuntime when their
  bounded work is done.

## 5. Proofs

`tlapm M.tla` for the modules MutexProofs, RwLockProofs, WakerSetFacts,
WakerSetLockProofs, ChannelProofs, ExecutorProofs, RuntimeProofs and IoProofs.  All
theorems are about the same `Spec` (or `PoolSpec`, ...) the runs check, and
`BytesAreKept` about the same `AdapterNext` from more initial states.  Each
follows the same lines: an inductive invariant that is a conjunction of named
parts, one lemma for what a kind of step does, one lemma per part or per step that
every step keeps it, and a temporal theorem on top.  The inductive invariants were
first checked by TLC, except `BytesInv`, which ranges over all sequences of bytes (TLC
checks `NoByteLost`, which it implies).

- **WakerSetFacts**: what `notify_one`, `notify_any`, `notify_all` and `cancel`
  guarantee of any waker set: which entries stay, that `notify_any` leaves a
  notified entry if there was a waiting one, and that `cancel` of a notified
  operation passes its notification on.  They are all the proofs of Mutex, RwLock and
  Channel use of those calls.
- **WakerSetLockProofs**, for any finite set of callers (`ProcAssumption`; `NoKey`
  is no slab key): `LockInvariant`, and from it `SlabIsExclusive`, `KeysAreOwned` and
  the refinement `WakerSetRefined`.  It says that the waker sets of the other
  modules may be taken as atomic.  The invariant adds to the checked ones that the
  count of notifiable entries and the flag word agree with the slab whenever the
  lock is free, and what a call that has loaded the flag may conclude from it
  (`ViewFits`): an early return is a step of WakerSetAbs because of the moment at which
  the flag was loaded.
- **MutexProofs**, for any set of tasks: `MutexInvariant`, and from it
  `LockExcludes` and `WakeupsAreKept` (`TypeCorrect` says that it has its types).  `NoLostWakeup` is not inductive
  alone: that a cancelled or polled future hands on or uses the notification it
  holds needs to know that notified entries belong to futures that are
  still alive, which is `EntryMatchesFuture`.
- **RwLockProofs**, for any finite set of tasks (`TaskFinite`: the word counts
  the read guards): `RwInvariant`, `GuardsExclude`, `ReadersAreWoken`,
  `WritersAreWoken`.  The inductive invariant is the conjunction of the
  three invariants the run checks, `RwTypeOK` and `RwEntryMatchesFuture`.  The word's half
  is a cardinality argument; the other half goes through each action that ends somebody's responsibility
  for waking: a failed attempt proves the lock is held, a drop notifies, and a
  cancellation passes the notification on to the same or to the other set.
- **ChannelProofs**, for any capacity above 0 (`CapAssumption`) and any finite sets of
  sender and receiver handles (`HandleAssumption`): `ChannelInvariant`,
  `SendersAreWoken`, `ReceiversAreWoken`, `StreamsAreWoken`, `DisconnectWakesAll`.
  `NoSenderStranded` is far from inductive: a woken `send` may take one of several free
  slots and say nothing about the rest.  What holds is a count (`RoomIsCovered`): while a
  `send` sleeps, free slots do not outnumber the credits: receivers about to
  notify, notified entries, and sends on their way to `try_send`.  `MessagesAreCovered`
  is the same for messages and `recv`; `MarkIsSpread` follows the disconnecting
  handle through the three waker sets.
- **ChannelProofs**, second half, for any capacity, number of threads, number of laps in a
  word, start lap and number of messages (`RingAssumption`): `RingInvariant`, and from it
  `SlotsExclude`, `LenIsRight`, `DropIsRight` and the refinement `RingIsQueue`, which says
  that Channel may take the queue as atomic.  The theorems have a hypothesis,
  `NobodyLapped`: no thread holds a word that it is still going to compare while the ring
  goes round through all the laps but one.  The code relies on it.  A word wraps, so a
  sender that sleeps between its load of `tail` and its `compare_exchange` for as many laps
  as a word has finds the same word again (ABA) and claims a slot with a stale index;
  on a 64-bit machine that takes 2^64 words' worth of messages during one sleep.  It is not an
  assumption on a constant: `FewAreNeverLapped` shows that every run with fewer
  messages than the laps but one hold (`MaxMsgs < (Laps - 1) * Cap`) satisfies it, and
  `RingOfFewMessages` states all results for those runs without any hypothesis.  The
  checked run, with 3 messages, 4 laps and 2 slots, is one of them.
  The argument counts in positions that never wrap.  `WordAt` maps a position to its
  word; two positions of one slot less than `Laps * Cap` apart have different words
  (`RingInv` keeps `pushed - popped` at most `Cap`).  `StampsFit` says what the stamp of each
  slot is, from its position and from who is in it (`Writing`, `Reading`), `CasFits` what a
  thread that has found the stamp it wants may conclude if its `compare_exchange` then
  succeeds, `ResultFits` that "full", "empty" and "disconnected" were true at some point of
  the call.  `RingAssumption` states `MarkBit > Cap` rather than deriving it: it holds by
  the definition of `next_power_of_two` unless that overflows, and `^` is recursive for
  the prover.  TLC evaluates it.
- **ExecutorProofs**, for any tasks and other threads and any finite set of
  workers (`ExecutorAssumption`): `ExecutorInvariant`, `NoTaskLostOrDoubled`,
  `SleepersCounted`, `TasksAreFound`.  `TasksFit` says where every task is (queues,
  slots and hands are pairwise disjoint and agree with the task's state); `SearchFits`
  what a worker has already looked at when it goes on; `InjectorWatched`, that
  a task in the injector is announced or a worker will still look there before it
  sleeps.  The last is why `notified` must be loaded after the push.
- **RuntimeProofs**, each part for all values of its bounds.  `SleepersAreCounted`
  (`PoolAssumption`): the set SLEEPING counts gains or loses one thread a step.
  `LocalsDoAgree` (`LocalAssumption`): keys and ids are below the counters, a swap that fails
  takes the winner's, and an entry keeps the key its initialiser was called with.
  `InitialisersNest` needs that in a task where no initialiser was outrun every running
  initialiser still holds the right place (`PlacesFit`): its key is not in the sorted map, and
  its index is the number of smaller keys there.  An inner one that returns has a larger
  key than all outer ones, so it inserts behind their places and none of them moves.
  `BarrierMeets` (`BarrierAssumption`): the invariant follows each generation separately (who is inside, who leads, whose message is in the channel), since
  tasks of two generations are at the barrier at once.  `EdgesAreHeard` (`IoAssumption`): a
  parked task's waker is in the list of the entry its token designates, or in the
  hands of the driver (`ParkedFit`), and an unreported edge exists for a socket that is
  ready (`ReadyFit`), across sockets that are closed and tokens that are reused.
- **IoProofs**, of File for any tasks, blocking threads, contents, buffers, seeks and failures
  (`FileAssumption`): `FileInvariant`, and from it `NobodyIsForgotten`, `CacheKeepsTheFile`,
  `AnswersHold` and `DropsKeepData`.  The control part says that the guard is in the
  hand of exactly one task or job while `locked` is set (`GuardInOneHand`), which is what
  makes the rest of the invariant a matter of one step at a time.  The data part adds to
  `CacheIsFile` what each job may rely on (`JobsFit`: a drain finds writing mode, a read
  finds no unread bytes, `set_len` finds no cache), that writing mode is never marked
  flushed, and that an empty read cache means the end of the file (`EndFits`).  It rests on
  one lemma about bytes, `WritesJoin`: two writes one behind the other are one write of
  both.  `DropFits` follows the owner through its last flush.  `AnswersHold` has the
  hypothesis `0 \notin ReadSizes`; section 3 says what a read into an empty buffer does.

  And of the writers in PollAdapters (`write_all`, `write_fmt`, `copy`, `stdout`, `stderr`,
  `BufWriter`): `BytesAreKept`, that is `NoByteLost` from `BytesInit`, which admits any
  bytes, any capacity of BufWriter and of `copy`'s buffer, and sinks and readers with any
  set of faults (an error, an interruption, a zero), where the run takes up to three
  bytes or pieces and a single fault.  The bytes `copy` drops with its BufReader are
  `Discarded`; `CopyFits` says that a reader that fails finds that buffer empty, so only the sink's
  failure discards any.  `write_fmt` is over sinks that take all they are offered, as
  in the run (section 3).  The inductive invariant `BytesInv` has one part per writer
  (`WriteAllFits`, `WriteFmtFits`, `CopyFits`, `StdFits`, `BufFits`), which says for every
  place the poll function can be in what it has in hand, and that sink and hand together
  are the data.  BufWriter takes a sequence of pieces, whose concatenation is a recursive function:
  `FlattenHead` is proved by induction, which the prover can do in the form
  of a set of numbers without a smallest missing one (`SetInduction`).

Model-checked only:

- everything temporal (`FreeMutexIsTaken`, `WaitersServed`,
  `OperationsServed`, `LocalTaskRuns`, `BlockingJobStarts`, `IoCompletes`,
  `BlockOnReturns`, `Completes`): liveness is outside the prover's reach;
- the other adapters (`KeepsPromise`, `NotPolledAfterEnd`), about 130 poll functions that
  are compared with recursive definitions over their whole input; and `SeeksAreExact`,
  whose `Position` is a fold over all that BufReader has returned.

## 6. Not modelled, and the plan

What is left to prove: what the adapters promise (`KeepsPromise`), one induction over data
per adapter, and `SeeksAreExact`.

Left out of modelled parts: of File, `metadata` and `set_permissions` (they
bypass the lock) and failing seeks; of the reactor, a poller that refuses a
source; of tasks, the nesting of `set_current` and the builder's glue; of the
barrier, cancelled waits; of streams, `size_hint` and the arithmetic of
`interval`; of I/O, `Cursor` (std's cursor behind trivial polls), the locks of the
standard handles, `poll_close`; of sockets, getters and setters, which forward to
mio or std.

Left out for good: `path/`, which wraps std::path and keeps no state; the `fs/`
functions, each the same job around a different std call (`job` in
SocketAdapters stands for them); the prelude, macros, error decoration (`context`) and
documentation modules.
