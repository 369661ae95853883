------------------------------- MODULE RwLock -------------------------------
(***************************************************************************)
(* sync::RwLock (src/sync/rwlock.rs): one atomic word and two waker sets.  *)
(*                                                                         *)
(* Every task of Task reads or writes, one operation at a time: it creates *)
(* a ReadFuture or WriteFuture and polls it, or calls try_read or          *)
(* try_write, holds the guard, and drops it.  One action is one atomic     *)
(* access to the word or one call on a waker set (atomic by WakerSetLock). *)
(* The CAS loop of try_read counts as the access that ends it.             *)
(*                                                                         *)
(* The word is a record of its two fields, the bit WRITE_LOCK and the      *)
(* count stored under READ_COUNT_MASK, always accessed together.  try_read *)
(* aborts the process when the count would overflow; there is one guard    *)
(* per task at most, so the guard of that branch is never true here.       *)
(***************************************************************************)
EXTENDS Naturals, WakerSetOps, LockTasks

VARIABLES
    state,         \* RwLock.state
    read_wakers,   \* RwLock.read_wakers
    write_wakers,  \* RwLock.write_wakers
    mode,          \* what each task's current operation asks for
    rwPc             \* where it is in it

rwVars == <<state, read_wakers, write_wakers, mode, rwPc>>

Unlocked == [write |-> FALSE, reads |-> 0]

RwPolling == {"remove", "try_lock", "insert", "recheck"}
RwPC == RwPolling \cup {"idle", "pending", "holding", "check_reads",
                    "notify_readers", "notify_readers_only", "notify_writer"}

RwTypeOK ==
    /\ state \in [write : BOOLEAN, reads : Nat]
    /\ read_wakers \in [Task -> EntryStates]
    /\ write_wakers \in [Task -> EntryStates]
    /\ mode \in [Task -> {"read", "write"}]
    /\ rwPc \in [Task -> RwPC]

RwInit ==
    /\ state = Unlocked
    /\ read_wakers = NewWakerSet(Task)
    /\ write_wakers = NewWakerSet(Task)
    /\ mode = [t \in Task |-> "read"]
    /\ rwPc = [t \in Task |-> "idle"]

RwGoto(t, label) == rwPc' = [rwPc EXCEPT ![t] = label]

(* One step of t's operation on the waker set of its mode. *)
OnOwnWakers(t, Op(_)) ==
    \/ mode[t] = "read"  /\ read_wakers' = Op(read_wakers) /\ UNCHANGED write_wakers
    \/ mode[t] = "write" /\ write_wakers' = Op(write_wakers) /\ UNCHANGED read_wakers

-----------------------------------------------------------------------------
(* read() and write(): a new future has no key yet.                        *)
Start(t, m) ==
    /\ rwPc[t] = "idle"
    /\ mode' = [mode EXCEPT ![t] = m]
    /\ RwGoto(t, "try_lock")
    /\ UNCHANGED <<state, read_wakers, write_wakers>>

RwPoll(t) ==
    /\ rwPc[t] = "pending"
    /\ RwGoto(t, "remove")
    /\ UNCHANGED <<state, read_wakers, write_wakers, mode>>

(* "If the current task is in the set, remove it." *)
RwRemoveEntry(t) ==
    /\ rwPc[t] = "remove"
    /\ OnOwnWakers(t, LAMBDA ws : Remove(ws, t))
    /\ RwGoto(t, "try_lock")
    /\ UNCHANGED <<state, mode>>

(* Mutant: try_write() looks at the WRITE_LOCK bit only. *)
MayWriteBesideReaders == ~state.write

(* try_read() fails on a write lock only; try_write() on any lock.         *)
MayRead  == ~state.write
MayWrite == state = Unlocked

AddReader == state' = [state EXCEPT !.reads = @ + 1]
SetWriter == state' = [state EXCEPT !.write = TRUE]

TryRead(t) ==
    /\ rwPc[t] = "try_lock" /\ mode[t] = "read"
    /\ IF MayRead THEN AddReader /\ RwGoto(t, "holding")
                  ELSE UNCHANGED state /\ RwGoto(t, "insert")
    /\ UNCHANGED <<read_wakers, write_wakers, mode>>

TryWrite(t) ==
    /\ rwPc[t] = "try_lock" /\ mode[t] = "write"
    /\ IF MayWrite THEN SetWriter /\ RwGoto(t, "holding")
                   ELSE UNCHANGED state /\ RwGoto(t, "insert")
    /\ UNCHANGED <<read_wakers, write_wakers, mode>>

(* "Insert this lock operation." *)
RwInsertEntry(t) ==
    /\ rwPc[t] = "insert"
    /\ OnOwnWakers(t, LAMBDA ws : Insert(ws, t))
    /\ RwGoto(t, "recheck")
    /\ UNCHANGED <<state, mode>>

(* Still locked against this operation: return Pending, else loop.         *)
RwRecheck(t) ==
    /\ rwPc[t] = "recheck"
    /\ RwGoto(t, IF (mode[t] = "read" /\ MayRead) \/ (mode[t] = "write" /\ MayWrite)
                 THEN "remove" ELSE "pending")
    /\ UNCHANGED <<state, read_wakers, write_wakers, mode>>

(* try_read() and try_write() on their own, when they succeed (Debug::fmt  *)
(* calls try_read too); a failure changes nothing.                         *)
TryReadNow(t) ==
    /\ rwPc[t] = "idle" /\ MayRead
    /\ AddReader
    /\ mode' = [mode EXCEPT ![t] = "read"]
    /\ RwGoto(t, "holding")
    /\ UNCHANGED <<read_wakers, write_wakers>>

TryWriteNow(t) ==
    /\ rwPc[t] = "idle" /\ MayWrite
    /\ SetWriter
    /\ mode' = [mode EXCEPT ![t] = "write"]
    /\ RwGoto(t, "holding")
    /\ UNCHANGED <<read_wakers, write_wakers>>

-----------------------------------------------------------------------------
(* Drop for ReadFuture: cancel, then look at the count, then wake a writer.*)
DropReadFuture(t) ==
    /\ rwPc[t] = "pending" /\ mode[t] = "read"
    /\ read_wakers' \in Cancel(read_wakers, t)
    /\ RwGoto(t, "check_reads")
    /\ UNCHANGED <<state, write_wakers, mode>>

(* Mutant: a cancelled read() never looks after the writers. *)
CheckReadsNever(t) ==
    /\ rwPc[t] = "check_reads"
    /\ RwGoto(t, "idle")
    /\ UNCHANGED <<state, read_wakers, write_wakers, mode>>

CheckReads(t) ==
    /\ rwPc[t] = "check_reads"
    /\ RwGoto(t, IF state.reads = 0 THEN "notify_writer" ELSE "idle")
    /\ UNCHANGED <<state, read_wakers, write_wakers, mode>>

(* Drop for WriteFuture: if cancel() woke no other writer, wake all readers.*)
DropWriteFuture(t) ==
    /\ rwPc[t] = "pending" /\ mode[t] = "write"
    /\ write_wakers' \in Cancel(write_wakers, t)
    /\ RwGoto(t, IF Woke(Remove(write_wakers, t), write_wakers') THEN "idle"
               ELSE "notify_readers_only")
    /\ UNCHANGED <<state, read_wakers, mode>>

NotifyReadersOnly(t) ==
    /\ rwPc[t] = "notify_readers_only"
    /\ read_wakers' = NotifyAll(read_wakers)
    /\ RwGoto(t, "idle")
    /\ UNCHANGED <<state, write_wakers, mode>>

(* Mutant: the last reader wakes nobody. *)
DropReadGuardSilently(t) ==
    /\ rwPc[t] = "holding" /\ mode[t] = "read"
    /\ state' = [state EXCEPT !.reads = @ - 1]
    /\ RwGoto(t, "idle")
    /\ UNCHANGED <<read_wakers, write_wakers, mode>>

(* Drop for RwLockReadGuard: the last reader wakes a writer. *)
DropReadGuard(t) ==
    /\ rwPc[t] = "holding" /\ mode[t] = "read"
    /\ state' = [state EXCEPT !.reads = @ - 1]
    /\ RwGoto(t, IF state.reads = 1 THEN "notify_writer" ELSE "idle")
    /\ UNCHANGED <<read_wakers, write_wakers, mode>>

(* Mutant: only writers are woken. *)
DropWriteGuardForWriters(t) ==
    /\ rwPc[t] = "holding" /\ mode[t] = "write"
    /\ state' = Unlocked
    /\ RwGoto(t, "notify_writer")
    /\ UNCHANGED <<read_wakers, write_wakers, mode>>

(* Drop for RwLockWriteGuard: all readers, or else one writer. *)
DropWriteGuard(t) ==
    /\ rwPc[t] = "holding" /\ mode[t] = "write"
    /\ state' = Unlocked
    /\ RwGoto(t, "notify_readers")
    /\ UNCHANGED <<read_wakers, write_wakers, mode>>

NotifyReaders(t) ==
    /\ rwPc[t] = "notify_readers"
    /\ read_wakers' = NotifyAll(read_wakers)
    /\ RwGoto(t, IF Woke(read_wakers, read_wakers') THEN "idle" ELSE "notify_writer")
    /\ UNCHANGED <<state, write_wakers, mode>>

NotifyWriter(t) ==
    /\ rwPc[t] = "notify_writer"
    /\ write_wakers' \in NotifyAny(write_wakers)
    /\ RwGoto(t, "idle")
    /\ UNCHANGED <<state, read_wakers, mode>>

-----------------------------------------------------------------------------
(* What a thread does on its own once it has started it. *)
RwRunning(t) ==
    \/ RwRemoveEntry(t) \/ TryRead(t) \/ TryWrite(t) \/ RwInsertEntry(t) \/ RwRecheck(t)
    \/ CheckReads(t) \/ NotifyReadersOnly(t) \/ NotifyReaders(t) \/ NotifyWriter(t)

(* What a task decides. *)
Deciding(t) ==
    \/ \E m \in {"read", "write"} : Start(t, m)
    \/ TryReadNow(t) \/ TryWriteNow(t)
    \/ RwPoll(t) \/ DropReadFuture(t) \/ DropWriteFuture(t)
    \/ DropReadGuard(t) \/ DropWriteGuard(t)

RwNext == \E t \in Task : RwRunning(t) \/ Deciding(t)

RwSpec == RwInit /\ [][RwNext]_rwVars

(* As in Mutex: threads go on, woken tasks are polled; guards may be kept. *)
RwWokenPoll(t) == "notified" \in {read_wakers[t], write_wakers[t]} /\ RwPoll(t)
RwFairness == \A t \in Task : WF_rwVars(RwRunning(t)) /\ WF_rwVars(RwWokenPoll(t))

-----------------------------------------------------------------------------
Readers == {t \in Task : rwPc[t] = "holding" /\ mode[t] = "read"}
Writers == {t \in Task : rwPc[t] = "holding" /\ mode[t] = "write"}

(* ReadersXorWriter: a write guard excludes every other guard, and the word*)
(* counts exactly the guards that exist, so no interleaving of polls, drops*)
(* and cancellations makes it drift (guards deref to &T and &mut T).       *)
ReadersXorWriter ==
    /\ Writers # {} => Readers = {} /\ \A t, u \in Writers : t = u
    /\ state.write <=> Writers # {}
    /\ state.reads = Cardinality(Readers)

(* RwEntryMatchesFuture: a future is registered, in the set of its own mode,*)
(* exactly while it holds a key; a leaked notified entry would silence     *)
(* notify_any for ever.                                                    *)
HasKey(t, m) == mode[t] = m /\ rwPc[t] \in {"remove", "recheck", "pending"}
RwEntryMatchesFuture ==
    \A t \in Task : /\ read_wakers[t] # "absent" <=> HasKey(t, "read")
                    /\ write_wakers[t] # "absent" <=> HasKey(t, "write")

(* NoReaderStranded: a read() that returned Pending and was not woken since*)
(* is waiting for a write guard that exists, or for the thread that has just*)
(* dropped one and is about to notify all readers.                         *)
NoReaderStranded ==
    (\E t \in Task : rwPc[t] = "pending" /\ read_wakers[t] = "waiting")
        => state.write \/ \E t \in Task : rwPc[t] = "notify_readers"

(* A task that will wake a writer or take the lock, unless it finds the lock*)
(* taken: it is about to notify, it is inside a poll, or it has been woken.*)
RwResponsible(t) ==
    \/ rwPc[t] \in RwPolling \cup {"check_reads", "notify_readers", "notify_writer"}
    \/ "notified" \in {read_wakers[t], write_wakers[t]}

(* NoWriterStranded: while nobody holds the lock, a blocked write() is never*)
(* left waiting with nobody on the way.  The hazard is that the write      *)
(* guard's drop wakes readers instead of writers, and those readers are    *)
(* cancelled or overtaken before they take the lock.                       *)
NoWriterStranded ==
    state = Unlocked /\ Waiting(write_wakers) # {} => \E t \in Task : RwResponsible(t)

(* WaitersServed: a blocked read() is woken once no writer holds the lock, *)
(* and a free lock with blocked writers is taken or they are woken.        *)
WaitersServed ==
    /\ \A t \in Task :
         (rwPc[t] = "pending" /\ read_wakers[t] = "waiting" /\ ~state.write)
             ~> read_wakers[t] # "waiting"
    /\ (state = Unlocked /\ Waiting(write_wakers) # {})
         ~> (state # Unlocked \/ Waiting(write_wakers) = {})
=============================================================================
