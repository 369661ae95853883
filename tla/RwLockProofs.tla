---------------------------- MODULE RwLockProofs ----------------------------
(***************************************************************************)
(* Proofs about RwLock, for every finite set of tasks.                     *)
(*                                                                         *)
(* The inductive invariant is the conjunction of the invariants the run    *)
(* checks.  The two halves of the argument are independent: the word       *)
(* counts the guards (a cardinality argument on Readers), and nobody is    *)
(* stranded (the waker-set facts, one case per action that stops being     *)
(* responsible).                                                           *)
(***************************************************************************)
EXTENDS RwLock, WakerSetFacts, FiniteSetTheorems, TLAPS

RwInv ==
    RwTypeOK /\ ReadersXorWriter /\ RwEntryMatchesFuture /\ NoReaderStranded /\ NoWriterStranded

-----------------------------------------------------------------------------
(* ReadersFinite: the guards that exist can be counted.                    *)
LEMMA ReadersFinite == IsFiniteSet(Readers) /\ Cardinality(Readers) \in Nat
  BY TaskFinite, FS_Subset, FS_CardinalityType DEF Readers

(* ReaderAdded: one more read guard is one more in the count.              *)
LEMMA ReaderAdded ==
    ASSUME NEW t \in Task, t \notin Readers, Readers' = Readers \cup {t}
    PROVE  Cardinality(Readers') = Cardinality(Readers) + 1
  BY ReadersFinite, FS_AddElement

(* ReaderDropped: one guard less is one less, and there was one to drop.   *)
LEMMA ReaderDropped ==
    ASSUME NEW t \in Task, t \in Readers, Readers' = Readers \ {t}
    PROVE  /\ Cardinality(Readers') = Cardinality(Readers) - 1
           /\ Cardinality(Readers) \in Nat \ {0}
           /\ Cardinality(Readers) = 1 => Readers' = {}
  <1>1. Cardinality(Readers') = Cardinality(Readers) - 1
    BY ReadersFinite, FS_RemoveElement
  <1>2. Cardinality(Readers) # 0
    BY ReadersFinite, FS_EmptySet
  <1>3. Cardinality(Readers) = 1 => Readers' = {}
    <2>1. IsFiniteSet(Readers')
      BY ReadersFinite, FS_Subset
    <2>2. QED
      BY <1>1, <2>1, FS_EmptySet
  <1>4. QED
    BY <1>1, <1>2, <1>3, ReadersFinite

(* RwInvInit: the invariant holds in a new lock.                           *)
LEMMA RwInvInit == RwInit => RwInv
  <1> SUFFICES ASSUME RwInit PROVE RwInv
    OBVIOUS
  <1>1. Readers = {} /\ Writers = {}
    BY DEF RwInit, Readers, Writers
  <1>2. ReadersXorWriter
    BY <1>1, FS_EmptySet DEF RwInit, Unlocked, ReadersXorWriter
  <1>3. RwTypeOK
    BY DEF RwInit, RwTypeOK, Unlocked, NewWakerSet, EntryStates, RwPC, RwPolling
  <1>4. RwEntryMatchesFuture /\ NoReaderStranded /\ NoWriterStranded
    BY DEF RwInit, RwEntryMatchesFuture, HasKey, NoReaderStranded, NoWriterStranded,
           NewWakerSet, Waiting
  <1>5. QED
    BY <1>2, <1>3, <1>4 DEF RwInv

-----------------------------------------------------------------------------
(* TypeStep: every step keeps the types.                                   *)
LEMMA TypeStep == RwInv /\ [RwNext]_rwVars => RwTypeOK'
  <1> SUFFICES ASSUME RwInv, [RwNext]_rwVars PROVE RwTypeOK'
    OBVIOUS
  <1> USE DEF RwInv, RwTypeOK, RwPC, RwPolling, RwGoto
  <1>1. CASE UNCHANGED rwVars
    BY <1>1 DEF rwVars
  <1>2. ASSUME NEW t \in Task, NEW m \in {"read", "write"}, Start(t, m) PROVE RwTypeOK'
    BY <1>2 DEF Start
  <1>3. ASSUME NEW t \in Task, \/ TryReadNow(t) \/ TryWriteNow(t) \/ TryRead(t) \/ TryWrite(t)
                               \/ RwPoll(t) \/ RwRecheck(t) \/ CheckReads(t)
        PROVE  RwTypeOK'
    <2>1. CASE TryReadNow(t) \/ TryRead(t)
      BY <2>1 DEF TryReadNow, TryRead, AddReader
    <2>2. CASE TryWriteNow(t) \/ TryWrite(t)
      BY <2>2 DEF TryWriteNow, TryWrite, SetWriter
    <2>3. CASE RwPoll(t) \/ RwRecheck(t) \/ CheckReads(t)
      BY <2>3 DEF RwPoll, RwRecheck, CheckReads
    <2>4. QED
      BY <1>3, <2>1, <2>2, <2>3
  <1>4. ASSUME NEW t \in Task, RwRemoveEntry(t) \/ RwInsertEntry(t) PROVE RwTypeOK'
    BY <1>4 DEF RwRemoveEntry, RwInsertEntry, OnOwnWakers, Remove, Insert, EntryStates
  <1>5. ASSUME NEW t \in Task, DropReadFuture(t) \/ DropWriteFuture(t) PROVE RwTypeOK'
    BY <1>5, CancelFacts DEF DropReadFuture, DropWriteFuture
  <1>6. ASSUME NEW t \in Task, NotifyReadersOnly(t) \/ NotifyReaders(t) PROVE RwTypeOK'
    BY <1>6, NotifyAllFacts DEF NotifyReadersOnly, NotifyReaders
  <1>7. ASSUME NEW t \in Task, NotifyWriter(t) PROVE RwTypeOK'
    BY <1>7, NotifyAnyFacts DEF NotifyWriter
  <1>8. ASSUME NEW t \in Task, DropWriteGuard(t) PROVE RwTypeOK'
    BY <1>8 DEF DropWriteGuard, Unlocked
  <1>9. ASSUME NEW t \in Task, DropReadGuard(t) PROVE RwTypeOK'
    <2>1. t \in Readers
      BY <1>9 DEF DropReadGuard, Readers
    <2>2. state.reads # 0
      BY <2>1, ReadersFinite, FS_EmptySet DEF ReadersXorWriter
    <2>3. QED
      BY <1>9, <2>2 DEF DropReadGuard
  <1>10. QED
    BY <1>1, <1>2, <1>3, <1>4, <1>5, <1>6, <1>7, <1>8, <1>9 DEF RwNext, RwRunning, Deciding

(* ExclusionStep: every step keeps the word and the guards in agreement.   *)
LEMMA ExclusionStep == RwInv /\ [RwNext]_rwVars => ReadersXorWriter'
  <1> SUFFICES ASSUME RwInv, [RwNext]_rwVars PROVE ReadersXorWriter'
    OBVIOUS
  <1> USE DEF RwInv, RwTypeOK, RwGoto
  <1>1. CASE /\ UNCHANGED state
             /\ Readers' = Readers
             /\ Writers' = Writers
    BY <1>1 DEF ReadersXorWriter
  <1>2. CASE UNCHANGED rwVars
    BY <1>1, <1>2 DEF rwVars, Readers, Writers
  <1>3. ASSUME NEW t \in Task, NEW m \in {"read", "write"}, Start(t, m)
        PROVE  ReadersXorWriter'
    BY <1>1, <1>3 DEF Start, Readers, Writers
  <1>4. ASSUME NEW t \in Task, \/ RwPoll(t) \/ RwRemoveEntry(t) \/ RwInsertEntry(t) \/ RwRecheck(t)
                               \/ CheckReads(t) \/ DropReadFuture(t) \/ DropWriteFuture(t)
                               \/ NotifyReadersOnly(t) \/ NotifyReaders(t) \/ NotifyWriter(t)
        PROVE  ReadersXorWriter'
    <2>1. UNCHANGED <<state, mode>>
      BY <1>4 DEF RwPoll, RwRemoveEntry, RwInsertEntry, RwRecheck, CheckReads, DropReadFuture,
              DropWriteFuture, NotifyReadersOnly, NotifyReaders, NotifyWriter
    <2>2. \A u \in Task : rwPc'[u] = "holding" <=> rwPc[u] = "holding"
      BY <1>4 DEF RwPoll, RwRemoveEntry, RwInsertEntry, RwRecheck, CheckReads, DropReadFuture,
              DropWriteFuture, NotifyReadersOnly, NotifyReaders, NotifyWriter
    <2>3. QED
      BY <1>1, <2>1, <2>2 DEF Readers, Writers
  <1>5. ASSUME NEW t \in Task, TryRead(t) \/ TryReadNow(t), MayRead
        PROVE  ReadersXorWriter'
    <2>1. t \notin Readers /\ Readers' = Readers \cup {t} /\ Writers' = Writers
      BY <1>5 DEF TryRead, TryReadNow, Readers, Writers
    <2>2. state' = [state EXCEPT !.reads = @ + 1]
      BY <1>5 DEF TryRead, TryReadNow, AddReader
    <2>3. Cardinality(Readers') = Cardinality(Readers) + 1
      BY <2>1, ReaderAdded
    <2>4. QED
      BY <1>5, <2>1, <2>2, <2>3 DEF ReadersXorWriter, MayRead
  <1>6. ASSUME NEW t \in Task, TryWrite(t) \/ TryWriteNow(t), MayWrite
        PROVE  ReadersXorWriter'
    <2>1. Readers' = Readers /\ Writers' = Writers \cup {t}
      BY <1>6 DEF TryWrite, TryWriteNow, Readers, Writers
    <2>2. state' = [state EXCEPT !.write = TRUE]
      BY <1>6 DEF TryWrite, TryWriteNow, SetWriter
    <2>3. Readers = {} /\ Writers = {}
      BY <1>6, ReadersFinite, FS_EmptySet DEF ReadersXorWriter, MayWrite, Unlocked
    <2>4. QED
      BY <2>1, <2>2, <2>3 DEF ReadersXorWriter
  <1>7. ASSUME NEW t \in Task, (TryRead(t) /\ ~MayRead) \/ (TryWrite(t) /\ ~MayWrite)
        PROVE  ReadersXorWriter'
    BY <1>1, <1>7 DEF TryRead, TryWrite, Readers, Writers
  <1>8. ASSUME NEW t \in Task, DropReadGuard(t) PROVE ReadersXorWriter'
    <2>1. t \in Readers /\ Readers' = Readers \ {t} /\ Writers' = Writers
      BY <1>8 DEF DropReadGuard, Readers, Writers
    <2>2. /\ Cardinality(Readers') = Cardinality(Readers) - 1
          /\ Cardinality(Readers) \in Nat \ {0}
      BY <2>1, ReaderDropped
    <2>3. QED
      BY <1>8, <2>1, <2>2 DEF DropReadGuard, ReadersXorWriter
  <1>9. ASSUME NEW t \in Task, DropWriteGuard(t) PROVE ReadersXorWriter'
    <2>1. t \in Writers /\ Readers' = Readers /\ Writers' = Writers \ {t}
      BY <1>9 DEF DropWriteGuard, Readers, Writers
    <2>2. Readers = {} /\ Writers' = {}
      BY <2>1 DEF ReadersXorWriter
    <2>3. QED
      BY <1>9, <2>1, <2>2, FS_EmptySet DEF DropWriteGuard, Unlocked, ReadersXorWriter
  <1>10. QED
    <2>1. ASSUME NEW t \in Task, RwRunning(t) PROVE ReadersXorWriter'
      BY <1>4, <1>5, <1>6, <1>7, <2>1 DEF RwRunning
    <2>2. ASSUME NEW t \in Task, Deciding(t) PROVE ReadersXorWriter'
      <3>1. TryReadNow(t) => MayRead
        BY DEF TryReadNow
      <3>2. TryWriteNow(t) => MayWrite
        BY DEF TryWriteNow
      <3>3. QED
        BY <1>3, <1>4, <1>5, <1>6, <1>8, <1>9, <2>2, <3>1, <3>2 DEF Deciding
    <2>3. QED
      BY <1>2, <2>1, <2>2 DEF RwNext

(* EntriesStep: every step keeps the futures and their entries together.   *)
LEMMA EntriesStep == RwInv /\ [RwNext]_rwVars => RwEntryMatchesFuture'
  <1> SUFFICES ASSUME RwInv, [RwNext]_rwVars PROVE RwEntryMatchesFuture'
    OBVIOUS
  <1> USE DEF RwInv, RwTypeOK, RwEntryMatchesFuture, HasKey, RwGoto
  <1>1. CASE UNCHANGED rwVars
    BY <1>1 DEF rwVars
  <1>2. ASSUME NEW t \in Task, NEW m \in {"read", "write"}, Start(t, m)
        PROVE  RwEntryMatchesFuture'
    BY <1>2 DEF Start
  <1>3. ASSUME NEW t \in Task, \/ TryReadNow(t) \/ TryWriteNow(t) \/ TryRead(t) \/ TryWrite(t)
                               \/ RwPoll(t) \/ RwRecheck(t) \/ CheckReads(t)
                               \/ DropReadGuard(t) \/ DropWriteGuard(t)
        PROVE  RwEntryMatchesFuture'
    <2>1. CASE TryReadNow(t) \/ TryWriteNow(t)
      BY <2>1 DEF TryReadNow, TryWriteNow
    <2>2. CASE TryRead(t) \/ TryWrite(t)
      BY <2>2 DEF TryRead, TryWrite
    <2>3. CASE RwPoll(t) \/ RwRecheck(t) \/ CheckReads(t)
      BY <2>3 DEF RwPoll, RwRecheck, CheckReads
    <2>4. CASE DropReadGuard(t) \/ DropWriteGuard(t)
      BY <2>4 DEF DropReadGuard, DropWriteGuard
    <2>5. QED
      BY <1>3, <2>1, <2>2, <2>3, <2>4
  <1>4. ASSUME NEW t \in Task, RwRemoveEntry(t) PROVE RwEntryMatchesFuture'
    BY <1>4 DEF RwRemoveEntry, OnOwnWakers, Remove
  <1>5. ASSUME NEW t \in Task, RwInsertEntry(t) PROVE RwEntryMatchesFuture'
    BY <1>5 DEF RwInsertEntry, OnOwnWakers, Insert
  <1>6. ASSUME NEW t \in Task, DropReadFuture(t) PROVE RwEntryMatchesFuture'
    <2>1. /\ read_wakers'[t] = "absent"
          /\ \A o \in Task \ {t} : read_wakers'[o] = "absent" <=> read_wakers[o] = "absent"
      BY <1>6, CancelFacts DEF DropReadFuture
    <2>2. QED
      BY <1>6, <2>1 DEF DropReadFuture
  <1>7. ASSUME NEW t \in Task, DropWriteFuture(t) PROVE RwEntryMatchesFuture'
    <2>1. /\ write_wakers'[t] = "absent"
          /\ \A o \in Task \ {t} : write_wakers'[o] = "absent" <=> write_wakers[o] = "absent"
      BY <1>7, CancelFacts DEF DropWriteFuture
    <2>2. QED
      BY <1>7, <2>1 DEF DropWriteFuture
  <1>8. ASSUME NEW t \in Task, NotifyReadersOnly(t) \/ NotifyReaders(t)
        PROVE  RwEntryMatchesFuture'
    <2>1. \A o \in Task : read_wakers'[o] = "absent" <=> read_wakers[o] = "absent"
      BY <1>8, NotifyAllFacts DEF NotifyReadersOnly, NotifyReaders
    <2>2. QED
      BY <1>8, <2>1 DEF NotifyReadersOnly, NotifyReaders
  <1>9. ASSUME NEW t \in Task, NotifyWriter(t) PROVE RwEntryMatchesFuture'
    <2>1. \A o \in Task : write_wakers'[o] = "absent" <=> write_wakers[o] = "absent"
      BY <1>9, NotifyAnyFacts DEF NotifyWriter
    <2>2. QED
      BY <1>9, <2>1 DEF NotifyWriter
  <1>10. QED
    BY <1>1, <1>2, <1>3, <1>4, <1>5, <1>6, <1>7, <1>8, <1>9 DEF RwNext, RwRunning, Deciding

(* ReadersStep: no step leaves a pending read() behind a lock that is not  *)
(* held for writing and that nobody is about to announce.                  *)
LEMMA ReadersStep == RwInv /\ [RwNext]_rwVars => NoReaderStranded'
  <1> SUFFICES ASSUME RwInv, [RwNext]_rwVars PROVE NoReaderStranded'
    OBVIOUS
  <1> USE DEF RwInv, RwTypeOK, NoReaderStranded, RwGoto
  <1>1. CASE UNCHANGED rwVars
    BY <1>1 DEF rwVars
  <1>2. ASSUME NEW t \in Task, NEW m \in {"read", "write"}, Start(t, m)
        PROVE  NoReaderStranded'
    BY <1>2 DEF Start
  <1>3. ASSUME NEW t \in Task, TryReadNow(t) \/ TryRead(t) \/ DropReadGuard(t)
        PROVE  NoReaderStranded'
    BY <1>3 DEF TryReadNow, TryRead, DropReadGuard, AddReader
  <1>4. ASSUME NEW t \in Task, TryWriteNow(t) \/ TryWrite(t) \/ DropWriteGuard(t)
        PROVE  NoReaderStranded'
    BY <1>4 DEF TryWriteNow, TryWrite, DropWriteGuard, SetWriter
  <1>5. ASSUME NEW t \in Task, RwPoll(t) \/ CheckReads(t) PROVE NoReaderStranded'
    BY <1>5 DEF RwPoll, CheckReads
  <1>6. ASSUME NEW t \in Task, RwRecheck(t) PROVE NoReaderStranded'
    BY <1>6 DEF RwRecheck, MayRead, MayWrite, RwEntryMatchesFuture, HasKey
  <1>7. ASSUME NEW t \in Task, RwRemoveEntry(t) \/ RwInsertEntry(t) PROVE NoReaderStranded'
    BY <1>7 DEF RwRemoveEntry, RwInsertEntry, OnOwnWakers, Remove, Insert
  <1>8. ASSUME NEW t \in Task, DropReadFuture(t) PROVE NoReaderStranded'
    <2>1. /\ read_wakers'[t] = "absent"
          /\ \A o \in Task : read_wakers'[o] = "waiting" => read_wakers[o] = "waiting"
      BY <1>8, CancelFacts DEF DropReadFuture
    <2>2. QED
      BY <1>8, <2>1 DEF DropReadFuture
  <1>9. ASSUME NEW t \in Task, DropWriteFuture(t) \/ NotifyWriter(t) PROVE NoReaderStranded'
    BY <1>9 DEF DropWriteFuture, NotifyWriter
  <1>10. ASSUME NEW t \in Task, NotifyReadersOnly(t) \/ NotifyReaders(t)
         PROVE  NoReaderStranded'
    <2>1. \A o \in Task : read_wakers'[o] # "waiting"
      BY <1>10, NotifyAllFacts DEF NotifyReadersOnly, NotifyReaders
    <2>2. QED
      BY <2>1
  <1>11. QED
    BY <1>1, <1>2, <1>3, <1>4, <1>5, <1>6, <1>7, <1>8, <1>9, <1>10
       DEF RwNext, RwRunning, Deciding
(* WritersStep: a task stops being responsible for the blocked writers only*)
(* when it has taken the lock, found it taken, or woken somebody.          *)
LEMMA WritersStep == RwInv /\ [RwNext]_rwVars => NoWriterStranded'
  <1> SUFFICES ASSUME RwInv, [RwNext]_rwVars, state' = Unlocked, Waiting(write_wakers') # {}
               PROVE  \E u \in Task : RwResponsible(u)'
    BY DEF NoWriterStranded
  <1> USE DEF RwInv, RwTypeOK, RwGoto, RwResponsible, RwPolling
  <1> DEFINE Goal == \E u \in Task : RwResponsible(u)'
  <1>1. ASSUME state = Unlocked, Waiting(write_wakers) # {}
        PROVE  \E u \in Task : RwResponsible(u)
    BY <1>1 DEF NoWriterStranded
  <1>2. CASE UNCHANGED rwVars
    BY <1>1, <1>2 DEF rwVars
  <1>3. ASSUME NEW t \in Task, \/ \E m \in {"read", "write"} : Start(t, m)
                               \/ RwPoll(t) \/ RwRemoveEntry(t) \/ RwInsertEntry(t)
                               \/ DropReadFuture(t) \/ DropWriteGuard(t)
        PROVE  Goal
    <2>1. rwPc'[t] \in RwPolling \cup {"check_reads", "notify_readers"}
      BY <1>3 DEF Start, RwPoll, RwRemoveEntry, RwInsertEntry, DropReadFuture, DropWriteGuard
    <2>2. QED
      BY <2>1
  <1>4. ASSUME NEW t \in Task, TryReadNow(t) \/ TryRead(t) PROVE Goal
    <2>1. CASE MayRead
      <3>1. state'.reads # 0
        BY <1>4, <2>1 DEF TryReadNow, TryRead, AddReader
      <3>2. QED
        BY <3>1 DEF Unlocked
    <2>2. CASE ~MayRead
      BY <1>4, <2>2 DEF TryReadNow, TryRead
    <2>3. QED
      BY <2>1, <2>2
  <1>5. ASSUME NEW t \in Task, TryWriteNow(t) \/ TryWrite(t) PROVE Goal
    <2>1. CASE MayWrite
      <3>1. state'.write
        BY <1>5, <2>1 DEF TryWriteNow, TryWrite, SetWriter
      <3>2. QED
        BY <3>1 DEF Unlocked
    <2>2. CASE ~MayWrite
      BY <1>5, <2>2 DEF TryWriteNow, TryWrite
    <2>3. QED
      BY <2>1, <2>2
  <1>6. ASSUME NEW t \in Task, RwRecheck(t) PROVE Goal
    <2>1. MayRead /\ MayWrite
      BY <1>6 DEF RwRecheck, MayRead, MayWrite, Unlocked
    <2>2. rwPc'[t] = "remove"
      BY <1>6, <2>1 DEF RwRecheck
    <2>3. QED
      BY <2>2
  <1>7. ASSUME NEW t \in Task, CheckReads(t) PROVE Goal
    <2>1. state.reads = 0
      BY <1>7 DEF CheckReads, Unlocked
    <2>2. QED
      BY <1>7, <2>1 DEF CheckReads
  <1>8. ASSUME NEW t \in Task, DropReadGuard(t) PROVE Goal
    <2>1. t \in Readers
      BY <1>8 DEF DropReadGuard, Readers
    <2>2. state.reads \in Nat \ {0}
      BY <2>1, ReadersFinite, FS_EmptySet DEF ReadersXorWriter
    <2>3. state.reads - 1 = 0
      BY <1>8, <2>2 DEF DropReadGuard, Unlocked
    <2>4. rwPc'[t] = "notify_writer"
      BY <1>8, <2>2, <2>3 DEF DropReadGuard
    <2>5. QED
      BY <2>4
  <1>9. ASSUME NEW t \in Task, DropWriteFuture(t) PROVE Goal
    <2>1. /\ \A o \in Task \ {t} : write_wakers[o] = "notified" => write_wakers'[o] = "notified"
          /\ write_wakers[t] = "notified" => \E o \in Task : write_wakers'[o] = "notified"
          /\ \A o \in Task : write_wakers'[o] = "waiting" => write_wakers[o] = "waiting"
          /\ write_wakers' \in [Task -> EntryStates]
      BY <1>9, CancelFacts DEF DropWriteFuture
    <2>2. PICK u \in Task : RwResponsible(u)
      BY <1>1, <1>9, <2>1 DEF DropWriteFuture, Waiting
    <2>3. read_wakers[t] # "notified"
      BY <1>9 DEF DropWriteFuture, RwEntryMatchesFuture, HasKey
    <2>4. QED
      BY <1>9, <2>1, <2>2, <2>3 DEF DropWriteFuture
  <1>10. ASSUME NEW t \in Task, NotifyReadersOnly(t) \/ NotifyReaders(t) PROVE Goal
    <2>1. /\ \A o \in Task : read_wakers[o] = "notified" => read_wakers'[o] = "notified"
          /\ Woke(read_wakers, read_wakers') => \E o \in Task : read_wakers'[o] = "notified"
      BY <1>10, NotifyAllFacts DEF NotifyReadersOnly, NotifyReaders
    <2>2. CASE NotifyReaders(t)
      BY <2>1, <2>2 DEF NotifyReaders
    <2>3. CASE NotifyReadersOnly(t)
      BY <1>1, <2>1, <2>3 DEF NotifyReadersOnly
    <2>4. QED
      BY <1>10, <2>2, <2>3
  <1>11. ASSUME NEW t \in Task, NotifyWriter(t) PROVE Goal
    BY <1>11, NotifyAnyFacts DEF NotifyWriter
  <1>12. QED
    BY <1>2, <1>3, <1>4, <1>5, <1>6, <1>7, <1>8, <1>9, <1>10, <1>11
       DEF RwNext, RwRunning, Deciding

-----------------------------------------------------------------------------
(* RwInvariant: the conjunction is an invariant of the specification.      *)
THEOREM RwInvariant == RwSpec => []RwInv
  <1>1. RwInv /\ [RwNext]_rwVars => RwInv'
    BY TypeStep, ExclusionStep, EntriesStep, ReadersStep, WritersStep DEF RwInv
  <1>2. QED
    BY RwInvInit, <1>1, PTL DEF RwSpec

(* GuardsExclude: for any number of tasks, a write guard excludes every    *)
(* other guard and the atomic word counts exactly the guards that exist.   *)
THEOREM GuardsExclude == RwSpec => []ReadersXorWriter
  <1>1. RwInv => ReadersXorWriter
    BY DEF RwInv
  <1>2. QED
    BY <1>1, RwInvariant, PTL

(* ReadersAreWoken: for any number of tasks, a pending read() always has a *)
(* write guard, or the thread that just dropped one, still ahead of it.    *)
THEOREM ReadersAreWoken == RwSpec => []NoReaderStranded
  <1>1. RwInv => NoReaderStranded
    BY DEF RwInv
  <1>2. QED
    BY <1>1, RwInvariant, PTL

(* WritersAreWoken: for any number of tasks, a free lock never leaves a    *)
(* blocked write() with nobody on the way to wake it.                      *)
THEOREM WritersAreWoken == RwSpec => []NoWriterStranded
  <1>1. RwInv => NoWriterStranded
    BY DEF RwInv
  <1>2. QED
    BY <1>1, RwInvariant, PTL
=============================================================================
