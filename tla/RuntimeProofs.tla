--------------------------- MODULE RuntimeProofs ---------------------------
(***************************************************************************)
(* Proofs about the parts that MCRuntime checks side by side, for every    *)
(* value of their bounds: the pool for blocking closures, task-locals and  *)
(* task ids, the barrier, and the networking driver.                       *)
(***************************************************************************)
EXTENDS MCRuntime, FiniteSetTheorems, SequenceTheorems, WellFoundedInduction, TLAPS

-----------------------------------------------------------------------------
(* The pool.  SleepingIsExact is inductive once the threads' places are     *)
(* known to be a function: a step moves one thread into or out of the set   *)
(* that SLEEPING counts, or (CreateThread) one out and one in.              *)

SleepingPlaces == {"recv", "expired", "took", "create"}
PoolPlaces == SleepingPlaces \cup {"none", "last", "start", "run", "running", "again", "load", "sleep"}
Moved(pl, th, to) == [pl EXCEPT ![th] = to]
Sleepers(pl) == {th \in PoolThread : pl[th] \in SleepingPlaces}

PoolInv ==
    /\ pool \in [PoolThread -> PoolPlaces]
    /\ SleepingIsExact

(* SleepersFinite: there are finitely many threads.                         *)
LEMMA SleepersFinite ==
    ASSUME NEW pl PROVE IsFiniteSet(Sleepers(pl)) /\ Cardinality(Sleepers(pl)) \in Nat
  <1>1. IsFiniteSet(PoolThread)
    BY PoolAssumption, FS_Interval DEF PoolThread
  <1>2. Sleepers(pl) \in SUBSET PoolThread
    BY DEF Sleepers
  <1>3. QED
    BY <1>1, <1>2, FS_Subset, FS_CardinalityType

(* ThreadMoves: what a move of one thread does to the number of sleepers.   *)
LEMMA ThreadMoves ==
    ASSUME NEW pl \in [PoolThread -> PoolPlaces], NEW th \in PoolThread, NEW to \in PoolPlaces
    PROVE  /\ Moved(pl, th, to) \in [PoolThread -> PoolPlaces]
           /\ pl[th] \in SleepingPlaces /\ to \notin SleepingPlaces =>
                 Cardinality(Sleepers(Moved(pl, th, to))) = Cardinality(Sleepers(pl)) - 1
           /\ pl[th] \notin SleepingPlaces /\ to \in SleepingPlaces =>
                 Cardinality(Sleepers(Moved(pl, th, to))) = Cardinality(Sleepers(pl)) + 1
           /\ (pl[th] \in SleepingPlaces <=> to \in SleepingPlaces) =>
                 Cardinality(Sleepers(Moved(pl, th, to))) = Cardinality(Sleepers(pl))
  <1> DEFINE new == Moved(pl, th, to)
  <1> USE DEF Moved
  <1>1. new \in [PoolThread -> PoolPlaces]
    OBVIOUS
  <1>2. ASSUME pl[th] \in SleepingPlaces, to \notin SleepingPlaces
        PROVE  Cardinality(Sleepers(new)) = Cardinality(Sleepers(pl)) - 1
    <2>1. th \in Sleepers(pl) /\ Sleepers(new) = Sleepers(pl) \ {th}
      BY <1>2 DEF Sleepers
    <2>2. QED
      BY <2>1, SleepersFinite, FS_RemoveElement
  <1>3. ASSUME pl[th] \notin SleepingPlaces, to \in SleepingPlaces
        PROVE  Cardinality(Sleepers(new)) = Cardinality(Sleepers(pl)) + 1
    <2>1. th \notin Sleepers(pl) /\ Sleepers(new) = Sleepers(pl) \cup {th}
      BY <1>3 DEF Sleepers
    <2>2. QED
      BY <2>1, SleepersFinite, FS_AddElement
  <1>4. ASSUME pl[th] \in SleepingPlaces <=> to \in SleepingPlaces
        PROVE  Cardinality(Sleepers(new)) = Cardinality(Sleepers(pl))
    <2>1. Sleepers(new) = Sleepers(pl)
      BY <1>4 DEF Sleepers
    <2>2. QED
      BY <2>1
  <1>5. QED
    BY <1>1, <1>2, <1>3, <1>4

(* PoolInvInit: one thread sleeps at first.                                 *)
LEMMA PoolInvInit == PoolInit => PoolInv
  <1> SUFFICES ASSUME PoolInit PROVE PoolInv
    OBVIOUS
  <1>1. pool \in [PoolThread -> PoolPlaces]
    BY DEF PoolInit, PoolPlaces, SleepingPlaces
  <1>2. Sleepers(pool) = {1}
    BY PoolAssumption DEF PoolInit, Sleepers, PoolThread, SleepingPlaces
  <1>3. Cardinality(Sleepers(pool)) = 1
    BY <1>2, FS_Singleton
  <1>4. QED
    BY <1>1, <1>3 DEF PoolInit, PoolInv, SleepingIsExact, Sleepers, SleepingPlaces

(* PoolInvStep: every atomic operation of a thread preserves the invariant. *)
LEMMA PoolInvStep == PoolInv /\ [PoolNext]_poolVars => PoolInv'
  <1> SUFFICES ASSUME PoolInv, [PoolNext]_poolVars PROVE PoolInv'
    OBVIOUS
  <1>1. /\ pool \in [PoolThread -> PoolPlaces]
        /\ sleeping = Cardinality(Sleepers(pool))
        /\ Cardinality(Sleepers(pool)) \in Nat
    BY SleepersFinite DEF PoolInv, SleepingIsExact, Sleepers, SleepingPlaces
  <1>2. SUFFICES /\ pool' \in [PoolThread -> PoolPlaces]
                 /\ sleeping' = Cardinality(Sleepers(pool'))
    BY DEF PoolInv, SleepingIsExact, Sleepers, SleepingPlaces
  <1>3. CASE UNCHANGED <<pool, sleeping>>
    BY <1>1, <1>3
  <1>4. ASSUME NEW th \in PoolThread, NEW to \in PoolPlaces, pool' = Moved(pool, th, to),
               \/ /\ pool[th] \in SleepingPlaces /\ to \notin SleepingPlaces
                  /\ sleeping' = sleeping - 1
               \/ /\ pool[th] \notin SleepingPlaces /\ to \in SleepingPlaces
                  /\ sleeping' = sleeping + 1
               \/ /\ pool[th] \in SleepingPlaces <=> to \in SleepingPlaces
                  /\ sleeping' = sleeping
        PROVE  /\ pool' \in [PoolThread -> PoolPlaces]
               /\ sleeping' = Cardinality(Sleepers(pool'))
    BY <1>1, <1>4, ThreadMoves
  <1>5. ASSUME NEW th \in PoolThread,
               \/ Recv(th) \/ TimeOut(th) \/ Leave(th) \/ Stay(th) \/ Took(th)
               \/ StartThread(th) \/ RunJob(th) \/ JobReturns(th) \/ TryRecvJob(th)
               \/ LoadSleeping(th) \/ Sleep(th)
        PROVE  \E to \in PoolPlaces :
                  /\ pool' = Moved(pool, th, to)
                  /\ \/ /\ pool[th] \in SleepingPlaces /\ to \notin SleepingPlaces
                        /\ sleeping' = sleeping - 1
                     \/ /\ pool[th] \notin SleepingPlaces /\ to \in SleepingPlaces
                        /\ sleeping' = sleeping + 1
                     \/ /\ pool[th] \in SleepingPlaces <=> to \in SleepingPlaces
                        /\ sleeping' = sleeping
    <2> USE <1>1 DEF PoolPlaces, SleepingPlaces, Goes, Moved
    <2>1. CASE Recv(th)
      BY <2>1 DEF Recv
    <2>2. CASE TimeOut(th)
      BY <2>2 DEF TimeOut
    <2>3. CASE Leave(th)
      <3>1. CASE sleeping = 1
        BY <2>3, <3>1 DEF Leave
      <3>2. CASE ~(sleeping = 1)
        BY <2>3, <3>2 DEF Leave
      <3>3. QED
        BY <3>1, <3>2
    <2>4. CASE Stay(th)
      <3>1. CASE sleeping = 0
        BY <2>4, <3>1 DEF Stay
      <3>2. CASE ~(sleeping = 0)
        BY <2>4, <3>2 DEF Stay
      <3>3. QED
        BY <3>1, <3>2
    <2>5. CASE Took(th)
      <3>1. CASE sleeping = 1
        BY <2>5, <3>1 DEF Took
      <3>2. CASE ~(sleeping = 1)
        BY <2>5, <3>2 DEF Took
      <3>3. QED
        BY <3>1, <3>2
    <2>6. CASE StartThread(th)
      BY <2>6 DEF StartThread
    <2>7. CASE RunJob(th)
      BY <2>7 DEF RunJob
    <2>8. CASE JobReturns(th)
      BY <2>8 DEF JobReturns
    <2>9. CASE TryRecvJob(th)
      BY <2>9 DEF TryRecvJob
    <2>10. CASE LoadSleeping(th)
      <3>1. CASE sleeping > 0
        BY <2>10, <3>1 DEF LoadSleeping
      <3>2. CASE ~(sleeping > 0)
        BY <2>10, <3>2 DEF LoadSleeping
      <3>3. QED
        BY <3>1, <3>2
    <2>11. CASE Sleep(th)
      BY <2>11 DEF Sleep
    <2>12. QED
      BY <1>5, <2>1, <2>2, <2>3, <2>4, <2>5, <2>6, <2>7, <2>8, <2>9, <2>10, <2>11
  <1>6. ASSUME NEW th \in PoolThread, CreateThread(th)
        PROVE  /\ pool' \in [PoolThread -> PoolPlaces]
               /\ sleeping' = Cardinality(Sleepers(pool'))
    <2>1. PICK new \in PoolThread :
              /\ pool[new] = "none"
              /\ pool' = [pool EXCEPT ![th] = "run", ![new] = "recv"]
      BY <1>6 DEF CreateThread
    <2>2. pool[th] = "create" /\ sleeping' = sleeping /\ new # th
      BY <1>6, <2>1 DEF CreateThread
    <2> DEFINE mid == Moved(pool, th, "run")
    <2>3. pool' = Moved(mid, new, "recv") /\ mid[new] = "none"
      BY <1>1, <2>1, <2>2 DEF Moved
    <2>4. /\ mid \in [PoolThread -> PoolPlaces]
          /\ Cardinality(Sleepers(mid)) = Cardinality(Sleepers(pool)) - 1
      BY <1>1, <2>2, ThreadMoves DEF PoolPlaces, SleepingPlaces
    <2> HIDE DEF mid
    <2>5. /\ pool' \in [PoolThread -> PoolPlaces]
          /\ Cardinality(Sleepers(pool')) = Cardinality(Sleepers(mid)) + 1
      BY <2>3, <2>4, ThreadMoves DEF PoolPlaces, SleepingPlaces
    <2>6. QED
      BY <1>1, <2>2, <2>4, <2>5
  <1>7. ASSUME NEW j \in Job, SpawnBlocking(j) PROVE UNCHANGED <<pool, sleeping>>
    BY <1>7 DEF SpawnBlocking
  <1>8. UNCHANGED poolVars => UNCHANGED <<pool, sleeping>>
    BY DEF poolVars
  <1>9. QED
    BY <1>3, <1>4, <1>5, <1>6, <1>7, <1>8 DEF PoolNext, PoolStep

(* SleepersAreCounted: for any number of threads and closures, SLEEPING is  *)
(* the number of threads that wait or are about to, and never wraps.        *)
THEOREM SleepersAreCounted == PoolSpec => []SleepingIsExact
  <1>1. PoolInv => SleepingIsExact
    BY DEF PoolInv
  <1>2. QED
    BY <1>1, PoolInvInit, PoolInvStep, PTL DEF PoolSpec

-----------------------------------------------------------------------------
(* Sorted insertion, for the map of task-locals.                            *)

(* LeastIndex: a nonempty set of natural numbers has a least element.       *)
LEMMA LeastIndex ==
    ASSUME NEW S, S \subseteq Nat, S # {}
    PROVE  \E x \in S : \A y \in S : x <= y
  <1> DEFINE R == OpToRel(<, Nat)
  <1>1. IsWellFoundedOn(R, Nat)
    BY NatLessThanWellFounded
  <1>2. PICK x \in S : \A y \in S : ~ (<<y, x>> \in R)
    <2> HIDE DEF R
    <2>1. QED
      BY <1>1, WFMin
  <1>3. \A y \in S : ~(y < x)
    BY <1>2 DEF OpToRel
  <1>4. QED
    BY <1>3

LocalEntry == [key : Nat, of : Local]

(* SmallerIsPrefix: in a sorted map the entries with a smaller key are a    *)
(* prefix, whose length is their number.                                    *)
LEMMA SmallerIsPrefix ==
    ASSUME NEW s \in Seq(LocalEntry), Sorted(s), NEW k \in Nat
    PROVE  /\ Cardinality(Smaller(s, k)) \in 0 .. Len(s)
           /\ Smaller(s, k) = 1 .. Cardinality(Smaller(s, k))
  <1> DEFINE B == {i \in 1 .. Len(s) + 1 : i = Len(s) + 1 \/ ~(s[i].key < k)}
  <1>1. Len(s) \in Nat /\ DOMAIN s = 1 .. Len(s) /\ \A i \in 1 .. Len(s) : s[i].key \in Nat
    <2>1. \A i \in 1 .. Len(s) : s[i] \in LocalEntry
      BY ElementOfSeq
    <2>2. QED
      BY <2>1, LenProperties DEF LocalEntry
  <1>2. Len(s) + 1 \in B /\ B \subseteq Nat
    BY <1>1
  <1>3. PICK b \in B : \A i \in B : b <= i
    <2> HIDE DEF B
    <2>1. QED
      BY <1>2, LeastIndex
  <1>4. b - 1 \in 0 .. Len(s)
    BY <1>1
  <1>5. Smaller(s, k) = 1 .. (b - 1)
    <2>1. ASSUME NEW i \in 1 .. (b - 1) PROVE i \in Smaller(s, k)
      <3>1. i \in 1 .. Len(s) /\ i \notin B
        BY <1>1, <1>3, <1>4
      <3>2. QED
        BY <1>1, <3>1 DEF Smaller
    <2>2. ASSUME NEW i \in Smaller(s, k) PROVE i \in 1 .. (b - 1)
      <3>1. i \in 1 .. Len(s) /\ s[i].key < k
        BY <1>1 DEF Smaller
      <3>2. CASE b = Len(s) + 1
        BY <1>1, <3>1, <3>2
      <3>3. CASE b # Len(s) + 1
        <4>1. b \in 1 .. Len(s) /\ ~(s[b].key < k)
          BY <1>1, <3>3
        <4>2. b # i
          BY <3>1, <4>1
        <4>3. ~(b < i)
          BY <1>1, <3>1, <4>1 DEF Sorted
        <4>4. QED
          BY <3>1, <4>1, <4>2, <4>3
      <3>4. QED
        BY <3>2, <3>3
    <2>3. QED
      BY <2>1, <2>2
  <1>6. Cardinality(1 .. (b - 1)) = b - 1
    <2>1. b - 1 \in Int /\ 1 \in Int
      BY <1>1, <1>4
    <2>2. Cardinality(1 .. (b - 1)) = IF 1 > b - 1 THEN 0 ELSE (b - 1) - 1 + 1
      BY <2>1, FS_Interval
    <2>3. QED
      BY <1>1, <1>4, <2>2
  <1>7. QED
    BY <1>4, <1>5, <1>6

(* InsertAtFacts: Vec::insert.                                              *)
LEMMA InsertAtFacts ==
    ASSUME NEW s \in Seq(LocalEntry), NEW n \in 0 .. Len(s), NEW x \in LocalEntry
    PROVE  /\ InsertAt(s, n, x) \in Seq(LocalEntry)
           /\ Len(InsertAt(s, n, x)) = Len(s) + 1
           /\ InsertAt(s, n, x)[n + 1] = x
           /\ \A i \in 1 .. n : InsertAt(s, n, x)[i] = s[i]
           /\ \A i \in n + 2 .. Len(s) + 1 : InsertAt(s, n, x)[i] = s[i - 1]
  <1> DEFINE a == SubSeq(s, 1, n)
             z == SubSeq(s, n + 1, Len(s))
  <1>1. /\ a \in Seq(LocalEntry) /\ Len(a) = n
        /\ \A i \in 1 .. n : a[i] = s[i]
    OBVIOUS
  <1>2. /\ z \in Seq(LocalEntry) /\ Len(z) = Len(s) - n
        /\ \A i \in 1 .. Len(s) - n : z[i] = s[n + i]
    OBVIOUS
  <1> HIDE DEF a, z
  <1> DEFINE ax == a \o <<x>>
  <1>3. /\ ax \in Seq(LocalEntry) /\ Len(ax) = n + 1
        /\ \A i \in 1 .. n : ax[i] = s[i]
        /\ ax[n + 1] = x
    <2>1. <<x>> \in Seq(LocalEntry) /\ Len(<<x>>) = 1 /\ <<x>>[1] = x
      OBVIOUS
    <2>2. /\ ax \in Seq(LocalEntry) /\ Len(ax) = n + 1
          /\ \A i \in 1 .. n + 1 : ax[i] = IF i <= n THEN a[i] ELSE <<x>>[i - n]
      BY <1>1, <2>1, ConcatProperties
    <2> HIDE DEF ax
    <2>3. ASSUME NEW i \in 1 .. n PROVE ax[i] = s[i]
      BY <1>1, <2>2
    <2>4. ax[n + 1] = x
      BY <2>1, <2>2
    <2>5. QED
      BY <2>2, <2>3, <2>4
  <1>4. InsertAt(s, n, x) = ax \o z
    BY DEF InsertAt, a, z
  <1> HIDE DEF ax
  <1>5. /\ ax \o z \in Seq(LocalEntry)
        /\ Len(ax \o z) = Len(s) + 1
        /\ \A i \in 1 .. Len(s) + 1 :
              (ax \o z)[i] = IF i <= n + 1 THEN ax[i] ELSE z[i - (n + 1)]
    <2>1. Len(s) \in Nat /\ (n + 1) + (Len(s) - n) = Len(s) + 1
      OBVIOUS
    <2>2. /\ ax \o z \in Seq(LocalEntry)
          /\ Len(ax \o z) = Len(ax) + Len(z)
          /\ \A i \in 1 .. Len(ax) + Len(z) :
                (ax \o z)[i] = IF i <= Len(ax) THEN ax[i] ELSE z[i - Len(ax)]
      BY <1>2, <1>3, ConcatProperties
    <2>3. Len(ax) = n + 1 /\ Len(ax) + Len(z) = Len(s) + 1
      BY <1>2, <1>3, <2>1
    <2>4. QED
      BY <2>2, <2>3
  <1>6. ASSUME NEW i \in n + 2 .. Len(s) + 1 PROVE (ax \o z)[i] = s[i - 1]
    <2>0. Len(s) \in Nat /\ n \in Nat /\ i \in Nat
      BY LenProperties
    <2>1. i \in 1 .. Len(s) + 1 /\ ~(i <= n + 1) /\ i - (n + 1) \in 1 .. Len(s) - n
      BY <2>0
    <2>2. (ax \o z)[i] = z[i - (n + 1)]
      BY <1>5, <2>1
    <2>3. z[i - (n + 1)] = s[n + (i - (n + 1))]
      BY <1>2, <2>1
    <2>4. n + (i - (n + 1)) = i - 1
      BY <2>0
    <2>5. QED
      BY <2>2, <2>3, <2>4
  <1>7. ASSUME NEW i \in 1 .. n + 1 PROVE (ax \o z)[i] = ax[i]
    BY <1>5
  <1>8. /\ (ax \o z)[n + 1] = x
        /\ \A i \in 1 .. n : (ax \o z)[i] = s[i]
    BY <1>3, <1>7
  <1>9. QED
    BY <1>4, <1>5, <1>6, <1>8, Zenon

KeyIsNew(s, x) == \A i \in DOMAIN s : s[i].key # x.key

(* new is the sorted map s with the entry x.                                *)
IsWithEntry(new, s, x) ==
    /\ new \in Seq(LocalEntry) /\ Sorted(new)
    /\ \A i \in DOMAIN new : new[i] = x \/ \E j \in DOMAIN s : new[i] = s[j]
    /\ \A j \in DOMAIN s : \E i \in DOMAIN new : new[i] = s[j]
    /\ \E i \in DOMAIN new : new[i] = x

(* InsertKeepsSorted: inserting an entry with a new key where the binary    *)
(* search says keeps the map sorted and keeps what it held.                 *)
LEMMA InsertKeepsSorted ==
    ASSUME NEW s \in Seq(LocalEntry), Sorted(s), NEW x \in LocalEntry, KeyIsNew(s, x)
    PROVE  IsWithEntry(InsertAt(s, Cardinality(Smaller(s, x.key)), x), s, x)
  <1> DEFINE n == Cardinality(Smaller(s, x.key))
             new == InsertAt(s, n, x)
  <1> USE DEF KeyIsNew
  <1>1. /\ Len(s) \in Nat /\ DOMAIN s = 1 .. Len(s) /\ x.key \in Nat
        /\ \A i \in 1 .. Len(s) : s[i].key \in Nat
    <2>1. \A i \in 1 .. Len(s) : s[i] \in LocalEntry
      BY ElementOfSeq
    <2>2. QED
      BY <2>1, LenProperties DEF LocalEntry
  <1>2. n \in 0 .. Len(s) /\ Smaller(s, x.key) = 1 .. n
    BY <1>1, SmallerIsPrefix
  <1> HIDE DEF n, new
  <1>3. n \in Nat /\ n <= Len(s)
    BY <1>1, <1>2
  <1>4. /\ new \in Seq(LocalEntry) /\ Len(new) = Len(s) + 1
        /\ new[n + 1] = x
        /\ \A i \in 1 .. n : new[i] = s[i]
        /\ \A i \in n + 2 .. Len(s) + 1 : new[i] = s[i - 1]
    BY <1>2, InsertAtFacts DEF new
  <1>5. DOMAIN new = 1 .. Len(s) + 1
    BY <1>4, LenProperties
  <1>6. \A i \in 1 .. n : s[i].key < x.key
    BY <1>1, <1>2 DEF Smaller
  <1>7. ASSUME NEW i \in n + 1 .. Len(s) PROVE x.key < s[i].key
    <2>1. i \in 1 .. Len(s) /\ i \notin 1 .. n
      BY <1>1, <1>3
    <2>2. ~(s[i].key < x.key)
      BY <1>1, <1>2, <2>1 DEF Smaller
    <2>3. QED
      BY <1>1, <2>1, <2>2
  <1>8. ASSUME NEW i \in 1 .. Len(s) + 1
        PROVE  \/ i \in 1 .. n /\ i \in 1 .. Len(s) /\ new[i] = s[i]
               \/ i = n + 1 /\ new[i] = x
               \/ i \in n + 2 .. Len(s) + 1 /\ i - 1 \in n + 1 .. Len(s) /\ i - 1 \in 1 .. Len(s)
                  /\ new[i] = s[i - 1]
    BY <1>1, <1>3, <1>4
  <1>9. Sorted(new)
    <2> SUFFICES ASSUME NEW i \in 1 .. Len(s) + 1, NEW j \in 1 .. Len(s) + 1, i < j
                 PROVE  new[i].key < new[j].key
      BY <1>5 DEF Sorted
    <2>1. \A a, b \in 1 .. Len(s) : a < b => s[a].key < s[b].key
      BY <1>1 DEF Sorted
    <2>2. CASE i \in 1 .. n /\ i \in 1 .. Len(s) /\ new[i] = s[i]
      <3>1. CASE j \in 1 .. n /\ j \in 1 .. Len(s) /\ new[j] = s[j]
        BY <2>1, <2>2, <3>1
      <3>2. CASE j = n + 1 /\ new[j] = x
        BY <1>6, <2>2, <3>2
      <3>3. CASE j - 1 \in n + 1 .. Len(s) /\ new[j] = s[j - 1]
        <4>1. s[i].key < x.key /\ x.key < s[j - 1].key
          BY <1>6, <1>7, <2>2, <3>3
        <4>2. s[i].key \in Nat /\ s[j - 1].key \in Nat
          BY <1>1, <1>3, <2>2, <3>3
        <4>3. QED
          BY <1>1, <2>2, <3>3, <4>1, <4>2
      <3>4. QED
        BY <1>8, <3>1, <3>2, <3>3
    <2>3. CASE i = n + 1 /\ new[i] = x
      <3>1. j - 1 \in n + 1 .. Len(s) /\ new[j] = s[j - 1]
        BY <1>1, <1>3, <1>4, <2>3
      <3>2. QED
        BY <1>7, <2>3, <3>1
    <2>4. CASE i - 1 \in n + 1 .. Len(s) /\ i - 1 \in 1 .. Len(s) /\ new[i] = s[i - 1]
      <3>1. j - 1 \in 1 .. Len(s) /\ new[j] = s[j - 1] /\ i - 1 < j - 1
        BY <1>1, <1>3, <1>4, <2>4
      <3>2. QED
        BY <2>1, <2>4, <3>1
    <2>5. QED
      BY <1>8, <2>2, <2>3, <2>4
  <1>10. \A i \in DOMAIN new : new[i] = x \/ \E j \in DOMAIN s : new[i] = s[j]
    BY <1>1, <1>5, <1>8
  <1>11. ASSUME NEW j \in DOMAIN s PROVE \E i \in DOMAIN new : new[i] = s[j]
    <2>1. CASE j \in 1 .. n
      <3>1. j \in DOMAIN new /\ new[j] = s[j]
        BY <1>1, <1>3, <1>4, <1>5, <2>1
      <3>2. QED
        BY <3>1
    <2>2. CASE j \notin 1 .. n
      <3>1. j + 1 \in n + 2 .. Len(s) + 1 /\ j + 1 \in DOMAIN new /\ (j + 1) - 1 = j
        BY <1>1, <1>3, <1>5, <2>2
      <3>2. new[j + 1] = s[(j + 1) - 1]
        BY <1>4, <3>1
      <3>3. QED
        BY <3>1, <3>2
    <2>3. QED
      BY <2>1, <2>2
  <1>12. n + 1 \in DOMAIN new
    BY <1>1, <1>3, <1>5
  <1>13. IsWithEntry(new, s, x)
    BY <1>4, <1>9, <1>10, <1>11, <1>12 DEF IsWithEntry
  <1>14. QED
    BY <1>13 DEF new, n

-----------------------------------------------------------------------------
(* Task-locals and task ids.  A number taken from a counter belongs to the  *)
(* caller that took it until its compare_and_swap, and no key or id equals  *)
(* it before: that is what makes keys and ids distinct.                     *)

Nesting == [of : Local, key : Nat, index : Nat]
LocalPlaces == {"idle", "new_key", "swap_key", "search", "ended",
                "new_inner", "swap_inner", "load_inner"}

LocalTypes ==
    /\ key_counter \in Nat \ {0} /\ id_counter \in Nat \ {0}
    /\ keys \in [Local -> Nat] /\ inner \in [Caller -> Nat]
    /\ entries \in [Caller -> Seq(LocalEntry)]
    /\ nested \in [Caller -> Seq(Nesting)] /\ outrun \subseteq Caller
    /\ ids \in [Caller -> [Caller -> Nat]]
    /\ call \in [Caller -> Nat] /\ fresh \in [Caller -> Nat]
    /\ lpc \in [Caller -> LocalPlaces]
    /\ \A c \in Caller :
        /\ lpc[c] \in {"new_key", "swap_key", "search"} => call[c] \in Local
        /\ lpc[c] \in {"new_inner", "swap_inner", "load_inner"} => call[c] \in Caller

(* Keys are distinct, and so are the numbers that may still become keys.    *)
KeysDistinct ==
    /\ \A l \in Local : keys[l] < key_counter
    /\ \A l, m \in Local : keys[l] = keys[m] /\ keys[l] # 0 => l = m
    /\ \A c \in Caller : lpc[c] = "swap_key" =>
        /\ 0 < fresh[c] /\ fresh[c] < key_counter
        /\ \A l \in Local : keys[l] # fresh[c]
        /\ \A d \in Caller : d # c /\ lpc[d] = "swap_key" => fresh[d] # fresh[c]
    /\ \A c \in Caller : lpc[c] = "search" => fresh[c] = keys[call[c]] /\ fresh[c] # 0

(* The same of ids.                                                         *)
IdsDistinct ==
    /\ \A t \in Caller : inner[t] < id_counter
    /\ \A t, u \in Caller : inner[t] = inner[u] /\ inner[t] # 0 => t = u
    /\ \A c \in Caller : lpc[c] = "swap_inner" =>
        /\ 0 < fresh[c] /\ fresh[c] < id_counter
        /\ \A t \in Caller : inner[t] # fresh[c]
        /\ \A d \in Caller : d # c /\ lpc[d] = "swap_inner" => fresh[d] # fresh[c]
    /\ \A c, t \in Caller : ids[c][t] \in {0, inner[t]}

(* What a map holds is filed under its key, and so will be what the running *)
(* initialisers return.  They are of different task-locals, none of which   *)
(* is the one that is being looked up.                                      *)
MapFits(c) ==
    /\ \A i \in DOMAIN entries[c] :
          entries[c][i].key = keys[entries[c][i].of] /\ entries[c][i].key # 0
    /\ \A j \in DOMAIN nested[c] :
          /\ nested[c][j].key = keys[nested[c][j].of] /\ nested[c][j].key # 0
          /\ nested[c][j].index <= Len(entries[c])
          /\ lpc[c] \in {"new_key", "swap_key", "search"} => nested[c][j].of # call[c]
    /\ \A i, j \in DOMAIN nested[c] : nested[c][i].of = nested[c][j].of => i = j

(* As long as no initialiser was outrun, the map is sorted and the place    *)
(* that was found before each of them is still the right one.               *)
PlaceFits(s, f) == ~Holds(s, f.key) /\ f.index = Cardinality(Smaller(s, f.key))
PlacesFit(c) ==
    c \notin outrun =>
        /\ Sorted(entries[c])
        /\ \A j \in DOMAIN nested[c] : PlaceFits(entries[c], nested[c][j])

MapsFit == \A c \in Caller : MapFits(c) /\ PlacesFit(c)

LocalInv == LocalTypes /\ KeysDistinct /\ IdsDistinct /\ MapsFit

(* LocalInvInit: nothing has been used yet.                                 *)
LEMMA LocalInvInit == LocalInit => LocalInv
  <1> SUFFICES ASSUME LocalInit PROVE LocalInv
    OBVIOUS
  <1>1. LocalTypes
    BY DEF LocalInit, LocalTypes, LocalPlaces
  <1>2. KeysDistinct /\ IdsDistinct
    BY DEF LocalInit, KeysDistinct, IdsDistinct
  <1>3. MapsFit
    BY DEF LocalInit, MapsFit, MapFits, PlacesFit, Sorted
  <1>4. QED
    BY <1>1, <1>2, <1>3 DEF LocalInv

(* MapsStay: a step that touches no map, changes no key that has been set   *)
(* and looks up nothing that is being initialised preserves MapsFit.        *)
LEMMA MapsStay ==
    ASSUME LocalTypes, MapsFit, UNCHANGED maps,
           \A l \in Local : keys[l] # 0 => keys'[l] = keys[l],
           \A c \in Caller : lpc'[c] \in {"new_key", "swap_key", "search"} =>
               \A j \in DOMAIN nested[c] : nested[c][j].of # call'[c]
    PROVE  MapsFit'
  <1> SUFFICES ASSUME NEW c \in Caller PROVE MapFits(c)' /\ PlacesFit(c)'
    BY DEF MapsFit
  <1>1. entries' = entries /\ nested' = nested /\ outrun' = outrun
    BY DEF maps
  <1>2. MapFits(c) /\ PlacesFit(c)
    BY DEF MapsFit
  <1>3. \A i \in DOMAIN entries[c] : entries[c][i] \in LocalEntry
    <2>1. entries[c] \in Seq(LocalEntry)
      BY DEF LocalTypes
    <2>2. QED
      BY <2>1, LenProperties, ElementOfSeq
  <1>4. \A j \in DOMAIN nested[c] : nested[c][j] \in Nesting
    <2>1. nested[c] \in Seq(Nesting)
      BY DEF LocalTypes
    <2>2. QED
      BY <2>1, LenProperties, ElementOfSeq
  <1>5. \A i \in DOMAIN entries[c] : keys'[entries[c][i].of] = keys[entries[c][i].of]
    BY <1>2, <1>3 DEF LocalEntry, MapFits
  <1>6. \A j \in DOMAIN nested[c] : keys'[nested[c][j].of] = keys[nested[c][j].of]
    BY <1>2, <1>4 DEF Nesting, MapFits
  <1>7. MapFits(c)'
    BY <1>1, <1>2, <1>5, <1>6 DEF MapFits
  <1>8. PlacesFit(c)'
    BY <1>1, <1>2 DEF PlacesFit
  <1>9. QED
    BY <1>7, <1>8

(* NewKeyIsFresh: fetch_add on COUNTER gives a number nobody else has.      *)
LEMMA NewKeyIsFresh ==
    ASSUME LocalTypes, KeysDistinct, NEW c \in Caller, NewKey(c)
    PROVE  KeysDistinct'
  <1> USE DEF NewKey, AtLocal
  <1>0. /\ key_counter \in Nat \ {0} /\ keys \in [Local -> Nat] /\ fresh \in [Caller -> Nat]
        /\ lpc \in [Caller -> LocalPlaces] /\ call \in [Caller -> Nat]
    BY DEF LocalTypes
  <1>1. /\ lpc[c] = "new_key" /\ lpc' = [lpc EXCEPT ![c] = "swap_key"]
        /\ fresh' = [fresh EXCEPT ![c] = key_counter]
        /\ key_counter' = key_counter + 1 /\ keys' = keys /\ call' = call
    OBVIOUS
  <1> HIDE DEF NewKey
  <1>2. \A l \in Local : keys'[l] < key_counter'
    BY <1>0, <1>1 DEF KeysDistinct
  <1>3. ASSUME NEW d \in Caller, lpc'[d] = "swap_key"
        PROVE  /\ 0 < fresh'[d] /\ fresh'[d] < key_counter'
               /\ \A l \in Local : keys'[l] # fresh'[d]
               /\ \A e \in Caller : e # d /\ lpc'[e] = "swap_key" => fresh'[e] # fresh'[d]
    BY <1>0, <1>1, <1>3 DEF KeysDistinct
  <1>4. \A d \in Caller : lpc'[d] = "search" => fresh'[d] = keys'[call'[d]] /\ fresh'[d] # 0
    BY <1>0, <1>1 DEF KeysDistinct
  <1>5. QED
    BY <1>1, <1>2, <1>3, <1>4 DEF KeysDistinct

(* SwapKeyKeeps: whoever comes first, the key is set once and stays unique. *)
LEMMA SwapKeyKeeps ==
    ASSUME LocalTypes, KeysDistinct, NEW c \in Caller, SwapKey(c)
    PROVE  /\ KeysDistinct'
           /\ \A l \in Local : keys[l] # 0 => keys'[l] = keys[l]
  <1>0. /\ key_counter \in Nat \ {0} /\ keys \in [Local -> Nat] /\ fresh \in [Caller -> Nat]
        /\ lpc \in [Caller -> LocalPlaces] /\ call \in [Caller -> Nat] /\ call[c] \in Local
    BY DEF LocalTypes, SwapKey
  <1>1. /\ lpc[c] = "swap_key" /\ lpc' = [lpc EXCEPT ![c] = "search"]
        /\ keys' = [keys EXCEPT ![call[c]] = IF keys[call[c]] = 0 THEN fresh[c] ELSE keys[call[c]]]
        /\ fresh' = [fresh EXCEPT ![c] = keys'[call[c]]]
        /\ key_counter' = key_counter /\ call' = call
    BY DEF SwapKey, AtLocal
  <1>2. /\ 0 < fresh[c] /\ fresh[c] < key_counter
        /\ \A l \in Local : keys[l] # fresh[c]
    BY <1>1 DEF KeysDistinct
  <1>3. \A l \in Local : keys[l] # 0 => keys'[l] = keys[l]
    BY <1>0, <1>1
  <1>4. ASSUME NEW l \in Local
        PROVE  keys'[l] = keys[l] \/ (keys'[l] = fresh[c] /\ l = call[c])
    <2>1. CASE l = call[c]
      BY <1>0, <1>1, <2>1
    <2>2. CASE l # call[c]
      BY <1>0, <1>1, <2>2
    <2>3. QED
      BY <2>1, <2>2
  <1>5. \A l \in Local : keys'[l] < key_counter'
    BY <1>0, <1>1, <1>2, <1>4 DEF KeysDistinct
  <1>6. \A l, m \in Local : keys'[l] = keys'[m] /\ keys'[l] # 0 => l = m
    BY <1>0, <1>2, <1>4 DEF KeysDistinct
  <1>7. ASSUME NEW d \in Caller, lpc'[d] = "swap_key"
        PROVE  /\ 0 < fresh'[d] /\ fresh'[d] < key_counter'
               /\ \A l \in Local : keys'[l] # fresh'[d]
               /\ \A e \in Caller : e # d /\ lpc'[e] = "swap_key" => fresh'[e] # fresh'[d]
    <2>1. d # c /\ lpc[d] = "swap_key" /\ fresh'[d] = fresh[d]
      BY <1>0, <1>1, <1>7
    <2>2. fresh[d] # fresh[c]
      BY <1>1, <2>1 DEF KeysDistinct
    <2>3. \A l \in Local : keys'[l] # fresh'[d]
      BY <1>4, <2>1, <2>2 DEF KeysDistinct
    <2>4. \A e \in Caller : e # d /\ lpc'[e] = "swap_key" => fresh'[e] # fresh'[d]
      BY <1>0, <1>1, <2>1 DEF KeysDistinct
    <2>5. QED
      BY <1>1, <2>1, <2>3, <2>4 DEF KeysDistinct
  <1>8. ASSUME NEW d \in Caller, lpc'[d] = "search"
        PROVE  fresh'[d] = keys'[call'[d]] /\ fresh'[d] # 0
    <2>1. CASE d = c
      BY <1>0, <1>1, <1>2, <2>1
    <2>2. CASE d # c
      <3>1. lpc[d] = "search" /\ fresh'[d] = fresh[d] /\ call[d] \in Local
        BY <1>0, <1>1, <1>8, <2>2 DEF LocalTypes
      <3>2. QED
        BY <1>1, <1>3, <3>1 DEF KeysDistinct
    <2>3. QED
      BY <2>1, <2>2
  <1>9. QED
    BY <1>3, <1>5, <1>6, <1>7, <1>8 DEF KeysDistinct

(* NewIdIsFresh: TaskId::generate gives a number nobody else has.           *)
LEMMA NewIdIsFresh ==
    ASSUME LocalTypes, IdsDistinct, NEW c \in Caller, NewInner(c)
    PROVE  IdsDistinct'
  <1>0. /\ id_counter \in Nat \ {0} /\ inner \in [Caller -> Nat] /\ fresh \in [Caller -> Nat]
        /\ lpc \in [Caller -> LocalPlaces]
    BY DEF LocalTypes
  <1>1. /\ lpc[c] = "new_inner" /\ lpc' = [lpc EXCEPT ![c] = "swap_inner"]
        /\ fresh' = [fresh EXCEPT ![c] = id_counter]
        /\ id_counter' = id_counter + 1 /\ inner' = inner /\ ids' = ids
    BY DEF NewInner, AtLocal
  <1>2. \A t \in Caller : inner'[t] < id_counter'
    BY <1>0, <1>1 DEF IdsDistinct
  <1>3. ASSUME NEW d \in Caller, lpc'[d] = "swap_inner"
        PROVE  /\ 0 < fresh'[d] /\ fresh'[d] < id_counter'
               /\ \A t \in Caller : inner'[t] # fresh'[d]
               /\ \A e \in Caller : e # d /\ lpc'[e] = "swap_inner" => fresh'[e] # fresh'[d]
    BY <1>0, <1>1, <1>3 DEF IdsDistinct
  <1>4. QED
    BY <1>1, <1>2, <1>3 DEF IdsDistinct

(* SwapInnerKeeps: the inner part is set once, and its id stays unique.     *)
LEMMA SwapInnerKeeps ==
    ASSUME LocalTypes, IdsDistinct, NEW c \in Caller, SwapInner(c)
    PROVE  IdsDistinct'
  <1>0. /\ id_counter \in Nat \ {0} /\ inner \in [Caller -> Nat] /\ fresh \in [Caller -> Nat]
        /\ lpc \in [Caller -> LocalPlaces] /\ call[c] \in Caller
    BY DEF LocalTypes, SwapInner
  <1>1. /\ lpc[c] = "swap_inner" /\ lpc' = [lpc EXCEPT ![c] = "load_inner"]
        /\ inner' = [inner EXCEPT ![call[c]] = IF inner[call[c]] = 0 THEN fresh[c] ELSE inner[call[c]]]
        /\ fresh' = fresh /\ id_counter' = id_counter /\ ids' = ids
    BY DEF SwapInner, AtLocal
  <1>2. /\ 0 < fresh[c] /\ fresh[c] < id_counter
        /\ \A t \in Caller : inner[t] # fresh[c]
    BY <1>1 DEF IdsDistinct
  <1>3. \A t \in Caller : inner[t] # 0 => inner'[t] = inner[t]
    BY <1>0, <1>1
  <1>4. ASSUME NEW t \in Caller
        PROVE  inner'[t] = inner[t] \/ (inner'[t] = fresh[c] /\ t = call[c])
    <2>1. CASE t = call[c]
      BY <1>0, <1>1, <2>1
    <2>2. CASE t # call[c]
      BY <1>0, <1>1, <2>2
    <2>3. QED
      BY <2>1, <2>2
  <1>5. \A t \in Caller : inner'[t] < id_counter'
    BY <1>0, <1>1, <1>2, <1>4 DEF IdsDistinct
  <1>6. \A t, u \in Caller : inner'[t] = inner'[u] /\ inner'[t] # 0 => t = u
    BY <1>0, <1>2, <1>4 DEF IdsDistinct
  <1>7. ASSUME NEW d \in Caller, lpc'[d] = "swap_inner"
        PROVE  /\ 0 < fresh'[d] /\ fresh'[d] < id_counter'
               /\ \A t \in Caller : inner'[t] # fresh'[d]
               /\ \A e \in Caller : e # d /\ lpc'[e] = "swap_inner" => fresh'[e] # fresh'[d]
    <2>1. d # c /\ lpc[d] = "swap_inner" /\ fresh'[d] = fresh[d]
      BY <1>0, <1>1, <1>7
    <2>2. fresh[d] # fresh[c]
      BY <1>1, <2>1 DEF IdsDistinct
    <2>3. \A t \in Caller : inner'[t] # fresh'[d]
      BY <1>4, <2>1, <2>2 DEF IdsDistinct
    <2>4. \A e \in Caller : e # d /\ lpc'[e] = "swap_inner" => fresh'[e] # fresh'[d]
      BY <1>0, <1>1, <2>1 DEF IdsDistinct
    <2>5. QED
      BY <1>1, <2>1, <2>3, <2>4 DEF IdsDistinct
  <1>8. \A d, t \in Caller : ids'[d][t] \in {0, inner'[t]}
    BY <1>1, <1>3 DEF IdsDistinct
  <1>9. QED
    BY <1>5, <1>6, <1>7, <1>8 DEF IdsDistinct

(* SameLookups: MapsStay for a step in which nobody begins to look up       *)
(* another task-local.                                                      *)
LEMMA SameLookups ==
    ASSUME LocalTypes, MapsFit, UNCHANGED maps,
           \A l \in Local : keys[l] # 0 => keys'[l] = keys[l],
           \A c \in Caller : lpc'[c] \in {"new_key", "swap_key", "search"} =>
               lpc[c] \in {"new_key", "swap_key", "search"} /\ call'[c] = call[c]
    PROVE  MapsFit'
  <1>1. \A c \in Caller : lpc'[c] \in {"new_key", "swap_key", "search"} =>
           \A j \in DOMAIN nested[c] : nested[c][j].of # call'[c]
    BY DEF MapsFit, MapFits
  <1>2. QED
    BY <1>1, MapsStay

(* SearchAnswers: the binary search gives a place inside the map, and in a  *)
(* sorted one the right place of a key that is not there.                   *)
LEMMA SearchAnswers ==
    ASSUME NEW s \in Seq(LocalEntry), NEW k \in Nat, NEW r \in BinarySearch(s, k), ~r.found
    PROVE  /\ r.index \in 0 .. Len(s)
           /\ Sorted(s) => ~Holds(s, k) /\ r.index = Cardinality(Smaller(s, k))
  <1>1. CASE Sorted(s)
    <2>1. ~Holds(s, k) /\ r = Missing(Cardinality(Smaller(s, k)))
      BY <1>1 DEF BinarySearch, Found
    <2>2. r.index = Cardinality(Smaller(s, k))
      BY <2>1 DEF Missing
    <2>3. QED
      BY <1>1, <2>1, <2>2, SmallerIsPrefix
  <1>2. CASE ~Sorted(s)
    <2>1. PICK i \in 0 .. Len(s) : r = Missing(i)
      BY <1>2 DEF BinarySearch, Found
    <2>2. QED
      BY <1>2, <2>1 DEF Missing
  <1>3. QED
    BY <1>1, <1>2

(* InsertAbove: inserting an entry moves no place of a smaller key.         *)
LEMMA InsertAbove ==
    ASSUME NEW s \in Seq(LocalEntry), Sorted(s), NEW x \in LocalEntry, KeyIsNew(s, x),
           NEW k \in Nat, k < x.key, ~Holds(s, k)
    PROVE  LET new == InsertAt(s, Cardinality(Smaller(s, x.key)), x)
           IN  ~Holds(new, k) /\ Smaller(new, k) = Smaller(s, k)
  <1> DEFINE n == Cardinality(Smaller(s, x.key))
             new == InsertAt(s, n, x)
  <1>1. n \in 0 .. Len(s) /\ Smaller(s, x.key) = 1 .. n
    BY SmallerIsPrefix DEF LocalEntry
  <1>2. /\ new \in Seq(LocalEntry) /\ Len(new) = Len(s) + 1
        /\ new[n + 1] = x
        /\ \A i \in 1 .. n : new[i] = s[i]
        /\ \A i \in n + 2 .. Len(s) + 1 : new[i] = s[i - 1]
    BY <1>1, InsertAtFacts
  <1> HIDE DEF n, new
  <1>3. /\ Len(s) \in Nat /\ DOMAIN s = 1 .. Len(s) /\ DOMAIN new = 1 .. Len(s) + 1
        /\ x.key \in Nat /\ \A i \in DOMAIN s : s[i].key \in Nat
    <2>1. \A i \in DOMAIN s : s[i] \in LocalEntry
      BY LenProperties, ElementOfSeq
    <2>2. QED
      BY <1>2, <2>1, LenProperties DEF LocalEntry
  <1>4. \A i \in n + 1 .. Len(s) : s[i].key >= x.key
    BY <1>1, <1>3 DEF Smaller
  <1>5. ASSUME NEW i \in n + 1 .. Len(s) + 1 PROVE new[i].key >= x.key
    <2>1. CASE i = n + 1
      BY <1>2, <1>3, <2>1
    <2>2. CASE i # n + 1
      <3>1. i \in n + 2 .. Len(s) + 1 /\ i - 1 \in n + 1 .. Len(s)
        BY <1>1, <1>3, <2>2
      <3>2. QED
        BY <1>2, <1>4, <3>1
    <2>3. QED
      BY <2>1, <2>2
  <1>6. ASSUME NEW i \in DOMAIN new
        PROVE  /\ new[i].key # k
               /\ new[i].key < k <=> i \in DOMAIN s /\ s[i].key < k
    <2>1. CASE i \in 1 .. n
      BY <1>1, <1>2, <1>3, <2>1 DEF Holds
    <2>2. CASE i \notin 1 .. n
      <3>1. i \in n + 1 .. Len(s) + 1 /\ new[i].key >= x.key
        BY <1>1, <1>3, <1>5, <2>2
      <3>2. i \in DOMAIN s => s[i].key >= x.key
        BY <1>1, <1>3, <1>4, <3>1
      <3>3. new[i].key \in Nat
        <4>1. new[i] \in LocalEntry
          BY <1>2, LenProperties, ElementOfSeq
        <4>2. QED
          BY <4>1 DEF LocalEntry
      <3>4. QED
        BY <1>3, <3>1, <3>2, <3>3
    <2>3. QED
      BY <2>1, <2>2
  <1>7. DOMAIN s \subseteq DOMAIN new
    BY <1>3
  <1>8. ~Holds(new, k) /\ Smaller(new, k) = Smaller(s, k)
    BY <1>6, <1>7 DEF Holds, Smaller
  <1>9. QED
    BY <1>8 DEF n, new

(* SearchFits: get_or_insert up to the call of the initialiser.             *)
LEMMA SearchFits ==
    ASSUME LocalInv, NEW c \in Caller, SearchKey(c)
    PROVE  LocalInv'
  <1>1. /\ lpc[c] = "search" /\ lpc' = [lpc EXCEPT ![c] = "idle"]
        /\ call' = [call EXCEPT ![c] = 0] /\ fresh' = [fresh EXCEPT ![c] = 0]
        /\ UNCHANGED <<key_counter, keys, id_counter, inner, entries, outrun, ids>>
    BY DEF SearchKey, Idle, AtLocal
  <1>2. /\ entries[c] \in Seq(LocalEntry) /\ nested[c] \in Seq(Nesting)
        /\ call[c] \in Local /\ fresh[c] \in Nat
        /\ fresh[c] = keys[call[c]] /\ fresh[c] # 0
    BY <1>1 DEF LocalInv, LocalTypes, KeysDistinct
  <1>3. KeysDistinct' /\ IdsDistinct'
    <2>1. KeysDistinct'
      BY <1>1 DEF LocalInv, LocalTypes, KeysDistinct
    <2>2. IdsDistinct'
      BY <1>1 DEF LocalInv, LocalTypes, IdsDistinct
    <2>3. QED
      BY <2>1, <2>2
  <1>4. \A d \in Caller :
           /\ lpc'[d] \in {"new_key", "swap_key", "search"} =>
                 lpc[d] = lpc'[d] /\ call'[d] = call[d] /\ call'[d] \in Local
           /\ lpc'[d] \in {"new_inner", "swap_inner", "load_inner"} => call'[d] \in Caller
    BY <1>1 DEF LocalInv, LocalTypes
  <1>5. CASE nested' = nested
    <2>1. LocalTypes'
      BY <1>1, <1>4, <1>5 DEF LocalInv, LocalTypes, LocalPlaces
    <2>2. MapsFit'
      BY <1>1, <1>4, <1>5, SameLookups DEF LocalInv, maps
    <2>3. QED
      BY <1>3, <2>1, <2>2 DEF LocalInv
  <1>6. CASE nested' # nested
    <2>1. PICK r \in BinarySearch(entries[c], fresh[c]) :
             /\ ~r.found
             /\ nested' = [nested EXCEPT ![c] =
                   Append(nested[c], [of |-> call[c], key |-> fresh[c], index |-> r.index])]
      BY <1>6 DEF SearchKey
    <2> DEFINE f == [of |-> call[c], key |-> fresh[c], index |-> r.index]
    <2>2. /\ r.index \in 0 .. Len(entries[c])
          /\ Sorted(entries[c]) =>
                ~Holds(entries[c], fresh[c]) /\ r.index = Cardinality(Smaller(entries[c], fresh[c]))
      BY <1>2, <2>1, SearchAnswers
    <2>3. Len(entries[c]) \in Nat
      BY <1>2, LenProperties
    <2>4. f \in Nesting /\ f.of = call[c] /\ f.key = fresh[c] /\ f.index = r.index
      BY <1>2, <2>2, <2>3 DEF Nesting
    <2>5. nested' = [nested EXCEPT ![c] = Append(nested[c], f)]
      BY <2>1
    <2> HIDE DEF f
    <2>6. /\ Append(nested[c], f) \in Seq(Nesting)
          /\ Len(Append(nested[c], f)) = Len(nested[c]) + 1
          /\ \A j \in 1 .. Len(nested[c]) : Append(nested[c], f)[j] = nested[c][j]
          /\ Append(nested[c], f)[Len(nested[c]) + 1] = f
      BY <1>2, <2>4, AppendProperties
    <2>7. /\ nested'[c] = Append(nested[c], f) /\ \A d \in Caller \ {c} : nested'[d] = nested[d]
          /\ nested' \in [Caller -> Seq(Nesting)]
      BY <2>5, <2>6 DEF LocalInv, LocalTypes
    <2>8. /\ Len(nested[c]) \in Nat /\ DOMAIN nested[c] = 1 .. Len(nested[c])
          /\ DOMAIN nested'[c] = 1 .. Len(nested[c]) + 1
      BY <1>2, <2>6, <2>7, LenProperties
    <2>9. LocalTypes'
      BY <1>1, <1>4, <2>7 DEF LocalInv, LocalTypes, LocalPlaces
    <2>10. MapFits(c) /\ PlacesFit(c)
      BY DEF LocalInv, MapsFit
    <2>11. ASSUME NEW j \in DOMAIN nested'[c]
           PROVE  \/ nested'[c][j] = f /\ j = Len(nested[c]) + 1
                  \/ j \in DOMAIN nested[c] /\ nested'[c][j] = nested[c][j]
      BY <2>6, <2>7, <2>8
    <2>12. \A j \in DOMAIN nested[c] : nested[c][j].of # call[c]
      BY <1>1, <2>10 DEF MapFits
    <2>13. MapFits(c)'
      <3>1. \A j \in DOMAIN nested'[c] :
               /\ nested'[c][j].key = keys[nested'[c][j].of] /\ nested'[c][j].key # 0
               /\ nested'[c][j].index <= Len(entries[c])
        BY <1>2, <2>2, <2>3, <2>4, <2>10, <2>11 DEF MapFits
      <3>2. \A i, j \in DOMAIN nested'[c] : nested'[c][i].of = nested'[c][j].of => i = j
        BY <2>4, <2>10, <2>11, <2>12 DEF MapFits
      <3>3. lpc'[c] = "idle"
        BY <1>1 DEF LocalInv, LocalTypes
      <3>4. QED
        BY <1>1, <2>10, <3>1, <3>2, <3>3 DEF MapFits
    <2>14. PlacesFit(c)'
      BY <1>1, <2>2, <2>4, <2>10, <2>11 DEF PlacesFit, PlaceFits
    <2>15. ASSUME NEW d \in Caller, d # c PROVE MapFits(d)' /\ PlacesFit(d)'
      <3>1. entries'[d] = entries[d] /\ nested'[d] = nested[d] /\ lpc'[d] = lpc[d] /\ call'[d] = call[d]
        BY <1>1, <2>7, <2>15 DEF LocalInv, LocalTypes
      <3>2. MapFits(d) /\ PlacesFit(d)
        BY DEF LocalInv, MapsFit
      <3>3. QED
        BY <1>1, <3>1, <3>2 DEF MapFits, PlacesFit
    <2>16. MapsFit'
      BY <2>13, <2>14, <2>15 DEF MapsFit
    <2>17. QED
      BY <1>3, <2>9, <2>16 DEF LocalInv
  <1>7. QED
    BY <1>5, <1>6

(* InsertFits: get_or_insert from the return of the initialiser.            *)
LEMMA InsertFits ==
    ASSUME LocalInv, NEW c \in Caller, InsertValue(c)
    PROVE  LocalInv'
  <1> DEFINE s == entries[c]
             depth == Len(nested[c])
             f == nested[c][depth]
             x == [key |-> f.key, of |-> f.of]
             new == InsertAt(s, f.index, x)
             rest == SubSeq(nested[c], 1, depth - 1)
  <1>1. /\ lpc[c] = "idle" /\ depth > 0
        /\ entries' = [entries EXCEPT ![c] = new]
        /\ nested' = [nested EXCEPT ![c] = rest]
        /\ outrun' = IF \E i \in 1 .. (depth - 1) : f.key < nested[c][i].key
                     THEN outrun \union {c} ELSE outrun
        /\ UNCHANGED <<key_counter, keys, id_counter, inner, ids, call, fresh, lpc>>
    BY DEF InsertValue
  <1>2. s \in Seq(LocalEntry) /\ nested[c] \in Seq(Nesting)
    BY DEF LocalInv, LocalTypes
  <1>3. MapFits(c) /\ PlacesFit(c)
    BY DEF LocalInv, MapsFit
  <1>4. /\ depth \in Nat /\ DOMAIN nested[c] = 1 .. depth /\ depth \in DOMAIN nested[c]
        /\ Len(s) \in Nat /\ DOMAIN s = 1 .. Len(s)
        /\ \A j \in 1 .. depth : nested[c][j] \in Nesting
    BY <1>1, <1>2, LenProperties, ElementOfSeq
  <1> HIDE DEF depth
  <1>5. /\ f \in Nesting /\ f.key = keys[f.of] /\ f.key # 0 /\ f.index <= Len(s)
        /\ f.key \in Nat /\ f.of \in Local /\ f.index \in 0 .. Len(s)
    BY <1>3, <1>4 DEF MapFits, Nesting
  <1> HIDE DEF f
  <1>6. x \in LocalEntry /\ x.key = f.key /\ x.of = f.of
    BY <1>5 DEF LocalEntry
  <1> HIDE DEF x
  <1>7. /\ new \in Seq(LocalEntry) /\ Len(new) = Len(s) + 1
        /\ new[f.index + 1] = x
        /\ \A i \in 1 .. f.index : new[i] = s[i]
        /\ \A i \in f.index + 2 .. Len(s) + 1 : new[i] = s[i - 1]
    BY <1>2, <1>5, <1>6, InsertAtFacts
  <1>8. ASSUME NEW i \in DOMAIN new PROVE new[i] = x \/ \E j \in DOMAIN s : new[i] = s[j]
    <2>1. i \in 1 .. Len(s) + 1
      BY <1>7, LenProperties
    <2>2. CASE i \in 1 .. f.index
      BY <1>4, <1>5, <1>7, <2>2
    <2>3. CASE i = f.index + 1
      BY <1>7, <2>3
    <2>4. CASE i \in f.index + 2 .. Len(s) + 1
      <3>1. i - 1 \in DOMAIN s /\ new[i] = s[i - 1]
        BY <1>4, <1>5, <1>7, <2>4
      <3>2. QED
        BY <3>1
    <2>5. QED
      BY <1>4, <1>5, <2>1, <2>2, <2>3, <2>4
  <1>9. /\ rest \in Seq(Nesting) /\ Len(rest) = depth - 1
        /\ \A j \in 1 .. depth - 1 : rest[j] = nested[c][j]
    BY <1>1, <1>2, <1>4, SubSeqProperties DEF depth
  <1>10. DOMAIN rest = 1 .. depth - 1
    BY <1>9, LenProperties
  <1> HIDE DEF rest, new, s
  <1>11. /\ entries'[c] = new /\ nested'[c] = rest
         /\ entries' \in [Caller -> Seq(LocalEntry)] /\ nested' \in [Caller -> Seq(Nesting)]
         /\ outrun' \subseteq Caller
         /\ \A d \in Caller \ {c} : entries'[d] = entries[d] /\ nested'[d] = nested[d]
    BY <1>1, <1>7, <1>9 DEF LocalInv, LocalTypes
  <1>12. LocalTypes' /\ KeysDistinct' /\ IdsDistinct'
    <2>1. LocalTypes'
      BY <1>1, <1>11 DEF LocalInv, LocalTypes
    <2>2. KeysDistinct'
      BY <1>1 DEF LocalInv, KeysDistinct
    <2>3. IdsDistinct'
      BY <1>1 DEF LocalInv, IdsDistinct
    <2>4. QED
      BY <2>1, <2>2, <2>3
  <1>13. \A j \in 1 .. depth - 1 : j \in DOMAIN nested[c] /\ rest[j] = nested[c][j]
    BY <1>4, <1>9
  <1>14. MapFits(c)'
    <2>1. \A i \in DOMAIN new : new[i].key = keys[new[i].of] /\ new[i].key # 0
      BY <1>3, <1>5, <1>6, <1>8 DEF MapFits, s
    <2>2. \A j \in DOMAIN rest : /\ rest[j].key = keys[rest[j].of] /\ rest[j].key # 0
                                 /\ rest[j].index <= Len(new)
      <3> SUFFICES ASSUME NEW j \in 1 .. depth - 1
                   PROVE  /\ rest[j].key = keys[rest[j].of] /\ rest[j].key # 0
                          /\ rest[j].index <= Len(new)
        BY <1>10
      <3>1. /\ nested[c][j].key = keys[nested[c][j].of] /\ nested[c][j].key # 0
            /\ nested[c][j].index <= Len(s)
        BY <1>3, <1>13 DEF MapFits, s
      <3>2. nested[c][j].index \in Nat
        BY <1>4, <1>13 DEF Nesting
      <3>3. QED
        BY <1>4, <1>7, <1>13, <3>1, <3>2
    <2>3. \A i, j \in DOMAIN rest : rest[i].of = rest[j].of => i = j
      BY <1>3, <1>10, <1>13 DEF MapFits
    <2>4. QED
      BY <1>1, <1>11, <2>1, <2>2, <2>3 DEF MapFits
  <1>15. PlacesFit(c)'
    <2> SUFFICES ASSUME c \notin outrun'
                 PROVE  /\ Sorted(new)
                        /\ \A j \in DOMAIN rest : PlaceFits(new, rest[j])
      BY <1>11 DEF PlacesFit
    <2>1. /\ c \notin outrun
          /\ \A i \in 1 .. depth - 1 : ~(f.key < nested[c][i].key)
      BY <1>1
    <2>2. /\ Sorted(s) /\ \A j \in DOMAIN nested[c] : PlaceFits(s, nested[c][j])
      BY <1>3, <2>1 DEF PlacesFit, s
    <2>3. KeyIsNew(s, x) /\ f.index = Cardinality(Smaller(s, x.key))
      BY <1>4, <1>6, <2>2 DEF PlaceFits, Holds, KeyIsNew, f
    <2>4. new = InsertAt(s, Cardinality(Smaller(s, x.key)), x)
      BY <2>3 DEF new
    <2>5. Sorted(new)
      <3>1. IsWithEntry(new, s, x)
        BY <1>2, <1>6, <2>2, <2>3, <2>4, InsertKeepsSorted DEF s
      <3>2. QED
        BY <3>1 DEF IsWithEntry
    <2>6. ASSUME NEW j \in 1 .. depth - 1 PROVE PlaceFits(new, rest[j])
      <3>1. j \in DOMAIN nested[c] /\ rest[j] = nested[c][j] /\ nested[c][j] \in Nesting /\ j # depth
        BY <1>4, <1>13
      <3>2. PlaceFits(s, rest[j])
        BY <2>2, <3>1
      <3>3. rest[j].key \in Nat /\ rest[j].of \in Local /\ rest[j].key = keys[rest[j].of]
        BY <1>3, <3>1 DEF MapFits, Nesting
      <3>4. rest[j].of # f.of
        BY <1>3, <1>4, <3>1 DEF MapFits, f
      <3>5. rest[j].key # f.key
        BY <1>5, <3>3, <3>4 DEF LocalInv, KeysDistinct
      <3>6. rest[j].key < x.key
        BY <1>5, <1>6, <2>1, <3>1, <3>3, <3>5
      <3>7. ~Holds(s, rest[j].key)
        BY <3>2 DEF PlaceFits
      <3>8. ~Holds(new, rest[j].key) /\ Smaller(new, rest[j].key) = Smaller(s, rest[j].key)
        BY <1>2, <1>6, <2>2, <2>3, <2>4, <3>3, <3>6, <3>7, InsertAbove DEF s
      <3>9. QED
        BY <3>2, <3>8 DEF PlaceFits
    <2>7. QED
      BY <1>10, <2>5, <2>6
  <1>16. ASSUME NEW d \in Caller, d # c PROVE MapFits(d)' /\ PlacesFit(d)'
    <2>1. /\ entries'[d] = entries[d] /\ nested'[d] = nested[d] /\ lpc'[d] = lpc[d]
          /\ call'[d] = call[d] /\ (d \notin outrun' => d \notin outrun)
      BY <1>1, <1>11, <1>16
    <2>2. MapFits(d) /\ PlacesFit(d)
      BY DEF LocalInv, MapsFit
    <2>3. QED
      BY <1>1, <2>1, <2>2 DEF MapFits, PlacesFit
  <1>17. MapsFit'
    BY <1>14, <1>15, <1>16 DEF MapsFit
  <1>18. QED
    BY <1>12, <1>17 DEF LocalInv

(* LoadInnerFits: a thread reads the id of a task, or finds none yet.       *)
LEMMA LoadInnerFits ==
    ASSUME LocalInv, NEW c \in Caller, NEW t \in Caller, LoadInner(c, t)
    PROVE  LocalInv'
  <1>1. /\ UNCHANGED <<key_counter, keys, id_counter, inner, maps>>
        /\ ids' = [ids EXCEPT ![c][t] = inner[t]]
        /\ lpc[c] \in {"idle", "load_inner"}
    BY DEF LoadInner
  <1>2. \/ /\ lpc' = [lpc EXCEPT ![c] = "idle"]
           /\ call' = [call EXCEPT ![c] = 0] /\ fresh' = [fresh EXCEPT ![c] = 0]
        \/ /\ lpc' = [lpc EXCEPT ![c] = "new_inner"]
           /\ call' = [call EXCEPT ![c] = t] /\ fresh' = fresh
    BY DEF LoadInner, Idle, AtLocal
  <1>3. ids' \in [Caller -> [Caller -> Nat]]
    BY <1>1 DEF LocalInv, LocalTypes
  <1>4. \A d, u \in Caller : ids'[d][u] = ids[d][u] \/ ids'[d][u] = inner[u]
    BY <1>1 DEF LocalInv, LocalTypes
  <1>5. /\ lpc' \in [Caller -> LocalPlaces] /\ call' \in [Caller -> Nat] /\ fresh' \in [Caller -> Nat]
        /\ lpc'[c] \in {"idle", "new_inner"} /\ (lpc'[c] = "new_inner" => call'[c] \in Caller)
        /\ \A d \in Caller \ {c} : lpc'[d] = lpc[d] /\ call'[d] = call[d] /\ fresh'[d] = fresh[d]
    <2>1. t \in Nat
      BY LocalAssumption DEF Caller
    <2>2. /\ call \in [Caller -> Nat] /\ fresh \in [Caller -> Nat]
          /\ lpc \in [Caller -> LocalPlaces]
      BY DEF LocalInv, LocalTypes
    <2>3. QED
      BY <1>2, <2>1, <2>2 DEF LocalPlaces
  <1>6. LocalTypes'
    BY <1>1, <1>3, <1>5 DEF LocalInv, LocalTypes, maps
  <1>7. KeysDistinct'
    BY <1>1, <1>5 DEF LocalInv, KeysDistinct
  <1>8. IdsDistinct'
    BY <1>1, <1>4, <1>5 DEF LocalInv, IdsDistinct
  <1>9. MapsFit'
    BY <1>1, <1>5, SameLookups DEF LocalInv
  <1>10. QED
    BY <1>6, <1>7, <1>8, <1>9 DEF LocalInv

(* LocalInvStep: every atomic operation preserves the invariant.            *)
LEMMA LocalInvStep == LocalInv /\ [KeyNext \/ IdNext]_localVars => LocalInv'
  <1> SUFFICES ASSUME LocalInv, [KeyNext \/ IdNext]_localVars PROVE LocalInv'
    OBVIOUS
  <1> USE DEF AtLocal, Idle
  <1>1. ASSUME NEW c \in Caller, NEW l \in Local, LoadKey(c, l) PROVE LocalInv'
    <2> USE <1>1 DEF LocalInv
    <2>1. LocalTypes'
      <3>1. /\ UNCHANGED <<key_counter, keys, id_counter, inner, maps, ids>>
            /\ call' = [call EXCEPT ![c] = l] /\ fresh' = [fresh EXCEPT ![c] = keys[l]]
            /\ lpc' = [lpc EXCEPT ![c] = IF keys[l] = 0 THEN "new_key" ELSE "search"]
        BY DEF LoadKey
      <3>2. fresh' \in [Caller -> Nat] /\ lpc' \in [Caller -> LocalPlaces]
        BY <3>1 DEF LocalTypes, LocalPlaces
      <3>3. QED
        BY <3>1, <3>2 DEF LocalTypes, Local, maps
    <2>2. KeysDistinct'
      <3>1. /\ UNCHANGED <<keys, key_counter>>
            /\ \A d \in Caller \ {c} : lpc'[d] = lpc[d] /\ fresh'[d] = fresh[d] /\ call'[d] = call[d]
        BY DEF LocalTypes, LoadKey
      <3>2. fresh'[c] = keys[l] /\ call'[c] = l /\ lpc'[c] = IF keys[l] = 0 THEN "new_key" ELSE "search"
        BY DEF LocalTypes, LoadKey
      <3>3. QED
        BY <3>1, <3>2 DEF KeysDistinct
    <2>3. IdsDistinct'
      BY DEF LocalTypes, IdsDistinct, LoadKey
    <2>4. MapsFit'
      <3>1. /\ UNCHANGED <<keys, maps>>
            /\ \A j \in DOMAIN nested[c] : nested[c][j].of # l
            /\ call' = [call EXCEPT ![c] = l] /\ \A d \in Caller \ {c} : lpc'[d] = lpc[d]
        BY DEF LocalTypes, LoadKey
      <3>2. \A d \in Caller : lpc'[d] \in {"new_key", "swap_key", "search"} =>
               \A j \in DOMAIN nested[d] : nested[d][j].of # call'[d]
        BY <3>1 DEF LocalTypes, MapsFit, MapFits
      <3>3. QED
        BY <3>1, <3>2, MapsStay
    <2>5. QED
      BY <2>1, <2>2, <2>3, <2>4
  <1>2. ASSUME NEW c \in Caller, NewKey(c) PROVE LocalInv'
    <2> USE <1>2 DEF LocalInv
    <2>1. LocalTypes'
      BY DEF LocalTypes, LocalPlaces, NewKey, maps
    <2>2. KeysDistinct'
      BY NewKeyIsFresh
    <2>3. IdsDistinct'
      BY DEF LocalTypes, IdsDistinct, NewKey
    <2>4. MapsFit'
      BY SameLookups DEF LocalTypes, NewKey
    <2>5. QED
      BY <2>1, <2>2, <2>3, <2>4
  <1>3. ASSUME NEW c \in Caller, SwapKey(c) PROVE LocalInv'
    <2> USE <1>3 DEF LocalInv
    <2>1. LocalTypes'
      BY DEF LocalTypes, LocalPlaces, SwapKey, maps
    <2>2. KeysDistinct'
      BY SwapKeyKeeps
    <2>3. IdsDistinct'
      BY DEF LocalTypes, IdsDistinct, SwapKey
    <2>4. MapsFit'
      BY SwapKeyKeeps, SameLookups DEF LocalTypes, SwapKey
    <2>5. QED
      BY <2>1, <2>2, <2>3, <2>4
  <1>4. ASSUME NEW c \in Caller, SearchKey(c) PROVE LocalInv'
    BY <1>4, SearchFits
  <1>4a. ASSUME NEW c \in Caller, InsertValue(c) PROVE LocalInv'
    BY <1>4a, InsertFits
  <1>5. ASSUME NEW c \in Caller, DropLocals(c) PROVE LocalInv'
    <2> USE <1>5 DEF LocalInv
    <2>1. LocalTypes'
      BY DEF LocalTypes, LocalPlaces, DropLocals
    <2>2. KeysDistinct'
      BY DEF LocalTypes, KeysDistinct, DropLocals
    <2>3. IdsDistinct'
      BY DEF LocalTypes, IdsDistinct, DropLocals
    <2>4. MapsFit'
      <3>1. /\ nested[c] = <<>> /\ nested' = nested /\ outrun' = outrun /\ keys' = keys
            /\ entries' = [entries EXCEPT ![c] = <<>>] /\ call' = call
            /\ lpc' = [lpc EXCEPT ![c] = "ended"]
        BY DEF DropLocals
      <3>2. ASSUME NEW d \in Caller, d # c PROVE MapFits(d)' /\ PlacesFit(d)'
        <4>1. entries'[d] = entries[d] /\ lpc'[d] = lpc[d]
          BY <3>1, <3>2 DEF LocalTypes
        <4>2. MapFits(d) /\ PlacesFit(d)
          BY DEF MapsFit
        <4>3. QED
          BY <3>1, <4>1, <4>2 DEF MapFits, PlacesFit
      <3>3. MapFits(c)' /\ PlacesFit(c)'
        <4>1. entries'[c] = <<>> /\ nested'[c] = <<>>
          BY <3>1 DEF LocalTypes
        <4>2. QED
          BY <4>1 DEF MapFits, PlacesFit, Sorted
      <3>4. QED
        BY <3>2, <3>3 DEF MapsFit
    <2>5. QED
      BY <2>1, <2>2, <2>3, <2>4
  <1>6. ASSUME NEW c \in Caller, NEW t \in Caller, LoadInner(c, t) PROVE LocalInv'
    BY <1>6, LoadInnerFits
  <1>7. ASSUME NEW c \in Caller, NewInner(c) PROVE LocalInv'
    <2> USE <1>7 DEF LocalInv
    <2>1. LocalTypes'
      <3>1. id_counter' \in Nat \ {0} /\ fresh' \in [Caller -> Nat]
        BY DEF LocalTypes, NewInner
      <3>2. QED
        BY <3>1 DEF LocalTypes, LocalPlaces, NewInner, maps
    <2>2. KeysDistinct'
      BY DEF LocalTypes, KeysDistinct, NewInner
    <2>3. IdsDistinct'
      BY NewIdIsFresh
    <2>4. MapsFit'
      BY SameLookups DEF LocalTypes, NewInner
    <2>5. QED
      BY <2>1, <2>2, <2>3, <2>4
  <1>8. ASSUME NEW c \in Caller, SwapInner(c) PROVE LocalInv'
    <2> USE <1>8 DEF LocalInv
    <2>1. LocalTypes'
      BY DEF LocalTypes, LocalPlaces, SwapInner, maps
    <2>2. KeysDistinct'
      BY DEF LocalTypes, KeysDistinct, SwapInner
    <2>3. IdsDistinct'
      BY SwapInnerKeeps
    <2>4. MapsFit'
      BY SameLookups DEF LocalTypes, SwapInner
    <2>5. QED
      BY <2>1, <2>2, <2>3, <2>4
  <1>9. CASE UNCHANGED localVars
    <2>1. LocalTypes' /\ KeysDistinct' /\ IdsDistinct'
      BY <1>9 DEF localVars, LocalInv, LocalTypes, KeysDistinct, IdsDistinct
    <2>2. MapsFit'
      BY <1>9, SameLookups DEF localVars, maps, LocalInv
    <2>3. QED
      BY <2>1, <2>2 DEF LocalInv
  <1>10. QED
    BY <1>1, <1>2, <1>3, <1>4, <1>4a, <1>5, <1>6, <1>7, <1>8, <1>9 DEF KeyNext, IdNext

(* LocalsDoAgree: for any number of threads and task-locals, every thread   *)
(* files a task-local under the same key, and every thread is told the same *)
(* id of a task (LocalKey::key, Task::inner).                               *)
THEOREM LocalsDoAgree == LocalSpec => []LocalsAgree
  <1>1. LocalInv => LocalsAgree
    BY DEF LocalInv, KeysDistinct, IdsDistinct, MapsFit, MapFits, LocalsAgree
  <1>2. QED
    BY <1>1, LocalInvInit, LocalInvStep, PTL DEF LocalSpec

(* InitialisersNest: for any number of threads and task-locals, and however *)
(* deep initialisers nest, a task initialises a task-local once and its map *)
(* stays sorted, unless an initialiser was the first in its task to use a   *)
(* task-local with a smaller key (LocalsMap::get_or_insert).                *)
THEOREM InitialisersNest == LocalSpec => []InitialisedOnce
  <1>1. ASSUME LocalInv PROVE InitialisedOnce
    <2> SUFFICES ASSUME NEW c \in Caller \ outrun
                 PROVE  /\ Sorted(entries[c])
                        /\ \A i \in DOMAIN entries[c], j \in DOMAIN nested[c] :
                              entries[c][i].of # nested[c][j].of
      BY DEF InitialisedOnce
    <2>1. MapFits(c) /\ PlacesFit(c)
      BY <1>1 DEF LocalInv, MapsFit
    <2>2. QED
      BY <2>1 DEF MapFits, PlacesFit, PlaceFits, Holds
  <1>2. QED
    BY <1>1, LocalInvInit, LocalInvStep, PTL DEF LocalSpec

-----------------------------------------------------------------------------
(* The barrier.  Rendezvous speaks of waits begun and ended; the invariant  *)
(* counts them: of every generation, the waits begun are those ended and    *)
(* those of the tasks that are still inside, and there are as many as the   *)
(* generation says (all of an old one, `count` of the current one, none of  *)
(* a later one).  A message is always of a later generation than the wait   *)
(* that receives it, so a receiver leaves with its first message.           *)

LockedPlaces == {"subscribe", "unlock", "lead", "send", "return"}
BarrierPlaces == {"idle", "recv"} \cup LockedPlaces
Message == [gen : Nat, count : Nat]

BarrierTypes ==
    /\ holder \in Nat /\ count \in Nat
    /\ generation_id \in 1 .. Generations + 1
    /\ rx \in [Waiter -> Seq(Message)] /\ subscribed \subseteq Waiter
    /\ local_gen \in [Waiter -> Nat]
    /\ bpc \in [Waiter -> BarrierPlaces]
    /\ entered \in [Generation -> Nat] /\ passed \in [Generation -> Nat]
    /\ led \in [Generation -> Nat]

(* Who has the lock, and which generation he is in.                         *)
LockFits == \A t \in Waiter : bpc[t] \in LockedPlaces <=> holder = t

GenFits(t) ==
    /\ local_gen[t] <= generation_id
    /\ bpc[t] # "idle" => local_gen[t] \in Generation
    /\ bpc[t] \in {"subscribe", "unlock", "lead"} => local_gen[t] = generation_id
    /\ bpc[t] \in {"send", "return"} => local_gen[t] + 1 = generation_id
GensFit == \A t \in Waiter : GenFits(t)

(* While the leader is on his way out, nobody has begun the new generation. *)
LeaderAlone ==
    \A t, u \in Waiter : bpc[t] \in {"send", "return"} => local_gen[u] < generation_id

(* The waits counted, current and old.                                      *)
CountFits ==
    /\ \A t \in Waiter : bpc[t] = "lead" => count = BarrierSize
    /\ (\A t \in Waiter : bpc[t] # "lead") => count < BarrierSize
    /\ \A g \in Generation :
        entered[g] = IF g < generation_id THEN BarrierSize
                     ELSE IF g = generation_id THEN count ELSE 0

Inside(places, gens, g) == {t \in Waiter : places[t] # "idle" /\ gens[t] = g}

PassesFit ==
    /\ \A g \in Generation : entered[g] = passed[g] + Cardinality(Inside(bpc, local_gen, g))
    /\ \A g \in Generation : passed[g] > 0 => g < generation_id

(* Every old generation has had its leader, or he is still on his way out.  *)
LeadsNow(g) == \E t \in Waiter : bpc[t] \in {"send", "return"} /\ local_gen[t] = g
LeadersFit ==
    \A g \in Generation : led[g] = IF g < generation_id /\ ~LeadsNow(g) THEN 1 ELSE 0

(* Who listens, and to what.                                                *)
MessagesFit ==
    /\ subscribed = {t \in Waiter : bpc[t] \in {"unlock", "recv"}}
    /\ \A t \in subscribed : \A i \in DOMAIN rx[t] :
          local_gen[t] < rx[t][i].gen /\ rx[t][i].gen <= generation_id

NobodyLeft ==
    \A t \in Waiter :
        bpc[t] = "recv" /\ local_gen[t] # generation_id =>
            rx[t] # <<>> \/ \E leader \in Waiter : bpc[leader] = "send"

BarrierInv ==
    /\ BarrierTypes /\ LockFits /\ GensFit /\ LeaderAlone /\ CountFits /\ PassesFit
    /\ LeadersFit /\ MessagesFit /\ NobodyLeft
(* InsideFinite: there are finitely many tasks.                             *)
LEMMA InsideFinite ==
    ASSUME NEW p, NEW l, NEW g
    PROVE  IsFiniteSet(Inside(p, l, g)) /\ Cardinality(Inside(p, l, g)) \in Nat
  <1>1. IsFiniteSet(Waiter)
    BY BarrierAssumption, FS_Interval DEF Waiter
  <1>2. Inside(p, l, g) \in SUBSET Waiter
    BY DEF Inside
  <1>3. QED
    BY <1>1, <1>2, FS_Subset, FS_CardinalityType

(* SizeFits: a barrier is for one task at least.                            *)
LEMMA SizeFits == BarrierSize \in Nat /\ BarrierSize > 0
  BY BarrierAssumption DEF BarrierSize

(* NumbersFit: tasks and generations are numbered from 1.                   *)
LEMMA NumbersFit ==
    /\ \A t \in Waiter : t \in Nat /\ t # 0
    /\ \A g : g \in Generation <=> g \in Nat /\ 1 <= g /\ g <= Generations
    /\ Generations \in Nat
  BY BarrierAssumption DEF Waiter, Generation

(* FirstMessage: a receiver leaves with the first message it gets.          *)
LEMMA FirstMessage ==
    ASSUME BarrierTypes, MessagesFit, NEW t \in Waiter, Receive(t)
    PROVE  /\ bpc[t] = "recv" /\ local_gen[t] < generation_id /\ rx[t] # <<>>
           /\ rx' = [rx EXCEPT ![t] = Tail(rx[t])]
           /\ subscribed' = subscribed \ {t}
           /\ passed' = [passed EXCEPT ![local_gen[t]] = @ + 1]
           /\ bpc' = [bpc EXCEPT ![t] = "idle"]
           /\ UNCHANGED <<holder, count, generation_id, local_gen, entered, led>>
  <1>1. bpc[t] = "recv" /\ rx[t] # <<>> /\ rx[t] \in Seq(Message)
    BY DEF Receive, BarrierTypes
  <1>2. 1 \in DOMAIN rx[t] /\ Head(rx[t]) = rx[t][1] /\ rx[t][1] \in Message
    BY <1>1
  <1>3. t \in subscribed
    BY <1>1 DEF MessagesFit
  <1>4. local_gen[t] < rx[t][1].gen /\ rx[t][1].gen <= generation_id
    BY <1>2, <1>3 DEF MessagesFit
  <1>5. local_gen[t] \in Nat /\ rx[t][1].gen \in Nat /\ generation_id \in Nat
    BY <1>2, NumbersFit DEF BarrierTypes, Message
  <1>6. local_gen[t] < generation_id /\ rx[t][1].gen # local_gen[t]
    BY <1>4, <1>5
  <1>7. ~(Head(rx[t]).gen = local_gen[t] /\ Head(rx[t]).count < BarrierSize)
    BY <1>2, <1>6
  <1>8. QED
    BY <1>1, <1>6, <1>7 DEF Receive, AtBarrier

(* EnterDoes: the step by which a task counts itself.                       *)
LEMMA EnterDoes ==
    ASSUME BarrierTypes, NEW t \in Waiter, Enter(t)
    PROVE  /\ bpc[t] = "idle" /\ generation_id \in Generation /\ holder = 0 /\ holder' = t
           /\ local_gen' = [local_gen EXCEPT ![t] = generation_id]
           /\ count' = count + 1
           /\ entered' = [entered EXCEPT ![generation_id] = @ + 1]
           /\ \/ count + 1 < BarrierSize /\ bpc' = [bpc EXCEPT ![t] = "subscribe"]
              \/ ~(count + 1 < BarrierSize) /\ bpc' = [bpc EXCEPT ![t] = "lead"]
           /\ UNCHANGED <<generation_id, rx, subscribed, passed, led>>
  <1>1. generation_id \in 1 .. Generations + 1 /\ generation_id <= Generations
    BY DEF Enter, BarrierTypes
  <1>2. generation_id \in Generation
    BY <1>1, BarrierAssumption DEF Generation
  <1>3. QED
    BY <1>2 DEF Enter, AtBarrier

(* BarrierTypesStep: values keep their types.                               *)
LEMMA BarrierTypesStep ==
    ASSUME BarrierTypes, MessagesFit, GensFit, BarrierNext
    PROVE  BarrierTypes'
  <1>1. ASSUME NEW t \in Waiter, Enter(t) PROVE BarrierTypes'
    <2>1. bpc' \in [Waiter -> BarrierPlaces]
      BY <1>1, EnterDoes DEF BarrierTypes, BarrierPlaces, LockedPlaces
    <2>2. entered' \in [Generation -> Nat]
      BY <1>1, EnterDoes DEF BarrierTypes
    <2>3. local_gen' \in [Waiter -> Nat] /\ holder' \in Nat
      BY <1>1, EnterDoes, NumbersFit DEF BarrierTypes
    <2>4. count' = count + 1 /\ UNCHANGED <<generation_id, rx, subscribed, passed, led>>
      BY <1>1, EnterDoes
    <2>5. QED
      BY <2>1, <2>2, <2>3, <2>4 DEF BarrierTypes
  <1>2. ASSUME NEW t \in Waiter, Subscribe(t) PROVE BarrierTypes'
    <2>1. <<>> \in Seq(Message)
      OBVIOUS
    <2>2. QED
      BY <1>2, <2>1 DEF BarrierTypes, BarrierPlaces, LockedPlaces, Subscribe, AtBarrier
  <1>3. ASSUME NEW t \in Waiter, Unlock(t) PROVE BarrierTypes'
    BY <1>3 DEF BarrierTypes, BarrierPlaces, Unlock, AtBarrier
  <1>4. ASSUME NEW t \in Waiter, Receive(t) PROVE BarrierTypes'
    <2>1. rx[t] \in Seq(Message) /\ rx[t] # <<>>
      BY <1>4, FirstMessage DEF BarrierTypes
    <2>2. Tail(rx[t]) \in Seq(Message)
      BY <2>1
    <2>3. rx' \in [Waiter -> Seq(Message)]
      <3>1. rx' = [rx EXCEPT ![t] = Tail(rx[t])]
        BY <1>4, FirstMessage
      <3>2. QED
        BY <2>2, <3>1 DEF BarrierTypes
    <2>4. passed' \in [Generation -> Nat]
      BY <1>4, FirstMessage DEF BarrierTypes
    <2>5. bpc' \in [Waiter -> BarrierPlaces] /\ subscribed' \subseteq Waiter
      BY <1>4, FirstMessage DEF BarrierTypes, BarrierPlaces
    <2>6. UNCHANGED <<holder, count, generation_id, local_gen, entered, led>>
      BY <1>4, FirstMessage
    <2>7. QED
      BY <2>3, <2>4, <2>5, <2>6 DEF BarrierTypes
  <1>5. ASSUME NEW t \in Waiter, Lead(t) PROVE BarrierTypes'
    <2>1. generation_id \in Generation
      BY <1>5 DEF Lead, GensFit, GenFits
    <2>2. generation_id' \in 1 .. Generations + 1 /\ count' \in Nat
      BY <1>5, <2>1, NumbersFit DEF Lead
    <2>3. bpc' \in [Waiter -> BarrierPlaces]
      BY <1>5 DEF Lead, AtBarrier, BarrierTypes, BarrierPlaces, LockedPlaces
    <2>4. QED
      BY <1>5, <2>2, <2>3 DEF BarrierTypes, Lead
  <1>6. ASSUME NEW t \in Waiter, Send(t) PROVE BarrierTypes'
    <2>1. [gen |-> generation_id, count |-> count] \in Message
      BY NumbersFit DEF BarrierTypes, Message
    <2>2. \A u \in Waiter : Append(rx[u], [gen |-> generation_id, count |-> count]) \in Seq(Message)
      BY <2>1 DEF BarrierTypes
    <2>3. rx' \in [Waiter -> Seq(Message)]
      BY <1>6, <2>2 DEF Send, BarrierTypes
    <2>4. bpc' \in [Waiter -> BarrierPlaces]
      BY <1>6 DEF Send, AtBarrier, BarrierTypes, BarrierPlaces, LockedPlaces
    <2>5. QED
      BY <1>6, <2>3, <2>4 DEF BarrierTypes, Send
  <1>7. ASSUME NEW t \in Waiter, ReturnAsLeader(t) PROVE BarrierTypes'
    <2>1. passed' \in [Generation -> Nat] /\ led' \in [Generation -> Nat]
      <3>1. local_gen[t] \in Generation
        BY <1>7 DEF GensFit, GenFits, ReturnAsLeader
      <3>2. /\ passed' = [passed EXCEPT ![local_gen[t]] = passed[local_gen[t]] + 1]
            /\ led' = [led EXCEPT ![local_gen[t]] = led[local_gen[t]] + 1]
        BY <1>7 DEF ReturnAsLeader
      <3>3. QED
        BY <3>1, <3>2 DEF BarrierTypes
    <2>2. bpc' \in [Waiter -> BarrierPlaces] /\ holder' \in Nat
      BY <1>7 DEF ReturnAsLeader, AtBarrier, BarrierTypes, BarrierPlaces
    <2>3. QED
      BY <1>7, <2>1, <2>2 DEF BarrierTypes, ReturnAsLeader
  <1>8. QED
    BY <1>1, <1>2, <1>3, <1>4, <1>5, <1>6, <1>7 DEF BarrierNext

(* LockStep: a task is between lock() and the drop of its guard if and only *)
(* if it holds the lock.                                                    *)
LEMMA LockStep ==
    ASSUME BarrierTypes, MessagesFit, LockFits, BarrierNext
    PROVE  LockFits'
  <1>1. ASSUME NEW t \in Waiter, Enter(t) PROVE LockFits'
    <2>1. /\ bpc[t] = "idle" /\ holder = 0 /\ holder' = t
          /\ \E to \in {"subscribe", "lead"} : bpc' = [bpc EXCEPT ![t] = to]
      BY <1>1, EnterDoes
    <2>2. \A u \in Waiter : bpc[u] \notin LockedPlaces
      BY <2>1, NumbersFit DEF LockFits
    <2>3. bpc'[t] \in LockedPlaces /\ \A u \in Waiter \ {t} : bpc'[u] = bpc[u]
      BY <2>1 DEF BarrierTypes, LockedPlaces
    <2>4. QED
      BY <2>1, <2>2, <2>3 DEF LockFits
  <1>2. ASSUME NEW t \in Waiter, Subscribe(t) \/ Lead(t) \/ Send(t) PROVE LockFits'
    <2>1. /\ bpc[t] \in LockedPlaces /\ holder' = holder
          /\ \E to \in LockedPlaces : bpc' = [bpc EXCEPT ![t] = to]
      BY <1>2 DEF Subscribe, Lead, Send, AtBarrier, LockedPlaces
    <2>2. QED
      BY <2>1 DEF BarrierTypes, LockFits
  <1>3. ASSUME NEW t \in Waiter, Unlock(t) \/ ReturnAsLeader(t) PROVE LockFits'
    <2>1. /\ bpc[t] \in LockedPlaces /\ holder' = 0
          /\ \E to \in {"recv", "idle"} : bpc' = [bpc EXCEPT ![t] = to]
      BY <1>3 DEF Unlock, ReturnAsLeader, AtBarrier, LockedPlaces
    <2>2. QED
      BY <2>1, NumbersFit DEF BarrierTypes, LockFits, LockedPlaces
  <1>4. ASSUME NEW t \in Waiter, Receive(t) PROVE LockFits'
    <2>1. bpc[t] = "recv" /\ holder' = holder /\ bpc' = [bpc EXCEPT ![t] = "idle"]
      BY <1>4, FirstMessage
    <2>2. QED
      BY <2>1 DEF BarrierTypes, LockFits, LockedPlaces
  <1>5. QED
    BY <1>1, <1>2, <1>3, <1>4 DEF BarrierNext

(* GensStep: the generation a wait() is of.                                 *)
LEMMA GensStep ==
    ASSUME BarrierTypes, MessagesFit, LockFits, GensFit, LeaderAlone, BarrierNext
    PROVE  GensFit' /\ LeaderAlone'
  <1>1. /\ generation_id \in Nat /\ \A u \in Waiter : local_gen[u] \in Nat
    BY NumbersFit DEF BarrierTypes
  <1>2. ASSUME NEW t \in Waiter, Enter(t) PROVE GensFit' /\ LeaderAlone'
    <2>1. \A u \in Waiter \ {t} : GenFits(u)'
      <3>1. \A u \in Waiter \ {t} : bpc'[u] = bpc[u] /\ local_gen'[u] = local_gen[u]
        BY <1>2, EnterDoes DEF BarrierTypes
      <3>2. generation_id' = generation_id
        BY <1>2, EnterDoes
      <3>3. QED
        BY <3>1, <3>2 DEF GensFit, GenFits
    <2>2. GenFits(t)'
      BY <1>1, <1>2, EnterDoes DEF BarrierTypes, GenFits
    <2>3. \A u \in Waiter : bpc[u] \notin {"send", "return"}
      BY <1>2, EnterDoes, NumbersFit DEF LockFits, LockedPlaces
    <2>4. \A u \in Waiter : bpc'[u] \notin {"send", "return"}
      BY <1>2, <2>3, EnterDoes DEF BarrierTypes
    <2>5. QED
      BY <2>1, <2>2, <2>4 DEF GensFit, LeaderAlone
  <1>3. ASSUME NEW t \in Waiter, Subscribe(t) \/ Unlock(t) \/ Receive(t) \/ Send(t) \/ ReturnAsLeader(t)
        PROVE  GensFit' /\ LeaderAlone'
    <2>1. /\ UNCHANGED <<local_gen, generation_id>>
          /\ \/ bpc[t] = "subscribe" /\ bpc' = [bpc EXCEPT ![t] = "unlock"]
             \/ bpc[t] = "unlock" /\ bpc' = [bpc EXCEPT ![t] = "recv"]
             \/ bpc[t] = "recv" /\ bpc' = [bpc EXCEPT ![t] = "idle"]
             \/ bpc[t] = "send" /\ bpc' = [bpc EXCEPT ![t] = "return"]
             \/ bpc[t] = "return" /\ bpc' = [bpc EXCEPT ![t] = "idle"]
      BY <1>3, FirstMessage DEF Subscribe, Unlock, Send, ReturnAsLeader, AtBarrier
    <2>2. \A u \in Waiter \ {t} : bpc'[u] = bpc[u]
      BY <2>1 DEF BarrierTypes
    <2>3. \A u \in Waiter \ {t} : GenFits(u)'
      BY <2>1, <2>2 DEF GensFit, GenFits
    <2>4. GenFits(t)'
      BY <2>1 DEF BarrierTypes, GensFit, GenFits
    <2>5. \A u \in Waiter : bpc'[u] \in {"send", "return"} => bpc[u] \in {"send", "return"}
      BY <2>1, <2>2 DEF BarrierTypes
    <2>6. QED
      BY <2>1, <2>3, <2>4, <2>5 DEF GensFit, LeaderAlone
  <1>4. ASSUME NEW t \in Waiter, Lead(t) PROVE GensFit' /\ LeaderAlone'
    <2>1. /\ bpc[t] = "lead" /\ bpc' = [bpc EXCEPT ![t] = "send"]
          /\ local_gen' = local_gen /\ generation_id' = generation_id + 1
      BY <1>4 DEF Lead, AtBarrier
    <2>2. \A u \in Waiter : local_gen[u] <= generation_id
      BY DEF GensFit, GenFits
    <2>3. \A u \in Waiter : local_gen'[u] < generation_id'
      BY <1>1, <2>1, <2>2
    <2>4. \A u \in Waiter \ {t} : bpc'[u] = bpc[u] /\ bpc[u] \notin LockedPlaces
      BY <2>1 DEF BarrierTypes, LockFits, LockedPlaces
    <2>5. \A u \in Waiter \ {t} : GenFits(u)'
      BY <1>1, <2>1, <2>2, <2>4 DEF GensFit, GenFits, LockedPlaces
    <2>6. GenFits(t)'
      BY <1>1, <2>1 DEF BarrierTypes, GensFit, GenFits
    <2>7. QED
      BY <2>3, <2>5, <2>6 DEF GensFit, LeaderAlone
  <1>5. QED
    BY <1>2, <1>3, <1>4 DEF BarrierNext
(* CountStep: a generation has had its n tasks before the next one begins.  *)
LEMMA CountStep ==
    ASSUME BarrierTypes, MessagesFit, LockFits, GensFit, CountFits, BarrierNext
    PROVE  CountFits'
  <1>1. /\ generation_id \in Nat /\ count \in Nat /\ BarrierSize \in Nat /\ BarrierSize > 0
        /\ \A g \in Generation : g \in Nat /\ entered[g] \in Nat
    BY NumbersFit, SizeFits DEF BarrierTypes
  <1>2. ASSUME NEW t \in Waiter, Enter(t) PROVE CountFits'
    <2>1. \A u \in Waiter : bpc[u] # "lead"
      BY <1>2, EnterDoes, NumbersFit DEF LockFits, LockedPlaces
    <2>2. count < BarrierSize /\ count' = count + 1 /\ generation_id' = generation_id
      BY <1>2, <2>1, EnterDoes DEF CountFits
    <2>3. \/ count + 1 < BarrierSize /\ bpc' = [bpc EXCEPT ![t] = "subscribe"]
          \/ ~(count + 1 < BarrierSize) /\ bpc' = [bpc EXCEPT ![t] = "lead"]
      BY <1>2, EnterDoes
    <2>4. \A u \in Waiter : bpc'[u] = "lead" => count' = BarrierSize
      BY <1>1, <2>1, <2>2, <2>3 DEF BarrierTypes
    <2>5. (\A u \in Waiter : bpc'[u] # "lead") => count' < BarrierSize
      BY <1>1, <2>2, <2>3 DEF BarrierTypes
    <2>6. ASSUME NEW g \in Generation
          PROVE  entered'[g] = IF g < generation_id THEN BarrierSize
                               ELSE IF g = generation_id THEN count + 1 ELSE 0
      <3>1. entered'[g] = IF g = generation_id THEN entered[g] + 1 ELSE entered[g]
        BY <1>2, EnterDoes DEF BarrierTypes
      <3>2. entered[g] = IF g < generation_id THEN BarrierSize
                         ELSE IF g = generation_id THEN count ELSE 0
        BY DEF CountFits
      <3>3. QED
        BY <1>1, <3>1, <3>2
    <2>7. QED
      BY <2>2, <2>4, <2>5, <2>6 DEF CountFits
  <1>3. ASSUME NEW t \in Waiter, Subscribe(t) \/ Unlock(t) \/ Receive(t) \/ Send(t) \/ ReturnAsLeader(t)
        PROVE  CountFits'
    <2>1. /\ UNCHANGED <<count, entered, generation_id>> /\ bpc[t] # "lead"
          /\ \E to \in {"unlock", "recv", "idle", "return"} : bpc' = [bpc EXCEPT ![t] = to]
      BY <1>3, FirstMessage DEF Subscribe, Unlock, Send, ReturnAsLeader, AtBarrier
    <2>2. \A u \in Waiter : bpc'[u] = "lead" <=> bpc[u] = "lead"
      BY <2>1 DEF BarrierTypes
    <2>3. QED
      BY <2>1, <2>2 DEF CountFits
  <1>4. ASSUME NEW t \in Waiter, Lead(t) PROVE CountFits'
    <2>1. /\ bpc[t] = "lead" /\ bpc' = [bpc EXCEPT ![t] = "send"] /\ entered' = entered
          /\ count' = 0 /\ generation_id' = generation_id + 1
      BY <1>4 DEF Lead, AtBarrier
    <2>2. \A u \in Waiter : bpc'[u] # "lead"
      BY <2>1 DEF BarrierTypes, LockFits, LockedPlaces
    <2>3. count = BarrierSize
      BY <2>1 DEF CountFits
    <2>4. ASSUME NEW g \in Generation
          PROVE  entered'[g] = IF g < generation_id + 1 THEN BarrierSize ELSE 0
      <3>1. entered[g] = IF g < generation_id THEN BarrierSize
                         ELSE IF g = generation_id THEN count ELSE 0
        BY DEF CountFits
      <3>2. QED
        BY <1>1, <2>1, <2>3, <3>1
    <2>5. QED
      BY <1>1, <2>1, <2>2, <2>4 DEF CountFits
  <1>5. QED
    BY <1>2, <1>3, <1>4 DEF BarrierNext

(* OneLeaves: task t, of generation g, is done.                             *)
LEMMA OneLeaves ==
    ASSUME BarrierTypes, GensFit, PassesFit, NEW t \in Waiter, NEW g \in Generation,
           bpc[t] # "idle", local_gen[t] = g, g < generation_id,
           passed' = [passed EXCEPT ![g] = @ + 1], bpc' = [bpc EXCEPT ![t] = "idle"],
           UNCHANGED <<generation_id, local_gen, entered>>
    PROVE  PassesFit'
  <1>1. Inside(bpc', local_gen', g) = Inside(bpc, local_gen, g) \ {t} /\ t \in Inside(bpc, local_gen, g)
    BY DEF Inside, BarrierTypes
  <1>2. \A h \in Generation \ {g} : Inside(bpc', local_gen', h) = Inside(bpc, local_gen, h)
    BY DEF Inside, BarrierTypes
  <1>3. Cardinality(Inside(bpc, local_gen, g) \ {t}) = Cardinality(Inside(bpc, local_gen, g)) - 1
    BY <1>1, InsideFinite, FS_RemoveElement
  <1>4. passed[g] \in Nat /\ passed'[g] = passed[g] + 1
    BY DEF BarrierTypes
  <1>5. \A h \in Generation \ {g} : passed'[h] = passed[h]
    BY DEF BarrierTypes
  <1>6. entered'[g] = passed'[g] + Cardinality(Inside(bpc', local_gen', g))
    <2>1. entered[g] = passed[g] + Cardinality(Inside(bpc, local_gen, g))
      BY DEF PassesFit
    <2>2. PICK n \in Nat : n = Cardinality(Inside(bpc, local_gen, g))
      BY InsideFinite
    <2>3. Cardinality(Inside(bpc', local_gen', g)) = n - 1
      BY <1>1, <1>3, <2>2
    <2>4. entered[g] = passed[g] + n /\ passed[g] + n = (passed[g] + 1) + (n - 1)
      BY <1>4, <2>1, <2>2
    <2>5. entered'[g] = entered[g]
      OBVIOUS
    <2>6. QED
      BY <1>4, <2>3, <2>4, <2>5
  <1>7. \A h \in Generation \ {g} :
            /\ entered'[h] = passed'[h] + Cardinality(Inside(bpc', local_gen', h))
            /\ passed'[h] > 0 => h < generation_id
    BY <1>2, <1>5 DEF PassesFit
  <1>8. QED
    BY <1>6, <1>7 DEF PassesFit

(* PassesStep: the waits begun are those ended and those under way, and     *)
(* none of the current generation has ended.                                *)
LEMMA PassesStep ==
    ASSUME BarrierTypes, MessagesFit, GensFit, PassesFit, BarrierNext
    PROVE  PassesFit'
  <1>1. /\ generation_id \in Nat /\ \A u \in Waiter : local_gen[u] \in Nat
        /\ \A g \in Generation : g \in Nat /\ passed[g] \in Nat
    BY NumbersFit DEF BarrierTypes
  <1>2. ASSUME NEW t \in Waiter, Enter(t) PROVE PassesFit'
    <2>1. PICK g \in Generation : g = generation_id
      BY <1>2, EnterDoes
    <2>2. /\ bpc[t] = "idle" /\ UNCHANGED <<generation_id, passed>>
          /\ local_gen' = [local_gen EXCEPT ![t] = g] /\ entered' = [entered EXCEPT ![g] = @ + 1]
          /\ \E to \in {"subscribe", "lead"} : bpc' = [bpc EXCEPT ![t] = to]
      BY <1>2, <2>1, EnterDoes
    <2>3. Inside(bpc', local_gen', g) = Inside(bpc, local_gen, g) \cup {t} /\ t \notin Inside(bpc, local_gen, g)
      BY <2>2 DEF Inside, BarrierTypes
    <2>4. \A h \in Generation \ {g} : Inside(bpc', local_gen', h) = Inside(bpc, local_gen, h)
      BY <2>2 DEF Inside, BarrierTypes
    <2>5. Cardinality(Inside(bpc, local_gen, g) \cup {t}) = Cardinality(Inside(bpc, local_gen, g)) + 1
      BY <2>3, InsideFinite, FS_AddElement
    <2>6. entered'[g] = entered[g] + 1 /\ \A h \in Generation \ {g} : entered'[h] = entered[h]
      BY <2>2 DEF BarrierTypes
    <2>7. entered'[g] = passed'[g] + Cardinality(Inside(bpc', local_gen', g))
      <3>1. entered[g] = passed[g] + Cardinality(Inside(bpc, local_gen, g))
        BY DEF PassesFit
      <3>2. PICK n \in Nat : n = Cardinality(Inside(bpc, local_gen, g))
        BY InsideFinite
      <3>3. Cardinality(Inside(bpc', local_gen', g)) = n + 1
        BY <2>3, <2>5, <3>2
      <3>4. entered[g] + 1 = passed[g] + (n + 1)
        BY <1>1, <3>1, <3>2
      <3>5. passed'[g] = passed[g]
        BY <2>2
      <3>6. QED
        BY <2>6, <3>3, <3>4, <3>5
    <2>8. \A h \in Generation \ {g} : entered'[h] = passed'[h] + Cardinality(Inside(bpc', local_gen', h))
      BY <2>2, <2>4, <2>6 DEF PassesFit
    <2>9. QED
      BY <2>2, <2>7, <2>8 DEF PassesFit
  <1>3. ASSUME NEW t \in Waiter, Subscribe(t) \/ Unlock(t) \/ Lead(t) \/ Send(t)
        PROVE  PassesFit'
    <2>1. /\ UNCHANGED <<entered, passed, local_gen>> /\ bpc[t] # "idle"
          /\ generation_id' \in {generation_id, generation_id + 1}
          /\ \E to \in {"unlock", "recv", "send", "return"} : bpc' = [bpc EXCEPT ![t] = to]
      BY <1>3 DEF Subscribe, Unlock, Lead, Send, AtBarrier
    <2>2. \A g \in Generation : Inside(bpc', local_gen', g) = Inside(bpc, local_gen, g)
      BY <2>1 DEF Inside, BarrierTypes
    <2>3. \A g \in Generation : g < generation_id => g < generation_id'
      BY <1>1, <2>1
    <2>4. QED
      BY <2>1, <2>2, <2>3 DEF PassesFit
  <1>4. ASSUME NEW t \in Waiter, Receive(t) PROVE PassesFit'
    <2>1. bpc[t] = "recv"
      BY <1>4, FirstMessage
    <2>2. PICK g \in Generation : g = local_gen[t]
      BY <2>1 DEF GensFit, GenFits
    <2>3. /\ g < generation_id
          /\ passed' = [passed EXCEPT ![g] = @ + 1] /\ bpc' = [bpc EXCEPT ![t] = "idle"]
          /\ UNCHANGED <<generation_id, local_gen, entered>>
      BY <1>4, <2>2, FirstMessage
    <2>4. QED
      BY <2>1, <2>2, <2>3, OneLeaves
  <1>5. ASSUME NEW t \in Waiter, ReturnAsLeader(t) PROVE PassesFit'
    <2>1. bpc[t] = "return"
      BY <1>5 DEF ReturnAsLeader
    <2>2. PICK g \in Generation : g = local_gen[t] /\ g + 1 = generation_id
      BY <2>1 DEF GensFit, GenFits
    <2>3. g < generation_id
      BY <1>1, <2>2
    <2>4. /\ passed' = [passed EXCEPT ![g] = @ + 1] /\ bpc' = [bpc EXCEPT ![t] = "idle"]
          /\ UNCHANGED <<generation_id, local_gen, entered>>
      BY <1>5, <2>2 DEF ReturnAsLeader, AtBarrier
    <2>5. QED
      BY <2>1, <2>2, <2>3, <2>4, OneLeaves
  <1>6. QED
    BY <1>2, <1>3, <1>4, <1>5 DEF BarrierNext
(* LeadersStep: every old generation has one leader.                        *)
LEMMA LeadersStep ==
    ASSUME BarrierTypes, MessagesFit, LockFits, GensFit, LeadersFit, BarrierNext
    PROVE  LeadersFit'
  <1>1. /\ generation_id \in Nat /\ \A u \in Waiter : local_gen[u] \in Nat
        /\ \A g \in Generation : g \in Nat /\ led[g] \in Nat
    BY NumbersFit DEF BarrierTypes
  <1>2. ASSUME UNCHANGED <<led, generation_id>>, \A g \in Generation : LeadsNow(g)' <=> LeadsNow(g)
        PROVE  LeadersFit'
    BY <1>2 DEF LeadersFit
  <1>3. ASSUME NEW t \in Waiter, Enter(t) PROVE LeadersFit'
    <2>1. \A u \in Waiter : bpc[u] \notin {"send", "return"}
      BY <1>3, EnterDoes, NumbersFit DEF LockFits, LockedPlaces
    <2>2. \A u \in Waiter : bpc'[u] \notin {"send", "return"}
      BY <1>3, <2>1, EnterDoes DEF BarrierTypes
    <2>3. UNCHANGED <<led, generation_id>>
      BY <1>3, EnterDoes
    <2>4. QED
      BY <1>2, <2>1, <2>2, <2>3 DEF LeadsNow
  <1>4. ASSUME NEW t \in Waiter, Subscribe(t) \/ Unlock(t) \/ Receive(t) \/ Send(t)
        PROVE  LeadersFit'
    <2>1. /\ UNCHANGED <<led, generation_id, local_gen>>
          /\ \/ /\ bpc[t] \in {"subscribe", "unlock", "recv"}
                /\ \E to \in {"unlock", "recv", "idle"} : bpc' = [bpc EXCEPT ![t] = to]
             \/ bpc[t] = "send" /\ bpc' = [bpc EXCEPT ![t] = "return"]
      BY <1>4, FirstMessage DEF Subscribe, Unlock, Send, AtBarrier
    <2>2. \A u \in Waiter : bpc'[u] \in {"send", "return"} <=> bpc[u] \in {"send", "return"}
      BY <2>1 DEF BarrierTypes
    <2>3. QED
      BY <1>2, <2>1, <2>2 DEF LeadsNow
  <1>5. ASSUME NEW t \in Waiter, Lead(t) PROVE LeadersFit'
    <2>1. /\ bpc[t] = "lead" /\ bpc' = [bpc EXCEPT ![t] = "send"]
          /\ local_gen' = local_gen /\ generation_id' = generation_id + 1 /\ led' = led
      BY <1>5 DEF Lead, AtBarrier
    <2>2. local_gen[t] = generation_id
      BY <2>1 DEF GensFit, GenFits
    <2>3. \A u \in Waiter \ {t} : bpc'[u] = bpc[u] /\ bpc[u] \notin {"send", "return"}
      BY <2>1 DEF BarrierTypes, LockFits, LockedPlaces
    <2>4. bpc'[t] = "send"
      BY <2>1 DEF BarrierTypes
    <2>5. \A g \in Generation : ~LeadsNow(g) /\ (LeadsNow(g)' <=> g = generation_id)
      BY <2>1, <2>2, <2>3, <2>4 DEF LeadsNow
    <2>6. \A g \in Generation : led[g] = IF g < generation_id THEN 1 ELSE 0
      BY <2>5 DEF LeadersFit
    <2>7. \A g \in Generation : led'[g] = IF g < generation_id' /\ ~LeadsNow(g)' THEN 1 ELSE 0
      BY <1>1, <2>1, <2>5, <2>6
    <2>8. QED
      BY <2>7 DEF LeadersFit
  <1>6. ASSUME NEW t \in Waiter, ReturnAsLeader(t) PROVE LeadersFit'
    <2>1. bpc[t] = "return"
      BY <1>6 DEF ReturnAsLeader
    <2>2. PICK g \in Generation : g = local_gen[t] /\ g + 1 = generation_id
      BY <2>1 DEF GensFit, GenFits
    <2>3. /\ led' = [led EXCEPT ![g] = led[g] + 1] /\ bpc' = [bpc EXCEPT ![t] = "idle"]
          /\ UNCHANGED <<generation_id, local_gen>>
      BY <1>6, <2>2 DEF ReturnAsLeader, AtBarrier
    <2>4. \A u \in Waiter \ {t} : bpc'[u] = bpc[u] /\ bpc[u] \notin {"send", "return"}
      BY <2>1, <2>3 DEF BarrierTypes, LockFits, LockedPlaces
    <2>5. \A h \in Generation : ~LeadsNow(h)' /\ (LeadsNow(h) <=> h = g)
      BY <2>1, <2>2, <2>3, <2>4 DEF LeadsNow, BarrierTypes
    <2>6. \A h \in Generation : led[h] = IF h < generation_id /\ h # g THEN 1 ELSE 0
      BY <2>5 DEF LeadersFit
    <2>7. \A h \in Generation : led'[h] = IF h = g THEN led[h] + 1 ELSE led[h]
      BY <2>3 DEF BarrierTypes
    <2>8. \A h \in Generation : led'[h] = IF h < generation_id THEN 1 ELSE 0
      BY <1>1, <2>2, <2>6, <2>7
    <2>9. QED
      BY <2>3, <2>5, <2>8 DEF LeadersFit
  <1>7. QED
    BY <1>3, <1>4, <1>5, <1>6 DEF BarrierNext

(* MessagesStep: a message is of a later generation than its receiver.      *)
LEMMA MessagesStep ==
    ASSUME BarrierTypes, MessagesFit, LockFits, GensFit, LeaderAlone, BarrierNext
    PROVE  MessagesFit'
  <1> DEFINE Late(q, l, g) == \A i \in DOMAIN q : l < q[i].gen /\ q[i].gen <= g
  <1>1. /\ generation_id \in Nat /\ \A u \in Waiter : local_gen[u] \in Nat /\ rx[u] \in Seq(Message)
    BY NumbersFit DEF BarrierTypes
  <1>2. /\ subscribed = {t \in Waiter : bpc[t] \in {"unlock", "recv"}}
        /\ \A t \in subscribed : Late(rx[t], local_gen[t], generation_id)
    BY DEF MessagesFit
  <1>3. SUFFICES /\ subscribed' = {t \in Waiter : bpc'[t] \in {"unlock", "recv"}}
                 /\ \A t \in subscribed' : Late(rx'[t], local_gen'[t], generation_id')
    BY DEF MessagesFit
  <1> HIDE DEF Late
  <1>4. CASE \E t \in Waiter : Enter(t)
    <2>1. PICK t \in Waiter : Enter(t)
      BY <1>4
    <2>2. /\ bpc[t] = "idle" /\ \E to \in {"subscribe", "lead"} : bpc' = [bpc EXCEPT ![t] = to]
          /\ local_gen' = [local_gen EXCEPT ![t] = generation_id]
          /\ UNCHANGED <<generation_id, rx, subscribed>>
      BY <2>1, EnterDoes
    <2>3. t \notin subscribed /\ \A u \in subscribed : u \in Waiter \ {t} /\ local_gen'[u] = local_gen[u]
      BY <1>2, <2>2 DEF BarrierTypes
    <2>4. subscribed' = {u \in Waiter : bpc'[u] \in {"unlock", "recv"}}
      BY <1>2, <2>2 DEF BarrierTypes
    <2>5. QED
      BY <1>2, <2>2, <2>3, <2>4
  <1>5. CASE \E t \in Waiter : Subscribe(t)
    <2>1. PICK t \in Waiter : Subscribe(t)
      BY <1>5
    <2>2. /\ bpc[t] = "subscribe" /\ bpc' = [bpc EXCEPT ![t] = "unlock"]
          /\ subscribed' = subscribed \cup {t} /\ rx' = [rx EXCEPT ![t] = <<>>]
          /\ UNCHANGED <<generation_id, local_gen>>
      BY <2>1 DEF Subscribe, AtBarrier
    <2>3. rx'[t] = <<>> /\ \A u \in Waiter \ {t} : rx'[u] = rx[u]
      BY <2>2 DEF BarrierTypes
    <2>4. Late(rx'[t], local_gen'[t], generation_id')
      BY <2>3 DEF Late
    <2>5. subscribed' = {u \in Waiter : bpc'[u] \in {"unlock", "recv"}}
      BY <1>2, <2>2 DEF BarrierTypes
    <2>6. \A u \in subscribed : u \in Waiter
      BY <1>2
    <2>7. QED
      BY <1>2, <2>2, <2>3, <2>4, <2>5, <2>6
  <1>6. CASE \E t \in Waiter : Unlock(t) \/ ReturnAsLeader(t)
    <2>1. PICK t \in Waiter : Unlock(t) \/ ReturnAsLeader(t)
      BY <1>6
    <2>2. /\ UNCHANGED <<generation_id, local_gen, rx, subscribed>>
          /\ \/ bpc[t] = "unlock" /\ bpc' = [bpc EXCEPT ![t] = "recv"]
             \/ bpc[t] = "return" /\ bpc' = [bpc EXCEPT ![t] = "idle"]
      BY <2>1 DEF Unlock, ReturnAsLeader, AtBarrier
    <2>3. subscribed' = {u \in Waiter : bpc'[u] \in {"unlock", "recv"}}
      BY <1>2, <2>2 DEF BarrierTypes
    <2>4. QED
      BY <1>2, <2>2, <2>3
  <1>7. CASE \E t \in Waiter : Receive(t)
    <2>1. PICK t \in Waiter : Receive(t)
      BY <1>7
    <2>2. /\ bpc[t] = "recv" /\ bpc' = [bpc EXCEPT ![t] = "idle"]
          /\ subscribed' = subscribed \ {t} /\ rx' = [rx EXCEPT ![t] = Tail(rx[t])]
          /\ UNCHANGED <<generation_id, local_gen>>
      BY <2>1, FirstMessage
    <2>3. \A u \in Waiter \ {t} : rx'[u] = rx[u]
      BY <2>2 DEF BarrierTypes
    <2>4. subscribed' = {u \in Waiter : bpc'[u] \in {"unlock", "recv"}}
      BY <1>2, <2>2 DEF BarrierTypes
    <2>5. \A u \in subscribed : u \in Waiter
      BY <1>2
    <2>6. QED
      BY <1>2, <2>2, <2>3, <2>4, <2>5
  <1>8. CASE \E t \in Waiter : Lead(t)
    <2>1. PICK t \in Waiter : Lead(t)
      BY <1>8
    <2>2. /\ bpc[t] = "lead" /\ bpc' = [bpc EXCEPT ![t] = "send"]
          /\ generation_id' = generation_id + 1 /\ UNCHANGED <<local_gen, rx, subscribed>>
      BY <2>1 DEF Lead, AtBarrier
    <2>3. subscribed' = {u \in Waiter : bpc'[u] \in {"unlock", "recv"}}
      BY <1>2, <2>2 DEF BarrierTypes
    <2>4. ASSUME NEW u \in subscribed PROVE Late(rx[u], local_gen[u], generation_id + 1)
      <3>1. rx[u] \in Seq(Message) /\ Late(rx[u], local_gen[u], generation_id)
        BY <1>1, <1>2
      <3>2. \A i \in DOMAIN rx[u] : rx[u][i] \in Message
        BY <3>1
      <3>3. \A m \in Message : m.gen \in Nat
        BY DEF Message
      <3>4. \A i \in DOMAIN rx[u] : rx[u][i].gen \in Nat
        BY <3>2, <3>3
      <3>5. QED
        BY <1>1, <3>1, <3>4 DEF Late
    <2>5. QED
      BY <2>2, <2>3, <2>4
  <1>9. CASE \E t \in Waiter : Send(t)
    <2>1. PICK t \in Waiter : Send(t)
      BY <1>9
    <2>2. PICK m \in Message : m = [gen |-> generation_id, count |-> count]
      BY <1>1 DEF Message, BarrierTypes
    <2>3. /\ bpc[t] = "send" /\ bpc' = [bpc EXCEPT ![t] = "return"]
          /\ rx' = [u \in Waiter |-> IF u \in subscribed THEN Append(rx[u], m) ELSE rx[u]]
          /\ UNCHANGED <<generation_id, local_gen, subscribed>>
      BY <2>1, <2>2 DEF Send, AtBarrier
    <2>4. subscribed' = {u \in Waiter : bpc'[u] \in {"unlock", "recv"}}
      BY <1>2, <2>3 DEF BarrierTypes
    <2>5. ASSUME NEW u \in subscribed PROVE Late(rx'[u], local_gen[u], generation_id)
      <3>1. u \in Waiter /\ rx[u] \in Seq(Message) /\ Late(rx[u], local_gen[u], generation_id)
        BY <1>1, <1>2
      <3>2. rx'[u] = Append(rx[u], m)
        BY <2>3, <3>1
      <3>3. local_gen[u] < generation_id /\ m.gen = generation_id
        BY <2>2, <2>3, <3>1 DEF LeaderAlone
      <3>4. /\ DOMAIN Append(rx[u], m) = 1 .. Len(rx[u]) + 1 /\ DOMAIN rx[u] = 1 .. Len(rx[u])
            /\ Append(rx[u], m)[Len(rx[u]) + 1] = m /\ Len(rx[u]) \in Nat
            /\ \A i \in 1 .. Len(rx[u]) : Append(rx[u], m)[i] = rx[u][i]
        BY <3>1
      <3>5. ASSUME NEW i \in DOMAIN rx'[u] PROVE local_gen[u] < rx'[u][i].gen /\ rx'[u][i].gen <= generation_id
        <4>1. i \in 1 .. Len(rx[u]) \/ i = Len(rx[u]) + 1
          BY <3>2, <3>4
        <4>2. CASE i = Len(rx[u]) + 1
          BY <1>1, <3>2, <3>3, <3>4, <4>2
        <4>3. CASE i \in 1 .. Len(rx[u])
          BY <3>1, <3>2, <3>4, <4>3 DEF Late
        <4>4. QED
          BY <4>1, <4>2, <4>3
      <3>6. QED
        BY <3>5 DEF Late
    <2>6. QED
      BY <2>3, <2>4, <2>5
  <1>10. QED
    BY <1>4, <1>5, <1>6, <1>7, <1>8, <1>9 DEF BarrierNext

(* LeftStep: nobody is left behind by the generation that is over.          *)
LEMMA LeftStep ==
    ASSUME BarrierTypes, MessagesFit, LockFits, GensFit, NobodyLeft, BarrierNext
    PROVE  NobodyLeft'
  <1>1. ASSUME NEW t \in Waiter, Enter(t) PROVE NobodyLeft'
    <2>1. /\ \E to \in {"subscribe", "lead"} : bpc' = [bpc EXCEPT ![t] = to]
          /\ local_gen' = [local_gen EXCEPT ![t] = generation_id]
          /\ UNCHANGED <<generation_id, rx>>
      BY <1>1, EnterDoes
    <2>2. \A u \in Waiter : bpc[u] # "send"
      BY <1>1, EnterDoes, NumbersFit DEF LockFits, LockedPlaces
    <2>3. \A u \in Waiter : bpc'[u] = "recv" => bpc[u] = "recv" /\ local_gen'[u] = local_gen[u]
      BY <2>1 DEF BarrierTypes
    <2>4. QED
      BY <2>1, <2>2, <2>3 DEF NobodyLeft
  <1>2. ASSUME NEW t \in Waiter, Subscribe(t) PROVE NobodyLeft'
    <2>1. /\ bpc[t] = "subscribe" /\ bpc' = [bpc EXCEPT ![t] = "unlock"]
          /\ rx' = [rx EXCEPT ![t] = <<>>] /\ UNCHANGED <<generation_id, local_gen>>
      BY <1>2 DEF Subscribe, AtBarrier
    <2>2. bpc'[t] = "unlock" /\ \A u \in Waiter \ {t} : bpc'[u] = bpc[u] /\ rx'[u] = rx[u]
      BY <2>1 DEF BarrierTypes
    <2>3. QED
      BY <2>1, <2>2 DEF NobodyLeft
  <1>3. ASSUME NEW t \in Waiter, Unlock(t) PROVE NobodyLeft'
    <2>1. /\ bpc[t] = "unlock" /\ bpc' = [bpc EXCEPT ![t] = "recv"]
          /\ UNCHANGED <<generation_id, local_gen, rx>>
      BY <1>3 DEF Unlock, AtBarrier
    <2>2. local_gen[t] = generation_id /\ \A u \in Waiter \ {t} : bpc'[u] = bpc[u]
      BY <2>1 DEF BarrierTypes, GensFit, GenFits
    <2>3. QED
      BY <2>1, <2>2 DEF NobodyLeft
  <1>4. ASSUME NEW t \in Waiter, Receive(t) PROVE NobodyLeft'
    <2>1. /\ bpc[t] = "recv" /\ bpc' = [bpc EXCEPT ![t] = "idle"]
          /\ rx' = [rx EXCEPT ![t] = Tail(rx[t])] /\ UNCHANGED <<generation_id, local_gen>>
      BY <1>4, FirstMessage
    <2>2. bpc'[t] = "idle" /\ \A u \in Waiter \ {t} : bpc'[u] = bpc[u] /\ rx'[u] = rx[u]
      BY <2>1 DEF BarrierTypes
    <2>3. QED
      BY <2>1, <2>2 DEF NobodyLeft
  <1>5. ASSUME NEW t \in Waiter, Lead(t) PROVE NobodyLeft'
    <2>1. bpc'[t] = "send"
      BY <1>5 DEF Lead, AtBarrier, BarrierTypes
    <2>2. QED
      BY <2>1 DEF NobodyLeft
  <1>6. ASSUME NEW t \in Waiter, Send(t) PROVE NobodyLeft'
    <2>1. PICK m \in Message : m = [gen |-> generation_id, count |-> count]
      <3>1. generation_id \in Nat /\ count \in Nat
        BY NumbersFit DEF BarrierTypes
      <3>2. QED
        BY <3>1 DEF Message
    <2>2. /\ bpc[t] = "send" /\ bpc' = [bpc EXCEPT ![t] = "return"]
          /\ rx' = [u \in Waiter |-> IF u \in subscribed THEN Append(rx[u], m) ELSE rx[u]]
      BY <1>6, <2>1 DEF Send, AtBarrier
    <2>3. ASSUME NEW u \in Waiter, bpc'[u] = "recv" PROVE rx'[u] # <<>>
      <3>1. u \in subscribed /\ rx[u] \in Seq(Message)
        BY <2>2, <2>3 DEF MessagesFit, BarrierTypes
      <3>2. rx'[u] = Append(rx[u], m) /\ Append(rx[u], m) # <<>>
        BY <2>2, <3>1
      <3>3. QED
        BY <3>2
    <2>4. QED
      BY <2>3 DEF NobodyLeft
  <1>7. ASSUME NEW t \in Waiter, ReturnAsLeader(t) PROVE NobodyLeft'
    <2>1. /\ bpc[t] = "return" /\ bpc' = [bpc EXCEPT ![t] = "idle"]
          /\ UNCHANGED <<generation_id, local_gen, rx>>
      BY <1>7 DEF ReturnAsLeader, AtBarrier
    <2>2. \A u \in Waiter : /\ bpc'[u] = "recv" => bpc[u] = "recv"
                            /\ bpc[u] = "send" => bpc'[u] = "send"
      BY <2>1 DEF BarrierTypes
    <2>3. QED
      BY <2>1, <2>2 DEF NobodyLeft
  <1>8. QED
    BY <1>1, <1>2, <1>3, <1>4, <1>5, <1>6, <1>7 DEF BarrierNext

(* BarrierStart: the invariant holds of Barrier::new.                       *)
LEMMA BarrierStart == BarrierInit => BarrierInv
  <1> SUFFICES ASSUME BarrierInit PROVE BarrierInv
    OBVIOUS
  <1>1. BarrierTypes
    <2>1. <<>> \in Seq(Message) /\ 1 \in 1 .. Generations + 1
      BY NumbersFit
    <2>2. QED
      BY <2>1 DEF BarrierInit, BarrierTypes, BarrierPlaces
  <1>2. LockFits /\ LeaderAlone /\ NobodyLeft
    BY NumbersFit DEF BarrierInit, LockFits, LeaderAlone, NobodyLeft, LockedPlaces
  <1>3. GensFit
    BY DEF BarrierInit, GensFit, GenFits
  <1>4. CountFits
    <2>1. \A g \in Generation : ~(g < generation_id)
      BY NumbersFit DEF BarrierInit
    <2>2. QED
      BY <2>1, SizeFits DEF BarrierInit, CountFits
  <1>5. PassesFit
    <2>1. \A g \in Generation : Inside(bpc, local_gen, g) = {}
      BY DEF BarrierInit, Inside
    <2>2. \A g \in Generation : entered[g] = 0 /\ passed[g] = 0
      BY DEF BarrierInit
    <2>3. \A g \in Generation : Cardinality(Inside(bpc, local_gen, g)) = 0
      BY <2>1, FS_EmptySet
    <2>4. QED
      BY <2>2, <2>3 DEF PassesFit
  <1>6. LeadersFit
    <2>1. \A g \in Generation : ~(g < generation_id)
      BY NumbersFit DEF BarrierInit
    <2>2. QED
      BY <2>1 DEF BarrierInit, LeadersFit
  <1>7. MessagesFit
    BY DEF BarrierInit, MessagesFit
  <1>8. QED
    BY <1>1, <1>2, <1>3, <1>4, <1>5, <1>6, <1>7 DEF BarrierInv

(* BarrierStep: every step keeps the invariant.                             *)
LEMMA BarrierStep == BarrierInv /\ [BarrierNext]_barrierVars => BarrierInv'
  <1>1. ASSUME BarrierInv, BarrierNext PROVE BarrierInv'
    BY <1>1, BarrierTypesStep, LockStep, GensStep, CountStep, PassesStep, LeadersStep, MessagesStep, LeftStep
       DEF BarrierInv
  <1>2. ASSUME BarrierInv, UNCHANGED barrierVars PROVE BarrierInv'
    BY <1>2 DEF BarrierInv, barrierVars, BarrierTypes, LockFits, GensFit, GenFits, LeaderAlone, CountFits,
                PassesFit, LeadersFit, LeadsNow, MessagesFit, NobodyLeft
  <1>3. QED
    BY <1>1, <1>2

(* BarrierMeets: for any number of tasks, any n and any number of           *)
(* generations, nobody passes before n tasks have come in his generation,   *)
(* every generation has one leader, and no task is left behind in one that  *)
(* is over.                                                                 *)
THEOREM BarrierMeets == BarrierSpec => []Rendezvous
  <1>1. ASSUME BarrierInv PROVE Rendezvous
    <2>1. ASSUME NEW g \in Generation
          PROVE  /\ passed[g] > 0 => entered[g] = BarrierSize
                 /\ passed[g] = BarrierSize => led[g] = 1
                 /\ entered[g] <= BarrierSize /\ led[g] <= 1
      <3>1. /\ passed[g] \in Nat /\ g \in Nat /\ generation_id \in Nat /\ count \in Nat
            /\ BarrierSize \in Nat /\ BarrierSize > 0
        BY <1>1, NumbersFit, SizeFits DEF BarrierInv, BarrierTypes
      <3>2. entered[g] = IF g < generation_id THEN BarrierSize
                         ELSE IF g = generation_id THEN count ELSE 0
        BY <1>1 DEF BarrierInv, CountFits
      <3>3. passed[g] > 0 => g < generation_id
        BY <1>1 DEF BarrierInv, PassesFit
      <3>4. led[g] = IF g < generation_id /\ ~LeadsNow(g) THEN 1 ELSE 0
        BY <1>1 DEF BarrierInv, LeadersFit
      <3>5. count <= BarrierSize
        BY <1>1, <3>1 DEF BarrierInv, CountFits
      <3>6. LeadsNow(g) => passed[g] # entered[g]
        <4>1. SUFFICES ASSUME LeadsNow(g) PROVE passed[g] # entered[g]
          OBVIOUS
        <4>2. Inside(bpc, local_gen, g) # {}
          BY <4>1 DEF LeadsNow, Inside
        <4>3. Cardinality(Inside(bpc, local_gen, g)) # 0 /\ Cardinality(Inside(bpc, local_gen, g)) \in Nat
          BY <4>2, InsideFinite, FS_EmptySet
        <4>4. entered[g] = passed[g] + Cardinality(Inside(bpc, local_gen, g))
          BY <1>1 DEF BarrierInv, PassesFit
        <4>5. QED
          BY <3>1, <4>3, <4>4
      <3>7. passed[g] > 0 => entered[g] = BarrierSize
        BY <3>2, <3>3
      <3>8. entered[g] <= BarrierSize /\ led[g] <= 1
        BY <3>1, <3>2, <3>4, <3>5
      <3>9. passed[g] = BarrierSize => led[g] = 1
        BY <3>1, <3>3, <3>4, <3>6, <3>7
      <3>10. QED
        BY <3>7, <3>8, <3>9
    <2>2. QED
      BY <1>1, <2>1 DEF Rendezvous, BarrierInv, NobodyLeft
  <1>2. QED
    BY <1>1, BarrierStart, BarrierStep, PTL DEF BarrierSpec

-----------------------------------------------------------------------------
(* The networking driver.  NoEdgeLost is about tasks that have parked; the  *)
(* invariant starts one step earlier: from the second try under the list's  *)
(* mutex on, a socket that is ready has an event that is still to be        *)
(* reported or handled, because the driver cannot handle it for this list   *)
(* before the waker is in.                                                  *)

IoFlags == {"readable", "writable", "hup"}
IoPlaces == {"new", "try", "lock", "retry", "push", "parked", "done"}
IoOps == [s : Nat, d : Dirs, effect : {"takes", "looks", "none"}]
IoEvents == [k : Slot, flags : SUBSET IoFlags]

IoTypes ==
    /\ opened \in [Socket -> Nat] /\ token \in [Socket -> Slot \cup {0}]
    /\ leaving \subseteq Socket
    /\ wakers \in [Slot -> [Dirs -> SUBSET IoTask]]
    /\ locked \in [Slot -> [Dirs -> IoTask \cup {Nobody}]]
    /\ ready \in [Socket -> SUBSET Dirs] /\ edges \in [Socket -> SUBSET IoFlags]
    /\ driver \subseteq IoEvents /\ table \in BOOLEAN
    /\ doing \in [IoTask -> IoOps] /\ io \in [IoTask -> IoPlaces]

(* An entry belongs to one socket, and only an open one makes events.       *)
TokensFit ==
    /\ \A s, r \in Socket : token[s] = token[r] /\ token[s] # 0 => s = r
    /\ \A s \in Socket : s \in leaving => token[s] # 0
    /\ \A s \in Socket : edges[s] # {} => token[s] # 0 /\ s \notin leaving

(* An operation under way borrows its socket, which stays open.             *)
OpFits(t) ==
    /\ io[t] \in {"new", "done"} => doing[t].s = 0
    /\ io[t] \notin {"new", "done"} =>
          doing[t].s \in Socket /\ doing[t].s \notin leaving /\ token[doing[t].s] # 0
    /\ io[t] \notin {"new", "done", "try"} => doing[t].effect # "none"
OpsFit == \A t \in IoTask : OpFits(t)

Locker(t) == locked[Key(t)][doing[t].d]
LocksFit == \A t \in IoTask : io[t] \in {"retry", "push"} => Locker(t) = t

Listed(t) == t \in wakers[Key(t)][doing[t].d]
ParkedFit == \A t \in IoTask : io[t] = "parked" => Listed(t)

EdgeIsOut(s, d) == \E flag \in edges[s] : Concerns(flag, d)
EventIsOut(k, d) == \E e \in driver : e.k = k /\ \E flag \in e.flags : Concerns(flag, d)
ReadyFit ==
    \A t \in IoTask :
        io[t] \in {"push", "parked"} /\ doing[t].d \in ready[doing[t].s] =>
            EdgeIsOut(doing[t].s, doing[t].d) \/ EventIsOut(Key(t), doing[t].d)

IoInv == IoTypes /\ TokensFit /\ OpsFit /\ LocksFit /\ ParkedFit /\ ReadyFit
(* IoNumbers: sockets, tasks and keys are numbered from 1.                  *)
LEMMA IoNumbers ==
    /\ \A t \in IoTask : t # 0 /\ t \in Nat
    /\ \A s \in Socket : s # 0 /\ s \in Nat
    /\ \A k \in Slot : k # 0 /\ k \in Nat
    /\ Nobody = 0
  BY IoAssumption DEF IoTask, Socket, Slot, Nobody

(* CellSet: what an assignment to one list of one entry changes.            *)
LEMMA CellSet ==
    ASSUME NEW S, NEW f \in [Slot -> [Dirs -> S]], NEW k \in Slot, NEW d \in Dirs, NEW v \in S
    PROVE  /\ [f EXCEPT ![k][d] = v] \in [Slot -> [Dirs -> S]]
           /\ [f EXCEPT ![k][d] = v][k][d] = v
           /\ \A j \in Slot, c \in Dirs : j # k \/ c # d => [f EXCEPT ![k][d] = v][j][c] = f[j][c]
  OBVIOUS

(* ActiveFits: the entry and the list an operation under way works on.      *)
LEMMA ActiveFits ==
    ASSUME IoTypes, OpsFit, NEW t \in IoTask, io[t] \notin {"new", "done"}
    PROVE  /\ doing[t].s \in Socket /\ doing[t].s \notin leaving /\ token[doing[t].s] # 0
           /\ Key(t) \in Slot /\ doing[t].d \in Dirs /\ doing[t] \in IoOps
  <1>1. doing[t].s \in Socket /\ doing[t].s \notin leaving /\ token[doing[t].s] # 0
    BY DEF OpsFit, OpFits
  <1>2. doing[t] \in IoOps /\ token[doing[t].s] \in Slot \cup {0}
    BY <1>1 DEF IoTypes
  <1>3. QED
    BY <1>1, <1>2 DEF Key, IoOps

(* MethodFits: what StartOp stores is an operation on its socket.           *)
LEMMA MethodFits ==
    ASSUME NEW m \in Methods, NEW s \in Socket
    PROVE  [m EXCEPT !.s = s] \in IoOps /\ [m EXCEPT !.s = s].s = s
  <1>1. m \in IoOps
    BY DEF Methods, Method, IoOps, Dirs, TcpRead, TcpPeek, TcpWrite, TcpFlush, UdpRecvFrom, UdpRecv,
           UdpSendTo, UdpSend, UnixRead, UnixWrite, UnixFlush, UnixRecvFrom, UnixRecv, UnixSendTo, UnixSend
  <1>2. s \in Nat
    BY IoNumbers
  <1>3. QED
    BY <1>1, <1>2 DEF IoOps

(* NoOpFits: no operation.                                                  *)
LEMMA NoOpFits == NoOp \in IoOps /\ NoOp.s = 0
  BY DEF NoOp, Method, IoOps, Dirs

(* AttemptDoes: a try of the system call, the first or the second one.      *)
LEMMA AttemptDoes ==
    ASSUME IoTypes, OpsFit, NEW t \in IoTask, TryOp(t) \/ RetryOp(t)
    PROVE  /\ io[t] \in {"try", "retry"}
           /\ \/ /\ ~IsReady(t) /\ UNCHANGED <<ready, doing>>
                 /\ \/ io[t] = "try" /\ io' = [io EXCEPT ![t] = "lock"]
                    \/ io[t] = "retry" /\ io' = [io EXCEPT ![t] = "push"]
              \/ /\ io' = [io EXCEPT ![t] = "done"] /\ doing' = [doing EXCEPT ![t] = NoOp]
                 /\ ready' \in [Socket -> SUBSET Dirs]
                 /\ \A s \in Socket : ready'[s] \subseteq ready[s]
           /\ \/ locked' = locked
              \/ /\ io[t] = "retry" /\ IsReady(t)
                 /\ locked' = [locked EXCEPT ![Key(t)][doing[t].d] = Nobody]
           /\ UNCHANGED <<opened, token, leaving, wakers, edges, driver, table>>
  <1>1. io[t] \in {"try", "retry"}
    BY DEF TryOp, RetryOp
  <1>2. doing[t].s \in Socket
    BY <1>1, ActiveFits
  <1>3. ASSUME SystemCall(t)
        PROVE  /\ ready' \in [Socket -> SUBSET Dirs]
               /\ \A s \in Socket : ready'[s] \subseteq ready[s]
    <2>1. CASE ready' = ready
      BY <2>1 DEF IoTypes
    <2>2. CASE ready' = [ready EXCEPT ![doing[t].s] = ready[doing[t].s] \ {doing[t].d}]
      BY <1>2, <2>2 DEF IoTypes
    <2>3. QED
      BY <1>3, <2>1, <2>2 DEF SystemCall
  <1>4. CASE TryOp(t)
    <2>1. CASE IsReady(t)
      BY <1>1, <1>3, <1>4, <2>1 DEF TryOp, Done
    <2>2. CASE ~IsReady(t)
      BY <1>1, <1>4, <2>2 DEF TryOp
    <2>3. QED
      BY <2>1, <2>2
  <1>5. CASE RetryOp(t)
    <2>1. CASE IsReady(t)
      BY <1>1, <1>3, <1>5, <2>1 DEF RetryOp, Done
    <2>2. CASE ~IsReady(t)
      BY <1>1, <1>5, <2>2 DEF RetryOp
    <2>3. QED
      BY <2>1, <2>2
  <1>6. QED
    BY <1>4, <1>5

(* WakeDoes: the driver handles one direction of an event.                  *)
LEMMA WakeDoes ==
    ASSUME IoTypes, NEW e \in driver, NEW d \in Dirs, WakeList(e, d)
    PROVE  /\ e.k \in Slot /\ locked[e.k][d] = Nobody
           /\ wakers' \in [Slot -> [Dirs -> SUBSET IoTask]]
           /\ \A k \in Slot, c \in Dirs : k # e.k \/ c # d => wakers'[k][c] = wakers[k][c]
           /\ (\A s \in Socket : token[s] # e.k) => wakers'[e.k][d] = wakers[e.k][d]
           /\ \A t \in IoTask :
                 \/ io'[t] = io[t]
                 \/ io[t] = "parked" /\ io'[t] = "try"
           /\ \A t \in IoTask :
                 (\E s \in Socket : token[s] = e.k) /\ t \in wakers[e.k][d] => io'[t] # "parked"
           /\ io' \in [IoTask -> IoPlaces] /\ driver' \subseteq IoEvents
           /\ \A k, c : EventIsOut(k, c) /\ (k # e.k \/ c # d) /\ c \in Dirs => EventIsOut(k, c)'
           /\ table' \in BOOLEAN
           /\ UNCHANGED <<opened, token, leaving, locked, ready, edges, doing>>
  <1>1. e.k \in Slot /\ e.flags \in SUBSET IoFlags /\ e \in IoEvents
    BY DEF IoTypes, IoEvents
  <1> DEFINE woken == IF \E s \in Socket : token[s] = e.k THEN wakers[e.k][d] ELSE {}
  <1>2. /\ wakers' = [wakers EXCEPT ![e.k][d] = wakers[e.k][d] \ woken]
        /\ io' = [t \in IoTask |-> IF t \in woken /\ io[t] = "parked" THEN "try" ELSE io[t]]
    BY DEF WakeList
  <1>3. wakers[e.k][d] \subseteq IoTask
    BY <1>1 DEF IoTypes
  <1>4. /\ (\E s \in Socket : token[s] = e.k) => woken = wakers[e.k][d]
        /\ (\A s \in Socket : token[s] # e.k) => woken = {}
    OBVIOUS
  <1> HIDE DEF woken
  <1>5. /\ wakers' \in [Slot -> [Dirs -> SUBSET IoTask]]
        /\ wakers'[e.k][d] = wakers[e.k][d] \ woken
        /\ \A k \in Slot, c \in Dirs : k # e.k \/ c # d => wakers'[k][c] = wakers[k][c]
    <2>1. wakers \in [Slot -> [Dirs -> SUBSET IoTask]] /\ wakers[e.k][d] \ woken \in SUBSET IoTask
      BY <1>3 DEF IoTypes
    <2>2. QED
      BY <1>1, <1>2, <2>1, CellSet
  <1>6. \A t \in IoTask : \/ io'[t] = io[t]
                          \/ io[t] = "parked" /\ io'[t] = "try"
    BY <1>2
  <1>7. \A t \in IoTask : t \in woken => io'[t] # "parked"
    BY <1>2
  <1>8. io' \in [IoTask -> IoPlaces]
    BY <1>2 DEF IoTypes, IoPlaces
  <1>9. driver' = (driver \ {e}) \cup
                 (IF d = "read" /\ \E flag \in e.flags : Concerns(flag, "write")
                  THEN {[e EXCEPT !.flags = {"writable"}]} ELSE {})
    BY DEF WakeList
  <1>10. [e EXCEPT !.flags = {"writable"}] \in IoEvents
    BY <1>1 DEF IoEvents, IoFlags
  <1>11. driver' \subseteq IoEvents
    BY <1>9, <1>10 DEF IoTypes
  <1>12. ASSUME NEW k, NEW c \in Dirs, EventIsOut(k, c), k # e.k \/ c # d
         PROVE  EventIsOut(k, c)'
    <2>1. PICK f \in driver : f.k = k /\ \E flag \in f.flags : Concerns(flag, c)
      BY <1>12 DEF EventIsOut
    <2>2. CASE f # e
      BY <1>9, <2>1, <2>2 DEF EventIsOut
    <2>3. CASE f = e
      <3>1. c # d
        BY <1>12, <2>1, <2>3
      <3>2. d = "read" /\ c = "write"
        <4>1. d = "write" => \A flag \in e.flags : ~Concerns(flag, "read")
          BY DEF WakeList
        <4>2. QED
          BY <2>1, <2>3, <3>1, <4>1 DEF Dirs
      <3>3. [e EXCEPT !.flags = {"writable"}] \in driver'
        BY <1>9, <2>1, <2>3, <3>2
      <3>4. /\ [e EXCEPT !.flags = {"writable"}].k = k
            /\ "writable" \in [e EXCEPT !.flags = {"writable"}].flags
        BY <1>1, <2>1, <2>3 DEF IoEvents
      <3>5. Concerns("writable", c)
        BY <3>2 DEF Concerns, WriterInterests
      <3>6. QED
        BY <3>3, <3>4, <3>5 DEF EventIsOut
    <2>4. QED
      BY <2>2, <2>3
  <1>13. /\ locked[e.k][d] = Nobody /\ table' \in BOOLEAN
         /\ UNCHANGED <<opened, token, leaving, locked, ready, edges, doing>>
    BY DEF WakeList
  <1>14. QED
    BY <1>1, <1>4, <1>5, <1>6, <1>7, <1>8, <1>11, <1>12, <1>13
(* IoTypesStep: values keep their types.                                    *)
LEMMA IoTypesStep ==
    ASSUME IoTypes, OpsFit, TokensFit, IoNext
    PROVE  IoTypes'
  <1>1. ASSUME NEW s \in Socket, Register(s) PROVE IoTypes'
    <2>1. \E k \in Slot : token' = [token EXCEPT ![s] = k]
      BY <1>1 DEF Register
    <2>2. opened' = [opened EXCEPT ![s] = opened[s] + 1] /\ opened[s] \in Nat
      BY <1>1 DEF Register, IoTypes
    <2>3. opened' \in [Socket -> Nat] /\ token' \in [Socket -> Slot \cup {0}]
      BY <2>1, <2>2 DEF IoTypes
    <2>4. UNCHANGED <<leaving, wakers, locked, ready, edges, driver, table, doing, io>>
      BY <1>1 DEF Register
    <2>5. QED
      BY <2>3, <2>4 DEF IoTypes
  <1>2. ASSUME NEW s \in Socket, Deregister(s) PROVE IoTypes'
    BY <1>2 DEF Deregister, IoTypes
  <1>3. ASSUME NEW s \in Socket, FreeEntry(s) PROVE IoTypes'
    <2>1. [d \in Dirs |-> {}] \in [Dirs -> SUBSET IoTask]
      OBVIOUS
    <2>2. wakers' \in [Slot -> [Dirs -> SUBSET IoTask]]
      BY <1>3, <2>1 DEF FreeEntry, IoTypes
    <2>3. leaving' \subseteq Socket /\ token' \in [Socket -> Slot \cup {0}]
      BY <1>3 DEF FreeEntry, IoTypes
    <2>4. UNCHANGED <<opened, locked, ready, edges, driver, table, doing, io>>
      BY <1>3 DEF FreeEntry
    <2>5. QED
      BY <2>2, <2>3, <2>4 DEF IoTypes
  <1>4. ASSUME NEW s \in Socket, NEW flag \in IoFlags, BecomesReady(s, flag) PROVE IoTypes'
    BY <1>4 DEF BecomesReady, IoTypes
  <1>5. ASSUME NEW t \in IoTask, NEW s \in Socket, NEW m \in Methods, StartOp(t, s, m) PROVE IoTypes'
    <2>1. doing' = [doing EXCEPT ![t] = [m EXCEPT !.s = s]] /\ io' = [io EXCEPT ![t] = "try"]
      BY <1>5 DEF StartOp
    <2>2. doing' \in [IoTask -> IoOps] /\ io' \in [IoTask -> IoPlaces]
      BY <2>1, MethodFits DEF IoTypes, IoPlaces
    <2>3. UNCHANGED <<opened, token, leaving, wakers, locked, ready, edges, driver, table>>
      BY <1>5 DEF StartOp
    <2>4. QED
      BY <2>2, <2>3 DEF IoTypes
  <1>6. ASSUME NEW t \in IoTask, TryOp(t) \/ RetryOp(t) PROVE IoTypes'
    <2>1. io[t] \in {"try", "retry"}
      BY <1>6, AttemptDoes
    <2>2. Key(t) \in Slot /\ doing[t].d \in Dirs
      BY <2>1, ActiveFits
    <2>3. locked' \in [Slot -> [Dirs -> IoTask \cup {Nobody}]]
      <3>1. locked \in [Slot -> [Dirs -> IoTask \cup {Nobody}]] /\ Nobody \in IoTask \cup {Nobody}
        BY DEF IoTypes
      <3>2. locked' = locked \/ locked' = [locked EXCEPT ![Key(t)][doing[t].d] = Nobody]
        BY <1>6, AttemptDoes
      <3>3. [locked EXCEPT ![Key(t)][doing[t].d] = Nobody] \in [Slot -> [Dirs -> IoTask \cup {Nobody}]]
        BY <2>2, <3>1, CellSet
      <3>4. QED
        BY <3>1, <3>2, <3>3
    <2>4. /\ ready' \in [Socket -> SUBSET Dirs]
          /\ \E to \in IoPlaces : io' = [io EXCEPT ![t] = to]
          /\ doing' = doing \/ doing' = [doing EXCEPT ![t] = NoOp]
      BY <1>6, AttemptDoes DEF IoTypes, IoPlaces
    <2>5. doing' \in [IoTask -> IoOps] /\ io' \in [IoTask -> IoPlaces]
      BY <2>4, NoOpFits DEF IoTypes
    <2>6. UNCHANGED <<opened, token, leaving, wakers, edges, driver, table>>
      BY <1>6, AttemptDoes
    <2>7. QED
      BY <2>3, <2>4, <2>5, <2>6 DEF IoTypes
  <1>7. ASSUME NEW t \in IoTask, LockList(t) \/ PushWaker(t) PROVE IoTypes'
    <2>1. io[t] \in {"lock", "push"}
      BY <1>7 DEF LockList, PushWaker
    <2>2. Key(t) \in Slot /\ doing[t].d \in Dirs
      BY <2>1, ActiveFits
    <2>3. \E v \in IoTask \cup {Nobody} : locked' = [locked EXCEPT ![Key(t)][doing[t].d] = v]
      BY <1>7 DEF LockList, PushWaker
    <2>4. locked' \in [Slot -> [Dirs -> IoTask \cup {Nobody}]]
      <3>1. locked \in [Slot -> [Dirs -> IoTask \cup {Nobody}]]
        BY DEF IoTypes
      <3>2. QED
        BY <2>2, <2>3, <3>1, CellSet
    <2>5. wakers' \in [Slot -> [Dirs -> SUBSET IoTask]]
      <3>1. wakers \in [Slot -> [Dirs -> SUBSET IoTask]]
        BY DEF IoTypes
      <3>2. \/ wakers' = wakers
            \/ wakers' = [wakers EXCEPT ![Key(t)][doing[t].d] = wakers[Key(t)][doing[t].d] \cup {t}]
        BY <1>7 DEF LockList, PushWaker
      <3>3. wakers[Key(t)][doing[t].d] \cup {t} \in SUBSET IoTask
        BY <2>2, <3>1
      <3>4. QED
        BY <2>2, <3>1, <3>2, <3>3, CellSet
    <2>6. io' \in [IoTask -> IoPlaces]
      BY <1>7 DEF LockList, PushWaker, IoTypes, IoPlaces
    <2>7. UNCHANGED <<opened, token, leaving, ready, edges, driver, table, doing>>
      BY <1>7 DEF LockList, PushWaker
    <2>8. QED
      BY <2>4, <2>5, <2>6, <2>7 DEF IoTypes
  <1>8. ASSUME NEW t \in IoTask, Rewoken(t) PROVE IoTypes'
    BY <1>8 DEF Rewoken, IoTypes, IoPlaces
  <1>9. ASSUME Collect PROVE IoTypes'
    <2>1. ASSUME NEW s \in Socket, edges[s] # {} PROVE [k |-> token[s], flags |-> edges[s]] \in IoEvents
      BY <2>1 DEF TokensFit, IoTypes, IoEvents
    <2>2. driver' \subseteq IoEvents
      BY <1>9, <2>1 DEF Collect
    <2>3. edges' \in [Socket -> SUBSET IoFlags]
      BY <1>9 DEF Collect
    <2>4. UNCHANGED <<opened, token, leaving, wakers, locked, ready, table, doing, io>>
      BY <1>9 DEF Collect
    <2>5. QED
      BY <2>2, <2>3, <2>4 DEF IoTypes
  <1>10. ASSUME NEW e \in driver, NEW d \in Dirs, WakeList(e, d) PROVE IoTypes'
    <2>1. /\ wakers' \in [Slot -> [Dirs -> SUBSET IoTask]] /\ io' \in [IoTask -> IoPlaces]
          /\ driver' \subseteq IoEvents /\ table' \in BOOLEAN
          /\ UNCHANGED <<opened, token, leaving, locked, ready, edges, doing>>
      BY <1>10, WakeDoes
    <2>2. QED
      BY <2>1 DEF IoTypes
  <1>11. QED
    BY <1>1, <1>2, <1>3, <1>4, <1>5, <1>6, <1>7, <1>8, <1>9, <1>10
       DEF IoNext, TaskStep, DriverStep, IoFlags

(* TokensStep: entries stay apart, and a closed socket makes no events.     *)
LEMMA TokensStep ==
    ASSUME IoTypes, OpsFit, TokensFit, IoNext
    PROVE  TokensFit'
  <1>1. ASSUME NEW s \in Socket, Register(s) PROVE TokensFit'
    <2>1. /\ token[s] = 0 /\ UNCHANGED <<leaving, edges>>
          /\ \E k \in Slot : (\A o \in Socket : token[o] # k) /\ token' = [token EXCEPT ![s] = k]
      BY <1>1 DEF Register
    <2>2. QED
      BY <2>1, IoNumbers DEF TokensFit, IoTypes
  <1>2. ASSUME NEW s \in Socket, Deregister(s) PROVE TokensFit'
    BY <1>2 DEF Deregister, TokensFit, IoTypes
  <1>3. ASSUME NEW s \in Socket, FreeEntry(s) PROVE TokensFit'
    BY <1>3 DEF FreeEntry, TokensFit, IoTypes
  <1>4. ASSUME NEW s \in Socket, NEW flag \in IoFlags, BecomesReady(s, flag) PROVE TokensFit'
    <2>1. PICK t \in IoTask : doing[t].s = s /\ io[t] # "done"
      BY <1>4 DEF BecomesReady
    <2>2. io[t] \notin {"new", "done"}
      BY <2>1, IoNumbers DEF OpsFit, OpFits
    <2>3. token[s] # 0 /\ s \notin leaving
      BY <2>1, <2>2, ActiveFits
    <2>4. UNCHANGED <<token, leaving>> /\ \A r \in Socket \ {s} : edges'[r] = edges[r]
      BY <1>4 DEF BecomesReady, IoTypes
    <2>5. QED
      BY <2>3, <2>4 DEF TokensFit
  <1>5. ASSUME NEW t \in IoTask, NEW s \in Socket, NEW m \in Methods, StartOp(t, s, m) PROVE TokensFit'
    BY <1>5 DEF StartOp, TokensFit
  <1>6. ASSUME NEW t \in IoTask, TryOp(t) \/ RetryOp(t) PROVE TokensFit'
    <2>1. UNCHANGED <<token, leaving, edges>>
      BY <1>6, AttemptDoes
    <2>2. QED
      BY <2>1 DEF TokensFit
  <1>7. ASSUME NEW t \in IoTask, LockList(t) \/ PushWaker(t) \/ Rewoken(t) PROVE TokensFit'
    <2>1. UNCHANGED <<token, leaving, edges>>
      BY <1>7 DEF LockList, PushWaker, Rewoken
    <2>2. QED
      BY <2>1 DEF TokensFit
  <1>8. ASSUME Collect PROVE TokensFit'
    BY <1>8 DEF Collect, TokensFit
  <1>9. ASSUME NEW e \in driver, NEW d \in Dirs, WakeList(e, d) PROVE TokensFit'
    <2>1. UNCHANGED <<token, leaving, edges>>
      BY <1>9, WakeDoes
    <2>2. QED
      BY <2>1 DEF TokensFit
  <1>10. QED
    BY <1>1, <1>2, <1>3, <1>4, <1>5, <1>6, <1>7, <1>8, <1>9
       DEF IoNext, TaskStep, DriverStep, IoFlags

(* OpsStep: a socket is not closed under an operation.                      *)
LEMMA OpsStep ==
    ASSUME IoTypes, OpsFit, IoNext
    PROVE  OpsFit'
  <1>1. ASSUME NEW s \in Socket, Register(s) PROVE OpsFit'
    <2>1. /\ token[s] = 0 /\ UNCHANGED <<leaving, doing, io>>
          /\ \A r \in Socket \ {s} : token'[r] = token[r]
      BY <1>1 DEF Register, IoTypes
    <2>2. QED
      BY <2>1 DEF OpsFit, OpFits
  <1>2. ASSUME NEW s \in Socket, Deregister(s) PROVE OpsFit'
    <2>1. /\ \A t \in IoTask : io[t] \in {"new", "done"} \/ doing[t].s # s
          /\ leaving' = leaving \cup {s} /\ UNCHANGED <<token, doing, io>>
      BY <1>2 DEF Deregister
    <2>2. QED
      BY <2>1 DEF OpsFit, OpFits
  <1>3. ASSUME NEW s \in Socket, FreeEntry(s) PROVE OpsFit'
    <2>1. /\ s \in leaving /\ leaving' = leaving \ {s} /\ UNCHANGED <<doing, io>>
          /\ \A r \in Socket \ {s} : token'[r] = token[r]
      BY <1>3 DEF FreeEntry, IoTypes
    <2>2. QED
      BY <2>1 DEF OpsFit, OpFits
  <1>4. ASSUME NEW s \in Socket, NEW flag \in IoFlags, BecomesReady(s, flag) PROVE OpsFit'
    <2>1. UNCHANGED <<token, leaving, doing, io>>
      BY <1>4 DEF BecomesReady
    <2>2. QED
      BY <2>1 DEF OpsFit, OpFits
  <1>5. ASSUME NEW t \in IoTask, NEW s \in Socket, NEW m \in Methods, StartOp(t, s, m) PROVE OpsFit'
    <2>1. /\ doing' = [doing EXCEPT ![t] = [m EXCEPT !.s = s]] /\ io' = [io EXCEPT ![t] = "try"]
          /\ token[s] # 0 /\ s \notin leaving /\ UNCHANGED <<token, leaving>>
      BY <1>5 DEF StartOp
    <2>2. doing'[t].s = s /\ io'[t] = "try"
      BY <2>1, MethodFits DEF IoTypes
    <2>3. \A u \in IoTask \ {t} : doing'[u] = doing[u] /\ io'[u] = io[u]
      BY <2>1 DEF IoTypes
    <2>4. QED
      BY <2>1, <2>2, <2>3 DEF OpsFit, OpFits
  <1>6. ASSUME NEW t \in IoTask, TryOp(t) \/ RetryOp(t) PROVE OpsFit'
    <2>1. /\ io[t] \in {"try", "retry"} /\ UNCHANGED <<token, leaving>>
          /\ \/ /\ ~IsReady(t) /\ doing' = doing
                /\ io' = [io EXCEPT ![t] = "lock"] \/ io' = [io EXCEPT ![t] = "push"]
             \/ io' = [io EXCEPT ![t] = "done"] /\ doing' = [doing EXCEPT ![t] = NoOp]
      BY <1>6, AttemptDoes
    <2>2. \A u \in IoTask \ {t} : doing'[u] = doing[u] /\ io'[u] = io[u]
      BY <2>1 DEF IoTypes
    <2>3. \A u \in IoTask \ {t} : OpFits(u)'
      BY <2>1, <2>2 DEF OpsFit, OpFits
    <2>4. CASE ~IsReady(t) /\ doing' = doing
      <3>1. io'[t] \in {"lock", "push", "done"} /\ doing[t].effect # "none"
        BY <2>1, <2>4 DEF IsReady, IoTypes
      <3>2. io'[t] # "done" \/ doing'[t] = NoOp
        BY <2>1 DEF IoTypes
      <3>3. OpFits(t)'
        BY <2>1, <2>4, <3>1, <3>2, NoOpFits DEF OpsFit, OpFits
      <3>4. QED
        BY <2>3, <3>3 DEF OpsFit
    <2>5. CASE io' = [io EXCEPT ![t] = "done"] /\ doing' = [doing EXCEPT ![t] = NoOp]
      <3>1. io'[t] = "done" /\ doing'[t] = NoOp
        BY <2>5 DEF IoTypes
      <3>2. OpFits(t)'
        BY <3>1, NoOpFits DEF OpFits
      <3>3. QED
        BY <2>3, <3>2 DEF OpsFit
    <2>6. QED
      BY <2>1, <2>4, <2>5
  <1>7. ASSUME NEW t \in IoTask, LockList(t) \/ PushWaker(t) \/ Rewoken(t) PROVE OpsFit'
    <2>1. /\ io[t] \in {"lock", "push", "parked"} /\ UNCHANGED <<token, leaving, doing>>
          /\ \E to \in {"retry", "parked", "try"} : io' = [io EXCEPT ![t] = to]
      BY <1>7 DEF LockList, PushWaker, Rewoken
    <2>2. io'[t] \in {"retry", "parked", "try"} /\ \A u \in IoTask \ {t} : io'[u] = io[u]
      BY <2>1 DEF IoTypes
    <2>3. QED
      BY <2>1, <2>2 DEF OpsFit, OpFits
  <1>8. ASSUME Collect PROVE OpsFit'
    <2>1. UNCHANGED <<token, leaving, doing, io>>
      BY <1>8 DEF Collect
    <2>2. QED
      BY <2>1 DEF OpsFit, OpFits
  <1>9. ASSUME NEW e \in driver, NEW d \in Dirs, WakeList(e, d) PROVE OpsFit'
    <2>1. /\ UNCHANGED <<token, leaving, doing>>
          /\ \A t \in IoTask : io'[t] = io[t] \/ (io[t] = "parked" /\ io'[t] = "try")
      BY <1>9, WakeDoes
    <2>2. QED
      BY <2>1 DEF OpsFit, OpFits
  <1>10. QED
    BY <1>1, <1>2, <1>3, <1>4, <1>5, <1>6, <1>7, <1>8, <1>9
       DEF IoNext, TaskStep, DriverStep, IoFlags
(* KeyStays: an operation under way keeps its list.                         *)
LEMMA KeyStays ==
    ASSUME IoTypes, OpsFit, IoNext, NEW u \in IoTask,
           io[u] \notin {"new", "done"}, io'[u] \notin {"new", "done"}
    PROVE  doing'[u] = doing[u] /\ Key(u)' = Key(u)
  <1>1. doing[u].s \in Socket /\ doing[u].s \notin leaving /\ token[doing[u].s] # 0
    BY ActiveFits
  <1>2. SUFFICES doing'[u] = doing[u] /\ token'[doing[u].s] = token[doing[u].s]
    BY DEF Key
  <1>3. ASSUME NEW s \in Socket, Register(s) \/ Deregister(s) \/ FreeEntry(s)
        PROVE  doing'[u] = doing[u] /\ token'[doing[u].s] = token[doing[u].s]
    <2>1. /\ doing' = doing
          /\ \/ token' = token
             \/ token[s] = 0 /\ \E k \in Slot : token' = [token EXCEPT ![s] = k]
             \/ s \in leaving /\ token' = [token EXCEPT ![s] = 0]
      BY <1>3 DEF Register, Deregister, FreeEntry
    <2>2. QED
      BY <1>1, <2>1 DEF IoTypes
  <1>4. ASSUME NEW s \in Socket, NEW flag \in IoFlags, BecomesReady(s, flag)
        PROVE  doing'[u] = doing[u] /\ token'[doing[u].s] = token[doing[u].s]
    BY <1>4 DEF BecomesReady
  <1>5. ASSUME NEW t \in IoTask, NEW s \in Socket, NEW m \in Methods, StartOp(t, s, m)
        PROVE  doing'[u] = doing[u] /\ token'[doing[u].s] = token[doing[u].s]
    BY <1>5 DEF StartOp, IoTypes
  <1>6. ASSUME NEW t \in IoTask, TryOp(t) \/ RetryOp(t)
        PROVE  doing'[u] = doing[u] /\ token'[doing[u].s] = token[doing[u].s]
    <2>1. /\ token' = token
          /\ \/ doing' = doing
             \/ io' = [io EXCEPT ![t] = "done"] /\ doing' = [doing EXCEPT ![t] = NoOp]
      BY <1>6, AttemptDoes
    <2>2. QED
      BY <2>1 DEF IoTypes
  <1>7. ASSUME NEW t \in IoTask, LockList(t) \/ PushWaker(t) \/ Rewoken(t)
        PROVE  doing'[u] = doing[u] /\ token'[doing[u].s] = token[doing[u].s]
    BY <1>7 DEF LockList, PushWaker, Rewoken
  <1>8. ASSUME Collect
        PROVE  doing'[u] = doing[u] /\ token'[doing[u].s] = token[doing[u].s]
    BY <1>8 DEF Collect
  <1>9. ASSUME NEW e \in driver, NEW d \in Dirs, WakeList(e, d)
        PROVE  doing'[u] = doing[u] /\ token'[doing[u].s] = token[doing[u].s]
    BY <1>9, WakeDoes
  <1>10. QED
    BY <1>3, <1>4, <1>5, <1>6, <1>7, <1>8, <1>9 DEF IoNext, TaskStep, DriverStep, IoFlags

(* LocksStep: a task between the lock of its list and its release has it.   *)
LEMMA LocksStep ==
    ASSUME IoTypes, OpsFit, LocksFit, IoNext
    PROVE  LocksFit'
  <1>1. ASSUME UNCHANGED locked, \A t \in IoTask : io'[t] \in {"retry", "push"} => io[t] \in {"retry", "push"}
        PROVE  LocksFit'
    <2>1. SUFFICES ASSUME NEW t \in IoTask, io'[t] \in {"retry", "push"} PROVE Locker(t)' = t
      BY DEF LocksFit
    <2>2. Locker(t) = t /\ Key(t)' = Key(t) /\ doing'[t] = doing[t]
      BY <1>1, <2>1, KeyStays DEF LocksFit
    <2>3. QED
      BY <1>1, <2>2 DEF Locker
  <1>2. ASSUME NEW s \in Socket, Register(s) \/ Deregister(s) \/ FreeEntry(s) PROVE LocksFit'
    BY <1>1, <1>2 DEF Register, Deregister, FreeEntry
  <1>3. ASSUME NEW s \in Socket, NEW flag \in IoFlags, BecomesReady(s, flag) PROVE LocksFit'
    BY <1>1, <1>3 DEF BecomesReady
  <1>4. ASSUME NEW t \in IoTask, NEW s \in Socket, NEW m \in Methods, StartOp(t, s, m) PROVE LocksFit'
    <2>1. locked' = locked /\ io' = [io EXCEPT ![t] = "try"]
      BY <1>4 DEF StartOp
    <2>2. QED
      BY <1>1, <2>1 DEF IoTypes
  <1>5. ASSUME NEW t \in IoTask, io[t] \in {"retry", "push"},
               locked' = [locked EXCEPT ![Key(t)][doing[t].d] = Nobody],
               \E to \in {"done", "parked"} : io' = [io EXCEPT ![t] = to]
        PROVE  LocksFit'
    <2>1. SUFFICES ASSUME NEW u \in IoTask, io'[u] \in {"retry", "push"} PROVE Locker(u)' = u
      BY DEF LocksFit
    <2>2. u # t /\ io[u] = io'[u]
      BY <1>5, <2>1 DEF IoTypes
    <2>3. Locker(u) = u /\ Key(u)' = Key(u) /\ doing'[u] = doing[u] /\ Locker(t) = t
      BY <1>5, <2>1, <2>2, KeyStays DEF LocksFit
    <2>4. /\ Key(t) \in Slot /\ doing[t].d \in Dirs /\ Key(u) \in Slot /\ doing[u].d \in Dirs
      BY <1>5, <2>1, <2>2, ActiveFits
    <2>5. Key(u) # Key(t) \/ doing[u].d # doing[t].d
      BY <2>2, <2>3 DEF Locker
    <2>6. locked'[Key(u)][doing[u].d] = locked[Key(u)][doing[u].d]
      <3>1. locked \in [Slot -> [Dirs -> IoTask \cup {Nobody}]]
        BY DEF IoTypes
      <3>2. QED
        BY <1>5, <2>4, <2>5, <3>1, CellSet
    <2>7. QED
      BY <2>3, <2>6 DEF Locker
  <1>6. ASSUME NEW t \in IoTask, TryOp(t) \/ RetryOp(t) PROVE LocksFit'
    <2>1. /\ io[t] \in {"try", "retry"}
          /\ \/ /\ ~IsReady(t)
                /\ \/ io[t] = "try" /\ io' = [io EXCEPT ![t] = "lock"]
                   \/ io[t] = "retry" /\ io' = [io EXCEPT ![t] = "push"]
             \/ io' = [io EXCEPT ![t] = "done"]
          /\ \/ locked' = locked
             \/ /\ io[t] = "retry" /\ IsReady(t)
                /\ locked' = [locked EXCEPT ![Key(t)][doing[t].d] = Nobody]
      BY <1>6, AttemptDoes
    <2>2. CASE locked' = locked
      <3>1. \A u \in IoTask : io'[u] \in {"retry", "push"} => io[u] \in {"retry", "push"}
        BY <2>1 DEF IoTypes
      <3>2. QED
        BY <1>1, <2>2, <3>1
    <2>3. CASE locked' # locked
      BY <1>5, <2>1, <2>3
    <2>4. QED
      BY <2>2, <2>3
  <1>7. ASSUME NEW t \in IoTask, LockList(t) PROVE LocksFit'
    <2>1. /\ io[t] = "lock" /\ locked[Key(t)][doing[t].d] = Nobody
          /\ locked' = [locked EXCEPT ![Key(t)][doing[t].d] = t] /\ io' = [io EXCEPT ![t] = "retry"]
          /\ UNCHANGED <<token, doing>>
      BY <1>7 DEF LockList
    <2>2. Key(t) \in Slot /\ doing[t].d \in Dirs
      BY <2>1, ActiveFits
    <2>3. locked \in [Slot -> [Dirs -> IoTask \cup {Nobody}]] /\ t \in IoTask \cup {Nobody}
      BY DEF IoTypes
    <2>4. ASSUME NEW u \in IoTask, io'[u] \in {"retry", "push"} PROVE Locker(u)' = u
      <3>1. Key(u)' = Key(u) /\ doing'[u] = doing[u]
        BY <2>1 DEF Key
      <3>2. CASE u = t
        <4>1. locked'[Key(t)][doing[t].d] = t
          BY <2>1, <2>2, <2>3, CellSet
        <4>2. QED
          BY <3>1, <3>2, <4>1 DEF Locker
      <3>3. CASE u # t
        <4>1. io[u] \in {"retry", "push"}
          BY <2>1, <2>4, <3>3 DEF IoTypes
        <4>2. Key(u) \in Slot /\ doing[u].d \in Dirs /\ Locker(u) = u /\ u # Nobody
          BY <4>1, ActiveFits, IoNumbers DEF LocksFit
        <4>3. Key(u) # Key(t) \/ doing[u].d # doing[t].d
          BY <2>1, <4>2 DEF Locker
        <4>4. locked'[Key(u)][doing[u].d] = locked[Key(u)][doing[u].d]
          BY <2>1, <2>2, <2>3, <4>2, <4>3, CellSet
        <4>5. QED
          BY <3>1, <4>2, <4>4 DEF Locker
      <3>4. QED
        BY <3>2, <3>3
    <2>5. QED
      BY <2>4 DEF LocksFit
  <1>8. ASSUME NEW t \in IoTask, PushWaker(t) PROVE LocksFit'
    <2>1. /\ io[t] = "push" /\ io' = [io EXCEPT ![t] = "parked"]
          /\ locked' = [locked EXCEPT ![Key(t)][doing[t].d] = Nobody]
      BY <1>8 DEF PushWaker
    <2>2. QED
      BY <1>5, <2>1
  <1>9. ASSUME NEW t \in IoTask, Rewoken(t) PROVE LocksFit'
    <2>1. locked' = locked /\ io' = [io EXCEPT ![t] = "try"]
      BY <1>9 DEF Rewoken
    <2>2. QED
      BY <1>1, <2>1 DEF IoTypes
  <1>10. ASSUME Collect PROVE LocksFit'
    BY <1>1, <1>10 DEF Collect
  <1>11. ASSUME NEW e \in driver, NEW d \in Dirs, WakeList(e, d) PROVE LocksFit'
    <2>1. /\ locked' = locked
          /\ \A t \in IoTask : io'[t] = io[t] \/ (io[t] = "parked" /\ io'[t] = "try")
      BY <1>11, WakeDoes
    <2>2. QED
      BY <1>1, <2>1
  <1>12. QED
    BY <1>2, <1>3, <1>4, <1>6, <1>7, <1>8, <1>9, <1>10, <1>11
       DEF IoNext, TaskStep, DriverStep, IoFlags

(* ParkedStep: the waker of a parked task is in its list.                   *)
LEMMA ParkedStep ==
    ASSUME IoTypes, TokensFit, OpsFit, ParkedFit, IoNext
    PROVE  ParkedFit'
  <1>1. ASSUME NEW t \in IoTask, io[t] = "parked", io'[t] = "parked",
               wakers'[Key(t)][doing[t].d] = wakers[Key(t)][doing[t].d] \/ t \in wakers'[Key(t)][doing[t].d]
        PROVE  Listed(t)'
    <2>1. Listed(t) /\ Key(t)' = Key(t) /\ doing'[t] = doing[t]
      BY <1>1, KeyStays DEF ParkedFit
    <2>2. QED
      BY <1>1, <2>1 DEF Listed
  <1>2. ASSUME UNCHANGED wakers, \A t \in IoTask : io'[t] = "parked" => io[t] = "parked"
        PROVE  ParkedFit'
    BY <1>1, <1>2 DEF ParkedFit
  <1>3. ASSUME NEW s \in Socket, Register(s) \/ Deregister(s) PROVE ParkedFit'
    BY <1>2, <1>3 DEF Register, Deregister
  <1>4. ASSUME NEW s \in Socket, FreeEntry(s) PROVE ParkedFit'
    <2>1. /\ s \in leaving /\ io' = io
          /\ wakers' = [wakers EXCEPT ![token[s]] = [d \in Dirs |-> {}]]
      BY <1>4 DEF FreeEntry
    <2>2. ASSUME NEW t \in IoTask, io'[t] = "parked" PROVE Listed(t)'
      <3>1. io[t] = "parked"
        BY <2>1, <2>2
      <3>2. doing[t].s \in Socket /\ doing[t].s \notin leaving /\ token[doing[t].s] # 0 /\ Key(t) \in Slot
        BY <3>1, ActiveFits
      <3>3. Key(t) # token[s]
        BY <2>1, <3>2 DEF TokensFit, Key
      <3>4. wakers'[Key(t)] = wakers[Key(t)]
        BY <2>1, <3>2, <3>3 DEF IoTypes
      <3>5. QED
        BY <1>1, <2>2, <3>1, <3>4
    <2>3. QED
      BY <2>2 DEF ParkedFit
  <1>5. ASSUME NEW s \in Socket, NEW flag \in IoFlags, BecomesReady(s, flag) PROVE ParkedFit'
    BY <1>2, <1>5 DEF BecomesReady
  <1>6. ASSUME NEW t \in IoTask, NEW s \in Socket, NEW m \in Methods, StartOp(t, s, m) PROVE ParkedFit'
    <2>1. wakers' = wakers /\ io' = [io EXCEPT ![t] = "try"]
      BY <1>6 DEF StartOp
    <2>2. QED
      BY <1>2, <2>1 DEF IoTypes
  <1>7. ASSUME NEW t \in IoTask, TryOp(t) \/ RetryOp(t) PROVE ParkedFit'
    <2>1. wakers' = wakers /\ \E to \in {"lock", "push", "done"} : io' = [io EXCEPT ![t] = to]
      BY <1>7, AttemptDoes
    <2>2. QED
      BY <1>2, <2>1 DEF IoTypes
  <1>8. ASSUME NEW t \in IoTask, LockList(t) \/ Rewoken(t) PROVE ParkedFit'
    <2>1. wakers' = wakers /\ \E to \in {"retry", "try"} : io' = [io EXCEPT ![t] = to]
      BY <1>8 DEF LockList, Rewoken
    <2>2. QED
      BY <1>2, <2>1 DEF IoTypes
  <1>9. ASSUME NEW t \in IoTask, PushWaker(t) PROVE ParkedFit'
    <2>1. /\ io[t] = "push" /\ io' = [io EXCEPT ![t] = "parked"] /\ UNCHANGED <<token, doing>>
          /\ wakers' = [wakers EXCEPT ![Key(t)][doing[t].d] = wakers[Key(t)][doing[t].d] \cup {t}]
      BY <1>9 DEF PushWaker
    <2>2. Key(t) \in Slot /\ doing[t].d \in Dirs
      BY <2>1, ActiveFits
    <2>3. wakers \in [Slot -> [Dirs -> SUBSET IoTask]]
      BY DEF IoTypes
    <2>4. wakers[Key(t)][doing[t].d] \cup {t} \in SUBSET IoTask
      BY <2>2, <2>3
    <2>5. /\ wakers'[Key(t)][doing[t].d] = wakers[Key(t)][doing[t].d] \cup {t}
          /\ \A j \in Slot, c \in Dirs : j # Key(t) \/ c # doing[t].d => wakers'[j][c] = wakers[j][c]
      BY <2>1, <2>2, <2>3, <2>4, CellSet
    <2>6. \A j \in Slot, c \in Dirs : wakers[j][c] \subseteq wakers'[j][c]
      BY <2>5
    <2>7. ASSUME NEW u \in IoTask, io'[u] = "parked" PROVE Listed(u)'
      <3>1. CASE u = t
        BY <2>1, <2>5, <3>1 DEF Listed, Key
      <3>2. CASE u # t
        <4>1. io[u] = "parked"
          BY <2>1, <2>7, <3>2 DEF IoTypes
        <4>2. Listed(u) /\ Key(u) \in Slot /\ doing[u].d \in Dirs
          BY <4>1, ActiveFits DEF ParkedFit
        <4>3. u \in wakers'[Key(u)][doing[u].d]
          BY <2>6, <4>2 DEF Listed
        <4>4. QED
          BY <1>1, <2>7, <4>1, <4>3
      <3>3. QED
        BY <3>1, <3>2
    <2>8. QED
      BY <2>7 DEF ParkedFit
  <1>10. ASSUME Collect PROVE ParkedFit'
    BY <1>2, <1>10 DEF Collect
  <1>11. ASSUME NEW e \in driver, NEW d \in Dirs, WakeList(e, d) PROVE ParkedFit'
    <2>1. ASSUME NEW t \in IoTask, io'[t] = "parked" PROVE Listed(t)'
      <3>1. io[t] = "parked"
        BY <1>11, <2>1, WakeDoes
      <3>2. Key(t) \in Slot /\ doing[t].d \in Dirs /\ doing[t].s \in Socket
        BY <3>1, ActiveFits
      <3>3. t \in wakers[Key(t)][doing[t].d]
        BY <3>1 DEF ParkedFit, Listed
      <3>4. CASE Key(t) # e.k \/ doing[t].d # d
        <4>1. wakers'[Key(t)][doing[t].d] = wakers[Key(t)][doing[t].d]
          BY <1>11, <3>2, <3>4, WakeDoes
        <4>2. QED
          BY <1>1, <2>1, <3>1, <4>1
      <3>5. CASE Key(t) = e.k /\ doing[t].d = d
        <4>1. \E s \in Socket : token[s] = e.k
          BY <3>2, <3>5 DEF Key
        <4>2. t \in wakers[e.k][d]
          BY <3>3, <3>5
        <4>3. QED
          BY <1>11, <2>1, <4>1, <4>2, WakeDoes
      <3>6. QED
        BY <3>4, <3>5
    <2>2. QED
      BY <2>1 DEF ParkedFit
  <1>12. QED
    BY <1>3, <1>4, <1>5, <1>6, <1>7, <1>8, <1>9, <1>10, <1>11
       DEF IoNext, TaskStep, DriverStep, IoFlags
Out(t) == EdgeIsOut(doing[t].s, doing[t].d) \/ EventIsOut(Key(t), doing[t].d)

(* ReadyStep: no event is lost between the second try and the wake-up.      *)
LEMMA ReadyStep ==
    ASSUME IoTypes, OpsFit, LocksFit, ParkedFit, ReadyFit, IoNext
    PROVE  ReadyFit'
  <1>1. ASSUME NEW t \in IoTask, io[t] \in {"push", "parked"}, doing[t].d \in ready[doing[t].s]
        PROVE  Out(t)
    BY <1>1 DEF ReadyFit, Out
  <1>2. ASSUME NEW t \in IoTask, io'[t] \in {"push", "parked"}, io[t] \in {"push", "parked"},
               ready'[doing[t].s] \subseteq ready[doing[t].s],
               edges'[doing[t].s] = edges[doing[t].s], driver' = driver,
               doing'[t].d \in ready'[doing'[t].s]
        PROVE  Out(t)'
    <2>1. doing'[t] = doing[t] /\ Key(t)' = Key(t)
      BY <1>2, KeyStays
    <2>2. Out(t)
      BY <1>1, <1>2, <2>1
    <2>3. QED
      BY <1>2, <2>1, <2>2 DEF Out, EdgeIsOut, EventIsOut
  <1>3. SUFFICES ASSUME NEW t \in IoTask, io'[t] \in {"push", "parked"}, doing'[t].d \in ready'[doing'[t].s]
                 PROVE  Out(t)'
    BY DEF ReadyFit, Out
  <1>4. ASSUME UNCHANGED <<ready, edges, driver>>, io[t] \in {"push", "parked"} PROVE Out(t)'
    BY <1>2, <1>3, <1>4
  <1>5. ASSUME NEW s \in Socket, Register(s) \/ FreeEntry(s) PROVE Out(t)'
    BY <1>3, <1>4, <1>5 DEF Register, FreeEntry
  <1>6. ASSUME NEW s \in Socket, Deregister(s) PROVE Out(t)'
    <2>1. /\ \A u \in IoTask : io[u] \in {"new", "done"} \/ doing[u].s # s
          /\ edges' = [edges EXCEPT ![s] = {}] /\ ready' = [ready EXCEPT ![s] = {}]
          /\ UNCHANGED <<driver, io>>
      BY <1>6 DEF Deregister
    <2>2. io[t] \in {"push", "parked"} /\ doing[t].s # s
      BY <1>3, <2>1
    <2>3. doing[t].s \in Socket
      BY <2>2, ActiveFits
    <2>4. ready'[doing[t].s] = ready[doing[t].s] /\ edges'[doing[t].s] = edges[doing[t].s]
      BY <2>1, <2>2, <2>3 DEF IoTypes
    <2>5. QED
      BY <1>2, <1>3, <2>1, <2>2, <2>4
  <1>7. ASSUME NEW s \in Socket, NEW flag \in IoFlags, BecomesReady(s, flag) PROVE Out(t)'
    <2>1. /\ ready' = [ready EXCEPT ![s] = ready[s] \cup {d \in Dirs : Concerns(flag, d)}]
          /\ edges' = [edges EXCEPT ![s] = edges[s] \cup {flag}]
          /\ UNCHANGED <<driver, io, doing, token>>
      BY <1>7 DEF BecomesReady
    <2>2. io[t] \in {"push", "parked"}
      BY <1>3, <2>1
    <2>3. doing[t].s \in Socket /\ doing[t].d \in Dirs
      BY <2>2, ActiveFits
    <2>4. CASE doing[t].s # s
      <3>1. ready'[doing[t].s] = ready[doing[t].s] /\ edges'[doing[t].s] = edges[doing[t].s]
        BY <2>1, <2>3, <2>4 DEF IoTypes
      <3>2. QED
        BY <1>2, <1>3, <2>1, <2>2, <3>1
    <2>5. CASE doing[t].s = s
      <3>1. /\ ready'[s] = ready[s] \cup {d \in Dirs : Concerns(flag, d)}
            /\ edges'[s] = edges[s] \cup {flag}
        BY <2>1 DEF IoTypes
      <3>2. CASE Concerns(flag, doing[t].d)
        BY <2>1, <2>5, <3>1, <3>2 DEF Out, EdgeIsOut
      <3>3. CASE ~Concerns(flag, doing[t].d)
        <4>1. doing[t].d \in ready[doing[t].s]
          BY <1>3, <2>1, <2>5, <3>1, <3>3
        <4>2. Out(t)
          BY <1>1, <2>2, <4>1
        <4>3. EdgeIsOut(s, doing[t].d) => EdgeIsOut(s, doing[t].d)'
          BY <2>1, <3>1 DEF EdgeIsOut
        <4>4. EventIsOut(Key(t), doing[t].d) => EventIsOut(Key(t), doing[t].d)'
          BY <2>1 DEF EventIsOut, Key
        <4>5. QED
          BY <2>1, <2>5, <4>2, <4>3, <4>4 DEF Out, Key
      <3>4. QED
        BY <3>2, <3>3
    <2>6. QED
      BY <2>4, <2>5
  <1>8. ASSUME NEW u \in IoTask, NEW s \in Socket, NEW m \in Methods, StartOp(u, s, m) PROVE Out(t)'
    <2>1. UNCHANGED <<ready, edges, driver>> /\ io' = [io EXCEPT ![u] = "try"]
      BY <1>8 DEF StartOp
    <2>2. io[t] \in {"push", "parked"}
      BY <1>3, <2>1 DEF IoTypes
    <2>3. QED
      BY <1>4, <2>1, <2>2
  <1>9. ASSUME NEW u \in IoTask, TryOp(u) \/ RetryOp(u) PROVE Out(t)'
    <2>1. /\ UNCHANGED <<edges, driver>>
          /\ \/ /\ ~IsReady(u) /\ UNCHANGED <<ready, doing>>
                /\ io' = [io EXCEPT ![u] = "lock"] \/ io' = [io EXCEPT ![u] = "push"]
             \/ io' = [io EXCEPT ![u] = "done"]
          /\ \A s \in Socket : ready'[s] \subseteq ready[s]
      BY <1>9, AttemptDoes
    <2>2. CASE u = t
      <3>1. ~IsReady(t) /\ UNCHANGED <<ready, doing>>
        BY <1>3, <2>1, <2>2 DEF IoTypes
      <3>2. QED
        BY <1>3, <3>1 DEF IsReady
    <2>3. CASE u # t
      <3>1. io[t] \in {"push", "parked"}
        BY <1>3, <2>1, <2>3 DEF IoTypes
      <3>2. doing[t].s \in Socket
        BY <3>1, ActiveFits
      <3>3. QED
        BY <1>2, <1>3, <2>1, <3>1, <3>2
    <2>4. QED
      BY <2>2, <2>3
  <1>10. ASSUME NEW u \in IoTask, LockList(u) \/ PushWaker(u) \/ Rewoken(u) PROVE Out(t)'
    <2>1. /\ UNCHANGED <<ready, edges, driver>>
          /\ \/ \E to \in {"retry", "try"} : io' = [io EXCEPT ![u] = to]
             \/ io[u] = "push" /\ io' = [io EXCEPT ![u] = "parked"]
      BY <1>10 DEF LockList, PushWaker, Rewoken
    <2>2. io[t] \in {"push", "parked"}
      BY <1>3, <2>1 DEF IoTypes
    <2>3. QED
      BY <1>4, <2>1, <2>2
  <1>11. ASSUME Collect PROVE Out(t)'
    <2>1. /\ driver = {}
          /\ driver' = {[k |-> token[s], flags |-> edges[s]] : s \in {x \in Socket : edges[x] # {}}}
          /\ UNCHANGED <<ready, token, doing, io>>
      BY <1>11 DEF Collect
    <2>2. io[t] \in {"push", "parked"} /\ doing[t].d \in ready[doing[t].s]
      BY <1>3, <2>1
    <2>3. EdgeIsOut(doing[t].s, doing[t].d)
      BY <1>1, <2>1, <2>2 DEF Out, EventIsOut
    <2>4. doing[t].s \in Socket /\ edges[doing[t].s] # {}
      BY <2>2, <2>3, ActiveFits DEF EdgeIsOut
    <2>5. [k |-> token[doing[t].s], flags |-> edges[doing[t].s]] \in driver'
      BY <2>1, <2>4
    <2>6. EventIsOut(Key(t), doing[t].d)'
      BY <2>1, <2>3, <2>5 DEF EventIsOut, EdgeIsOut, Key
    <2>7. QED
      BY <2>1, <2>6 DEF Out
  <1>12. ASSUME NEW e \in driver, NEW d \in Dirs, WakeList(e, d) PROVE Out(t)'
    <2>1. /\ UNCHANGED <<token, ready, edges, doing, locked>> /\ locked[e.k][d] = Nobody
          /\ io'[t] = io[t]
          /\ \A k, c : EventIsOut(k, c) /\ (k # e.k \/ c # d) /\ c \in Dirs => EventIsOut(k, c)'
      BY <1>3, <1>12, WakeDoes
    <2>2. io[t] \in {"push", "parked"} /\ doing[t].d \in ready[doing[t].s]
      BY <1>3, <2>1
    <2>3. doing[t].s \in Socket /\ doing[t].d \in Dirs
      BY <2>2, ActiveFits
    <2>4. ~(Key(t) = e.k /\ doing[t].d = d)
      <3>1. SUFFICES ASSUME Key(t) = e.k, doing[t].d = d PROVE FALSE
        OBVIOUS
      <3>2. CASE io[t] = "push"
        <4>1. Locker(t) = t /\ t # Nobody
          BY <3>2, IoNumbers DEF LocksFit
        <4>2. QED
          BY <2>1, <3>1, <4>1 DEF Locker
      <3>3. CASE io[t] = "parked"
        <4>1. t \in wakers[e.k][d] /\ \E s \in Socket : token[s] = e.k
          BY <2>3, <3>1, <3>3 DEF ParkedFit, Listed, Key
        <4>2. io'[t] # "parked"
          BY <1>12, <4>1, WakeDoes
        <4>3. QED
          BY <2>1, <3>3, <4>2
      <3>4. QED
        BY <2>2, <3>2, <3>3
    <2>5. Out(t)
      BY <1>1, <2>2
    <2>6. CASE EdgeIsOut(doing[t].s, doing[t].d)
      BY <2>1, <2>6 DEF Out, EdgeIsOut
    <2>7. CASE EventIsOut(Key(t), doing[t].d)
      <3>1. PICK k, c : k = Key(t) /\ c = doing[t].d
        OBVIOUS
      <3>2. EventIsOut(k, c)'
        BY <2>1, <2>3, <2>4, <2>7, <3>1
      <3>3. Key(t)' = k /\ doing'[t].d = c
        BY <2>1, <3>1 DEF Key
      <3>4. QED
        BY <3>2, <3>3 DEF Out
    <2>8. QED
      BY <2>5, <2>6, <2>7 DEF Out
  <1>13. QED
    BY <1>5, <1>6, <1>7, <1>8, <1>9, <1>10, <1>11, <1>12
       DEF IoNext, TaskStep, DriverStep, IoFlags

(* EdgesAreHeard: for any number of sockets and tasks, a task that waits    *)
(* for a socket that is ready has its waker where the event, still to be    *)
(* reported or handled, will look for it.                                   *)
THEOREM EdgesAreHeard == IoSpec => []NoEdgeLost
  <1>1. IoInit => IoInv
    <2> SUFFICES ASSUME IoInit PROVE IoInv
      OBVIOUS
    <2>1. IoTypes
      BY NoOpFits DEF IoInit, IoTypes, IoPlaces
    <2>2. TokensFit /\ LocksFit /\ ParkedFit /\ ReadyFit
      BY DEF IoInit, TokensFit, LocksFit, ParkedFit, ReadyFit
    <2>3. OpsFit
      BY NoOpFits DEF IoInit, OpsFit, OpFits
    <2>4. QED
      BY <2>1, <2>2, <2>3 DEF IoInv
  <1>2. IoInv /\ [IoNext]_ioVars => IoInv'
    <2>1. ASSUME IoInv, IoNext PROVE IoInv'
      BY <2>1, IoTypesStep, TokensStep, OpsStep, LocksStep, ParkedStep, ReadyStep DEF IoInv
    <2>2. ASSUME IoInv, UNCHANGED ioVars PROVE IoInv'
      BY <2>2 DEF IoInv, ioVars, IoTypes, TokensFit, OpsFit, OpFits, LocksFit, Locker, ParkedFit, Listed,
                  ReadyFit, EdgeIsOut, EventIsOut, Key
    <2>3. QED
      BY <2>1, <2>2
  <1>3. IoInv => NoEdgeLost
    <2>1. SUFFICES ASSUME IoInv, NEW t \in IoTask, io[t] = "parked", IsReady(t)
                   PROVE  Listed(t) /\ Out(t)
      BY DEF NoEdgeLost, Listed, Out, EdgeIsOut, EventIsOut
    <2>2. doing[t].d \in ready[doing[t].s]
      BY <2>1 DEF IsReady, IoInv, OpsFit, OpFits
    <2>3. QED
      BY <2>1, <2>2 DEF IoInv, ParkedFit, ReadyFit, Out
  <1>4. QED
    BY <1>1, <1>2, <1>3, PTL DEF IoSpec
=============================================================================
