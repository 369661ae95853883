------------------------- MODULE WakerSetLockProofs -------------------------
(***************************************************************************)
(* Proofs about WakerSetLock, for any finite set of callers: the spin lock *)
(* protects the slab, keys designate the entries of their owners, and      *)
(* every call takes effect atomically, as WakerSetAbs says.                *)
(*                                                                         *)
(* The waker set that a slab e stands for depends on e and on the keys kk  *)
(* the callers hold.  The first part relates what a call does to (e, kk)   *)
(* with what it does to Stands(e, kk); the second part is about the steps. *)
(***************************************************************************)
EXTENDS WakerSetLock, FiniteSetTheorems, WellFoundedInduction, TLAPS

(* AsWakerSet and KeysOwned of a slab e and keys kk.                        *)
Stands(e, kk) ==
    [p \in Proc |-> IF kk[p] = NoKey THEN "absent"
                    ELSE IF e[kk[p]] = None THEN "notified" ELSE "waiting"]

Owned(e, kk) ==
    /\ kk \in [Proc -> Key \cup {NoKey}]
    /\ DOMAIN e \subseteq Key
    /\ \A p \in Proc : kk[p] # NoKey => kk[p] \in DOMAIN e /\ e[kk[p]] \in {p, None}
    /\ \A p, q \in Proc : p # q /\ kk[p] # NoKey => kk[p] # kk[q]
    /\ \A k \in DOMAIN e : \E p \in Proc : kk[p] = k

(* The changes the calls make to a slab and to the keys.                    *)
PutEntry(e, k, p) == [j \in DOMAIN e \cup {k} |-> IF j = k THEN p ELSE e[j]]
CutEntry(e, k) == [j \in DOMAIN e \ {k} |-> e[j]]
GiveKey(kk, p, k) == [kk EXCEPT ![p] = k]

-----------------------------------------------------------------------------
(* LeastKey: a slab that is not empty has a first key.                      *)
LEMMA LeastKey ==
    ASSUME NEW S, S \subseteq Nat, S # {}
    PROVE  Min(S) \in S /\ \A k \in S : Min(S) =< k
  <1> DEFINE R == OpToRel(<, Nat)
  <1>1. \E x \in S : \A y \in S : ~ (<<y, x>> \in R)
    <2>1. IsWellFoundedOn(R, Nat)
      BY NatLessThanWellFounded
    <2> HIDE DEF R
    <2>2. QED
      BY <2>1, WFMin
  <1>2. PICK x \in S : \A y \in S : ~ (<<y, x>> \in R)
    BY <1>1
  <1>3. \A y \in S : ~(y < x)
    BY <1>2 DEF OpToRel
  <1>4. \A y \in S : x =< y
    BY <1>3
  <1>5. QED
    BY <1>4 DEF Min

(* KeyFacts: keys are natural numbers, so that none is NoKey.               *)
LEMMA KeyFacts == Key \subseteq Nat /\ NoKey \notin Key /\ IsFiniteSet(Key)
  <1>1. Cardinality(Proc) \in Nat
    BY FS_CardinalityType, ProcAssumption
  <1>2. IsFiniteSet(0 .. Cardinality(Proc) - 1)
    BY <1>1, FS_Interval
  <1>3. QED
    BY <1>1, <1>2, ProcAssumption DEF Key

(* StandsType: a slab stands for a waker set.                               *)
LEMMA StandsType ==
    ASSUME NEW e, NEW kk
    PROVE  Stands(e, kk) \in [Proc -> EntryStates]
  BY DEF Stands, EntryStates

(* InsertStands: a new entry under a vacant key, owned by p, is Insert.     *)
LEMMA InsertStands ==
    ASSUME NEW e, NEW kk, Owned(e, kk), NEW p \in Proc, kk[p] = NoKey,
           NEW k \in Key \ DOMAIN e
    PROVE  /\ Owned(PutEntry(e, k, p), GiveKey(kk, p, k))
           /\ Stands(e, kk)[p] = "absent"
           /\ Stands(PutEntry(e, k, p), GiveKey(kk, p, k)) = Insert(Stands(e, kk), p)
           /\ SomeKeys(PutEntry(e, k, p)) = SomeKeys(e) \cup {k}
           /\ k \notin SomeKeys(e)
  <1> DEFINE f  == PutEntry(e, k, p)
             ll == GiveKey(kk, p, k)
  <1> USE DEF PutEntry, GiveKey
  <1>0. k # NoKey /\ p # None
    BY KeyFacts, ProcAssumption
  <1>1. Owned(f, ll)
    <2>1. ll \in [Proc -> Key \cup {NoKey}] /\ DOMAIN f \subseteq Key
      BY DEF Owned
    <2>2. ASSUME NEW q \in Proc, ll[q] # NoKey
          PROVE  ll[q] \in DOMAIN f /\ f[ll[q]] \in {q, None}
      BY <1>0, <2>2 DEF Owned
    <2>3. ASSUME NEW q \in Proc, NEW r \in Proc, q # r, ll[q] # NoKey
          PROVE  ll[q] # ll[r]
      BY <1>0, <2>3 DEF Owned
    <2>4. ASSUME NEW j \in DOMAIN f PROVE \E q \in Proc : ll[q] = j
      <3>1. CASE j = k
        BY <3>1 DEF Owned
      <3>2. CASE j # k
        <4>1. PICK q \in Proc : kk[q] = j
          BY <3>2 DEF Owned
        <4>2. j # NoKey
          BY <3>2, KeyFacts DEF Owned
        <4>3. ll[q] = j
          BY <4>1, <4>2 DEF Owned
        <4>4. QED
          BY <4>3
      <3>3. QED
        BY <3>1, <3>2
    <2>5. QED
      BY <2>1, <2>2, <2>3, <2>4 DEF Owned
  <1>2. Stands(e, kk)[p] = "absent"
    BY DEF Stands
  <1>3. ASSUME NEW q \in Proc PROVE Stands(f, ll)[q] = Insert(Stands(e, kk), p)[q]
    BY <1>0, <1>3 DEF Stands, Insert, Owned
  <1>4. Stands(f, ll) = Insert(Stands(e, kk), p)
    BY <1>3 DEF Stands, Insert
  <1>5. SomeKeys(f) = SomeKeys(e) \cup {k} /\ k \notin SomeKeys(e)
    BY <1>0 DEF SomeKeys
  <1>6. QED
    BY <1>1, <1>2, <1>4, <1>5

(* RemoveStands: taking p's entry out of the slab is Remove.                *)
LEMMA RemoveStands ==
    ASSUME NEW e, NEW kk, Owned(e, kk), NEW p \in Proc, kk[p] # NoKey
    PROVE  /\ Owned(CutEntry(e, kk[p]), GiveKey(kk, p, NoKey))
           /\ Stands(e, kk)[p] # "absent"
           /\ e[kk[p]] = None <=> Stands(e, kk)[p] = "notified"
           /\ Stands(CutEntry(e, kk[p]), GiveKey(kk, p, NoKey)) = Remove(Stands(e, kk), p)
           /\ SomeKeys(CutEntry(e, kk[p])) = SomeKeys(e) \ {kk[p]}
           /\ e[kk[p]] # None <=> kk[p] \in SomeKeys(e)
  <1> DEFINE f  == CutEntry(e, kk[p])
             ll == GiveKey(kk, p, NoKey)
  <1> USE DEF CutEntry, GiveKey
  <1>1. Owned(f, ll)
    BY DEF Owned
  <1>2. /\ Stands(e, kk)[p] # "absent"
        /\ e[kk[p]] = None <=> Stands(e, kk)[p] = "notified"
    BY DEF Stands
  <1>3. ASSUME NEW q \in Proc PROVE Stands(f, ll)[q] = Remove(Stands(e, kk), p)[q]
    BY <1>3 DEF Stands, Remove, Owned
  <1>4. Stands(f, ll) = Remove(Stands(e, kk), p)
    BY <1>3 DEF Stands, Remove
  <1>5. /\ SomeKeys(f) = SomeKeys(e) \ {kk[p]}
        /\ e[kk[p]] # None <=> kk[p] \in SomeKeys(e)
    BY DEF SomeKeys, Owned
  <1>6. QED
    BY <1>1, <1>2, <1>4, <1>5

(* TakeKeeps: taking wakers leaves every entry to its owner.                *)
LEMMA TakeKeeps ==
    ASSUME NEW e, NEW kk, Owned(e, kk), NEW K
    PROVE  /\ Owned(TakeWakers(e, K), kk)
           /\ SomeKeys(TakeWakers(e, K)) = SomeKeys(e) \ K
           /\ DOMAIN TakeWakers(e, K) = DOMAIN e
  BY DEF Owned, TakeWakers, SomeKeys

(* TakeOneStands: taking the waker under one key wakes its owner.           *)
LEMMA TakeOneStands ==
    ASSUME NEW e, NEW kk, Owned(e, kk), NEW k \in SomeKeys(e)
    PROVE  \E o \in Waiting(Stands(e, kk)) :
               Stands(TakeWakers(e, {k}), kk) = Wake(Stands(e, kk), o)
  <1>1. PICK o \in Proc : kk[o] = k
    BY DEF Owned, SomeKeys
  <1>2. k # NoKey /\ k \in DOMAIN e /\ e[k] # None
    BY KeyFacts DEF Owned, SomeKeys
  <1>3. o \in Waiting(Stands(e, kk))
    BY <1>1, <1>2 DEF Waiting, Stands
  <1>4. ASSUME NEW q \in Proc
        PROVE  Stands(TakeWakers(e, {k}), kk)[q] = Wake(Stands(e, kk), o)[q]
    BY <1>1, <1>2, <1>4 DEF Stands, TakeWakers, Wake, Owned
  <1>5. Stands(TakeWakers(e, {k}), kk) = Wake(Stands(e, kk), o)
    BY <1>4 DEF Stands, Wake
  <1>6. QED
    BY <1>3, <1>5

(* TakeAllStands: taking every waker is NotifyAll.                          *)
LEMMA TakeAllStands ==
    ASSUME NEW e, NEW kk, Owned(e, kk)
    PROVE  Stands(TakeWakers(e, SomeKeys(e)), kk) = NotifyAll(Stands(e, kk))
  <1>1. ASSUME NEW q \in Proc
        PROVE  Stands(TakeWakers(e, SomeKeys(e)), kk)[q] = NotifyAll(Stands(e, kk))[q]
    BY <1>1 DEF Stands, TakeWakers, NotifyAll, Owned, SomeKeys
  <1>2. QED
    BY <1>1 DEF Stands, NotifyAll

(* TakeNoneStands: taking no waker changes nothing.                         *)
LEMMA TakeNoneStands ==
    ASSUME NEW e, NEW kk, Owned(e, kk)
    PROVE  Stands(TakeWakers(e, {}), kk) = Stands(e, kk)
  BY DEF Stands, TakeWakers, Owned

(* StandsCounts: somebody waits exactly if some entry has its waker, and    *)
(* somebody is notified exactly if some entry has none.                     *)
LEMMA StandsCounts ==
    ASSUME NEW e, NEW kk, Owned(e, kk)
    PROVE  /\ Waiting(Stands(e, kk)) # {} <=> SomeKeys(e) # {}
           /\ Notified(Stands(e, kk)) # {} <=> SomeKeys(e) # DOMAIN e
           /\ IsFiniteSet(DOMAIN e) /\ IsFiniteSet(SomeKeys(e))
           /\ SomeKeys(e) \subseteq DOMAIN e
  <1>0. NoKey \notin Key
    BY KeyFacts
  <1>1. Waiting(Stands(e, kk)) # {} <=> SomeKeys(e) # {}
    <2>1. ASSUME NEW p \in Waiting(Stands(e, kk)) PROVE kk[p] \in SomeKeys(e)
      BY <2>1 DEF Stands, Waiting, SomeKeys, Owned
    <2>2. ASSUME NEW k \in SomeKeys(e) PROVE Waiting(Stands(e, kk)) # {}
      BY <2>2, TakeOneStands
    <2>3. QED
      BY <2>1, <2>2
  <1>2. Notified(Stands(e, kk)) # {} <=> SomeKeys(e) # DOMAIN e
    <2>1. ASSUME NEW p \in Notified(Stands(e, kk))
          PROVE  kk[p] \in DOMAIN e /\ kk[p] \notin SomeKeys(e)
      BY <2>1 DEF Stands, Notified, SomeKeys, Owned
    <2>2. ASSUME NEW k \in DOMAIN e, k \notin SomeKeys(e)
          PROVE  Notified(Stands(e, kk)) # {}
      <3>1. PICK p \in Proc : kk[p] = k
        BY DEF Owned
      <3>2. p \in Notified(Stands(e, kk))
        BY <1>0, <2>2, <3>1 DEF Stands, Notified, SomeKeys, Owned
      <3>3. QED
        BY <3>2
    <2>3. SomeKeys(e) \subseteq DOMAIN e
      BY DEF SomeKeys
    <2>4. QED
      BY <2>1, <2>2, <2>3
  <1>3. IsFiniteSet(DOMAIN e) /\ IsFiniteSet(SomeKeys(e)) /\ SomeKeys(e) \subseteq DOMAIN e
    BY KeyFacts, FS_Subset DEF Owned, SomeKeys
  <1>4. QED
    BY <1>1, <1>2, <1>3

(* WokeFacts: which calls of the abstract waker set report a woken          *)
(* operation.                                                               *)
LEMMA WokeFacts ==
    ASSUME NEW ws \in [Proc -> EntryStates]
    PROVE  /\ ~ Woke(ws, ws)
           /\ \A p \in Proc : ~ Woke(ws, Insert(ws, p))
           /\ \A p \in Proc : ~ Woke(ws, Remove(ws, p))
           /\ \A o \in Waiting(ws) : Woke(ws, Wake(ws, o))
           /\ \A p \in Proc : \A o \in Waiting(Remove(ws, p)) :
                 Woke(ws, Wake(Remove(ws, p), o))
           /\ Woke(ws, NotifyAll(ws)) <=> Waiting(ws) # {}
  <1>1. ~ Woke(ws, ws)
    BY DEF Woke, Notified
  <1>2. ASSUME NEW p \in Proc PROVE ~ Woke(ws, Insert(ws, p))
    BY DEF Woke, Notified, Insert
  <1>3. ASSUME NEW p \in Proc PROVE ~ Woke(ws, Remove(ws, p))
    BY DEF Woke, Notified, Remove
  <1>4. ASSUME NEW o \in Waiting(ws) PROVE Woke(ws, Wake(ws, o))
    <2>1. o \in Notified(Wake(ws, o)) /\ o \notin Notified(ws)
      BY DEF Notified, Wake, Waiting
    <2>2. QED
      BY <2>1 DEF Woke
  <1>5. ASSUME NEW p \in Proc, NEW o \in Waiting(Remove(ws, p))
        PROVE  Woke(ws, Wake(Remove(ws, p), o))
    <2>1. o \in Notified(Wake(Remove(ws, p), o)) /\ o \notin Notified(ws)
      BY DEF Notified, Wake, Waiting, Remove
    <2>2. QED
      BY <2>1 DEF Woke
  <1>6. Woke(ws, NotifyAll(ws)) <=> Waiting(ws) # {}
    <2>1. Notified(NotifyAll(ws)) \ Notified(ws) = Waiting(ws)
      BY DEF Notified, NotifyAll, Waiting
    <2>2. QED
      BY <2>1 DEF Woke
  <1>7. QED
    BY <1>1, <1>2, <1>3, <1>4, <1>5, <1>6

-----------------------------------------------------------------------------
(* The inductive invariant.                                                 *)

(* What call c of p does to the abstract waker set.                         *)
Effect(p, c, old, new) ==
    \/ c = "insert" /\ old[p] = "absent" /\ new = Insert(old, p)
    \/ c = "remove" /\ old[p] # "absent" /\ new = Remove(old, p)
    \/ c = "cancel" /\ old[p] # "absent" /\ new \in Cancel(old, p)
    \/ c = "notify_any" /\ new \in NotifyAny(old)
    \/ c = "notify_one" /\ new \in NotifyOne(old)
    \/ c = "notify_all" /\ new = NotifyAll(old)

(* A call under way is one its caller may make.                             *)
CallsFit ==
    \A p \in Proc :
        /\ pc[p] # "idle" => call[p] \in Calls
        /\ pc[p] = "load" => call[p] \in NotifyCalls
        /\ pc[p] \in {"lock", "body"} =>
              /\ call[p] = "insert" => key[p] = NoKey
              /\ call[p] \in {"remove", "cancel"} => key[p] # NoKey
        /\ pc[p] # "unlock" => woke[p] = FALSE

CountExact == notifiable = Cardinality(SomeKeys(entries))

(* The NOTIFIED and NOTIFIABLE bits tell about the last unlocked state.     *)
FlagFits ==
    /\ flag.notified <=> Notified(view) # {}
    /\ flag.notifiable <=> Waiting(view) # {}

(* The slab stands for that state too, until a body has run; then it stands *)
(* for what the call makes of it.                                           *)
ViewFits ==
    /\ (\A p \in Proc : pc[p] # "unlock") => view = AsWakerSet
    /\ \A p \in Proc : pc[p] = "unlock" =>
          /\ Effect(p, call[p], view, AsWakerSet)
          /\ woke[p] <=> Woke(view, AsWakerSet)

LockInv ==
    /\ TypeOK /\ SlabExclusive /\ KeysOwned
    /\ CallsFit /\ CountExact /\ FlagFits /\ ViewFits

-----------------------------------------------------------------------------
(* InvOwned: in terms of the first part.                                    *)
LEMMA InvOwned == LockInv => Owned(entries, key) /\ AsWakerSet = Stands(entries, key)
  BY DEF LockInv, TypeOK, KeysOwned, Owned, AsWakerSet, Stands

(* OwnedInv: and back.                                                      *)
LEMMA OwnedInv == Owned(entries, key) => KeysOwned /\ AsWakerSet = Stands(entries, key)
  BY DEF KeysOwned, Owned, AsWakerSet, Stands

(* BodySees: the holder of the lock finds the slab as of the last unlock.   *)
LEMMA BodySees ==
    ASSUME LockInv, NEW p \in Proc, pc[p] = "body"
    PROVE  view = Stands(entries, key) /\ view \in [Proc -> EntryStates] /\ woke[p] = FALSE
  BY InvOwned DEF LockInv, SlabExclusive, LockHolders, ViewFits, CallsFit, TypeOK

(* What a body must achieve.                                                *)
BodyDone(p) ==
    /\ Owned(entries', key')
    /\ \A k \in DOMAIN entries' : entries'[k] \in Proc \cup {None}
    /\ notifiable' = Cardinality(SomeKeys(entries'))
    /\ Effect(p, call[p], view, Stands(entries', key'))
    /\ woke' \in [Proc -> BOOLEAN]
    /\ woke'[p] <=> Woke(view, Stands(entries', key'))
    /\ \A q \in Proc \ {p} : woke'[q] = woke[q]

(* InsertDone: insert().                                                    *)
LEMMA InsertDone ==
    ASSUME LockInv, NEW p \in Proc, pc[p] = "body", call[p] = "insert", InsertBody(p)
    PROVE  BodyDone(p)
  <1>1. PICK k \in Key \ DOMAIN entries :
            /\ entries' = PutEntry(entries, k, p)
            /\ notifiable' = notifiable + 1
            /\ key' = GiveKey(key, p, k)
            /\ UNCHANGED woke
    BY DEF InsertBody, PutEntry, GiveKey
  <1>2. key[p] = NoKey /\ Owned(entries, key)
    BY InvOwned DEF LockInv, CallsFit
  <1>3. /\ Owned(entries', key')
        /\ Stands(entries, key)[p] = "absent"
        /\ Stands(entries', key') = Insert(Stands(entries, key), p)
        /\ SomeKeys(entries') = SomeKeys(entries) \cup {k}
        /\ k \notin SomeKeys(entries)
    BY <1>1, <1>2, InsertStands
  <1>4. notifiable' = Cardinality(SomeKeys(entries'))
    <2>1. IsFiniteSet(SomeKeys(entries)) /\ notifiable = Cardinality(SomeKeys(entries))
      BY <1>2, StandsCounts DEF LockInv, CountExact
    <2>2. Cardinality(SomeKeys(entries) \cup {k}) = Cardinality(SomeKeys(entries)) + 1
      BY <1>3, <2>1, FS_AddElement
    <2>3. QED
      BY <1>1, <1>3, <2>1, <2>2
  <1>5. ~ Woke(view, Stands(entries', key'))
    <2>1. view = Stands(entries, key) /\ view \in [Proc -> EntryStates]
      BY BodySees
    <2>2. ~ Woke(view, Insert(view, p))
      BY <2>1, WokeFacts
    <2>3. QED
      BY <1>3, <2>1, <2>2
  <1>6. woke' = woke /\ woke \in [Proc -> BOOLEAN] /\ woke[p] = FALSE
    BY <1>1, BodySees DEF LockInv, TypeOK
  <1>7. \A j \in DOMAIN entries' : entries'[j] \in Proc \cup {None}
    BY <1>1 DEF LockInv, TypeOK, PutEntry
  <1>8. QED
    BY <1>3, <1>4, <1>5, <1>6, <1>7, BodySees DEF BodyDone, Effect

(* RemoveDone: remove().                                                    *)
LEMMA RemoveDone ==
    ASSUME LockInv, NEW p \in Proc, pc[p] = "body", call[p] = "remove", RemoveBody(p)
    PROVE  BodyDone(p)
  <1>1. key[p] # NoKey /\ Owned(entries, key)
    BY InvOwned DEF LockInv, CallsFit
  <1>2. /\ Owned(entries', key')
        /\ Stands(entries, key)[p] # "absent"
        /\ Stands(entries', key') = Remove(Stands(entries, key), p)
        /\ SomeKeys(entries') = SomeKeys(entries) \ {key[p]}
        /\ entries[key[p]] # None <=> key[p] \in SomeKeys(entries)
    <2>1. entries' = CutEntry(entries, key[p]) /\ key' = GiveKey(key, p, NoKey)
      BY DEF RemoveBody, WithoutKey, CutEntry, GiveKey
    <2>2. QED
      BY <1>1, <2>1, RemoveStands
  <1>3. notifiable' = Cardinality(SomeKeys(entries'))
    <2>1. IsFiniteSet(SomeKeys(entries)) /\ notifiable = Cardinality(SomeKeys(entries))
      BY <1>1, StandsCounts DEF LockInv, CountExact
    <2>2. notifiable' = IF entries[key[p]] = None THEN notifiable ELSE notifiable - 1
      BY DEF RemoveBody
    <2>3. QED
      BY <1>2, <2>1, <2>2, FS_RemoveElement
  <1>4. ~ Woke(view, Stands(entries', key'))
    <2>1. view = Stands(entries, key) /\ view \in [Proc -> EntryStates]
      BY BodySees
    <2>2. ~ Woke(view, Remove(view, p))
      BY <2>1, WokeFacts
    <2>3. QED
      BY <1>2, <2>1, <2>2
  <1>5. woke' = woke /\ woke \in [Proc -> BOOLEAN] /\ woke[p] = FALSE
    BY BodySees DEF LockInv, TypeOK, RemoveBody
  <1>6. \A j \in DOMAIN entries' : entries'[j] \in Proc \cup {None}
    BY DEF LockInv, TypeOK, RemoveBody, WithoutKey
  <1>7. QED
    BY <1>2, <1>3, <1>4, <1>5, <1>6, BodySees DEF BodyDone, Effect

(* CancelDone: cancel(), which removes the entry and may wake another one.  *)
LEMMA CancelDone ==
    ASSUME LockInv, NEW p \in Proc, pc[p] = "body", call[p] = "cancel", CancelBody(p)
    PROVE  BodyDone(p)
  <1> DEFINE rest == WithoutKey(key[p])
             taken == entries[key[p]] = None
             pass == taken /\ SomeKeys(rest) # {}
             K == IF pass THEN {Min(SomeKeys(rest))} ELSE {}
             ws == Stands(entries, key)
  <1>1. key[p] # NoKey /\ Owned(entries, key)
    BY InvOwned DEF LockInv, CallsFit
  <1>2. /\ entries' = TakeWakers(rest, K)
        /\ notifiable' = IF taken /\ ~pass THEN notifiable ELSE notifiable - 1
        /\ key' = [key EXCEPT ![p] = NoKey]
        /\ woke' = [woke EXCEPT ![p] = pass]
    BY DEF CancelBody
  <1>3. /\ Owned(rest, key')
        /\ ws[p] # "absent"
        /\ taken <=> ws[p] = "notified"
        /\ Stands(rest, key') = Remove(ws, p)
        /\ SomeKeys(rest) = SomeKeys(entries) \ {key[p]}
        /\ ~taken <=> key[p] \in SomeKeys(entries)
    <2>1. rest = CutEntry(entries, key[p]) /\ key' = GiveKey(key, p, NoKey)
      BY <1>2 DEF WithoutKey, CutEntry, GiveKey
    <2> HIDE DEF rest
    <2>2. QED
      BY <1>1, <2>1, RemoveStands
  <1>4. SomeKeys(rest) \subseteq Nat
    BY <1>3, KeyFacts DEF Owned, SomeKeys
  <1> HIDE DEF rest, taken
  <1>5. /\ Owned(entries', key')
        /\ SomeKeys(entries') = SomeKeys(rest) \ K
    BY <1>2, <1>3, TakeKeeps
  <1>6. \A j \in DOMAIN entries' : entries'[j] \in Proc \cup {None}
    BY <1>2 DEF LockInv, TypeOK, TakeWakers, WithoutKey, rest
  <1>7. /\ IsFiniteSet(SomeKeys(entries)) /\ notifiable = Cardinality(SomeKeys(entries))
        /\ Cardinality(SomeKeys(entries)) \in Nat
    BY <1>1, StandsCounts, FS_CardinalityType DEF LockInv, CountExact
  <1>8. ws = view /\ ws \in [Proc -> EntryStates]
    BY BodySees
  <1> HIDE DEF ws
  <1>9. /\ woke' \in [Proc -> BOOLEAN]
        /\ woke'[p] <=> pass
        /\ \A q \in Proc \ {p} : woke'[q] = woke[q]
    BY <1>2 DEF LockInv, TypeOK
  <1>10. CASE pass
    <2>1. Min(SomeKeys(rest)) \in SomeKeys(rest)
      BY <1>4, <1>10, LeastKey
    <2>2. PICK o \in Waiting(Remove(ws, p)) : Stands(entries', key') = Wake(Remove(ws, p), o)
      BY <1>2, <1>3, <1>10, <2>1, TakeOneStands
    <2>3. notifiable' = Cardinality(SomeKeys(entries'))
      <3> DEFINE m == Min(SomeKeys(rest))
      <3>1. SomeKeys(rest) = SomeKeys(entries) /\ m \in SomeKeys(entries)
        BY <1>3, <1>10, <2>1
      <3>2. SomeKeys(entries') = SomeKeys(entries) \ {m}
        BY <1>5, <1>10, <3>1
      <3> HIDE DEF m
      <3>3. Cardinality(SomeKeys(entries) \ {m}) = Cardinality(SomeKeys(entries)) - 1
        BY <1>7, <3>1, FS_RemoveElement
      <3>4. notifiable' = notifiable - 1
        BY <1>2, <1>10
      <3>5. QED
        BY <1>7, <3>2, <3>3, <3>4
    <2>4. Stands(entries', key') \in Cancel(ws, p)
      BY <1>3, <1>10, <2>2 DEF Cancel, NotifyOne
    <2>5. Woke(ws, Stands(entries', key'))
      BY <1>8, <2>2, WokeFacts
    <2>6. Effect(p, call[p], view, Stands(entries', key'))
      BY <1>3, <1>8, <2>4 DEF Effect
    <2>7. woke'[p] <=> Woke(view, Stands(entries', key'))
      BY <1>8, <1>9, <1>10, <2>5
    <2>8. QED
      BY <1>5, <1>6, <1>9, <2>3, <2>6, <2>7 DEF BodyDone
  <1>11. CASE ~pass
    <2>1. Stands(entries', key') = Remove(ws, p)
      BY <1>2, <1>3, <1>11, TakeNoneStands
    <2>2. notifiable' = Cardinality(SomeKeys(entries'))
      BY <1>2, <1>3, <1>5, <1>7, <1>11, FS_RemoveElement
    <2>3. Stands(entries', key') \in Cancel(ws, p)
      <3>1. CASE taken
        <4>1. SomeKeys(rest) = {}
          BY <1>11, <3>1
        <4>2. Waiting(Remove(ws, p)) = {}
          BY <1>3, <4>1, StandsCounts
        <4>3. QED
          BY <1>3, <2>1, <3>1, <4>2 DEF Cancel, NotifyOne
      <3>2. CASE ~taken
        BY <1>3, <2>1, <3>2 DEF Cancel
      <3>3. QED
        BY <3>1, <3>2
    <2>4. ~ Woke(ws, Stands(entries', key'))
      BY <1>8, <2>1, WokeFacts
    <2>5. Effect(p, call[p], view, Stands(entries', key'))
      BY <1>3, <1>8, <2>3 DEF Effect
    <2>6. woke'[p] <=> Woke(view, Stands(entries', key'))
      BY <1>8, <1>9, <1>11, <2>4
    <2>7. QED
      BY <1>5, <1>6, <1>9, <2>2, <2>5, <2>6 DEF BodyDone
  <1>12. QED
    BY <1>10, <1>11

(* NotifyDone: notify_any(), notify_one() and notify_all().                 *)
LEMMA NotifyDone ==
    ASSUME LockInv, NEW p \in Proc, pc[p] = "body", call[p] \in NotifyCalls, NotifyBody(p)
    PROVE  BodyDone(p)
  <1> DEFINE K == ToNotify(call[p])
             ws == Stands(entries, key)
  <1>1. /\ entries' = TakeWakers(entries, K)
        /\ notifiable' = notifiable - Cardinality(K)
        /\ woke' = [woke EXCEPT ![p] = K # {}]
        /\ key' = key
    BY DEF NotifyBody
  <1>2. Owned(entries, key)
    BY InvOwned
  <1>3. /\ SomeKeys(entries) \subseteq DOMAIN entries /\ DOMAIN entries \subseteq Nat
        /\ IsFiniteSet(SomeKeys(entries)) /\ notifiable = Cardinality(SomeKeys(entries))
        /\ Cardinality(SomeKeys(entries)) \in Nat
    BY <1>2, StandsCounts, KeyFacts, FS_CardinalityType DEF LockInv, CountExact, Owned
  <1>4. ws = view /\ ws \in [Proc -> EntryStates]
    BY BodySees
  <1>5. /\ woke' \in [Proc -> BOOLEAN]
        /\ woke'[p] <=> K # {}
        /\ \A q \in Proc \ {p} : woke'[q] = woke[q]
    BY <1>1 DEF LockInv, TypeOK
  <1>6. \A j \in DOMAIN entries' : entries'[j] \in Proc \cup {None}
    BY <1>1 DEF LockInv, TypeOK, TakeWakers
  <1>7. SUFFICES /\ Effect(p, call[p], ws, Stands(entries', key'))
                 /\ K # {} <=> Woke(ws, Stands(entries', key'))
                 /\ notifiable' = Cardinality(SomeKeys(entries'))
    <2>1. Owned(entries', key')
      BY <1>1, <1>2, TakeKeeps
    <2> HIDE DEF K, ws
    <2>2. QED
      BY <1>4, <1>5, <1>6, <1>7, <2>1 DEF BodyDone
  <1>8. SomeKeys(entries') = SomeKeys(entries) \ K
    BY <1>1, <1>2, TakeKeeps
  <1>9. ASSUME NEW k \in SomeKeys(entries), K = {k}
        PROVE  /\ \E o \in Waiting(ws) : Stands(entries', key') = Wake(ws, o)
               /\ Woke(ws, Stands(entries', key'))
               /\ notifiable' = Cardinality(SomeKeys(entries'))
    <2> HIDE DEF K
    <2>1. PICK o \in Waiting(ws) : Stands(entries', key') = Wake(ws, o)
      BY <1>1, <1>2, <1>9, TakeOneStands
    <2> HIDE DEF ws
    <2>2. Woke(ws, Stands(entries', key'))
      BY <1>4, <2>1, WokeFacts
    <2>3. Cardinality(SomeKeys(entries) \ {k}) = Cardinality(SomeKeys(entries)) - 1
      BY <1>3, FS_RemoveElement
    <2>4. Cardinality(K) = 1
      BY <1>9, FS_Singleton
    <2>5. QED
      BY <1>1, <1>3, <1>8, <1>9, <2>1, <2>2, <2>3, <2>4
  <1>10. ASSUME K = {}
         PROVE  /\ Stands(entries', key') = ws
                /\ ~ Woke(ws, Stands(entries', key'))
                /\ notifiable' = Cardinality(SomeKeys(entries'))
    <2> HIDE DEF K
    <2>1. Stands(entries', key') = ws
      BY <1>1, <1>2, <1>10, TakeNoneStands
    <2> HIDE DEF ws
    <2>2. ~ Woke(ws, Stands(entries', key'))
      BY <1>4, <2>1, WokeFacts
    <2>3. Cardinality(K) = 0
      BY <1>10, FS_EmptySet
    <2>4. QED
      BY <1>1, <1>3, <1>8, <1>10, <2>1, <2>2, <2>3
  <1>11. /\ Waiting(ws) # {} <=> SomeKeys(entries) # {}
         /\ Notified(ws) # {} <=> SomeKeys(entries) # DOMAIN entries
    BY <1>2, StandsCounts
  <1>12. CASE call[p] = "notify_all"
    <2>1. K = SomeKeys(entries)
      BY <1>12 DEF ToNotify
    <2> HIDE DEF K
    <2>2. Stands(entries', key') = NotifyAll(ws)
      BY <1>1, <1>2, <2>1, TakeAllStands
    <2> HIDE DEF ws
    <2>3. Woke(ws, Stands(entries', key')) <=> Waiting(ws) # {}
      BY <1>4, <2>2, WokeFacts
    <2>4. SomeKeys(entries') = {}
      BY <1>8, <2>1
    <2>5. notifiable' = Cardinality(SomeKeys(entries'))
      BY <1>1, <1>3, <2>1, <2>4, FS_EmptySet
    <2>6. QED
      BY <1>11, <1>12, <2>1, <2>2, <2>3, <2>5 DEF Effect
  <1>13. CASE call[p] = "notify_one"
    <2>1. CASE SomeKeys(entries) = {}
      <3>1. K = {}
        BY <1>13, <2>1 DEF ToNotify
      <3> HIDE DEF K, ws
      <3>2. Stands(entries', key') \in NotifyOne(ws)
        BY <1>10, <1>11, <2>1, <3>1 DEF NotifyOne
      <3>3. QED
        BY <1>10, <1>13, <3>1, <3>2 DEF Effect
    <2>2. CASE SomeKeys(entries) # {}
      <3>1. K = {Min(SomeKeys(entries))}
        BY <1>13, <2>2 DEF ToNotify
      <3>2. Min(SomeKeys(entries)) \in SomeKeys(entries)
        BY <1>3, <2>2, LeastKey
      <3> HIDE DEF K, ws
      <3>3. Stands(entries', key') \in NotifyOne(ws)
        BY <1>9, <3>1, <3>2 DEF NotifyOne
      <3>4. QED
        BY <1>9, <1>13, <3>1, <3>2, <3>3 DEF Effect
    <2>3. QED
      BY <2>1, <2>2
  <1>14. CASE call[p] = "notify_any"
    <2>1. CASE DOMAIN entries = {}
      <3>1. K = {} /\ SomeKeys(entries) = {}
        BY <1>3, <1>14, <2>1 DEF ToNotify
      <3> HIDE DEF K, ws
      <3>2. Stands(entries', key') \in NotifyAny(ws)
        BY <1>10, <1>11, <3>1 DEF NotifyAny
      <3>3. QED
        BY <1>10, <1>14, <3>1, <3>2 DEF Effect
    <2>2. CASE DOMAIN entries # {}
      <3> DEFINE m == Min(DOMAIN entries)
      <3>1. K = {m} \cap SomeKeys(entries)
        BY <1>14, <2>2 DEF ToNotify
      <3>2. m \in DOMAIN entries
        BY <1>3, <2>2, LeastKey
      <3> HIDE DEF K, ws, m
      <3>3. CASE m \in SomeKeys(entries)
        <4>1. K = {m}
          BY <3>1, <3>3
        <4>2. Stands(entries', key') \in NotifyAny(ws)
          BY <1>9, <3>3, <4>1 DEF NotifyAny
        <4>3. QED
          BY <1>9, <1>14, <3>3, <4>1, <4>2 DEF Effect
      <3>4. CASE m \notin SomeKeys(entries)
        <4>1. K = {} /\ SomeKeys(entries) # DOMAIN entries
          BY <3>1, <3>2, <3>4
        <4>2. Stands(entries', key') \in NotifyAny(ws)
          BY <1>10, <1>11, <4>1 DEF NotifyAny
        <4>3. QED
          BY <1>10, <1>14, <4>1, <4>2 DEF Effect
      <3>5. QED
        BY <3>3, <3>4
    <2>3. QED
      BY <2>1, <2>2
  <1>15. QED
    BY <1>12, <1>13, <1>14 DEF NotifyCalls

(* BodyEffect: every call does to the slab what it does to the waker set.   *)
LEMMA BodyEffect ==
    ASSUME LockInv, NEW p \in Proc, Body(p)
    PROVE  BodyDone(p)
  BY InsertDone, RemoveDone, CancelDone, NotifyDone DEF Body

-----------------------------------------------------------------------------
(* LockInvInit: the invariant holds of WakerSet::new().                     *)
LEMMA LockInvInit == Init => LockInv
  <1> SUFFICES ASSUME Init PROVE LockInv
    OBVIOUS
  <1>1. Cardinality(Proc) \in Nat
    BY FS_CardinalityType, ProcAssumption
  <1>2. DOMAIN entries = {} /\ SomeKeys(entries) = {}
    BY DEF Init, SomeKeys
  <1>3. TypeOK
    BY <1>1, <1>2 DEF Init, TypeOK, NewWakerSet, EntryStates
  <1>4. KeysOwned /\ CallsFit /\ SlabExclusive
    BY <1>2 DEF Init, KeysOwned, CallsFit, SlabExclusive, LockHolders
  <1>5. CountExact
    BY <1>2, FS_EmptySet DEF Init, CountExact
  <1>6. FlagFits /\ ViewFits
    BY DEF Init, FlagFits, ViewFits, AsWakerSet, NewWakerSet, Waiting, Notified
  <1>7. QED
    BY <1>3, <1>4, <1>5, <1>6 DEF LockInv

(* SameSlab: a step that leaves the slab and the keys alone leaves what     *)
(* depends on nothing else.                                                 *)
LEMMA SameSlab ==
    ASSUME KeysOwned, CountExact, UNCHANGED <<entries, key, notifiable>>
    PROVE  KeysOwned' /\ CountExact' /\ AsWakerSet' = AsWakerSet
  <1>1. entries' = entries /\ key' = key /\ notifiable' = notifiable
    OBVIOUS
  <1>2. KeysOwned'
    BY <1>1 DEF KeysOwned
  <1>3. CountExact'
    BY <1>1 DEF CountExact
  <1>4. AsWakerSet' = AsWakerSet
    BY <1>1 DEF AsWakerSet
  <1>5. QED
    BY <1>2, <1>3, <1>4

(* LockInvBegin: starting a call.                                           *)
LEMMA LockInvBegin ==
    ASSUME LockInv, NEW p \in Proc, NEW c \in Calls, Begin(p, c)
    PROVE  LockInv'
  <1>1. KeysOwned' /\ CountExact' /\ AsWakerSet' = AsWakerSet
    BY SameSlab DEF LockInv, Begin
  <1>2. TypeOK'
    BY DEF LockInv, TypeOK, Begin, Goto
  <1>3. SlabExclusive' /\ CallsFit'
    BY DEF LockInv, TypeOK, SlabExclusive, LockHolders, CallsFit, Begin, Goto, NotifyCalls
  <1>4. FlagFits'
    BY DEF LockInv, FlagFits, Begin
  <1>5. ViewFits'
    BY <1>1 DEF LockInv, TypeOK, ViewFits, Begin, Goto
  <1>6. QED
    BY <1>1, <1>2, <1>3, <1>4, <1>5 DEF LockInv

(* LockInvLoad: the fast path.                                              *)
LEMMA LockInvLoad ==
    ASSUME LockInv, NEW p \in Proc, Load(p)
    PROVE  LockInv'
  <1>1. KeysOwned' /\ CountExact' /\ AsWakerSet' = AsWakerSet
    BY SameSlab DEF LockInv, Load
  <1>2. TypeOK' /\ SlabExclusive' /\ CallsFit'
    <2>1. CASE WorthNotifying(call[p])
      <3>1. TypeOK'
        BY <2>1 DEF LockInv, TypeOK, Load, Goto
      <3>2. SlabExclusive'
        BY <2>1 DEF LockInv, TypeOK, SlabExclusive, LockHolders, Load, Goto
      <3>3. CallsFit'
        BY <2>1 DEF LockInv, TypeOK, CallsFit, Load, Goto, NotifyCalls
      <3>4. QED
        BY <3>1, <3>2, <3>3
    <2>2. CASE ~ WorthNotifying(call[p])
      <3>1. ret' \in Proc \X Calls \X BOOLEAN
        <4>1. call[p] \in Calls
          BY DEF LockInv, CallsFit, Load
        <4>2. ret' = <<p, call[p], FALSE>>
          BY <2>2 DEF Load
        <4>3. QED
          BY <4>1, <4>2
      <3>2. TypeOK'
        BY <2>2, <3>1 DEF LockInv, TypeOK, Load, Goto, Return
      <3>3. SlabExclusive'
        BY <2>2 DEF LockInv, TypeOK, SlabExclusive, LockHolders, Load, Goto, Return
      <3>4. CallsFit'
        BY <2>2 DEF LockInv, TypeOK, CallsFit, Load, Goto, Return
      <3>5. QED
        BY <3>2, <3>3, <3>4
    <2>3. QED
      BY <2>1, <2>2
  <1>3. FlagFits'
    BY DEF LockInv, FlagFits, Load
  <1>4. ViewFits'
    BY <1>1 DEF LockInv, TypeOK, ViewFits, Load, Goto, Return
  <1>5. QED
    BY <1>1, <1>2, <1>3, <1>4 DEF LockInv

(* LockInvAcquire: fetch_or finds the LOCKED bit clear.                     *)
LEMMA LockInvAcquire ==
    ASSUME LockInv, NEW p \in Proc, AcquireLock(p)
    PROVE  LockInv'
  <1>1. KeysOwned' /\ CountExact' /\ AsWakerSet' = AsWakerSet
    BY SameSlab DEF LockInv, AcquireLock
  <1>2. TypeOK'
    BY DEF LockInv, TypeOK, AcquireLock, Goto
  <1>3. SlabExclusive' /\ CallsFit'
    BY DEF LockInv, TypeOK, SlabExclusive, LockHolders, CallsFit, AcquireLock, Goto
  <1>4. FlagFits'
    BY DEF LockInv, TypeOK, FlagFits, AcquireLock
  <1>5. ViewFits'
    BY <1>1 DEF LockInv, TypeOK, ViewFits, AcquireLock, Goto
  <1>6. QED
    BY <1>1, <1>2, <1>3, <1>4, <1>5 DEF LockInv

(* LockInvBody: the work on the slab.                                       *)
LEMMA LockInvBody ==
    ASSUME LockInv, NEW p \in Proc, Body(p)
    PROVE  LockInv'
  <1>1. BodyDone(p)
    BY BodyEffect
  <1>2. KeysOwned' /\ AsWakerSet' = Stands(entries', key')
    BY <1>1 DEF KeysOwned, Owned, AsWakerSet, Stands, BodyDone
  <1>3. CountExact'
    BY <1>1 DEF BodyDone, CountExact
  <1>4. notifiable' \in 0 .. Cardinality(Proc)
    <2>1. Cardinality(Proc) \in Nat
      BY FS_CardinalityType, ProcAssumption
    <2>2. Cardinality(Key) = Cardinality(Proc)
      BY <2>1, FS_Interval DEF Key
    <2>3. SomeKeys(entries') \subseteq Key
      BY <1>1 DEF BodyDone, Owned, SomeKeys
    <2>4. Cardinality(SomeKeys(entries')) =< Cardinality(Key)
      BY <2>3, KeyFacts, FS_Subset
    <2>5. Cardinality(SomeKeys(entries')) \in Nat
      BY <2>3, KeyFacts, FS_Subset, FS_CardinalityType
    <2>6. QED
      BY <1>1, <2>1, <2>2, <2>4, <2>5 DEF BodyDone
  <1>5. TypeOK'
    BY <1>1, <1>4 DEF LockInv, TypeOK, BodyDone, Owned, Body, Goto
  <1>6. SlabExclusive'
    BY DEF LockInv, TypeOK, SlabExclusive, LockHolders, Body, Goto
  <1>7. \A q \in Proc \ {p} : pc[q] \notin {"body", "unlock"} /\ key'[q] = key[q]
    BY DEF LockInv, TypeOK, SlabExclusive, LockHolders, Body,
           InsertBody, RemoveBody, CancelBody, NotifyBody
  <1>8. CallsFit'
    BY <1>1, <1>7 DEF LockInv, TypeOK, CallsFit, Body, Goto, BodyDone
  <1>9. FlagFits'
    BY DEF LockInv, FlagFits, Body
  <1>10. ViewFits'
    BY <1>1, <1>2, <1>7 DEF LockInv, TypeOK, ViewFits, Body, Goto, BodyDone
  <1>11. QED
    BY <1>2, <1>3, <1>5, <1>6, <1>8, <1>9, <1>10 DEF LockInv

(* LockInvUnlock: Drop for Lock.                                            *)
LEMMA LockInvUnlock ==
    ASSUME LockInv, NEW p \in Proc, Unlock(p)
    PROVE  LockInv'
  <1>1. KeysOwned' /\ CountExact' /\ AsWakerSet' = AsWakerSet
    BY SameSlab DEF LockInv, Unlock
  <1>2. Owned(entries, key) /\ AsWakerSet = Stands(entries, key)
    BY InvOwned
  <1>3. AsWakerSet \in [Proc -> EntryStates]
    BY <1>2, StandsType
  <1>4. TypeOK'
    <2>1. ret' \in Proc \X Calls \X BOOLEAN
      BY DEF LockInv, CallsFit, TypeOK, Unlock
    <2>2. flag' \in [locked : BOOLEAN, notified : BOOLEAN, notifiable : BOOLEAN]
      BY DEF Unlock
    <2>3. QED
      BY <1>3, <2>1, <2>2 DEF LockInv, TypeOK, Unlock, Goto, Return
  <1>5. \A q \in Proc \ {p} : pc[q] \notin {"body", "unlock"}
    BY DEF LockInv, SlabExclusive, LockHolders, Unlock
  <1>6. SlabExclusive'
    BY <1>5 DEF LockInv, TypeOK, SlabExclusive, LockHolders, Unlock, Goto, Return
  <1>7. CallsFit'
    BY <1>5 DEF LockInv, TypeOK, CallsFit, Unlock, Goto, Return
  <1>8. FlagFits'
    <2>1. /\ flag'.notified <=> Cardinality(DOMAIN entries) - notifiable > 0
          /\ flag'.notifiable <=> notifiable > 0
          /\ view' = AsWakerSet
      BY DEF Unlock
    <2>2. /\ Waiting(AsWakerSet) # {} <=> SomeKeys(entries) # {}
          /\ Notified(AsWakerSet) # {} <=> SomeKeys(entries) # DOMAIN entries
          /\ IsFiniteSet(DOMAIN entries) /\ IsFiniteSet(SomeKeys(entries))
          /\ SomeKeys(entries) \subseteq DOMAIN entries
      BY <1>2, StandsCounts
    <2>3. notifiable = Cardinality(SomeKeys(entries))
      BY DEF LockInv, CountExact
    <2>4. /\ Cardinality(SomeKeys(entries)) \in Nat /\ Cardinality(DOMAIN entries) \in Nat
          /\ Cardinality(SomeKeys(entries)) = 0 <=> SomeKeys(entries) = {}
      BY <2>2, FS_CardinalityType, FS_EmptySet
    <2>5. /\ Cardinality(SomeKeys(entries)) =< Cardinality(DOMAIN entries)
          /\ Cardinality(SomeKeys(entries)) = Cardinality(DOMAIN entries)
                => SomeKeys(entries) = DOMAIN entries
      BY <2>2, FS_Subset
    <2>6. QED
      BY <2>1, <2>2, <2>3, <2>4, <2>5 DEF FlagFits
  <1>9. ViewFits'
    BY <1>1, <1>5 DEF LockInv, TypeOK, ViewFits, Unlock, Goto, Return
  <1>10. QED
    BY <1>1, <1>4, <1>6, <1>7, <1>8, <1>9 DEF LockInv

(* LockInvStep: every step preserves the invariant.                         *)
LEMMA LockInvStep == LockInv /\ [Next]_vars => LockInv'
  <1> SUFFICES ASSUME LockInv, [Next]_vars PROVE LockInv'
    OBVIOUS
  <1>1. CASE UNCHANGED vars
    <2>1. KeysOwned' /\ CountExact' /\ AsWakerSet' = AsWakerSet
      BY <1>1, SameSlab DEF LockInv, vars
    <2>2. TypeOK'
      BY <1>1 DEF vars, LockInv, TypeOK
    <2>3. SlabExclusive' /\ CallsFit' /\ FlagFits'
      BY <1>1 DEF vars, LockInv, SlabExclusive, LockHolders, CallsFit, FlagFits
    <2>4. ViewFits'
      BY <1>1, <2>1 DEF vars, LockInv, ViewFits
    <2>5. QED
      BY <2>1, <2>2, <2>3, <2>4 DEF LockInv
  <1>2. QED
    BY <1>1, LockInvBegin, LockInvLoad, LockInvAcquire, LockInvBody, LockInvUnlock DEF Next

-----------------------------------------------------------------------------
(* LockInvariant: the invariant holds in every reachable state.             *)
THEOREM LockInvariant == Spec => []LockInv
  BY LockInvInit, LockInvStep, PTL DEF Spec

(* SlabIsExclusive: however many callers spin on the LOCKED bit, only one   *)
(* of them ever works on the slab.                                          *)
THEOREM SlabIsExclusive == Spec => []SlabExclusive
  <1>1. LockInv => SlabExclusive
    BY DEF LockInv
  <1>2. QED
    BY <1>1, LockInvariant, PTL

(* KeysAreOwned: however keys are recycled, the key a future holds always   *)
(* designates its own entry.                                                *)
THEOREM KeysAreOwned == Spec => []KeysOwned
  <1>1. LockInv => KeysOwned
    BY DEF LockInv
  <1>2. QED
    BY <1>1, LockInvariant, PTL

(* SameCalls: the calls of the abstract waker set are those of WakerSetOps. *)
LEMMA SameCalls ==
    /\ WS!NewWakerSet(Proc) = NewWakerSet(Proc)
    /\ \A ws, new : WS!Woke(ws, new) = Woke(ws, new)
    /\ \A ws, p : WS!Insert(ws, p) = Insert(ws, p)
    /\ \A ws, p : WS!Remove(ws, p) = Remove(ws, p)
    /\ \A ws, p : WS!Cancel(ws, p) = Cancel(ws, p)
    /\ \A ws : WS!NotifyAny(ws) = NotifyAny(ws)
    /\ \A ws : WS!NotifyOne(ws) = NotifyOne(ws)
    /\ \A ws : WS!NotifyAll(ws) = NotifyAll(ws)
  BY DEF NewWakerSet, Woke, Insert, Remove, Cancel, NotifyAny, NotifyOne, NotifyAll,
         Notified, Waiting, Wake,
         WS!NewWakerSet, WS!Woke, WS!Insert, WS!Remove, WS!Cancel, WS!NotifyAny,
         WS!NotifyOne, WS!NotifyAll, WS!Notified, WS!Waiting, WS!Wake

(* CallIsAtomic: a caller that returns does to the waker set what its call  *)
(* does to the abstract one; every other step leaves that one unchanged.    *)
LEMMA CallIsAtomic ==
    ASSUME LockInv, [Next]_vars
    PROVE  [WS!Next]_(WS!vars)
  <1> USE DEF WS!Next, WS!vars, WS!CallInsert, WS!CallRemove, WS!CallCancel,
              WS!CallNotifyAny, WS!CallNotifyOne, WS!CallNotifyAll, WS!Returns
  <1>1. ASSUME NEW p \in Proc, Unlock(p) PROVE WS!Next
    <2>1. /\ Effect(p, call[p], view, view')
          /\ woke[p] <=> Woke(view, view')
          /\ woke[p] \in BOOLEAN
          /\ ret' = <<p, call[p], woke[p]>>
      BY <1>1 DEF LockInv, TypeOK, ViewFits, Unlock
    <2>2. woke[p] = Woke(view, view')
      BY <2>1 DEF Woke
    <2>3. QED
      BY <2>1, <2>2, SameCalls DEF Effect
  <1>2. ASSUME NEW p \in Proc, Load(p), ~ WorthNotifying(call[p]) PROVE WS!Next
    <2>1. /\ view' = view
          /\ ret' = <<p, call[p], FALSE>>
          /\ call[p] \in NotifyCalls
          /\ Waiting(view) = {} \/ (call[p] = "notify_any" /\ Notified(view) # {})
          /\ view \in [Proc -> EntryStates]
      BY <1>2 DEF LockInv, TypeOK, CallsFit, FlagFits, Load, WorthNotifying
    <2>2. Woke(view, view') = FALSE
      BY <2>1 DEF Woke
    <2>3. CASE call[p] = "notify_any"
      BY <2>1, <2>2, <2>3, SameCalls DEF NotifyAny
    <2>4. CASE call[p] = "notify_one"
      BY <2>1, <2>2, <2>4, SameCalls DEF NotifyOne
    <2>5. CASE call[p] = "notify_all"
      <3>1. NotifyAll(view) = view
        BY <2>1, <2>5 DEF NotifyAll, Waiting
      <3>2. QED
        BY <2>1, <2>2, <2>5, <3>1, SameCalls
    <2>6. QED
      BY <2>1, <2>3, <2>4, <2>5 DEF NotifyCalls
  <1>3. ASSUME NEW p \in Proc, Load(p), WorthNotifying(call[p])
        PROVE  UNCHANGED <<view, ret>>
    BY <1>3 DEF Load
  <1>4. ASSUME NEW p \in Proc, AcquireLock(p) \/ Body(p) \/ \E c \in Calls : Begin(p, c)
        PROVE  UNCHANGED <<view, ret>>
    BY <1>4 DEF AcquireLock, Body, Begin
  <1>5. CASE UNCHANGED vars
    BY <1>5 DEF vars
  <1>6. QED
    BY <1>1, <1>2, <1>3, <1>4, <1>5 DEF Next

(* WakerSetRefined: for any number of callers, the flag word, the spin lock *)
(* and the slab implement the waker set whose calls are atomic.  This is    *)
(* what Mutex, RwLock and Channel take for granted.                         *)
THEOREM WakerSetRefined == Spec => ImplementsWakerSet
  <1>1. Init => WS!Init
    BY SameCalls DEF Init, WS!Init
  <1>2. LockInv /\ [Next]_vars => [WS!Next]_(WS!vars)
    BY CallIsAtomic
  <1>3. QED
    BY <1>1, <1>2, LockInvariant, PTL DEF Spec, ImplementsWakerSet, WS!Spec
=============================================================================
