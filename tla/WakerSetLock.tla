---------------------------- MODULE WakerSetLock ----------------------------
(***************************************************************************)
(* sync::WakerSet (src/sync/waker_set.rs) as it is written: a flag word    *)
(* with the bits LOCKED, NOTIFIED and NOTIFIABLE, and a slab of entries    *)
(* guarded by the LOCKED bit as a spin lock.                               *)
(*                                                                         *)
(* Every caller of Proc makes one call at a time.  The notifying calls     *)
(* first load the flag word without the lock and may return at once;       *)
(* insert, remove and cancel go straight for the lock.  Under the lock the *)
(* slab changes in one step (nobody else touches it) and the flag word     *)
(* follows in a second one, Drop for Lock: in between, a load still sees   *)
(* the bits of the state before.                                           *)
(***************************************************************************)
EXTENDS Naturals, FiniteSets, FiniteSetsExt, WakerSetOps

CONSTANTS Proc, None, NoKey

ASSUME ProcAssumption == IsFiniteSet(Proc) /\ None \notin Proc /\ NoKey \notin Nat

VARIABLES
    flag,        \* WakerSet.flag
    entries,     \* Inner.entries: occupied keys to the waker's owner, or None
    notifiable,  \* Inner.notifiable
    pc, call,    \* the step and the call each caller is in
    key,         \* the key each caller's future holds
    woke,        \* notify()'s and cancel()'s result so far
    ret,         \* history: the last call that returned: caller, call, result
    view         \* history: the waker set as of the last unlock

vars == <<flag, entries, notifiable, pc, call, key, woke, ret, view>>

Key == 0 .. Cardinality(Proc) - 1
NotifyCalls == {"notify_any", "notify_one", "notify_all"}
Calls == NotifyCalls \cup {"insert", "remove", "cancel"}

Init ==
    /\ flag = [locked |-> FALSE, notified |-> FALSE, notifiable |-> FALSE]
    /\ entries = [k \in {} |-> None]
    /\ notifiable = 0
    /\ pc = [p \in Proc |-> "idle"]
    /\ call = [p \in Proc |-> "none"]
    /\ key = [p \in Proc |-> NoKey]
    /\ woke = [p \in Proc |-> FALSE]
    /\ ret = <<>>
    /\ view = NewWakerSet(Proc)

Goto(p, label) == pc' = [pc EXCEPT ![p] = label]
Return(p) == Goto(p, "idle") /\ call' = [call EXCEPT ![p] = "none"]

-----------------------------------------------------------------------------
(* A caller starts a call it may make: only a future without a key inserts, *)
(* only one with a key removes or cancels.                                  *)
Begin(p, c) ==
    /\ pc[p] = "idle"
    /\ c = "insert" => key[p] = NoKey
    /\ c \in {"remove", "cancel"} => key[p] # NoKey
    /\ call' = [call EXCEPT ![p] = c]
    /\ Goto(p, IF c \in NotifyCalls THEN "load" ELSE "lock")
    /\ UNCHANGED <<flag, entries, notifiable, key, woke, ret, view>>

(* Mutant: a notified entry silences every kind of notification. *)
WorthNotifyingOnce(c) == flag.notifiable /\ ~flag.notified

(* The fast path of the notifying calls: flag.load(SeqCst). *)
WorthNotifying(c) ==
    flag.notifiable /\ (c = "notify_any" => ~flag.notified)

Load(p) ==
    /\ pc[p] = "load"
    /\ IF WorthNotifying(call[p])
         THEN Goto(p, "lock") /\ UNCHANGED <<call, ret>>
         ELSE Return(p) /\ ret' = <<p, call[p], FALSE>>
    /\ UNCHANGED <<flag, entries, notifiable, key, woke, view>>

(* Mutant: the result of fetch_or is not looked at. *)
AcquireLockUnchecked(p) ==
    /\ pc[p] = "lock"
    /\ flag' = [flag EXCEPT !.locked = TRUE]
    /\ Goto(p, "body")
    /\ UNCHANGED <<entries, notifiable, call, key, woke, ret, view>>

(* lock(): spin until fetch_or finds the LOCKED bit clear. *)
AcquireLock(p) ==
    /\ pc[p] = "lock"
    /\ ~flag.locked
    /\ flag' = [flag EXCEPT !.locked = TRUE]
    /\ Goto(p, "body")
    /\ UNCHANGED <<entries, notifiable, call, key, woke, ret, view>>

-----------------------------------------------------------------------------
(* The bodies, under the lock.                                              *)

(* Keys of the entries whose waker is still there, of a slab e. *)
SomeKeys(e) == {k \in DOMAIN e : e[k] # None}

(* opt_waker.take() for the entries K of slab e, w.wake() for each. *)
TakeWakers(e, K) == [k \in DOMAIN e |-> IF k \in K THEN None ELSE e[k]]

InsertBody(p) ==
    \E k \in Key \ DOMAIN entries :
        /\ entries' = [j \in DOMAIN entries \cup {k} |-> IF j = k THEN p ELSE entries[j]]
        /\ notifiable' = notifiable + 1
        /\ key' = [key EXCEPT ![p] = k]
        /\ UNCHANGED woke

WithoutKey(k) == [j \in DOMAIN entries \ {k} |-> entries[j]]

(* Mutant: the future keeps its key after the entry is gone. *)
RemoveBodyKeepsKey(p) ==
    /\ entries' = WithoutKey(key[p])
    /\ notifiable' = IF entries[key[p]] = None THEN notifiable ELSE notifiable - 1
    /\ UNCHANGED <<key, woke>>

RemoveBody(p) ==
    /\ entries' = WithoutKey(key[p])
    /\ notifiable' = IF entries[key[p]] = None THEN notifiable ELSE notifiable - 1
    /\ key' = [key EXCEPT ![p] = NoKey]
    /\ UNCHANGED woke

(* cancel(): a waker still there is dropped; if it was taken, the first     *)
(* entry that still has one is woken instead.                               *)
CancelBody(p) ==
    LET rest  == WithoutKey(key[p])
        taken == entries[key[p]] = None
        pass  == taken /\ SomeKeys(rest) # {}
    IN  /\ entries' = TakeWakers(rest, IF pass THEN {Min(SomeKeys(rest))} ELSE {})
        /\ notifiable' = IF taken /\ ~pass THEN notifiable ELSE notifiable - 1
        /\ key' = [key EXCEPT ![p] = NoKey]
        /\ woke' = [woke EXCEPT ![p] = pass]

(* The entries notify() wakes: the loop goes up the keys, stops after the   *)
(* first entry for Any and after the first waker taken for One.             *)
ToNotify(c) ==
    CASE c = "notify_all" -> SomeKeys(entries)
      [] c = "notify_one" /\ SomeKeys(entries) # {} -> {Min(SomeKeys(entries))}
      [] c = "notify_any" /\ DOMAIN entries # {} -> {Min(DOMAIN entries)} \cap SomeKeys(entries)
      [] OTHER -> {}

NotifyBody(p) ==
    LET K == ToNotify(call[p])
    IN  /\ entries' = TakeWakers(entries, K)
        /\ notifiable' = notifiable - Cardinality(K)
        /\ woke' = [woke EXCEPT ![p] = K # {}]
        /\ UNCHANGED key

Body(p) ==
    /\ pc[p] = "body"
    /\ \/ call[p] = "insert" /\ InsertBody(p)
       \/ call[p] = "remove" /\ RemoveBody(p)
       \/ call[p] = "cancel" /\ CancelBody(p)
       \/ call[p] \in NotifyCalls /\ NotifyBody(p)
    /\ Goto(p, "unlock")
    /\ UNCHANGED <<flag, call, ret, view>>

(* The waker set the slab stands for. *)
AsWakerSet ==
    [p \in Proc |-> IF key[p] = NoKey THEN "absent"
                    ELSE IF entries[key[p]] = None THEN "notified" ELSE "waiting"]

(* Drop for Lock: recompute NOTIFIED and NOTIFIABLE, clear LOCKED, return.  *)
Unlock(p) ==
    /\ pc[p] = "unlock"
    /\ flag' = [locked |-> FALSE,
                notified |-> Cardinality(DOMAIN entries) - notifiable > 0,
                notifiable |-> notifiable > 0]
    /\ ret' = <<p, call[p], woke[p]>>
    /\ view' = AsWakerSet
    /\ woke' = [woke EXCEPT ![p] = FALSE]
    /\ Return(p)
    /\ UNCHANGED <<entries, notifiable, key>>

Next ==
    \E p \in Proc :
        \/ \E c \in Calls : Begin(p, c)
        \/ Load(p) \/ AcquireLock(p) \/ Body(p) \/ Unlock(p)

Spec == Init /\ [][Next]_vars

-----------------------------------------------------------------------------
TypeOK ==
    /\ flag \in [locked : BOOLEAN, notified : BOOLEAN, notifiable : BOOLEAN]
    /\ DOMAIN entries \subseteq Key
    /\ \A k \in DOMAIN entries : entries[k] \in Proc \cup {None}
    /\ notifiable \in 0 .. Cardinality(Proc)
    /\ pc \in [Proc -> {"idle", "load", "lock", "body", "unlock"}]
    /\ call \in [Proc -> Calls \cup {"none"}]
    /\ key \in [Proc -> Key \cup {NoKey}]
    /\ woke \in [Proc -> BOOLEAN]
    /\ ret \in {<<>>} \cup Proc \X Calls \X BOOLEAN
    /\ view \in [Proc -> EntryStates]

(* LockHolders: the callers whose reference into the UnsafeCell is live.     *)
LockHolders == {p \in Proc : pc[p] \in {"body", "unlock"}}

(* SlabExclusive: only one caller at a time works on the slab, and the       *)
(* LOCKED bit is set exactly then; Deref and DerefMut of Lock hand out       *)
(* unsynchronised references on the strength of it.                          *)
SlabExclusive ==
    /\ \A p, q \in LockHolders : p = q
    /\ flag.locked <=> LockHolders # {}

(* KeysOwned: the key a blocked future holds always designates its own       *)
(* entry, though slab keys are recycled: no remove or cancel ever hits the   *)
(* entry of another operation, and no entry outlives its future.             *)
KeysOwned ==
    /\ \A p \in Proc : key[p] # NoKey =>
          key[p] \in DOMAIN entries /\ entries[key[p]] \in {p, None}
    /\ \A p, q \in Proc : p # q /\ key[p] # NoKey => key[p] # key[q]
    /\ \A k \in DOMAIN entries : \E p \in Proc : key[p] = k

(* ImplementsWakerSet: every call takes effect in one step, at its early     *)
(* return or when it unlocks, as WakerSetAbs says.                           *)
WS == INSTANCE WakerSetAbs WITH ws <- view
ImplementsWakerSet == WS!Spec
=============================================================================
