---------------------------- MODULE WakerSetOps ----------------------------
(***************************************************************************)
(* What sync::WakerSet (src/sync/waker_set.rs) promises to the primitives  *)
(* built on it, as operators on one value.  A waker set ws maps every      *)
(* operation that may block on it to the state of its slab entry:          *)
(*                                                                         *)
(*   "absent"    no entry (opt_key is None in the operation's future)      *)
(*   "waiting"   entry Some(waker): blocked, a notification would wake it  *)
(*   "notified"  entry None: waker taken and woken, entry not removed yet  *)
(*                                                                         *)
(* A call that may choose which entry to wake is the set of the values the *)
(* waker set can have after it: slab keys are recycled, so the order in    *)
(* which the entries are visited is any order.  Module WakerSetLock shows  *)
(* that the code's flag word, spin lock and slab implement these calls as  *)
(* atomic steps.                                                           *)
(***************************************************************************)

EntryStates == {"absent", "waiting", "notified"}

Waiting(ws)  == {o \in DOMAIN ws : ws[o] = "waiting"}
Notified(ws) == {o \in DOMAIN ws : ws[o] = "notified"}

(* WakerSet::new *)
NewWakerSet(Ops) == [o \in Ops |-> "absent"]

(* insert(cx): the entry starts out notifiable. *)
Insert(ws, o) == [ws EXCEPT ![o] = "waiting"]

(* remove(key): the entry goes, whether it has been notified or not. *)
Remove(ws, o) == [ws EXCEPT ![o] = "absent"]

(* opt_waker.take() followed by w.wake() on the entry of o. *)
Wake(ws, o) == [ws EXCEPT ![o] = "notified"]

(* notify_one(): one more waiting operation is woken, if there is one. *)
NotifyOne(ws) ==
    IF Waiting(ws) = {} THEN {ws} ELSE {Wake(ws, o) : o \in Waiting(ws)}

(* notify_any(): nothing is woken only if an operation has been notified    *)
(* already or none is waiting.  The locked part looks at the first entry    *)
(* only, so it may also wake a second operation.                            *)
NotifyAny(ws) ==
    {Wake(ws, o) : o \in Waiting(ws)}
      \cup (IF Notified(ws) # {} \/ Waiting(ws) = {} THEN {ws} ELSE {})

(* notify_all(): every waiting operation is woken. *)
NotifyAll(ws) ==
    [o \in DOMAIN ws |-> IF ws[o] = "waiting" THEN "notified" ELSE ws[o]]

(* cancel(key): a notified operation that goes away passes its              *)
(* notification on to one that is still waiting.                            *)
Cancel(ws, o) ==
    IF ws[o] = "notified" THEN NotifyOne(Remove(ws, o)) ELSE {Remove(ws, o)}

(* The Boolean the notifying calls return: did a waker get taken?           *)
Woke(before, after) == Notified(after) \ Notified(before) # {}
=============================================================================
