---------------------------- MODULE WakerSetAbs ----------------------------
(***************************************************************************)
(* The abstract waker set: every public call of sync::WakerSet happens in  *)
(* one step, as the operators of WakerSetOps say, and returns whether it   *)
(* woke an operation.  Mutex, RwLock and Channel are built on this.        *)
(***************************************************************************)
EXTENDS WakerSetOps

CONSTANT Proc   \* callers; a caller is also the operation it may register

VARIABLES
    ws,    \* the waker set
    ret    \* the last call: by whom, which, and whether it woke an operation

vars == <<ws, ret>>

Init ==
    /\ ws = NewWakerSet(Proc)
    /\ ret = <<>>

Returns(p, call) == ret' = <<p, call, Woke(ws, ws')>>

CallInsert(p) == ws[p] = "absent" /\ ws' = Insert(ws, p) /\ Returns(p, "insert")
CallRemove(p) == ws[p] # "absent" /\ ws' = Remove(ws, p) /\ Returns(p, "remove")

CallCancel(p) ==
    /\ ws[p] # "absent"
    /\ ws' \in Cancel(ws, p)
    /\ Returns(p, "cancel")

CallNotifyAny(p) == ws' \in NotifyAny(ws) /\ Returns(p, "notify_any")
CallNotifyOne(p) == ws' \in NotifyOne(ws) /\ Returns(p, "notify_one")
CallNotifyAll(p) == ws' = NotifyAll(ws) /\ Returns(p, "notify_all")

Next ==
    \E p \in Proc :
        \/ CallInsert(p) \/ CallRemove(p) \/ CallCancel(p)
        \/ CallNotifyAny(p) \/ CallNotifyOne(p) \/ CallNotifyAll(p)

Spec == Init /\ [][Next]_vars
=============================================================================
