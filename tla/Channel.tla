------------------------------ MODULE Channel ------------------------------
(***************************************************************************)
(* sync::channel (src/sync/channel.rs): Sender and Receiver handles, their *)
(* blocking operations and the three waker sets, around the bounded queue  *)
(* that ChannelRing implements.                                            *)
(*                                                                         *)
(* Every handle of Sender runs one send() at a time, every handle of       *)
(* Receiver one recv() or one poll_next() of its Stream side.  One action  *)
(* is one call on the queue or on a waker set, or one atomic access; the   *)
(* notifications that try_send, try_recv and disconnect make afterwards    *)
(* are steps of their own, and anything may happen in between.  Only the   *)
(* number of queued messages matters here: their order is ChannelRing's    *)
(* business.                                                               *)
(*                                                                         *)
(* A Receiver keeps its key in stream_wakers when a Next future is         *)
(* abandoned, and may then call recv() with that entry still in the set.   *)
(***************************************************************************)
EXTENDS Naturals, FiniteSets, WakerSetOps, ChannelEnds

CONSTANTS
    FirstSender, FirstReceiver  \* the two that channel() returns

ASSUME HandleAssumption ==
    /\ FirstSender \in Sender /\ FirstReceiver \in Receiver
    /\ Sender \cap Receiver = {}
    /\ IsFiniteSet(Sender) /\ IsFiniteSet(Receiver)

VARIABLES
    len,             \* how many messages the ring holds
    marked,          \* the mark bit of Channel.tail: disconnected
    send_wakers, recv_wakers, stream_wakers,
    sender_count, receiver_count,
    pc,              \* the step each handle's operation is at; "gone": no such handle
    op               \* "send", "recv" or "stream"

sets   == <<send_wakers, recv_wakers, stream_wakers>>
counts == <<sender_count, receiver_count>>
vars   == <<len, marked, sets, counts, pc, op>>

Handle == Sender \cup Receiver
Polling == {"remove", "try", "insert", "recheck", "recheck_mark"}
Notifying == {"notify_recv", "notify_streams", "notify_send"}
Disconnecting == {"disconnect", "all_send", "all_recv", "all_stream"}
PC == Polling \cup Notifying \cup Disconnecting \cup {"idle", "pending", "drop", "gone"}

TypeOK ==
    /\ len \in 0 .. Cap
    /\ marked \in BOOLEAN
    /\ send_wakers \in [Sender -> EntryStates]
    /\ recv_wakers \in [Receiver -> EntryStates]
    /\ stream_wakers \in [Receiver -> EntryStates]
    /\ sender_count \in 0 .. Cardinality(Sender)
    /\ receiver_count \in 0 .. Cardinality(Receiver)
    /\ pc \in [Handle -> PC]
    /\ op \in [Handle -> {"send", "recv", "stream"}]

FirstOp(h) == IF h \in Sender THEN "send" ELSE "recv"

(* channel(cap) *)
Init ==
    /\ len = 0
    /\ marked = FALSE
    /\ send_wakers = NewWakerSet(Sender)
    /\ recv_wakers = NewWakerSet(Receiver)
    /\ stream_wakers = NewWakerSet(Receiver)
    /\ sender_count = 1
    /\ receiver_count = 1
    /\ pc = [h \in Handle |-> IF h \in {FirstSender, FirstReceiver} THEN "idle" ELSE "gone"]
    /\ op = [h \in Handle |-> FirstOp(h)]

Goto(h, label) == pc' = [pc EXCEPT ![h] = label]
Finish(h) == Goto(h, "idle") /\ op' = [op EXCEPT ![h] = FirstOp(h)]

(* The entry of h's current operation, and one step Op on its waker set.    *)
Entry(h) ==
    CASE op[h] = "send" -> send_wakers[h]
      [] op[h] = "recv" -> recv_wakers[h]
      [] op[h] = "stream" -> stream_wakers[h]

OnOwnWakers(h, Op(_)) ==
    \/ op[h] = "send" /\ send_wakers' \in Op(send_wakers) /\ UNCHANGED <<recv_wakers, stream_wakers>>
    \/ op[h] = "recv" /\ recv_wakers' \in Op(recv_wakers) /\ UNCHANGED <<send_wakers, stream_wakers>>
    \/ op[h] = "stream" /\ stream_wakers' \in Op(stream_wakers) /\ UNCHANGED <<send_wakers, recv_wakers>>

-----------------------------------------------------------------------------
(* One poll of SendFuture, RecvFuture or Receiver as a Stream.              *)

(* send(), recv(), or poll_next(): a new future, or the stream's own key.   *)
Start(h, o) ==
    /\ pc[h] = "idle"
    /\ o = "send" <=> h \in Sender
    /\ op' = [op EXCEPT ![h] = o]
    /\ Goto(h, "remove")
    /\ UNCHANGED <<len, marked, sets, counts>>

Poll(h) ==
    /\ pc[h] = "pending"
    /\ Goto(h, "remove")
    /\ UNCHANGED <<len, marked, sets, counts, op>>

(* "If the current task is in the set, remove it." *)
RemoveEntry(h) ==
    /\ pc[h] = "remove"
    /\ OnOwnWakers(h, LAMBDA ws : {Remove(ws, h)})
    /\ Goto(h, "try")
    /\ UNCHANGED <<len, marked, counts, op>>

(* try_send(): room, or full and disconnected (blocked for ever, without an *)
(* entry), or full.                                                         *)
TrySend(s) ==
    /\ pc[s] = "try" /\ op[s] = "send"
    /\ \/ len < Cap /\ len' = len + 1 /\ Goto(s, "notify_recv")
       \/ len = Cap /\ marked /\ Goto(s, "pending") /\ UNCHANGED len
       \/ len = Cap /\ ~marked /\ Goto(s, "insert") /\ UNCHANGED len
    /\ UNCHANGED <<marked, sets, counts, op>>

(* try_recv(): a message, or disconnected (recv() returns None), or empty.  *)
TryRecv(r) ==
    /\ pc[r] = "try" /\ op[r] # "send"
    /\ \/ len > 0 /\ len' = len - 1 /\ Goto(r, "notify_send") /\ UNCHANGED op
       \/ len = 0 /\ marked /\ Finish(r) /\ UNCHANGED len
       \/ len = 0 /\ ~marked /\ Goto(r, "insert") /\ UNCHANGED <<len, op>>
    /\ UNCHANGED <<marked, sets, counts>>

InsertEntry(h) ==
    /\ pc[h] = "insert"
    /\ OnOwnWakers(h, LAMBDA ws : {Insert(ws, h)})
    /\ Goto(h, "recheck")
    /\ UNCHANGED <<len, marked, counts, op>>

(* is_full() or is_empty(), then is_disconnected(): two loads.              *)
Recheck(h) ==
    /\ pc[h] = "recheck"
    /\ Goto(h, IF len = (IF op[h] = "send" THEN Cap ELSE 0) THEN "recheck_mark" ELSE "remove")
    /\ UNCHANGED <<len, marked, sets, counts, op>>

(* Mutant: the mark is not looked at again. *)
RecheckMarkNot(h) ==
    /\ pc[h] = "recheck_mark"
    /\ Goto(h, "pending")
    /\ UNCHANGED <<len, marked, sets, counts, op>>

RecheckMark(h) ==
    /\ pc[h] = "recheck_mark"
    /\ Goto(h, IF marked THEN "remove" ELSE "pending")
    /\ UNCHANGED <<len, marked, sets, counts, op>>

(* Mutants: notify_any where every message needs a receiver of its own and  *)
(* every free slot a sender of its own; notify_one for the streams.         *)
NotifyRecvAny(s) ==
    /\ pc[s] = "notify_recv"
    /\ recv_wakers' \in NotifyAny(recv_wakers)
    /\ Goto(s, "notify_streams")
    /\ UNCHANGED <<len, marked, send_wakers, stream_wakers, counts, op>>

NotifySendAny(r) ==
    /\ pc[r] = "notify_send"
    /\ send_wakers' \in NotifyAny(send_wakers)
    /\ Finish(r)
    /\ UNCHANGED <<len, marked, recv_wakers, stream_wakers, counts>>

NotifyStreamsOne(s) ==
    /\ pc[s] = "notify_streams"
    /\ stream_wakers' \in NotifyOne(stream_wakers)
    /\ Finish(s)
    /\ UNCHANGED <<len, marked, send_wakers, recv_wakers, counts>>

(* The end of try_send: "wake a blocked receive operation", "wake all       *)
(* blocked streams"; the end of try_recv: "wake a blocked send operation".  *)
NotifyRecv(s) ==
    /\ pc[s] = "notify_recv"
    /\ recv_wakers' \in NotifyOne(recv_wakers)
    /\ Goto(s, "notify_streams")
    /\ UNCHANGED <<len, marked, send_wakers, stream_wakers, counts, op>>

NotifyStreams(s) ==
    /\ pc[s] = "notify_streams"
    /\ stream_wakers' = NotifyAll(stream_wakers)
    /\ Finish(s)
    /\ UNCHANGED <<len, marked, send_wakers, recv_wakers, counts>>

NotifySend(r) ==
    /\ pc[r] = "notify_send"
    /\ send_wakers' \in NotifyOne(send_wakers)
    /\ Finish(r)
    /\ UNCHANGED <<len, marked, recv_wakers, stream_wakers, counts>>

(* Mutant: the notification of a dropped future is not passed on. *)
DropFutureForgets(h) ==
    /\ pc[h] = "pending"
    /\ IF op[h] # "stream" /\ Entry(h) # "absent"
         THEN OnOwnWakers(h, LAMBDA ws : {Remove(ws, h)}) ELSE UNCHANGED sets
    /\ Finish(h)
    /\ UNCHANGED <<len, marked, counts>>

(* Drop for SendFuture and RecvFuture: cancel the entry, if there is one.   *)
(* A Next future has no Drop: the Receiver keeps its key.                   *)
DropFuture(h) ==
    /\ pc[h] = "pending"
    /\ IF op[h] # "stream" /\ Entry(h) # "absent"
         THEN OnOwnWakers(h, LAMBDA ws : Cancel(ws, h)) ELSE UNCHANGED sets
    /\ Finish(h)
    /\ UNCHANGED <<len, marked, counts>>

-----------------------------------------------------------------------------
(* Clone for Sender and Receiver. *)
CloneSender(s, new) ==
    /\ pc[s] \notin {"gone", "drop"} \cup Disconnecting /\ pc[new] = "gone"
    /\ sender_count' = sender_count + 1
    /\ Goto(new, "idle")
    /\ UNCHANGED <<len, marked, sets, receiver_count, op>>

CloneReceiver(r, new) ==
    /\ pc[r] \notin {"gone", "drop"} \cup Disconnecting /\ pc[new] = "gone"
    /\ receiver_count' = receiver_count + 1
    /\ Goto(new, "idle")
    /\ UNCHANGED <<len, marked, sets, sender_count, op>>

(* Drop for Receiver starts by cancelling the stream's entry.               *)
DropReceiver(r) ==
    /\ pc[r] = "idle"
    /\ IF stream_wakers[r] # "absent" THEN stream_wakers' \in Cancel(stream_wakers, r)
                                      ELSE UNCHANGED stream_wakers
    /\ Goto(r, "drop")
    /\ UNCHANGED <<len, marked, send_wakers, recv_wakers, counts, op>>

(* fetch_sub of the count; the last handle of its side disconnects.         *)
DropSender(s) ==
    /\ pc[s] = "idle"
    /\ sender_count' = sender_count - 1
    /\ Goto(s, IF sender_count = 1 THEN "disconnect" ELSE "gone")
    /\ UNCHANGED <<len, marked, sets, receiver_count, op>>

DropReceiverCount(r) ==
    /\ pc[r] = "drop"
    /\ receiver_count' = receiver_count - 1
    /\ Goto(r, IF receiver_count = 1 THEN "disconnect" ELSE "gone")
    /\ UNCHANGED <<len, marked, sets, sender_count, op>>

(* disconnect(): set the mark bit; whoever sets it first wakes everyone.    *)
Disconnect(h) ==
    /\ pc[h] = "disconnect"
    /\ marked' = TRUE
    /\ Goto(h, IF marked THEN "gone" ELSE "all_send")
    /\ UNCHANGED <<len, sets, counts, op>>

NotifyAllSends(h) ==
    /\ pc[h] = "all_send"
    /\ send_wakers' = NotifyAll(send_wakers)
    /\ Goto(h, "all_recv")
    /\ UNCHANGED <<len, marked, recv_wakers, stream_wakers, counts, op>>

NotifyAllRecvs(h) ==
    /\ pc[h] = "all_recv"
    /\ recv_wakers' = NotifyAll(recv_wakers)
    /\ Goto(h, "all_stream")
    /\ UNCHANGED <<len, marked, send_wakers, stream_wakers, counts, op>>

NotifyAllStreams(h) ==
    /\ pc[h] = "all_stream"
    /\ stream_wakers' = NotifyAll(stream_wakers)
    /\ Goto(h, "gone")
    /\ UNCHANGED <<len, marked, send_wakers, recv_wakers, counts, op>>

-----------------------------------------------------------------------------
Running(h) ==
    \/ RemoveEntry(h) \/ TrySend(h) \/ TryRecv(h) \/ InsertEntry(h) \/ Recheck(h)
    \/ RecheckMark(h) \/ NotifyRecv(h) \/ NotifyStreams(h) \/ NotifySend(h)
    \/ DropReceiverCount(h) \/ Disconnect(h)
    \/ NotifyAllSends(h) \/ NotifyAllRecvs(h) \/ NotifyAllStreams(h)

Deciding(h) == Poll(h) \/ DropFuture(h) \/ \E o \in {"send", "recv", "stream"} : Start(h, o)

Next ==
    \/ \E h \in Handle : Running(h) \/ Deciding(h)
    \/ \E s \in Sender : DropSender(s) \/ \E new \in Sender : CloneSender(s, new)
    \/ \E r \in Receiver : DropReceiver(r) \/ \E new \in Receiver : CloneReceiver(r, new)

Spec == Init /\ [][Next]_vars

(* Threads go on; a task is polled once its waker has been called.          *)
WokenPoll(h) == Entry(h) = "notified" /\ Poll(h)
Fairness == \A h \in Handle : WF_vars(Running(h)) /\ WF_vars(WokenPoll(h))

-----------------------------------------------------------------------------
(* Handles whose future has returned Pending and has not been woken since.  *)
Blocked(o) == {h \in Handle : pc[h] = "pending" /\ op[h] = o /\ Entry(h) = "waiting"}
At(labels) == {h \in Handle : pc[h] \in labels}
InPoll(o)  == {h \in At(Polling) : op[h] = o}

(* NoSenderStranded: while there is room, a blocked send() has somebody on   *)
(* the way: a receiver about to notify, a woken send(), or one in its poll.  *)
NoSenderStranded ==
    len < Cap /\ Blocked("send") # {}
        => At({"notify_send"}) \cup InPoll("send") \cup Notified(send_wakers) # {}

(* NoReceiverStranded: while there is a message, a blocked recv() has        *)
(* somebody on the way, though a stream or another recv() may take messages  *)
(* that were announced to it, and woken recv() futures may be dropped.       *)
NoReceiverStranded ==
    len > 0 /\ Blocked("recv") # {}
        => At({"notify_recv"}) \cup InPoll("recv") \cup Notified(recv_wakers) # {}

(* NoStreamStranded: a blocked stream sleeps beside a queued message only    *)
(* until the sender in the middle of try_send wakes all streams.             *)
NoStreamStranded ==
    len > 0 /\ Blocked("stream") # {} => At({"notify_recv", "notify_streams"}) # {}

(* DisconnectIsHeard: after the last handle of a side has set the mark, an   *)
(* operation sleeps only until disconnect() reaches its waker set.           *)
DisconnectIsHeard ==
    marked => /\ Blocked("send") # {} => At({"all_send"}) # {}
              /\ Blocked("recv") # {} => At({"all_send", "all_recv"}) # {}
              /\ Blocked("stream") # {} => At(Disconnecting) # {}

(* OperationsServed: messages do not wait in front of blocked receivers,     *)
(* room does not wait in front of blocked senders, and a disconnected        *)
(* channel leaves nobody asleep in a waker set.                              *)
OperationsServed ==
    /\ (len > 0 /\ Blocked("recv") # {}) ~> (len = 0 \/ Blocked("recv") = {})
    /\ (len < Cap /\ Blocked("send") # {}) ~> (len = Cap \/ Blocked("send") = {})
    /\ \A h \in Handle : (marked /\ pc[h] = "pending" /\ Entry(h) # "absent") ~> pc[h] # "pending"
=============================================================================
