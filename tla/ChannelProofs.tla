--------------------------- MODULE ChannelProofs ---------------------------
(***************************************************************************)
(* Proofs about sync::channel: the blocking operations (module Channel)    *)
(* and then the ring of slots below them (module ChannelRing).             *)
(*                                                                         *)
(* No operation on a channel is left asleep beside what it is waiting for, *)
(* for any capacity and any finite number of handles.                      *)
(*                                                                         *)
(* NoSenderStranded and NoReceiverStranded are not inductive: a woken      *)
(* send() may take one of several free slots and leave the rest to a       *)
(* blocked send() that nobody is going to wake.  What the code keeps up is *)
(* a count: while anybody is blocked, every free slot has a credit of its  *)
(* own, a receiver about to notify or a send() that is on its way to its   *)
(* next try_send(), and likewise every message for recv().                 *)
(*                                                                         *)
(* The ring of slots is a first-in first-out queue, on which two threads   *)
(* never touch a slot at once, for any capacity, any threads and any       *)
(* number of messages, as long as nobody is lapped: see the second part.   *)
(***************************************************************************)
EXTENDS Channel, ChannelRing, WakerSetFacts, FiniteSetTheorems, SequenceTheorems, TLAPS

(* An operation whose entry no later notification may be allowed to miss:   *)
(* it has rechecked the queue, or sleeps.                                   *)
Committed == {"recheck_mark", "pending"}
HasEntry  == {"remove", "recheck", "recheck_mark", "pending"}

(* The handles that the two reference counts count.                         *)
Live(S, p) == {h \in S : p[h] \notin {"gone"} \cup Disconnecting}

HandlesFit ==
    /\ \A h \in Handle : op[h] = "send" <=> h \in Sender
    /\ \A h \in Handle : pc[h] \in {"notify_recv", "notify_streams"} => h \in Sender
    /\ \A h \in Handle : pc[h] \in {"notify_send", "drop"} => h \in Receiver

CountsExact ==
    /\ sender_count = Cardinality(Live(Sender, pc))
    /\ receiver_count = Cardinality(Live(Receiver, pc))

EntriesFit ==
    /\ \A s \in Sender : send_wakers[s] # "absent" => pc[s] \in HasEntry
    /\ \A r \in Receiver : recv_wakers[r] # "absent" => op[r] = "recv" /\ pc[r] \in HasEntry

(* Who waits for room, and who stands for a free slot.                      *)
SendDemand == {s \in Sender : send_wakers[s] = "waiting" /\ pc[s] \in Committed}
SendCredit ==
    {h \in Handle : \/ pc[h] = "notify_send"
                    \/ h \in Sender /\ \/ send_wakers[h] = "notified"
                                       \/ pc[h] = "try"
                                       \/ pc[h] = "remove" /\ send_wakers[h] # "waiting"}
RoomIsCovered == SendDemand # {} => Cap <= len + Cardinality(SendCredit)

(* Who waits in recv() for a message, and who stands for one.               *)
RecvDemand == {r \in Receiver : recv_wakers[r] = "waiting" /\ pc[r] \in Committed}
RecvCredit ==
    {h \in Handle : \/ pc[h] = "notify_recv"
                    \/ h \in Receiver /\ \/ recv_wakers[h] = "notified"
                                         \/ op[h] = "recv" /\ pc[h] = "try"
                                         \/ /\ op[h] = "recv" /\ pc[h] = "remove"
                                            /\ recv_wakers[h] # "waiting"}
MessagesAreCovered == RecvDemand # {} => len <= Cardinality(RecvCredit)

StreamDemand ==
    {r \in Receiver : op[r] = "stream" /\ stream_wakers[r] = "waiting" /\ pc[r] \in Committed}
StreamsAreCovered ==
    len > 0 /\ StreamDemand # {} => \E h \in Handle : pc[h] \in {"notify_recv", "notify_streams"}

(* Once the mark is set, somebody sleeps in a set only until that set is     *)
(* reached.                                                                 *)
MarkIsSpread ==
    marked =>
        /\ (\E s \in Sender : pc[s] = "pending" /\ send_wakers[s] = "waiting")
             => \E h \in Handle : pc[h] = "all_send"
        /\ (\E r \in Receiver : pc[r] = "pending" /\ recv_wakers[r] = "waiting")
             => \E h \in Handle : pc[h] \in {"all_send", "all_recv"}
        /\ (\E r \in Receiver : pc[r] = "pending" /\ op[r] = "stream" /\ stream_wakers[r] = "waiting")
             => \E h \in Handle : pc[h] \in {"all_send", "all_recv", "all_stream"}

ChannelInv ==
    /\ TypeOK /\ HandlesFit /\ CountsExact /\ EntriesFit
    /\ RoomIsCovered /\ MessagesAreCovered /\ StreamsAreCovered /\ MarkIsSpread

-----------------------------------------------------------------------------
(* What a step does to the handles: it moves one of them.                   *)

Moved(p, h, to) == [p EXCEPT ![h] = to]

(* LiveFinite: the handles that are counted are finitely many.              *)
LEMMA LiveFinite ==
    ASSUME NEW S, IsFiniteSet(S), NEW p
    PROVE  /\ IsFiniteSet(Live(S, p)) /\ Cardinality(Live(S, p)) \in Nat
           /\ Cardinality(S) \in Nat /\ Cardinality(Live(S, p)) <= Cardinality(S)
  <1>1. Live(S, p) \in SUBSET S
    BY DEF Live
  <1>2. QED
    BY <1>1, FS_Subset, FS_CardinalityType

(* LiveMoves: what the move of one handle does to the number of live ones.  *)
LEMMA LiveMoves ==
    ASSUME NEW S, IsFiniteSet(S), S \subseteq Handle, NEW p \in [Handle -> PC],
           NEW h \in Handle, NEW to
    PROVE  /\ h \in Live(S, p) /\ to \in {"gone"} \cup Disconnecting =>
                 /\ Cardinality(Live(S, Moved(p, h, to))) = Cardinality(Live(S, p)) - 1
                 /\ Cardinality(Live(S, p)) > 0
           /\ h \in S \ Live(S, p) /\ to \notin {"gone"} \cup Disconnecting =>
                 Cardinality(Live(S, Moved(p, h, to))) = Cardinality(Live(S, p)) + 1
           /\ h \notin S \/ (h \in Live(S, p) <=> to \notin {"gone"} \cup Disconnecting) =>
                 Cardinality(Live(S, Moved(p, h, to))) = Cardinality(Live(S, p))
  <1>1. IsFiniteSet(Live(S, p)) /\ Cardinality(Live(S, p)) \in Nat
    BY LiveFinite
  <1>2. ASSUME h \in Live(S, p), to \in {"gone"} \cup Disconnecting
        PROVE  /\ Cardinality(Live(S, Moved(p, h, to))) = Cardinality(Live(S, p)) - 1
               /\ Cardinality(Live(S, p)) > 0
    <2>1. Live(S, Moved(p, h, to)) = Live(S, p) \ {h}
      BY <1>2 DEF Live, Moved
    <2>2. Cardinality(Live(S, p) \ {h}) = Cardinality(Live(S, p)) - 1
      BY <1>1, <1>2, FS_RemoveElement
    <2>3. Cardinality(Live(S, p)) # 0
      BY <1>1, <1>2, FS_EmptySet
    <2>4. QED
      BY <1>1, <2>1, <2>2, <2>3
  <1>3. ASSUME h \in S \ Live(S, p), to \notin {"gone"} \cup Disconnecting
        PROVE  Cardinality(Live(S, Moved(p, h, to))) = Cardinality(Live(S, p)) + 1
    <2>1. Live(S, Moved(p, h, to)) = Live(S, p) \cup {h}
      BY <1>3 DEF Live, Moved
    <2>2. QED
      BY <1>1, <1>3, <2>1, FS_AddElement
  <1>4. ASSUME h \notin S \/ (h \in Live(S, p) <=> to \notin {"gone"} \cup Disconnecting)
        PROVE  Cardinality(Live(S, Moved(p, h, to))) = Cardinality(Live(S, p))
    <2>1. Live(S, Moved(p, h, to)) = Live(S, p)
      BY <1>4 DEF Live, Moved
    <2>2. QED
      BY <2>1
  <1>5. QED
    BY <1>2, <1>3, <1>4

(* HandleMoves: every step moves one handle to a place it may be in.        *)
LEMMA HandleMoves ==
    ASSUME TypeOK, HandlesFit, Next
    PROVE  /\ pc' \in [Handle -> PC] /\ op' \in [Handle -> {"send", "recv", "stream"}]
           /\ len' \in 0 .. Cap /\ marked' \in BOOLEAN
           /\ HandlesFit'
  <1> USE CapAssumption, HandleAssumption DEF TypeOK, HandlesFit, Goto, Finish, FirstOp, Handle, PC,
          Polling, Notifying, Disconnecting
  <1>1. ASSUME NEW h \in Handle, RemoveEntry(h) \/ InsertEntry(h)
        PROVE  /\ pc' \in [Handle -> PC] /\ UNCHANGED <<op, len, marked>>
               /\ HandlesFit'
    BY <1>1 DEF RemoveEntry, InsertEntry
  <1>2. ASSUME NEW h \in Handle, TrySend(h) \/ TryRecv(h)
        PROVE  /\ pc' \in [Handle -> PC] /\ op' \in [Handle -> {"send", "recv", "stream"}]
               /\ len' \in 0 .. Cap /\ UNCHANGED marked
               /\ HandlesFit'
    <2>1. CASE TrySend(h)
      BY <2>1 DEF TrySend
    <2>2. CASE TryRecv(h)
      BY <2>2 DEF TryRecv
    <2>3. QED
      BY <1>2, <2>1, <2>2
  <1>3. ASSUME NEW h \in Handle, Recheck(h) \/ RecheckMark(h) \/ Poll(h)
        PROVE  /\ pc' \in [Handle -> PC] /\ UNCHANGED <<op, len, marked>>
               /\ HandlesFit'
    BY <1>3 DEF Recheck, RecheckMark, Poll
  <1>4. ASSUME NEW h \in Handle,
               NotifyRecv(h) \/ NotifyStreams(h) \/ NotifySend(h) \/ DropFuture(h)
        PROVE  /\ pc' \in [Handle -> PC] /\ op' \in [Handle -> {"send", "recv", "stream"}]
               /\ UNCHANGED <<len, marked>>
               /\ HandlesFit'
    BY <1>4 DEF NotifyRecv, NotifyStreams, NotifySend, DropFuture
  <1>5. ASSUME NEW h \in Handle, DropReceiverCount(h) \/ Disconnect(h)
               \/ NotifyAllSends(h) \/ NotifyAllRecvs(h) \/ NotifyAllStreams(h)
        PROVE  /\ pc' \in [Handle -> PC] /\ UNCHANGED <<op, len>> /\ marked' \in BOOLEAN
               /\ HandlesFit'
    <2>1. CASE DropReceiverCount(h)
      BY <2>1 DEF DropReceiverCount
    <2>2. CASE Disconnect(h)
      BY <2>2 DEF Disconnect
    <2>3. CASE NotifyAllSends(h) \/ NotifyAllRecvs(h) \/ NotifyAllStreams(h)
      BY <2>3 DEF NotifyAllSends, NotifyAllRecvs, NotifyAllStreams
    <2>4. QED
      BY <1>5, <2>1, <2>2, <2>3
  <1>6. ASSUME NEW h \in Handle, NEW o \in {"send", "recv", "stream"}, Start(h, o)
        PROVE  /\ pc' \in [Handle -> PC] /\ op' \in [Handle -> {"send", "recv", "stream"}]
               /\ UNCHANGED <<len, marked>>
               /\ HandlesFit'
    BY <1>6 DEF Start
  <1>7. ASSUME NEW s \in Sender, NEW new \in Sender, DropSender(s) \/ CloneSender(s, new)
        PROVE  /\ pc' \in [Handle -> PC] /\ UNCHANGED <<op, len, marked>>
               /\ HandlesFit'
    BY <1>7 DEF DropSender, CloneSender
  <1>8. ASSUME NEW r \in Receiver, NEW new \in Receiver, DropReceiver(r) \/ CloneReceiver(r, new)
        PROVE  /\ pc' \in [Handle -> PC] /\ UNCHANGED <<op, len, marked>>
               /\ HandlesFit'
    BY <1>8 DEF DropReceiver, CloneReceiver
  <1>9. QED
    BY <1>1, <1>2, <1>3, <1>4, <1>5, <1>6, <1>7, <1>8 DEF Next, Running, Deciding

(* EntriesStep: a step keeps every entry in the hands of an operation that   *)
(* will remove it.                                                          *)
WakersTyped ==
    /\ send_wakers \in [Sender -> EntryStates]
    /\ recv_wakers \in [Receiver -> EntryStates]
    /\ stream_wakers \in [Receiver -> EntryStates]

(* EntriesStep: an entry is in a set only while its operation runs.         *)
LEMMA EntriesStep ==
    ASSUME TypeOK, HandlesFit, EntriesFit, Next
    PROVE  WakersTyped' /\ EntriesFit'
  <1> USE HandleAssumption DEF TypeOK, WakersTyped, EntriesFit, Goto, Handle, HasEntry, sets
  <1>1. ASSUME NEW h \in Handle, RemoveEntry(h) PROVE WakersTyped' /\ EntriesFit'
    BY <1>1 DEF RemoveEntry, OnOwnWakers, Remove, EntryStates, HandlesFit
  <1>2. ASSUME NEW h \in Handle, InsertEntry(h) PROVE WakersTyped' /\ EntriesFit'
    BY <1>2 DEF InsertEntry, OnOwnWakers, Insert, EntryStates, HandlesFit
  <1>3. ASSUME NEW h \in Handle, DropFuture(h) PROVE WakersTyped' /\ EntriesFit'
    <2>1. CASE op[h] # "stream" /\ Entry(h) # "absent"
      <3>1. CASE op[h] = "send"
        <4>1. /\ h \in Sender /\ send_wakers' \in Cancel(send_wakers, h)
              /\ UNCHANGED <<recv_wakers, stream_wakers>>
          BY <1>3, <2>1, <3>1 DEF DropFuture, OnOwnWakers, HandlesFit
        <4>2. /\ send_wakers' \in [Sender -> EntryStates] /\ send_wakers'[h] = "absent"
              /\ \A s \in Sender \ {h} : send_wakers'[s] = "absent" <=> send_wakers[s] = "absent"
          BY <4>1, CancelFacts
        <4>3. QED
          BY <1>3, <4>1, <4>2 DEF DropFuture, Finish
      <3>2. CASE op[h] = "recv"
        <4>1. /\ h \in Receiver /\ recv_wakers' \in Cancel(recv_wakers, h)
              /\ UNCHANGED <<send_wakers, stream_wakers>>
          BY <1>3, <2>1, <3>2 DEF DropFuture, OnOwnWakers, HandlesFit
        <4>2. /\ recv_wakers' \in [Receiver -> EntryStates] /\ recv_wakers'[h] = "absent"
              /\ \A r \in Receiver \ {h} : recv_wakers'[r] = "absent" <=> recv_wakers[r] = "absent"
          BY <4>1, CancelFacts
        <4>3. QED
          BY <1>3, <4>1, <4>2 DEF DropFuture, Finish
      <3>3. QED
        BY <2>1, <3>1, <3>2
    <2>2. CASE ~(op[h] # "stream" /\ Entry(h) # "absent")
      BY <1>3, <2>2 DEF DropFuture, Finish, FirstOp, Entry, HandlesFit
    <2>3. QED
      BY <2>1, <2>2
  <1>4. ASSUME NEW h \in Handle, NotifyRecv(h) PROVE WakersTyped' /\ EntriesFit'
    <2>1. recv_wakers' \in NotifyOne(recv_wakers)
      BY <1>4 DEF NotifyRecv
    <2>2. /\ recv_wakers' \in [Receiver -> EntryStates]
          /\ \A r \in Receiver : recv_wakers'[r] = "absent" <=> recv_wakers[r] = "absent"
      BY <2>1, NotifyOneFacts
    <2>3. QED
      BY <1>4, <2>2 DEF NotifyRecv
  <1>5. ASSUME NEW h \in Handle, NotifySend(h) PROVE WakersTyped' /\ EntriesFit'
    <2>1. send_wakers' \in NotifyOne(send_wakers)
      BY <1>5 DEF NotifySend
    <2>2. /\ send_wakers' \in [Sender -> EntryStates]
          /\ \A s \in Sender : send_wakers'[s] = "absent" <=> send_wakers[s] = "absent"
      BY <2>1, NotifyOneFacts
    <2>3. QED
      BY <1>5, <2>2 DEF NotifySend, Finish, FirstOp
  <1>6. ASSUME NEW r \in Receiver, DropReceiver(r) PROVE WakersTyped' /\ EntriesFit'
    <2>1. stream_wakers' \in [Receiver -> EntryStates]
      BY <1>6, CancelFacts DEF DropReceiver
    <2>2. QED
      BY <1>6, <2>1 DEF DropReceiver
  <1>7. ASSUME NEW h \in Handle, NotifyStreams(h) \/ NotifyAllSends(h)
                                 \/ NotifyAllRecvs(h) \/ NotifyAllStreams(h)
        PROVE  WakersTyped' /\ EntriesFit'
    <2>1. CASE NotifyStreams(h)
      BY <2>1, NotifyAllFacts DEF NotifyStreams, Finish, FirstOp
    <2>2. CASE NotifyAllSends(h)
      BY <2>2, NotifyAllFacts DEF NotifyAllSends
    <2>3. CASE NotifyAllRecvs(h)
      BY <2>3, NotifyAllFacts DEF NotifyAllRecvs
    <2>4. CASE NotifyAllStreams(h)
      BY <2>4, NotifyAllFacts DEF NotifyAllStreams
    <2>5. QED
      BY <1>7, <2>1, <2>2, <2>3, <2>4
  <1>8. ASSUME NEW h \in Handle, TrySend(h) \/ TryRecv(h) \/ Recheck(h) \/ RecheckMark(h) \/ Poll(h)
        PROVE  WakersTyped' /\ EntriesFit'
    BY <1>8 DEF TrySend, TryRecv, Recheck, RecheckMark, Poll, Finish, FirstOp
  <1>9. ASSUME NEW h \in Handle, DropReceiverCount(h) \/ Disconnect(h) PROVE WakersTyped' /\ EntriesFit'
    BY <1>9 DEF DropReceiverCount, Disconnect
  <1>10. ASSUME NEW h \in Handle, NEW o \in {"send", "recv", "stream"}, Start(h, o)
         PROVE  WakersTyped' /\ EntriesFit'
    BY <1>10 DEF Start
  <1>11. ASSUME NEW s \in Sender, NEW new \in Sender, DropSender(s) \/ CloneSender(s, new)
         PROVE  WakersTyped' /\ EntriesFit'
    BY <1>11 DEF DropSender, CloneSender
  <1>12. ASSUME NEW r \in Receiver, NEW new \in Receiver, CloneReceiver(r, new)
         PROVE  WakersTyped' /\ EntriesFit'
    BY <1>12 DEF CloneReceiver
  <1>13. QED
    BY <1>1, <1>2, <1>3, <1>4, <1>5, <1>6, <1>7, <1>8, <1>9, <1>10, <1>11, <1>12
       DEF Next, Running, Deciding

(* CountsStep: the two reference counts stay exact.                         *)
LEMMA CountsStep ==
    ASSUME TypeOK, HandlesFit, CountsExact, Next
    PROVE  CountsExact'
  <1> DEFINE Dead == {"gone"} \cup Disconnecting
  <1>1. /\ IsFiniteSet(Sender) /\ Sender \subseteq Handle
        /\ IsFiniteSet(Receiver) /\ Receiver \subseteq Handle
        /\ Sender \cap Receiver = {}
        /\ pc \in [Handle -> PC]
    BY HandleAssumption DEF Handle, TypeOK
  <1>2. ASSUME NEW h \in Handle, NEW to, pc' = Moved(pc, h, to), UNCHANGED counts,
               pc[h] \in Dead <=> to \in Dead
        PROVE  CountsExact'
    <2>1. /\ h \notin Sender \/ (h \in Live(Sender, pc) <=> to \notin Dead)
          /\ h \notin Receiver \/ (h \in Live(Receiver, pc) <=> to \notin Dead)
      BY <1>2 DEF Live
    <2>2. /\ Cardinality(Live(Sender, pc')) = Cardinality(Live(Sender, pc))
          /\ Cardinality(Live(Receiver, pc')) = Cardinality(Live(Receiver, pc))
      BY <1>1, <1>2, <2>1, LiveMoves
    <2>3. QED
      BY <1>2, <2>2 DEF CountsExact, counts
  <1>3. ASSUME NEW h \in Handle,
               \/ RemoveEntry(h) \/ InsertEntry(h) \/ Poll(h) \/ NotifyRecv(h)
               \/ NotifyStreams(h) \/ NotifySend(h) \/ DropFuture(h)
               \/ NotifyAllSends(h) \/ NotifyAllRecvs(h) \/ NotifyAllStreams(h)
        PROVE  CountsExact'
    <2> USE DEF Disconnecting
    <2>1. \E to : /\ pc' = Moved(pc, h, to)
                  /\ pc[h] \in Dead <=> to \in Dead
      BY <1>3 DEF RemoveEntry, InsertEntry, Poll, NotifyRecv, NotifyStreams, NotifySend,
                  DropFuture, NotifyAllSends, NotifyAllRecvs, NotifyAllStreams, Goto, Finish, Moved
    <2>2. UNCHANGED counts
      BY <1>3 DEF RemoveEntry, InsertEntry, Poll, NotifyRecv, NotifyStreams, NotifySend,
                  DropFuture, NotifyAllSends, NotifyAllRecvs, NotifyAllStreams
    <2>3. QED
      BY <1>2, <2>1, <2>2
  <1>4. ASSUME NEW h \in Handle, Recheck(h) \/ RecheckMark(h) \/ Disconnect(h)
        PROVE  CountsExact'
    <2> USE DEF Disconnecting
    <2>1. \E to : /\ pc' = Moved(pc, h, to)
                  /\ pc[h] \in Dead <=> to \in Dead
      BY <1>4 DEF Recheck, RecheckMark, Disconnect, Goto, Moved
    <2>2. UNCHANGED counts
      BY <1>4 DEF Recheck, RecheckMark, Disconnect
    <2>3. QED
      BY <1>2, <2>1, <2>2
  <1>5. ASSUME NEW h \in Handle, TrySend(h) \/ TryRecv(h)
        PROVE  CountsExact'
    <2> USE DEF Disconnecting
    <2>1. \E to : /\ pc' = Moved(pc, h, to)
                  /\ pc[h] \in Dead <=> to \in Dead
      BY <1>5 DEF TrySend, TryRecv, Goto, Finish, Moved
    <2>2. UNCHANGED counts
      BY <1>5 DEF TrySend, TryRecv
    <2>3. QED
      BY <1>2, <2>1, <2>2
  <1>6. ASSUME NEW h \in Handle, NEW o \in {"send", "recv", "stream"}, Start(h, o)
        PROVE  CountsExact'
    <2>1. pc' = Moved(pc, h, "remove") /\ pc[h] = "idle" /\ UNCHANGED counts
      BY <1>6 DEF Start, Goto, Moved
    <2>2. QED
      BY <1>2, <2>1 DEF Disconnecting
  <1>7. ASSUME NEW r \in Receiver, DropReceiver(r)
        PROVE  CountsExact'
    <2>1. pc' = Moved(pc, r, "drop") /\ pc[r] = "idle" /\ UNCHANGED counts
      BY <1>7 DEF DropReceiver, Goto, Moved
    <2>2. QED
      BY <1>1, <1>2, <2>1 DEF Disconnecting
  <1>8. ASSUME NEW s \in Sender, DropSender(s)
        PROVE  CountsExact'
    <2>1. PICK to \in Dead : pc' = Moved(pc, s, to)
      BY <1>8 DEF DropSender, Goto, Moved, Disconnecting
    <2>2. s \in Live(Sender, pc) /\ s \notin Receiver
      BY <1>1, <1>8 DEF DropSender, Live, Disconnecting
    <2>3. /\ Cardinality(Live(Sender, pc')) = Cardinality(Live(Sender, pc)) - 1
          /\ Cardinality(Live(Receiver, pc')) = Cardinality(Live(Receiver, pc))
      BY <1>1, <2>1, <2>2, LiveMoves
    <2>4. QED
      BY <1>8, <2>3 DEF DropSender, CountsExact
  <1>9. ASSUME NEW r \in Handle, DropReceiverCount(r)
        PROVE  CountsExact'
    <2>1. PICK to \in Dead : pc' = Moved(pc, r, to)
      BY <1>9 DEF DropReceiverCount, Goto, Moved, Disconnecting
    <2>2. r \in Live(Receiver, pc) /\ r \notin Sender
      BY <1>1, <1>9 DEF DropReceiverCount, Live, Disconnecting, HandlesFit
    <2>3. /\ Cardinality(Live(Receiver, pc')) = Cardinality(Live(Receiver, pc)) - 1
          /\ Cardinality(Live(Sender, pc')) = Cardinality(Live(Sender, pc))
      BY <1>1, <2>1, <2>2, LiveMoves
    <2>4. QED
      BY <1>9, <2>3 DEF DropReceiverCount, CountsExact
  <1>10. ASSUME NEW s \in Sender, NEW new \in Sender, CloneSender(s, new)
         PROVE  CountsExact'
    <2>1. pc' = Moved(pc, new, "idle") /\ pc[new] = "gone"
      BY <1>10 DEF CloneSender, Goto, Moved
    <2>2. new \in Sender \ Live(Sender, pc) /\ new \notin Receiver
      BY <1>1, <2>1 DEF Live
    <2>3. "idle" \notin Dead
      BY DEF Disconnecting
    <2>4. /\ Cardinality(Live(Sender, pc')) = Cardinality(Live(Sender, pc)) + 1
          /\ Cardinality(Live(Receiver, pc')) = Cardinality(Live(Receiver, pc))
      BY <1>1, <2>1, <2>2, <2>3, LiveMoves
    <2>5. QED
      BY <1>10, <2>4 DEF CloneSender, CountsExact
  <1>11. ASSUME NEW r \in Receiver, NEW new \in Receiver, CloneReceiver(r, new)
         PROVE  CountsExact'
    <2>1. pc' = Moved(pc, new, "idle") /\ pc[new] = "gone"
      BY <1>11 DEF CloneReceiver, Goto, Moved
    <2>2. new \in Receiver \ Live(Receiver, pc) /\ new \notin Sender
      BY <1>1, <2>1 DEF Live
    <2>3. "idle" \notin Dead
      BY DEF Disconnecting
    <2>4. /\ Cardinality(Live(Receiver, pc')) = Cardinality(Live(Receiver, pc)) + 1
          /\ Cardinality(Live(Sender, pc')) = Cardinality(Live(Sender, pc))
      BY <1>1, <2>1, <2>2, <2>3, LiveMoves
    <2>5. QED
      BY <1>11, <2>4 DEF CloneReceiver, CountsExact
  <1>12. QED
    BY <1>3, <1>4, <1>5, <1>6, <1>7, <1>8, <1>9, <1>10, <1>11 DEF Next, Running, Deciding

(* CountsTyped: exact counts are within their bounds.                       *)
LEMMA CountsTyped ==
    ASSUME CountsExact
    PROVE  /\ sender_count \in 0 .. Cardinality(Sender)
           /\ receiver_count \in 0 .. Cardinality(Receiver)
  BY HandleAssumption, LiveFinite DEF CountsExact

-----------------------------------------------------------------------------
(* StreamsStep: a stream is not left asleep beside a message.  A message    *)
(* arrives together with a sender that will wake all streams, and a stream  *)
(* commits itself only when it has seen the queue empty.                    *)
LEMMA StreamsStep ==
    ASSUME TypeOK, HandlesFit, StreamsAreCovered, Next
    PROVE  StreamsAreCovered'
  <1> USE CapAssumption, HandleAssumption
      DEF TypeOK, StreamsAreCovered, StreamDemand, Committed, Handle, Goto, sets
  <1>1. ASSUME NEW h \in Handle, NotifyStreams(h) \/ NotifyAllStreams(h)
        PROVE  StreamsAreCovered'
    <2>1. stream_wakers' = NotifyAll(stream_wakers)
      BY <1>1 DEF NotifyStreams, NotifyAllStreams
    <2>2. \A r \in Receiver : stream_wakers'[r] # "waiting"
      BY <2>1, NotifyAllFacts
    <2>3. QED
      BY <2>2
  <1>2. ASSUME NEW h \in Handle, TrySend(h) \/ TryRecv(h)
        PROVE  StreamsAreCovered'
    <2>1. CASE TrySend(h)
      BY <2>1 DEF TrySend, HandlesFit
    <2>2. CASE TryRecv(h)
      BY <2>2 DEF TryRecv, Finish
    <2>3. QED
      BY <1>2, <2>1, <2>2
  <1>3. ASSUME NEW h \in Handle, Recheck(h)
        PROVE  StreamsAreCovered'
    <2>1. CASE op[h] = "stream" /\ len # 0
      BY <1>3, <2>1 DEF Recheck
    <2>2. CASE ~(op[h] = "stream" /\ len # 0)
      BY <1>3, <2>2 DEF Recheck
    <2>3. QED
      BY <2>1, <2>2
  <1>4. ASSUME NEW h \in Handle, RemoveEntry(h) \/ InsertEntry(h)
        PROVE  StreamsAreCovered'
    BY <1>4 DEF RemoveEntry, InsertEntry, OnOwnWakers, Remove, Insert, HandlesFit
  <1>5. ASSUME NEW h \in Handle, NotifyRecv(h) \/ NotifySend(h) \/ Poll(h) \/ RecheckMark(h)
        PROVE  StreamsAreCovered'
    BY <1>5 DEF NotifyRecv, NotifySend, Poll, RecheckMark, Finish
  <1>6. ASSUME NEW h \in Handle, DropFuture(h)
        PROVE  StreamsAreCovered'
    <2>1. stream_wakers' = stream_wakers
      BY <1>6 DEF DropFuture, OnOwnWakers
    <2>2. QED
      BY <1>6, <2>1 DEF DropFuture, Finish
  <1>7. ASSUME NEW h \in Handle, DropReceiverCount(h) \/ Disconnect(h)
                                 \/ NotifyAllSends(h) \/ NotifyAllRecvs(h)
        PROVE  StreamsAreCovered'
    BY <1>7 DEF DropReceiverCount, Disconnect, NotifyAllSends, NotifyAllRecvs
  <1>8. ASSUME NEW r \in Receiver, DropReceiver(r)
        PROVE  StreamsAreCovered'
    <2>1. \A u \in Receiver : stream_wakers'[u] = "waiting" => stream_wakers[u] = "waiting"
      BY <1>8, CancelFacts DEF DropReceiver
    <2>2. QED
      BY <1>8, <2>1 DEF DropReceiver
  <1>9. ASSUME NEW h \in Handle, NEW o \in {"send", "recv", "stream"}, Start(h, o)
        PROVE  StreamsAreCovered'
    BY <1>9 DEF Start
  <1>10. ASSUME NEW s \in Sender, NEW new \in Sender, DropSender(s) \/ CloneSender(s, new)
         PROVE  StreamsAreCovered'
    BY <1>10 DEF DropSender, CloneSender
  <1>11. ASSUME NEW r \in Receiver, NEW new \in Receiver, CloneReceiver(r, new)
         PROVE  StreamsAreCovered'
    BY <1>11 DEF CloneReceiver
  <1>12. QED
    BY <1>1, <1>2, <1>3, <1>4, <1>5, <1>6, <1>7, <1>8, <1>9, <1>10, <1>11
       DEF Next, Running, Deciding

(* MarkStep: nobody falls asleep once the mark is set, and whoever set it    *)
(* goes through the three sets in order.                                    *)
LEMMA MarkStep ==
    ASSUME TypeOK, HandlesFit, EntriesFit, MarkIsSpread, Next
    PROVE  MarkIsSpread'
  <1> USE HandleAssumption DEF TypeOK, MarkIsSpread, Handle, Goto, sets
  <1>1. ASSUME NEW h \in Handle, TrySend(h)
        PROVE  MarkIsSpread'
    BY <1>1 DEF TrySend, EntriesFit, HasEntry, HandlesFit
  <1>2. ASSUME NEW h \in Handle, Disconnect(h)
        PROVE  MarkIsSpread'
    <2>1. CASE marked
      BY <1>2, <2>1 DEF Disconnect
    <2>2. CASE ~marked
      BY <1>2, <2>2 DEF Disconnect
    <2>3. QED
      BY <2>1, <2>2
  <1>3. ASSUME NEW h \in Handle, NotifyAllSends(h)
        PROVE  MarkIsSpread'
    <2>1. \A s \in Sender : send_wakers'[s] # "waiting"
      BY <1>3, NotifyAllFacts DEF NotifyAllSends
    <2>2. QED
      BY <1>3, <2>1 DEF NotifyAllSends
  <1>4. ASSUME NEW h \in Handle, NotifyAllRecvs(h)
        PROVE  MarkIsSpread'
    <2>1. \A r \in Receiver : recv_wakers'[r] # "waiting"
      BY <1>4, NotifyAllFacts DEF NotifyAllRecvs
    <2>2. QED
      BY <1>4, <2>1 DEF NotifyAllRecvs
  <1>5. ASSUME NEW h \in Handle, NotifyAllStreams(h)
        PROVE  MarkIsSpread'
    <2>1. \A r \in Receiver : stream_wakers'[r] # "waiting"
      BY <1>5, NotifyAllFacts DEF NotifyAllStreams
    <2>2. QED
      BY <1>5, <2>1 DEF NotifyAllStreams
  <1>6. ASSUME NEW h \in Handle, NotifyStreams(h)
        PROVE  MarkIsSpread'
    <2>1. \A r \in Receiver : stream_wakers'[r] # "waiting"
      BY <1>6, NotifyAllFacts DEF NotifyStreams
    <2>2. QED
      BY <1>6, <2>1 DEF NotifyStreams, Finish
  <1>7. ASSUME NEW h \in Handle, NotifyRecv(h)
        PROVE  MarkIsSpread'
    <2>1. \A r \in Receiver : recv_wakers'[r] = "waiting" => recv_wakers[r] = "waiting"
      BY <1>7, NotifyOneFacts DEF NotifyRecv
    <2>2. QED
      BY <1>7, <2>1 DEF NotifyRecv
  <1>8. ASSUME NEW h \in Handle, NotifySend(h)
        PROVE  MarkIsSpread'
    <2>1. \A s \in Sender : send_wakers'[s] = "waiting" => send_wakers[s] = "waiting"
      BY <1>8, NotifyOneFacts DEF NotifySend
    <2>2. QED
      BY <1>8, <2>1 DEF NotifySend, Finish
  <1>9. ASSUME NEW h \in Handle, DropFuture(h)
        PROVE  MarkIsSpread'
    <2>1. /\ \A s \in Sender : send_wakers'[s] = "waiting" => send_wakers[s] = "waiting"
          /\ \A r \in Receiver : recv_wakers'[r] = "waiting" => recv_wakers[r] = "waiting"
          /\ UNCHANGED stream_wakers
      BY <1>9, CancelFacts DEF DropFuture, OnOwnWakers, HandlesFit
    <2>2. QED
      BY <1>9, <2>1 DEF DropFuture, Finish
  <1>10. ASSUME NEW h \in Handle, RemoveEntry(h) \/ InsertEntry(h)
         PROVE  MarkIsSpread'
    <2>1. /\ \A s \in Sender \ {h} : send_wakers'[s] = send_wakers[s]
          /\ \A r \in Receiver \ {h} : /\ recv_wakers'[r] = recv_wakers[r]
                                        /\ stream_wakers'[r] = stream_wakers[r]
      BY <1>10 DEF RemoveEntry, InsertEntry, OnOwnWakers, Remove, Insert
    <2>2. pc[h] \in {"remove", "insert"} /\ \E to \in {"try", "recheck"} : pc' = [pc EXCEPT ![h] = to]
      BY <1>10 DEF RemoveEntry, InsertEntry
    <2>3. UNCHANGED <<marked, op>>
      BY <1>10 DEF RemoveEntry, InsertEntry
    <2>4. QED
      BY <2>1, <2>2, <2>3
  <1>11. ASSUME NEW h \in Handle, TryRecv(h)
         PROVE  MarkIsSpread'
    BY <1>11 DEF TryRecv, Finish
  <1>12. ASSUME NEW h \in Handle,
                Recheck(h) \/ RecheckMark(h) \/ Poll(h) \/ DropReceiverCount(h)
         PROVE  MarkIsSpread'
    BY <1>12 DEF Recheck, RecheckMark, Poll, DropReceiverCount
  <1>13. ASSUME NEW r \in Receiver, DropReceiver(r)
         PROVE  MarkIsSpread'
    <2>1. \A u \in Receiver : stream_wakers'[u] = "waiting" => stream_wakers[u] = "waiting"
      BY <1>13, CancelFacts DEF DropReceiver
    <2>2. QED
      BY <1>13, <2>1 DEF DropReceiver
  <1>14. ASSUME NEW h \in Handle, NEW o \in {"send", "recv", "stream"}, Start(h, o)
         PROVE  MarkIsSpread'
    BY <1>14 DEF Start
  <1>15. ASSUME NEW s \in Sender, NEW new \in Sender, DropSender(s) \/ CloneSender(s, new)
         PROVE  MarkIsSpread'
    BY <1>15 DEF DropSender, CloneSender
  <1>16. ASSUME NEW r \in Receiver, NEW new \in Receiver, CloneReceiver(r, new)
         PROVE  MarkIsSpread'
    BY <1>16 DEF CloneReceiver
  <1>17. QED
    BY <1>1, <1>2, <1>3, <1>4, <1>5, <1>6, <1>7, <1>8, <1>9, <1>10, <1>11, <1>12, <1>13,
       <1>14, <1>15, <1>16 DEF Next, Running, Deciding

-----------------------------------------------------------------------------
(* Counting credits.                                                        *)

(* CreditsFinite: credits are handles, so there are finitely many.          *)
LEMMA CreditsFinite ==
    ASSUME NEW C, C \subseteq Handle
    PROVE  IsFiniteSet(C) /\ Cardinality(C) \in Nat
  <1>1. IsFiniteSet(Handle)
    BY HandleAssumption, FS_Union DEF Handle
  <1>2. QED
    BY <1>1, FS_Subset, FS_CardinalityType

(* CreditLost: a step that takes at most x off the credits loses at most    *)
(* one, and none if it also adds one.                                       *)
LEMMA CreditLost ==
    ASSUME NEW A, NEW B, A \subseteq Handle, B \subseteq Handle, NEW x, A \ {x} \subseteq B
    PROVE  /\ Cardinality(A) <= Cardinality(B) + 1
           /\ \A y \in B \ A : Cardinality(A) <= Cardinality(B)
  <1>1. /\ IsFiniteSet(A) /\ Cardinality(A) \in Nat
        /\ IsFiniteSet(B) /\ Cardinality(B) \in Nat
        /\ IsFiniteSet(A \ {x}) /\ Cardinality(A \ {x}) \in Nat
    BY CreditsFinite
  <1>2. Cardinality(A) <= Cardinality(A \ {x}) + 1
    <2>1. CASE x \in A
      BY <1>1, <2>1, FS_RemoveElement
    <2>2. CASE x \notin A
      <3>1. A \ {x} = A
        BY <2>2
      <3>2. QED
        BY <1>1, <3>1
    <2>3. QED
      BY <2>1, <2>2
  <1>3. Cardinality(A \ {x}) <= Cardinality(B)
    BY <1>1, FS_Subset
  <1>4. ASSUME NEW y \in B \ A PROVE Cardinality(A) <= Cardinality(B)
    <2>1. y \notin A \ {x}
      OBVIOUS
    <2>2. Cardinality((A \ {x}) \cup {y}) = Cardinality(A \ {x}) + 1
      BY <1>1, <2>1, FS_AddElement
    <2>3. (A \ {x}) \cup {y} \subseteq B
      OBVIOUS
    <2>4. Cardinality((A \ {x}) \cup {y}) <= Cardinality(B)
      BY <1>1, <2>3, FS_Subset
    <2>5. QED
      BY <1>1, <1>2, <2>2, <2>4
  <1>5. QED
    BY <1>1, <1>2, <1>3, <1>4

(* CreditKept: a step that takes no credit loses none, and one more is one   *)
(* more.                                                                    *)
LEMMA CreditKept ==
    ASSUME NEW A, NEW B, A \subseteq Handle, B \subseteq Handle, A \subseteq B
    PROVE  /\ Cardinality(A) <= Cardinality(B)
           /\ \A y \in B \ A : Cardinality(A) + 1 <= Cardinality(B)
  <1>1. /\ IsFiniteSet(A) /\ Cardinality(A) \in Nat
        /\ IsFiniteSet(B) /\ Cardinality(B) \in Nat
    BY CreditsFinite
  <1>2. Cardinality(A) <= Cardinality(B)
    BY <1>1, FS_Subset
  <1>3. ASSUME NEW y \in B \ A PROVE Cardinality(A) + 1 <= Cardinality(B)
    <2>1. Cardinality(A \cup {y}) = Cardinality(A) + 1
      BY <1>1, FS_AddElement
    <2>2. A \cup {y} \subseteq B
      OBVIOUS
    <2>3. Cardinality(A \cup {y}) <= Cardinality(B)
      BY <1>1, <2>2, FS_Subset
    <2>4. QED
      BY <2>1, <2>3
  <1>4. QED
    BY <1>2, <1>3

(* RoomCases: the ways in which a step keeps every free slot covered: the    *)
(* queue is full; no slot is freed and no credit lost; a credit takes its    *)
(* slot; a slot is freed with a credit; or a credit is passed on.            *)
LEMMA RoomCases ==
    ASSUME TypeOK, len' \in 0 .. Cap, RoomIsCovered,
           \/ len' = Cap
           \/ /\ SendDemand' # {} => SendDemand # {}
              /\ \/ len' >= len /\ SendCredit \subseteq SendCredit'
                 \/ len' = len + 1 /\ \E x : SendCredit \ {x} \subseteq SendCredit'
                 \/ /\ len' = len - 1 /\ SendCredit \subseteq SendCredit'
                    /\ \E y : y \in SendCredit' \ SendCredit
                 \/ /\ len' = len /\ \E x : SendCredit \ {x} \subseteq SendCredit'
                    /\ SendDemand' # {} => \E y : y \in SendCredit' \ SendCredit
    PROVE  RoomIsCovered'
  <1>1. /\ SendCredit \subseteq Handle /\ SendCredit' \subseteq Handle
        /\ Cardinality(SendCredit) \in Nat /\ Cardinality(SendCredit') \in Nat
    <2>1. SendCredit \subseteq Handle /\ SendCredit' \subseteq Handle
      BY DEF SendCredit
    <2>2. QED
      BY <2>1, CreditsFinite
  <1>2. /\ Cap \in Nat /\ len \in Nat /\ len' \in Nat
    BY CapAssumption DEF TypeOK
  <1> HIDE DEF SendCredit
  <1>3. SUFFICES ASSUME SendDemand' # {} PROVE Cap <= len' + Cardinality(SendCredit')
    BY DEF RoomIsCovered
  <1>4. CASE len' = Cap
    BY <1>1, <1>2, <1>4
  <1>5. ASSUME Cap <= len + Cardinality(SendCredit), len' >= len, SendCredit \subseteq SendCredit'
        PROVE  Cap <= len' + Cardinality(SendCredit')
    <2>1. Cardinality(SendCredit) <= Cardinality(SendCredit')
      BY <1>1, <1>5, CreditKept
    <2>2. QED
      BY <1>1, <1>2, <1>5, <2>1
  <1>6. ASSUME Cap <= len + Cardinality(SendCredit), len' = len + 1,
               NEW x, SendCredit \ {x} \subseteq SendCredit'
        PROVE  Cap <= len' + Cardinality(SendCredit')
    <2>1. Cardinality(SendCredit) <= Cardinality(SendCredit') + 1
      BY <1>1, <1>6, CreditLost
    <2>2. QED
      BY <1>1, <1>2, <1>6, <2>1
  <1>7. ASSUME Cap <= len + Cardinality(SendCredit), len' = len - 1,
               SendCredit \subseteq SendCredit', NEW y \in SendCredit' \ SendCredit
        PROVE  Cap <= len' + Cardinality(SendCredit')
    <2>1. Cardinality(SendCredit) + 1 <= Cardinality(SendCredit')
      BY <1>1, <1>7, CreditKept
    <2>2. QED
      BY <1>1, <1>2, <1>7, <2>1
  <1>8. ASSUME Cap <= len + Cardinality(SendCredit), len' = len,
               NEW x, SendCredit \ {x} \subseteq SendCredit', NEW y \in SendCredit' \ SendCredit
        PROVE  Cap <= len' + Cardinality(SendCredit')
    <2>1. Cardinality(SendCredit) <= Cardinality(SendCredit')
      BY <1>1, <1>8, CreditLost
    <2>2. QED
      BY <1>1, <1>2, <1>8, <2>1
  <1>9. QED
    BY <1>3, <1>4, <1>5, <1>6, <1>7, <1>8 DEF RoomIsCovered

(* RoomStep: every free slot stays covered while a send() is blocked.       *)
LEMMA RoomStep ==
    ASSUME TypeOK, HandlesFit, EntriesFit, RoomIsCovered, Next
    PROVE  RoomIsCovered'
  <1> USE CapAssumption, HandleAssumption
      DEF TypeOK, SendDemand, SendCredit, Committed, Handle, Goto, sets
  <1>1. len' \in 0 .. Cap
    BY HandleMoves
  <1>2. ASSUME NEW h \in Handle, TrySend(h)
        PROVE  RoomIsCovered'
    <2>1. CASE len = Cap
      BY <1>1, <1>2, <2>1, RoomCases DEF TrySend
    <2>2. CASE len < Cap
      <3>1. len' = len + 1 /\ SendCredit \ {h} \subseteq SendCredit' /\ SendDemand' \subseteq SendDemand
        BY <1>2, <2>2 DEF TrySend
      <3>2. QED
        BY <1>1, <3>1, RoomCases
    <2>3. QED
      BY <2>1, <2>2
  <1>3. ASSUME NEW h \in Handle, TryRecv(h)
        PROVE  RoomIsCovered'
    <2>1. CASE len > 0
      <3>1. /\ len' = len - 1 /\ SendCredit \subseteq SendCredit' /\ h \in SendCredit' \ SendCredit
            /\ SendDemand' \subseteq SendDemand
        BY <1>3, <2>1 DEF TryRecv, HandlesFit
      <3>2. QED
        BY <1>1, <3>1, RoomCases
    <2>2. CASE len = 0
      <3>1. len' = len /\ SendCredit \subseteq SendCredit' /\ SendDemand' \subseteq SendDemand
        BY <1>3, <2>2 DEF TryRecv, HandlesFit, Finish
      <3>2. QED
        BY <1>1, <3>1, RoomCases
    <2>3. QED
      BY <2>1, <2>2
  <1>4. ASSUME NEW h \in Handle, Recheck(h)
        PROVE  RoomIsCovered'
    <2>1. CASE len = Cap
      BY <1>1, <1>4, <2>1, RoomCases DEF Recheck
    <2>2. CASE len # Cap
      <3>1. len' = len /\ SendCredit \subseteq SendCredit' /\ SendDemand' \subseteq SendDemand
        BY <1>4, <2>2 DEF Recheck, HandlesFit
      <3>2. QED
        BY <1>1, <3>1, RoomCases
    <2>3. QED
      BY <2>1, <2>2
  <1>5. ASSUME NEW h \in Handle, NotifySend(h)
        PROVE  RoomIsCovered'
    <2>1. SendCredit \ {h} \subseteq SendCredit' /\ SendDemand' \subseteq SendDemand /\ len' = len
      <3>1. /\ \A s \in Sender : send_wakers[s] = "notified" => send_wakers'[s] = "notified"
            /\ \A s \in Sender : send_wakers'[s] = "waiting" => send_wakers[s] = "waiting"
        BY <1>5, NotifyOneFacts DEF NotifySend
      <3>2. QED
        BY <1>5, <3>1 DEF NotifySend, Finish
    <2>2. ASSUME SendDemand' # {} PROVE \E y : y \in SendCredit' \ SendCredit
      <3>1. \/ send_wakers' = send_wakers /\ \A s \in Sender : send_wakers[s] # "waiting"
            \/ \E s \in Sender : send_wakers[s] = "waiting" /\ send_wakers' = Wake(send_wakers, s)
        BY <1>5, NotifyOnePicks DEF NotifySend
      <3>2. PICK s \in Sender : send_wakers[s] = "waiting" /\ send_wakers' = Wake(send_wakers, s)
        BY <2>2, <3>1
      <3>3. s \in SendCredit' /\ s \notin SendCredit
        BY <1>5, <3>2 DEF NotifySend, Wake, EntriesFit, HasEntry
      <3>4. QED
        BY <3>3
    <2>3. QED
      BY <1>1, <2>1, <2>2, RoomCases
  <1>6. ASSUME NEW h \in Handle, DropFuture(h)
        PROVE  RoomIsCovered'
    <2>1. CASE op[h] = "send" /\ send_wakers[h] # "absent"
      <3>1. h \in Sender /\ send_wakers' \in Cancel(send_wakers, h) /\ pc[h] = "pending" /\ len' = len
        BY <1>6, <2>1 DEF DropFuture, OnOwnWakers, Entry, HandlesFit
      <3>2. /\ \A s \in Sender \ {h} : send_wakers[s] = "notified" => send_wakers'[s] = "notified"
            /\ \A s \in Sender : send_wakers'[s] = "waiting" => send_wakers[s] = "waiting"
        BY <3>1, CancelFacts
      <3>3. SendCredit \ {h} \subseteq SendCredit' /\ SendDemand' \subseteq SendDemand
        BY <1>6, <3>1, <3>2 DEF DropFuture, Finish
      <3>4. CASE send_wakers[h] # "notified"
        <4>1. h \notin SendCredit
          BY <3>1, <3>4
        <4>2. SendCredit \subseteq SendCredit'
          BY <3>3, <4>1
        <4>3. QED
          BY <1>1, <3>1, <3>3, <4>2, RoomCases
      <3>5. CASE send_wakers[h] = "notified"
        <4>1. ASSUME SendDemand' # {} PROVE \E y : y \in SendCredit' \ SendCredit
          <5>1. PICK s \in Sender \ {h} :
                  send_wakers[s] = "waiting" /\ send_wakers' = Wake(Remove(send_wakers, h), s)
            BY <3>1, <3>5, <4>1, CancelPicks
          <5>2. s \in SendCredit' /\ s \notin SendCredit
            BY <1>6, <5>1 DEF DropFuture, Wake, Remove, EntriesFit, HasEntry
          <5>3. QED
            BY <5>2
        <4>2. QED
          BY <1>1, <3>1, <3>3, <4>1, RoomCases
      <3>6. QED
        BY <3>4, <3>5
    <2>2. CASE ~(op[h] = "send" /\ send_wakers[h] # "absent")
      <3>1. send_wakers' = send_wakers
        BY <1>6, <2>2 DEF DropFuture, OnOwnWakers, Entry
      <3>2. h \notin SendCredit /\ h \notin SendDemand
        BY <1>6, <2>2 DEF DropFuture, HandlesFit
      <3>3. len' = len /\ SendCredit \subseteq SendCredit' /\ SendDemand' \subseteq SendDemand
        BY <1>6, <3>1, <3>2 DEF DropFuture, Finish
      <3>4. QED
        BY <1>1, <3>3, RoomCases
    <2>3. QED
      BY <2>1, <2>2
  <1>7. ASSUME NEW h \in Handle, RemoveEntry(h) \/ InsertEntry(h)
        PROVE  RoomIsCovered'
    <2>1. len' = len /\ SendCredit \subseteq SendCredit' /\ SendDemand' \subseteq SendDemand
      BY <1>7 DEF RemoveEntry, InsertEntry, OnOwnWakers, Remove, Insert, HandlesFit, EntriesFit, HasEntry
    <2>2. QED
      BY <1>1, <2>1, RoomCases
  <1>8. ASSUME NEW h \in Handle, RecheckMark(h) \/ Poll(h) \/ NotifyRecv(h) \/ NotifyStreams(h)
        PROVE  RoomIsCovered'
    <2>1. len' = len /\ SendCredit \subseteq SendCredit' /\ SendDemand' \subseteq SendDemand
      BY <1>8 DEF RecheckMark, Poll, NotifyRecv, NotifyStreams, Finish, HandlesFit
    <2>2. QED
      BY <1>1, <2>1, RoomCases
  <1>9. ASSUME NEW h \in Handle, NotifyAllSends(h)
        PROVE  RoomIsCovered'
    <2>1. /\ \A s \in Sender : send_wakers[s] = "notified" => send_wakers'[s] = "notified"
          /\ \A s \in Sender : send_wakers'[s] # "waiting"
      BY <1>9, NotifyAllFacts DEF NotifyAllSends
    <2>2. len' = len /\ SendCredit \subseteq SendCredit' /\ SendDemand' \subseteq SendDemand
      BY <1>9, <2>1 DEF NotifyAllSends
    <2>3. QED
      BY <1>1, <2>2, RoomCases
  <1>10. ASSUME NEW h \in Handle, DropReceiverCount(h) \/ Disconnect(h)
                                  \/ NotifyAllRecvs(h) \/ NotifyAllStreams(h)
         PROVE  RoomIsCovered'
    <2>1. len' = len /\ SendCredit \subseteq SendCredit' /\ SendDemand' \subseteq SendDemand
      BY <1>10 DEF DropReceiverCount, Disconnect, NotifyAllRecvs, NotifyAllStreams
    <2>2. QED
      BY <1>1, <2>1, RoomCases
  <1>11. ASSUME NEW h \in Handle, NEW o \in {"send", "recv", "stream"}, Start(h, o)
         PROVE  RoomIsCovered'
    <2>1. len' = len /\ SendCredit \subseteq SendCredit' /\ SendDemand' \subseteq SendDemand
      BY <1>11 DEF Start
    <2>2. QED
      BY <1>1, <2>1, RoomCases
  <1>12. ASSUME NEW s \in Sender, NEW new \in Sender, DropSender(s) \/ CloneSender(s, new)
         PROVE  RoomIsCovered'
    <2>1. len' = len /\ SendCredit \subseteq SendCredit' /\ SendDemand' \subseteq SendDemand
      BY <1>12 DEF DropSender, CloneSender
    <2>2. QED
      BY <1>1, <2>1, RoomCases
  <1>13. ASSUME NEW r \in Receiver, NEW new \in Receiver, DropReceiver(r) \/ CloneReceiver(r, new)
         PROVE  RoomIsCovered'
    <2>1. len' = len /\ SendCredit \subseteq SendCredit' /\ SendDemand' \subseteq SendDemand
      BY <1>13 DEF DropReceiver, CloneReceiver
    <2>2. QED
      BY <1>1, <2>1, RoomCases
  <1>14. QED
    BY <1>2, <1>3, <1>4, <1>5, <1>6, <1>7, <1>8, <1>9, <1>10, <1>11, <1>12, <1>13
       DEF Next, Running, Deciding

(* MessageCases: the same for the messages and recv().                      *)
LEMMA MessageCases ==
    ASSUME TypeOK, len' \in 0 .. Cap, MessagesAreCovered,
           \/ len' = 0
           \/ /\ RecvDemand' # {} => RecvDemand # {}
              /\ \/ len' <= len /\ RecvCredit \subseteq RecvCredit'
                 \/ len' = len - 1 /\ \E x : RecvCredit \ {x} \subseteq RecvCredit'
                 \/ /\ len' = len + 1 /\ RecvCredit \subseteq RecvCredit'
                    /\ \E y : y \in RecvCredit' \ RecvCredit
                 \/ /\ len' = len /\ \E x : RecvCredit \ {x} \subseteq RecvCredit'
                    /\ RecvDemand' # {} => \E y : y \in RecvCredit' \ RecvCredit
    PROVE  MessagesAreCovered'
  <1>1. /\ RecvCredit \subseteq Handle /\ RecvCredit' \subseteq Handle
        /\ Cardinality(RecvCredit) \in Nat /\ Cardinality(RecvCredit') \in Nat
    <2>1. RecvCredit \subseteq Handle /\ RecvCredit' \subseteq Handle
      BY DEF RecvCredit
    <2>2. QED
      BY <2>1, CreditsFinite
  <1>2. len \in Nat /\ len' \in Nat
    BY CapAssumption DEF TypeOK
  <1>3. SUFFICES ASSUME RecvDemand' # {} PROVE len' <= Cardinality(RecvCredit')
    BY DEF MessagesAreCovered
  <1>4. CASE len' = 0
    BY <1>1, <1>4
  <1>5. ASSUME len <= Cardinality(RecvCredit), len' <= len, RecvCredit \subseteq RecvCredit'
        PROVE  len' <= Cardinality(RecvCredit')
    <2>1. Cardinality(RecvCredit) <= Cardinality(RecvCredit')
      BY <1>1, <1>5, CreditKept
    <2>2. QED
      BY <1>1, <1>2, <1>5, <2>1
  <1>6. ASSUME len <= Cardinality(RecvCredit), len' = len - 1,
               NEW x, RecvCredit \ {x} \subseteq RecvCredit'
        PROVE  len' <= Cardinality(RecvCredit')
    <2>1. Cardinality(RecvCredit) <= Cardinality(RecvCredit') + 1
      BY <1>1, <1>6, CreditLost
    <2>2. QED
      BY <1>1, <1>2, <1>6, <2>1
  <1>7. ASSUME len <= Cardinality(RecvCredit), len' = len + 1,
               RecvCredit \subseteq RecvCredit', NEW y \in RecvCredit' \ RecvCredit
        PROVE  len' <= Cardinality(RecvCredit')
    <2>1. Cardinality(RecvCredit) + 1 <= Cardinality(RecvCredit')
      BY <1>1, <1>7, CreditKept
    <2>2. QED
      BY <1>1, <1>2, <1>7, <2>1
  <1>8. ASSUME len <= Cardinality(RecvCredit), len' = len,
               NEW x, RecvCredit \ {x} \subseteq RecvCredit', NEW y \in RecvCredit' \ RecvCredit
        PROVE  len' <= Cardinality(RecvCredit')
    <2>1. Cardinality(RecvCredit) <= Cardinality(RecvCredit')
      BY <1>1, <1>8, CreditLost
    <2>2. QED
      BY <1>1, <1>2, <1>8, <2>1
  <1>9. QED
    BY <1>3, <1>4, <1>5, <1>6, <1>7, <1>8 DEF MessagesAreCovered

(* MessagesStep: every message stays covered while a recv() is blocked,      *)
(* though streams take messages without having been counted on.             *)
LEMMA MessagesStep ==
    ASSUME TypeOK, HandlesFit, EntriesFit, MessagesAreCovered, Next
    PROVE  MessagesAreCovered'
  <1> USE CapAssumption, HandleAssumption
      DEF TypeOK, RecvDemand, RecvCredit, Committed, Handle, Goto, sets
  <1>1. len' \in 0 .. Cap
    BY HandleMoves
  <1>2. ASSUME NEW h \in Handle, TrySend(h)
        PROVE  MessagesAreCovered'
    <2>1. CASE len = Cap
      <3>1. len' = len /\ RecvCredit \subseteq RecvCredit' /\ RecvDemand' \subseteq RecvDemand
        BY <1>2, <2>1 DEF TrySend, HandlesFit
      <3>2. QED
        BY <1>1, <3>1, MessageCases
    <2>2. CASE len < Cap
      <3>1. /\ len' = len + 1 /\ RecvCredit \subseteq RecvCredit' /\ h \in RecvCredit' \ RecvCredit
            /\ RecvDemand' \subseteq RecvDemand
        BY <1>2, <2>2 DEF TrySend, HandlesFit
      <3>2. QED
        BY <1>1, <3>1, MessageCases
    <2>3. QED
      BY <2>1, <2>2
  <1>3. ASSUME NEW h \in Handle, TryRecv(h)
        PROVE  MessagesAreCovered'
    <2>1. CASE len > 0
      <3>1. len' = len - 1 /\ RecvCredit \ {h} \subseteq RecvCredit' /\ RecvDemand' \subseteq RecvDemand
        BY <1>3, <2>1 DEF TryRecv
      <3>2. QED
        BY <1>1, <3>1, MessageCases
    <2>2. CASE len = 0
      BY <1>1, <1>3, <2>2, MessageCases DEF TryRecv
    <2>3. QED
      BY <2>1, <2>2
  <1>4. ASSUME NEW h \in Handle, Recheck(h)
        PROVE  MessagesAreCovered'
    <2>1. CASE len = 0
      BY <1>1, <1>4, <2>1, MessageCases DEF Recheck
    <2>2. CASE len # 0
      <3>1. len' = len /\ RecvCredit \subseteq RecvCredit' /\ RecvDemand' \subseteq RecvDemand
        BY <1>4, <2>2 DEF Recheck, HandlesFit
      <3>2. QED
        BY <1>1, <3>1, MessageCases
    <2>3. QED
      BY <2>1, <2>2
  <1>5. ASSUME NEW h \in Handle, NotifyRecv(h)
        PROVE  MessagesAreCovered'
    <2>1. RecvCredit \ {h} \subseteq RecvCredit' /\ RecvDemand' \subseteq RecvDemand /\ len' = len
      <3>1. /\ \A r \in Receiver : recv_wakers[r] = "notified" => recv_wakers'[r] = "notified"
            /\ \A r \in Receiver : recv_wakers'[r] = "waiting" => recv_wakers[r] = "waiting"
        BY <1>5, NotifyOneFacts DEF NotifyRecv
      <3>2. QED
        BY <1>5, <3>1 DEF NotifyRecv
    <2>2. ASSUME RecvDemand' # {} PROVE \E y : y \in RecvCredit' \ RecvCredit
      <3>1. \/ recv_wakers' = recv_wakers /\ \A r \in Receiver : recv_wakers[r] # "waiting"
            \/ \E r \in Receiver : recv_wakers[r] = "waiting" /\ recv_wakers' = Wake(recv_wakers, r)
        BY <1>5, NotifyOnePicks DEF NotifyRecv
      <3>2. PICK r \in Receiver : recv_wakers[r] = "waiting" /\ recv_wakers' = Wake(recv_wakers, r)
        BY <2>2, <3>1
      <3>3. r \in RecvCredit' /\ r \notin RecvCredit
        BY <1>5, <3>2 DEF NotifyRecv, Wake, EntriesFit, HasEntry
      <3>4. QED
        BY <3>3
    <2>3. QED
      BY <1>1, <2>1, <2>2, MessageCases
  <1>6. ASSUME NEW h \in Handle, DropFuture(h)
        PROVE  MessagesAreCovered'
    <2>1. CASE op[h] = "recv" /\ recv_wakers[h] # "absent"
      <3>1. h \in Receiver /\ recv_wakers' \in Cancel(recv_wakers, h) /\ pc[h] = "pending" /\ len' = len
        BY <1>6, <2>1 DEF DropFuture, OnOwnWakers, Entry, HandlesFit
      <3>2. /\ \A r \in Receiver \ {h} : recv_wakers[r] = "notified" => recv_wakers'[r] = "notified"
            /\ \A r \in Receiver : recv_wakers'[r] = "waiting" => recv_wakers[r] = "waiting"
        BY <3>1, CancelFacts
      <3>3. RecvCredit \ {h} \subseteq RecvCredit' /\ RecvDemand' \subseteq RecvDemand
        BY <1>6, <3>1, <3>2 DEF DropFuture, Finish
      <3>4. CASE recv_wakers[h] # "notified"
        <4>1. h \notin RecvCredit
          BY <3>1, <3>4
        <4>2. RecvCredit \subseteq RecvCredit'
          BY <3>3, <4>1
        <4>3. QED
          BY <1>1, <3>1, <3>3, <4>2, MessageCases
      <3>5. CASE recv_wakers[h] = "notified"
        <4>1. ASSUME RecvDemand' # {} PROVE \E y : y \in RecvCredit' \ RecvCredit
          <5>1. PICK r \in Receiver \ {h} :
                  recv_wakers[r] = "waiting" /\ recv_wakers' = Wake(Remove(recv_wakers, h), r)
            BY <3>1, <3>5, <4>1, CancelPicks
          <5>2. r \in RecvCredit' /\ r \notin RecvCredit
            BY <1>6, <5>1 DEF DropFuture, Wake, Remove, EntriesFit, HasEntry
          <5>3. QED
            BY <5>2
        <4>2. QED
          BY <1>1, <3>1, <3>3, <4>1, MessageCases
      <3>6. QED
        BY <3>4, <3>5
    <2>2. CASE ~(op[h] = "recv" /\ recv_wakers[h] # "absent")
      <3>1. recv_wakers' = recv_wakers
        BY <1>6, <2>2 DEF DropFuture, OnOwnWakers, Entry
      <3>2. h \notin RecvCredit /\ h \notin RecvDemand
        BY <1>6, <2>2 DEF DropFuture, HandlesFit, EntriesFit
      <3>3. len' = len /\ RecvCredit \subseteq RecvCredit' /\ RecvDemand' \subseteq RecvDemand
        BY <1>6, <3>1, <3>2 DEF DropFuture, Finish
      <3>4. QED
        BY <1>1, <3>3, MessageCases
    <2>3. QED
      BY <2>1, <2>2
  <1>7. ASSUME NEW h \in Handle, RemoveEntry(h) \/ InsertEntry(h)
        PROVE  MessagesAreCovered'
    <2>1. len' = len /\ RecvCredit \subseteq RecvCredit' /\ RecvDemand' \subseteq RecvDemand
      BY <1>7 DEF RemoveEntry, InsertEntry, OnOwnWakers, Remove, Insert, HandlesFit, EntriesFit, HasEntry
    <2>2. QED
      BY <1>1, <2>1, MessageCases
  <1>8. ASSUME NEW h \in Handle, RecheckMark(h) \/ Poll(h) \/ NotifySend(h) \/ NotifyStreams(h)
        PROVE  MessagesAreCovered'
    <2>1. len' = len /\ RecvCredit \subseteq RecvCredit' /\ RecvDemand' \subseteq RecvDemand
      BY <1>8 DEF RecheckMark, Poll, NotifySend, NotifyStreams, Finish, HandlesFit
    <2>2. QED
      BY <1>1, <2>1, MessageCases
  <1>9. ASSUME NEW h \in Handle, NotifyAllRecvs(h)
        PROVE  MessagesAreCovered'
    <2>1. /\ \A r \in Receiver : recv_wakers[r] = "notified" => recv_wakers'[r] = "notified"
          /\ \A r \in Receiver : recv_wakers'[r] # "waiting"
      BY <1>9, NotifyAllFacts DEF NotifyAllRecvs
    <2>2. len' = len /\ RecvCredit \subseteq RecvCredit' /\ RecvDemand' \subseteq RecvDemand
      BY <1>9, <2>1 DEF NotifyAllRecvs
    <2>3. QED
      BY <1>1, <2>2, MessageCases
  <1>10. ASSUME NEW h \in Handle, DropReceiverCount(h) \/ Disconnect(h)
                                  \/ NotifyAllSends(h) \/ NotifyAllStreams(h)
         PROVE  MessagesAreCovered'
    <2>1. len' = len /\ RecvCredit \subseteq RecvCredit' /\ RecvDemand' \subseteq RecvDemand
      BY <1>10 DEF DropReceiverCount, Disconnect, NotifyAllSends, NotifyAllStreams
    <2>2. QED
      BY <1>1, <2>1, MessageCases
  <1>11. ASSUME NEW h \in Handle, NEW o \in {"send", "recv", "stream"}, Start(h, o)
         PROVE  MessagesAreCovered'
    <2>1. len' = len /\ RecvCredit \subseteq RecvCredit' /\ RecvDemand' \subseteq RecvDemand
      BY <1>11 DEF Start, EntriesFit, HasEntry
    <2>2. QED
      BY <1>1, <2>1, MessageCases
  <1>12. ASSUME NEW s \in Sender, NEW new \in Sender, DropSender(s) \/ CloneSender(s, new)
         PROVE  MessagesAreCovered'
    <2>1. len' = len /\ RecvCredit \subseteq RecvCredit' /\ RecvDemand' \subseteq RecvDemand
      BY <1>12 DEF DropSender, CloneSender
    <2>2. QED
      BY <1>1, <2>1, MessageCases
  <1>13. ASSUME NEW r \in Receiver, NEW new \in Receiver, DropReceiver(r) \/ CloneReceiver(r, new)
         PROVE  MessagesAreCovered'
    <2>1. len' = len /\ RecvCredit \subseteq RecvCredit' /\ RecvDemand' \subseteq RecvDemand
      BY <1>13 DEF DropReceiver, CloneReceiver
    <2>2. QED
      BY <1>1, <2>1, MessageCases
  <1>14. QED
    BY <1>2, <1>3, <1>4, <1>5, <1>6, <1>7, <1>8, <1>9, <1>10, <1>11, <1>12, <1>13
       DEF Next, Running, Deciding

-----------------------------------------------------------------------------
(* ChannelInvInit: a new channel has two handles, both idle.                *)
LEMMA ChannelInvInit == Init => ChannelInv
  <1> SUFFICES ASSUME Init PROVE ChannelInv
    OBVIOUS
  <1> USE HandleAssumption, CapAssumption DEF Init, Handle, NewWakerSet
  <1>1. HandlesFit /\ EntriesFit
    BY DEF HandlesFit, EntriesFit, FirstOp
  <1>2. CountsExact
    <2>1. Live(Sender, pc) = {FirstSender} /\ Live(Receiver, pc) = {FirstReceiver}
      BY DEF Live, Disconnecting
    <2>2. QED
      BY <2>1, FS_Singleton DEF CountsExact
  <1>3. TypeOK
    <2>1. /\ sender_count \in 0 .. Cardinality(Sender)
          /\ receiver_count \in 0 .. Cardinality(Receiver)
      BY <1>2, CountsTyped
    <2>2. pc \in [Handle -> PC] /\ op \in [Handle -> {"send", "recv", "stream"}]
      BY DEF PC, FirstOp
    <2>3. WakersTyped
      BY DEF WakersTyped, EntryStates
    <2>4. marked \in BOOLEAN
      OBVIOUS
    <2>5. len \in 0 .. Cap
      OBVIOUS
    <2>6. QED
      BY <2>1, <2>2, <2>3, <2>4, <2>5 DEF TypeOK, WakersTyped
  <1>4. RoomIsCovered /\ MessagesAreCovered /\ StreamsAreCovered /\ MarkIsSpread
    BY DEF RoomIsCovered, SendDemand, MessagesAreCovered, RecvDemand, StreamsAreCovered,
           StreamDemand, MarkIsSpread
  <1>5. QED
    BY <1>1, <1>2, <1>3, <1>4 DEF ChannelInv

(* ChannelInvStep: every step of a handle preserves the invariant.          *)
LEMMA ChannelInvStep == ChannelInv /\ [Next]_vars => ChannelInv'
  <1> SUFFICES ASSUME ChannelInv, [Next]_vars PROVE ChannelInv'
    OBVIOUS
  <1>1. CASE Next
    <2>1. HandlesFit' /\ CountsExact' /\ EntriesFit' /\ WakersTyped'
      BY <1>1, HandleMoves, CountsStep, EntriesStep DEF ChannelInv
    <2>2. /\ sender_count' \in 0 .. Cardinality(Sender)
          /\ receiver_count' \in 0 .. Cardinality(Receiver)
      BY <2>1, HandleAssumption, LiveFinite DEF CountsExact
    <2>3. TypeOK'
      BY <1>1, <2>1, <2>2, HandleMoves DEF ChannelInv, TypeOK, WakersTyped
    <2>4. RoomIsCovered' /\ MessagesAreCovered' /\ StreamsAreCovered' /\ MarkIsSpread'
      BY <1>1, RoomStep, MessagesStep, StreamsStep, MarkStep DEF ChannelInv
    <2>5. QED
      BY <2>1, <2>3, <2>4 DEF ChannelInv
  <1>2. CASE UNCHANGED vars
    BY <1>2 DEF ChannelInv, TypeOK, HandlesFit, CountsExact, EntriesFit, RoomIsCovered,
                SendDemand, SendCredit, MessagesAreCovered, RecvDemand, RecvCredit,
                StreamsAreCovered, StreamDemand, MarkIsSpread, Handle, vars, sets, counts
  <1>3. QED
    BY <1>1, <1>2

(* ChannelInvImplies: credits are handles that are on their way.            *)
LEMMA ChannelInvImplies ==
    ASSUME ChannelInv
    PROVE  NoSenderStranded /\ NoReceiverStranded /\ NoStreamStranded /\ DisconnectIsHeard
  <1> USE DEF ChannelInv, Committed
  <1>1. NoSenderStranded
    <2> SUFFICES ASSUME len < Cap, Blocked("send") # {}
                 PROVE  At({"notify_send"}) \cup InPoll("send") \cup Notified(send_wakers) # {}
      BY DEF NoSenderStranded
    <2>1. SendDemand # {}
      BY DEF Blocked, SendDemand, Entry, HandlesFit
    <2>2. SendCredit # {}
      <3>1. Cap <= len + Cardinality(SendCredit)
        BY <2>1 DEF RoomIsCovered
      <3>2. SendCredit = {} => Cardinality(SendCredit) = 0
        BY FS_EmptySet, Zenon
      <3>3. QED
        BY <3>1, <3>2, CapAssumption DEF TypeOK
    <2>3. SendCredit \subseteq At({"notify_send"}) \cup InPoll("send") \cup Notified(send_wakers)
      BY HandleAssumption DEF SendCredit, At, InPoll, Notified, Polling, HandlesFit, Handle, TypeOK
    <2>4. QED
      BY <2>2, <2>3
  <1>2. NoReceiverStranded
    <2> SUFFICES ASSUME len > 0, Blocked("recv") # {}
                 PROVE  At({"notify_recv"}) \cup InPoll("recv") \cup Notified(recv_wakers) # {}
      BY DEF NoReceiverStranded
    <2>1. RecvDemand # {}
      BY DEF Blocked, RecvDemand, Entry, HandlesFit, Handle
    <2>2. RecvCredit # {}
      <3>1. len <= Cardinality(RecvCredit)
        BY <2>1 DEF MessagesAreCovered
      <3>2. RecvCredit = {} => Cardinality(RecvCredit) = 0
        BY FS_EmptySet, Zenon
      <3>3. QED
        BY <3>1, <3>2, CapAssumption DEF TypeOK
    <2>3. RecvCredit \subseteq At({"notify_recv"}) \cup InPoll("recv") \cup Notified(recv_wakers)
      BY HandleAssumption DEF RecvCredit, At, InPoll, Notified, Polling, HandlesFit, Handle, TypeOK
    <2>4. QED
      BY <2>2, <2>3
  <1>3. NoStreamStranded
    BY DEF NoStreamStranded, StreamsAreCovered, StreamDemand, Blocked, At, Entry, HandlesFit, Handle
  <1>4. DisconnectIsHeard
    BY DEF DisconnectIsHeard, MarkIsSpread, Blocked, At, Entry, HandlesFit, Handle, Disconnecting
  <1>5. QED
    BY <1>1, <1>2, <1>3, <1>4

(* ChannelInvariant: the invariant holds throughout, for every capacity and *)
(* every finite number of handles.                                          *)
THEOREM ChannelInvariant == Spec => []ChannelInv
  BY ChannelInvInit, ChannelInvStep, PTL DEF Spec

(* SendersAreWoken: while there is room, a blocked send() has somebody on    *)
(* the way to it (channel.rs, the notify_one at the end of try_recv).       *)
THEOREM SendersAreWoken == Spec => []NoSenderStranded
  <1>1. ChannelInv => NoSenderStranded
    BY ChannelInvImplies
  <1>2. QED
    BY <1>1, ChannelInvariant, PTL

(* ReceiversAreWoken: while there is a message, a blocked recv() has         *)
(* somebody on the way to it (channel.rs, the notify_one of try_send).      *)
THEOREM ReceiversAreWoken == Spec => []NoReceiverStranded
  <1>1. ChannelInv => NoReceiverStranded
    BY ChannelInvImplies
  <1>2. QED
    BY <1>1, ChannelInvariant, PTL

(* StreamsAreWoken: a blocked stream sleeps beside a message only while the  *)
(* sender that put one there is still in try_send().                        *)
THEOREM StreamsAreWoken == Spec => []NoStreamStranded
  <1>1. ChannelInv => NoStreamStranded
    BY ChannelInvImplies
  <1>2. QED
    BY <1>1, ChannelInvariant, PTL

(* DisconnectWakesAll: after disconnect() has set the mark, an operation     *)
(* sleeps only until disconnect() reaches its waker set.                    *)
THEOREM DisconnectWakesAll == Spec => []DisconnectIsHeard
  <1>1. ChannelInv => DisconnectIsHeard
    BY ChannelInvImplies
  <1>2. QED
    BY <1>1, ChannelInvariant, PTL

-----------------------------------------------------------------------------
(***************************************************************************)
(* The ring.                                                               *)
(*                                                                         *)
(* The words head, tail and stamp wrap; the positions popped, pushed and   *)
(* pos behind them do not.  WordAt(n) is the word of position n, and two   *)
(* positions of the same slot that are less than Laps * Cap apart have     *)
(* different words, so a thread whose CAS succeeds was still at the end of *)
(* the ring that it had loaded.  StampsFit then says what each stamp of    *)
(* the window popped .. popped + Cap - 1 is: free or taken by its position, *)
(* except between a thread's CAS and its store of the stamp.               *)
(*                                                                         *)
(* With wrapping words the invariant needs NobodyLapped: a thread that     *)
(* slept while the ring went round all laps would find its old word again. *)
(* FewAreNeverLapped discharges it for runs with few messages.             *)
(***************************************************************************)

(* The slot and the word of the n-th message that goes through the ring,    *)
(* counting from 0.                                                         *)
SlotOf(n) == n % Cap
WordAt(n) == ((n \div Cap) % Laps) * OneLap + (n % Cap)

(* The words a tail may have after n pushes.                                *)
TailAt(n) == {WordAt(n), WordAt(n) + MarkBit}

TailSteps == {"s_stamp", "s_cas", "s_head", "f_head", "l_head", "l_again"}
HeadSteps == {"r_stamp", "r_cas", "r_tail", "e_tail"}
Writing   == {"s_write", "s_store"}
Reading   == {"r_read", "r_store"}
Sending   == {"s_tail", "s_stamp", "s_cas", "s_head"}
Asking    == Sending \cup {"f_head", "r_head", "r_stamp", "r_cas", "r_tail", "e_tail"}
RingSteps == Asking \cup TailSteps \cup Writing \cup Reading \cup {"idle", "l_tail"}

(* The hypothesis of the theorems: no thread holds a word that it is still  *)
(* going to compare while the ring goes round through all the laps but one. *)
NobodyLapped ==
    \A t \in Thread : step[t] \in TailSteps \cup HeadSteps => pushed - pos[t] < (Laps - 1) * Cap

(* Who is between the CAS that claimed position p and the store of its stamp. *)
Writes(t, p) == step[t] \in Writing /\ pos[t] = p
Reads(t, p)  == step[t] \in Reading /\ pos[t] = p
Writer(p) == \E t \in Thread : Writes(t, p)
Reader(p) == \E t \in Thread : Reads(t, p)

(* RingTypes: type correctness of the ring.                                 *)
RingTypes ==
    /\ popped \in Nat /\ pushed \in Nat
    /\ stamp \in [0 .. Cap - 1 -> Nat]
    /\ slot \in [0 .. Cap - 1 -> Nat]
    /\ step \in [Thread -> RingSteps]
    /\ word \in [Thread -> Nat] /\ pos \in [Thread -> Nat] /\ word2 \in [Thread -> Nat]
    /\ msg \in [Thread -> Msg \cup {NoMsg}]
    /\ next \in 0 .. MaxMsgs
    /\ queue \in Seq(Msg)
    /\ res = [t \in Thread |-> res[t]]
    /\ seen \in [Thread -> Nat]

(* EndsFit: head and tail are the words of their positions, at most a lap   *)
(* apart, and the queue is what lies between them.                          *)
EndsFit ==
    /\ popped <= pushed /\ pushed <= popped + Cap
    /\ Len(queue) = pushed - popped
    /\ head = WordAt(popped)
    /\ tail \in TailAt(pushed)

(* OwnersApart: a position is claimed by one sender and one receiver.       *)
OwnersApart ==
    \A t, u \in Thread :
        /\ step[t] \in Writing /\ step[u] \in Writing /\ pos[t] = pos[u] => t = u
        /\ step[t] \in Reading /\ step[u] \in Reading /\ pos[t] = pos[u] => t = u

(* StampsFit: in the window of a lap from the head, the stamp of a slot is  *)
(* the word of its position while it is free or being written, one more     *)
(* once it is written, and still that of a lap ago while it is being read.  *)
StampsFit ==
    \A p \in popped .. popped + Cap - 1 :
        /\ p < pushed /\ Writer(p) => stamp[SlotOf(p)] = WordAt(p)
        /\ p < pushed /\ ~ Writer(p) => stamp[SlotOf(p)] = WordAt(p) + 1
        /\ p >= pushed /\ Reader(p - Cap) => stamp[SlotOf(p)] = WordAt(p - Cap) + 1
        /\ p >= pushed /\ ~ Reader(p - Cap) => stamp[SlotOf(p)] = WordAt(p)

(* MessagesFit: a queued message is in its slot, or with its writer.        *)
MessagesFit ==
    \A p \in popped .. pushed - 1 :
        \/ \E t \in Thread : step[t] = "s_write" /\ pos[t] = p /\ msg[t] = queue[p - popped + 1]
        \/ /\ \A t \in Thread : ~ (step[t] = "s_write" /\ pos[t] = p)
           /\ slot[SlotOf(p)] = queue[p - popped + 1]

(* WordFits(t): a thread's word is that of its position, which is behind    *)
(* the end it was loaded from; a writer's is queued, a reader's is not yet  *)
(* free.                                                                    *)
WordFits(t) ==
    /\ step[t] \in TailSteps =>
         /\ pos[t] <= pushed
         /\ word[t] \in TailAt(pos[t])
         /\ word[t] # WordAt(pos[t]) => tail # WordAt(pushed)
    /\ step[t] \in HeadSteps => pos[t] <= popped /\ word[t] = WordAt(pos[t])
    /\ step[t] \in Writing =>
         popped <= pos[t] /\ pos[t] < pushed /\ word[t] \in TailAt(pos[t])
    /\ step[t] \in Reading =>
         pos[t] < popped /\ pushed <= pos[t] + Cap /\ word[t] = WordAt(pos[t])

(* CasFits(t): a CAS that is going to succeed claims a slot that the thread *)
(* found free, or taken, and that still is.                                 *)
CasFits(t) ==
    /\ step[t] = "s_cas" /\ pos[t] = pushed => pushed < popped + Cap /\ ~ Reader(pushed - Cap)
    /\ step[t] = "r_cas" /\ pos[t] = popped => popped < pushed /\ ~ Writer(popped)

(* LenFits(t): the head that len() loaded, if the tail is still the same.   *)
LenFits(t) ==
    step[t] = "l_again" /\ pos[t] = pushed =>
        seen[t] <= Cap /\ seen[t] <= pos[t] /\ word2[t] = WordAt(pos[t] - seen[t])

(* ResultFits(t): a call has no result before it is decided; a sender keeps *)
(* its message until it has written it; a reader's slot is still unchanged. *)
ResultFits(t) ==
    /\ step[t] \in Asking => res[t] = <<"none">>
    /\ step[t] \in Sending \cup {"s_write"} => msg[t] \in Msg
    /\ step[t] = "r_read" => res[t] = <<"got", slot[SlotOf(pos[t])]>>

ThreadFits(t) == WordFits(t) /\ CasFits(t) /\ LenFits(t) /\ ResultFits(t)

(* RingInv: the inductive invariant of the ring.                            *)
RingInv ==
    /\ RingTypes /\ EndsFit /\ OwnersApart /\ StampsFit /\ MessagesFit
    /\ \A t \in Thread : ThreadFits(t)

-----------------------------------------------------------------------------
(* Arithmetic of the words.                                                 *)

(* RingConstants: what with_capacity() computes.                            *)
LEMMA RingConstants ==
    /\ Cap \in Nat /\ Cap > 0 /\ Laps \in Nat /\ Laps > 1
    /\ MarkBit \in Nat /\ MarkBit > Cap /\ OneLap = 2 * MarkBit /\ OneLap \in Nat
    /\ WordSize = Laps * OneLap /\ WordSize \in Nat
<1> USE DEF OneLap, WordSize
<1>1. Laps \in Nat /\ Laps > 1 /\ MarkBit \in Nat /\ MarkBit > Cap
  BY RingAssumption
<1>2. Cap \in Nat /\ Cap > 0
  BY CapAssumption
<1> HIDE DEF WordSize
<1>3. OneLap \in Nat
  BY <1>1
<1>4. WordSize \in Nat
  BY <1>1, <1>3 DEF WordSize
<1> QED
  BY <1>1, <1>2, <1>3, <1>4 DEF WordSize

(* DivMod: division with remainder.                                         *)
LEMMA DivMod ==
    ASSUME NEW n \in Int, NEW c \in Nat, c > 0
    PROVE  n = c * (n \div c) + (n % c) /\ n % c \in 0 .. c - 1 /\ n \div c \in Int
  OBVIOUS

(* DivUnique: quotient and remainder are the only ones.                     *)
LEMMA DivUnique ==
    ASSUME NEW c \in Nat, c > 0, NEW q \in Int, NEW r \in 0 .. c - 1, NEW n, n = c * q + r
    PROVE  n \div c = q /\ n % c = r
  OBVIOUS

(* DivOfNat: the quotient of naturals is one.                               *)
LEMMA DivOfNat ==
    ASSUME NEW n \in Nat, NEW c \in Nat, c > 0
    PROVE  n \div c \in Nat
  OBVIOUS

(* Multiples: of c that are less than c apart are the same.                 *)
LEMMA Multiples ==
    ASSUME NEW c \in Nat, c > 0, NEW x \in Int, NEW y \in Int, c * x - c * y < c, c * y - c * x < c
    PROVE  x = y
<1>1. c * (x - y) < c /\ c * (y - x) < c
  OBVIOUS
<1>2. x - y < 1
  BY <1>1
<1>3. y - x < 1
  BY <1>1
<1> QED
  BY <1>2, <1>3

(* LapOf(n): the lap part of the n-th word, as a number of laps.            *)
LapOf(n) == (n \div Cap) % Laps

(* WordParts: the n-th word has a lap, no mark and the index of a slot.     *)
LEMMA WordParts ==
    ASSUME NEW n \in Nat
    PROVE  /\ LapOf(n) \in 0 .. Laps - 1 /\ SlotOf(n) \in 0 .. Cap - 1
           /\ WordAt(n) = OneLap * LapOf(n) + SlotOf(n) /\ WordAt(n) \in Nat
           /\ WordAt(n) = MarkBit * (2 * LapOf(n)) + SlotOf(n)
<1>1. SlotOf(n) \in 0 .. Cap - 1
  BY DivMod, RingConstants DEF SlotOf
<1>2. n \div Cap \in Int
  BY RingConstants
<1>3. LapOf(n) \in 0 .. Laps - 1
  BY <1>2, DivMod, RingConstants DEF LapOf
<1>4. WordAt(n) = OneLap * LapOf(n) + SlotOf(n)
  <2>1. WordAt(n) = LapOf(n) * OneLap + SlotOf(n)
    BY DEF WordAt, LapOf, SlotOf
  <2> QED
    BY <2>1, <1>3, RingConstants
<1>5. OneLap * LapOf(n) \in Nat
  BY <1>3, RingConstants
<1>6. OneLap * LapOf(n) = MarkBit * (2 * LapOf(n))
  BY <1>3, RingConstants
<1> QED
  BY <1>1, <1>3, <1>4, <1>5, <1>6

(* IndexAndMark: what the code finds in the n-th word, with and without     *)
(* the mark bit.                                                            *)
LEMMA IndexAndMark ==
    ASSUME NEW n \in Nat
    PROVE  /\ Index(WordAt(n)) = SlotOf(n) /\ Index(WordAt(n) + MarkBit) = SlotOf(n)
           /\ Mark(WordAt(n)) = 0 /\ Mark(WordAt(n) + MarkBit) = MarkBit /\ MarkBit # 0
           /\ Unmarked(WordAt(n)) = WordAt(n) /\ Unmarked(WordAt(n) + MarkBit) = WordAt(n)
           /\ WordAt(n) + MarkBit # WordAt(n)
<1> DEFINE q == 2 * LapOf(n)
<1>1. q \in Int /\ SlotOf(n) \in 0 .. MarkBit - 1 /\ WordAt(n) = MarkBit * q + SlotOf(n) /\ WordAt(n) \in Nat
  BY WordParts, RingConstants
<1>2. WordAt(n) + MarkBit = MarkBit * (q + 1) + SlotOf(n)
  BY <1>1, RingConstants
<1> HIDE DEF q
<1>3. WordAt(n) % MarkBit = SlotOf(n) /\ WordAt(n) \div MarkBit = q
  <2>1. MarkBit \in Nat /\ MarkBit > 0
    BY RingConstants
  <2> QED
    BY <2>1, <1>1, DivUnique, Zenon
<1>4. (WordAt(n) + MarkBit) % MarkBit = SlotOf(n) /\ (WordAt(n) + MarkBit) \div MarkBit = q + 1
  <2> DEFINE w == WordAt(n) + MarkBit
             a == q + 1
  <2>1. /\ a \in Int /\ MarkBit \in Nat /\ MarkBit > 0 /\ SlotOf(n) \in 0 .. MarkBit - 1
        /\ w = MarkBit * a + SlotOf(n)
    BY <1>1, <1>2, RingConstants
  <2> HIDE DEF w, a
  <2>2. w \div MarkBit = a /\ w % MarkBit = SlotOf(n)
    BY <2>1, DivUnique, Zenon
  <2> QED
    BY <2>2 DEF w, a
<1>5. q % 2 = 0 /\ (q + 1) % 2 = 1
  BY WordParts, RingConstants DEF q
<1>6. Mark(WordAt(n)) = 0
  BY <1>3, <1>5, RingConstants DEF Mark
<1>7. Mark(WordAt(n) + MarkBit) = MarkBit
  <2>1. Mark(WordAt(n) + MarkBit) = 1 * MarkBit
    BY <1>4, <1>5 DEF Mark
  <2> QED
    BY <2>1, RingConstants
<1>8. Index(WordAt(n)) = SlotOf(n) /\ Index(WordAt(n) + MarkBit) = SlotOf(n)
  BY <1>3, <1>4 DEF Index
<1> QED
  BY <1>1, <1>6, <1>7, <1>8, RingConstants DEF Unmarked

(* OneLapOn: a lap later the same slot has its next turn, and the lap after *)
(* the last is the first.                                                   *)
LEMMA OneLapOn ==
    ASSUME NEW n \in Nat
    PROVE  /\ SlotOf(n + Cap) = SlotOf(n)
           /\ LapOf(n + Cap) = IF LapOf(n) + 1 < Laps THEN LapOf(n) + 1 ELSE 0
<1> DEFINE q == n \div Cap
<1>1. q \in Nat /\ SlotOf(n) \in 0 .. Cap - 1 /\ n = Cap * q + SlotOf(n)
  BY DivMod, DivOfNat, RingConstants DEF SlotOf
<1>2. n + Cap = Cap * (q + 1) + SlotOf(n)
  BY <1>1, RingConstants
<1>3. (n + Cap) \div Cap = q + 1 /\ (n + Cap) % Cap = SlotOf(n)
  <2> DEFINE w == n + Cap
             a == q + 1
  <2>1. /\ a \in Int /\ Cap \in Nat /\ Cap > 0 /\ SlotOf(n) \in 0 .. Cap - 1
        /\ w = Cap * a + SlotOf(n)
    BY <1>1, <1>2, RingConstants
  <2> HIDE DEF w, a
  <2>2. w \div Cap = a /\ w % Cap = SlotOf(n)
    BY <2>1, DivUnique, Zenon
  <2> QED
    BY <2>2 DEF w, a
<1>4. LapOf(n) = q % Laps /\ LapOf(n + Cap) = (q + 1) % Laps
  BY <1>3 DEF LapOf
<1> HIDE DEF q
<1> DEFINE k == q \div Laps
<1>5. k \in Int /\ q = Laps * k + LapOf(n) /\ LapOf(n) \in 0 .. Laps - 1
  BY <1>1, <1>4, DivMod, RingConstants
<1> HIDE DEF k
<1>6. CASE LapOf(n) + 1 < Laps
  <2>1. q + 1 = Laps * k + (LapOf(n) + 1) /\ LapOf(n) + 1 \in 0 .. Laps - 1 /\ Laps \in Nat /\ Laps > 0
    BY <1>5, <1>6, RingConstants
  <2>2. (q + 1) % Laps = LapOf(n) + 1
    <3> DEFINE w == q + 1
               j == LapOf(n) + 1
    <3>1. w = Laps * k + j /\ j \in 0 .. Laps - 1 /\ Laps \in Nat /\ Laps > 0
      BY <2>1
    <3> HIDE DEF w, j
    <3>2. w % Laps = j
      BY <3>1, <1>5, DivUnique, Zenon
    <3> QED
      BY <3>2 DEF w, j
  <2> QED
    BY <2>2, <1>3, <1>4, <1>6 DEF SlotOf
<1>7. CASE ~ (LapOf(n) + 1 < Laps)
  <2>1. q + 1 = Laps * (k + 1) + 0 /\ k + 1 \in Int /\ 0 \in 0 .. Laps - 1 /\ Laps \in Nat /\ Laps > 0
    BY <1>5, <1>7, RingConstants
  <2>2. (q + 1) % Laps = 0
    <3> DEFINE w == q + 1
               j == k + 1
    <3>1. w = Laps * j + 0 /\ j \in Int /\ 0 \in 0 .. Laps - 1 /\ Laps \in Nat /\ Laps > 0
      BY <2>1
    <3> HIDE DEF w, j
    <3>2. w % Laps = 0
      BY <3>1, DivUnique, Zenon
    <3> QED
      BY <3>2 DEF w
  <2> QED
    BY <2>2, <1>3, <1>4, <1>7 DEF SlotOf
<1> QED
  BY <1>6, <1>7

(* NextLap: adding one lap to the n-th word, or to the stamp that is one    *)
(* ahead of it, with the word's overflow.                                   *)
LEMMA NextLap ==
    ASSUME NEW n \in Nat
    PROVE  /\ WrappingAdd(WordAt(n), OneLap) = WordAt(n + Cap)
           /\ WrappingAdd(WordAt(n) + 1, OneLap) = WordAt(n + Cap) + 1
           /\ SlotOf(n) + 1 = Cap => WrappingAdd(Lap(WordAt(n)), OneLap) = WordAt(n + 1)
<1> DEFINE l == LapOf(n)
           i == SlotOf(n)
           m == IF l + 1 < Laps THEN l + 1 ELSE 0
<1>1. n + Cap \in Nat /\ n + 1 \in Nat
  BY RingConstants
<1>2. /\ l \in 0 .. Laps - 1 /\ i \in 0 .. Cap - 1 /\ WordAt(n) = OneLap * l + i
      /\ WordAt(n + Cap) = OneLap * m + i
  BY <1>1, WordParts, OneLapOn
<1>3. \A j \in 0 .. Cap : (OneLap * l + j + OneLap) % WordSize = OneLap * m + j
  <2> SUFFICES ASSUME NEW j \in 0 .. Cap
               PROVE  (OneLap * l + j + OneLap) % WordSize = OneLap * m + j
    OBVIOUS
  <2> HIDE DEF l, i
  <2> DEFINE k == IF l + 1 < Laps THEN 0 ELSE 1
             n1 == OneLap * l + j + OneLap
  <2>1. OneLap * m + j \in 0 .. WordSize - 1
    <3>1. m \in 0 .. Laps - 1
      BY <1>2, RingConstants
    <3> HIDE DEF m
    <3>2. OneLap * m <= OneLap * (Laps - 1) /\ OneLap * m >= 0
      BY <3>1, RingConstants
    <3>3. j < OneLap /\ OneLap * (Laps - 1) = WordSize - OneLap
      BY RingConstants
    <3>4. OneLap * m \in Nat /\ j \in Nat /\ WordSize \in Nat /\ OneLap \in Nat
      BY <3>1, RingConstants
    <3> QED
      BY <3>2, <3>3, <3>4
  <2>2. n1 = WordSize * k + (OneLap * m + j)
    <3>1. CASE l + 1 < Laps
      BY <3>1, <1>2, RingConstants
    <3>2. CASE ~ (l + 1 < Laps)
      <4>1. l = Laps - 1 /\ k = 1 /\ m = 0
        BY <3>2, <1>2, RingConstants
      <4>2. OneLap * l = WordSize - OneLap
        BY <4>1, RingConstants
      <4> QED
        BY <4>1, <4>2, RingConstants
    <3> QED
      BY <3>1, <3>2
  <2>3. k \in Int /\ WordSize \in Nat /\ WordSize > 0
    <3>1. Laps * OneLap > 0
      BY RingConstants
    <3> QED
      BY <3>1, RingConstants
  <2> DEFINE r == OneLap * m + j
  <2>4. n1 % WordSize = r
    <3>1. n1 = WordSize * k + r /\ r \in 0 .. WordSize - 1
      BY <2>1, <2>2
    <3> HIDE DEF k, n1, m, r
    <3> QED
      BY <3>1, <2>3, DivUnique, Zenon
  <2> HIDE DEF k, m
  <2> QED
    BY <2>4
<1>4. WrappingAdd(WordAt(n), OneLap) = WordAt(n + Cap)
  <2>1. i \in 0 .. Cap /\ WordAt(n) + OneLap = OneLap * l + i + OneLap
    BY <1>2, RingConstants
  <2> QED
    BY <2>1, <1>2, <1>3 DEF WrappingAdd
<1>5. WrappingAdd(WordAt(n) + 1, OneLap) = WordAt(n + Cap) + 1
  <2> HIDE DEF l, i
  <2>1. i + 1 \in 0 .. Cap /\ OneLap * l \in Int /\ OneLap * m \in Int /\ OneLap \in Int /\ i \in Int
    BY <1>2, RingConstants
  <2>2. (OneLap * l + (i + 1) + OneLap) % WordSize = OneLap * m + (i + 1)
    BY <2>1, <1>3
  <2>3. WordAt(n) + 1 + OneLap = OneLap * l + (i + 1) + OneLap /\ OneLap * m + (i + 1) = OneLap * m + i + 1
    BY <2>1, <1>2
  <2> QED
    BY <2>2, <2>3, <1>2 DEF WrappingAdd
<1>6. ASSUME SlotOf(n) + 1 = Cap PROVE WrappingAdd(Lap(WordAt(n)), OneLap) = WordAt(n + 1)
  <2>1. WordAt(n) % OneLap = i
    <3>1. OneLap \in Nat /\ OneLap > 0 /\ i \in 0 .. OneLap - 1 /\ l \in Int
      BY <1>2, RingConstants
    <3> HIDE DEF l, i
    <3> QED
      BY <3>1, <1>2, DivUnique, Zenon
  <2>2. Lap(WordAt(n)) = OneLap * l
    <3> HIDE DEF l, i
    <3>1. OneLap * l \in Int /\ i \in Int
      BY <1>2, RingConstants
    <3> QED
      BY <3>1, <2>1, <1>2 DEF Lap
  <2>3. WrappingAdd(Lap(WordAt(n)), OneLap) = OneLap * m
    <3> HIDE DEF l, i, m
    <3>1. 0 \in 0 .. Cap /\ OneLap * l \in Int /\ OneLap \in Int
      BY <1>2, RingConstants
    <3>2. (OneLap * l + 0 + OneLap) % WordSize = OneLap * m + 0
      BY <3>1, <1>3
    <3>3. OneLap * m \in Int
      BY <1>2, RingConstants DEF m
    <3>4. OneLap * l + 0 + OneLap = OneLap * l + OneLap /\ OneLap * m + 0 = OneLap * m
      BY <3>1, <3>3
    <3> QED
      BY <2>2, <3>2, <3>4 DEF WrappingAdd
  <2>4. SlotOf(n + 1) = 0 /\ LapOf(n + 1) = m
    <3> DEFINE q == n \div Cap
    <3>1. n = Cap * q + i /\ q \in Int
      BY DivMod, RingConstants DEF SlotOf
    <3> HIDE DEF q
    <3> DEFINE a == q + 1
               w == n + 1
               v == n + Cap
    <3>2. a \in Int /\ Cap * a = Cap * q + Cap /\ Cap * q \in Int
      BY <3>1, RingConstants
    <3> HIDE DEF a
    <3>3. /\ Cap \in Nat /\ Cap > 0 /\ 0 \in 0 .. Cap - 1 /\ i \in 0 .. Cap - 1
          /\ w = Cap * a + 0 /\ v = Cap * a + i
      <4>1. i + 1 = Cap /\ i \in 0 .. Cap - 1
        BY <1>6, <1>2
      <4> HIDE DEF i
      <4> QED
        BY <4>1, <3>1, <3>2, RingConstants
    <3> HIDE DEF a, w, v, i
    <3>4. w \div Cap = a /\ w % Cap = 0
      BY <3>2, <3>3, DivUnique, Zenon
    <3>5. v \div Cap = a
      BY <3>2, <3>3, DivUnique, Zenon
    <3> QED
      BY <3>4, <3>5, OneLapOn DEF SlotOf, LapOf, w, v
  <2>5. WordAt(n + 1) = OneLap * m + 0
    <3> HIDE DEF m
    <3> QED
      BY <2>4, <1>1, WordParts
  <2> HIDE DEF l, i, m
  <2>6. OneLap * m \in Int
    BY <1>2, RingConstants DEF m
  <2> QED
    BY <2>3, <2>5, <2>6
<1> QED
  BY <1>4, <1>5, <1>6

(* NextWord: the word after the n-th is the (n + 1)st.                      *)
LEMMA NextWord ==
    ASSUME NEW n \in Nat
    PROVE  Successor(WordAt(n)) = WordAt(n + 1)
<1>1. Index(WordAt(n)) = SlotOf(n) /\ SlotOf(n) \in 0 .. Cap - 1
  BY IndexAndMark, WordParts
<1>2. CASE SlotOf(n) + 1 < Cap
  <2> DEFINE q == n \div Cap
  <2>1. n = Cap * q + SlotOf(n) /\ q \in Int
    BY DivMod, RingConstants DEF SlotOf
  <2>2. n + 1 = Cap * q + (SlotOf(n) + 1) /\ SlotOf(n) + 1 \in 0 .. Cap - 1 /\ Cap \in Nat /\ Cap > 0
    BY <2>1, <1>1, <1>2, RingConstants
  <2>3. (n + 1) \div Cap = q /\ (n + 1) % Cap = SlotOf(n) + 1
    <3> HIDE DEF q
    <3> DEFINE w == n + 1
               j == SlotOf(n) + 1
    <3>1. w = Cap * q + j /\ j \in 0 .. Cap - 1 /\ Cap \in Nat /\ Cap > 0
      BY <2>2
    <3> HIDE DEF w, j
    <3>2. w \div Cap = q /\ w % Cap = j
      BY <3>1, <2>1, DivUnique, Zenon
    <3> QED
      BY <3>2 DEF w, j
  <2>4. LapOf(n + 1) = LapOf(n) /\ SlotOf(n + 1) = SlotOf(n) + 1
    BY <2>3 DEF LapOf, SlotOf
  <2>5. /\ WordAt(n + 1) = OneLap * LapOf(n) + (SlotOf(n) + 1)
        /\ WordAt(n) = OneLap * LapOf(n) + SlotOf(n)
        /\ LapOf(n) \in 0 .. Laps - 1
    BY <2>4, WordParts
  <2>6. OneLap * LapOf(n) \in Int
    BY <2>5, RingConstants
  <2> QED
    BY <2>5, <2>6, <1>1, <1>2 DEF Successor
<1>3. CASE ~ (SlotOf(n) + 1 < Cap)
  <2>1. SlotOf(n) + 1 = Cap
    BY <1>1, <1>3, RingConstants
  <2> QED
    BY <2>1, <1>1, <1>3, NextLap DEF Successor
<1> QED
  BY <1>2, <1>3

(* SameSlot: positions less than a lap apart have different slots.          *)
LEMMA SameSlot ==
    ASSUME NEW m \in Nat, NEW n \in Nat, SlotOf(m) = SlotOf(n), m - n < Cap, n - m < Cap
    PROVE  m = n
<1> DEFINE x == m \div Cap
           y == n \div Cap
<1>1. m = Cap * x + SlotOf(m) /\ x \in Int /\ n = Cap * y + SlotOf(n) /\ y \in Int
  BY DivMod, RingConstants DEF SlotOf
<1>2. SlotOf(n) \in Int /\ Cap \in Nat /\ Cap > 0
  BY WordParts, RingConstants
<1> HIDE DEF x, y
<1>3. Cap * x \in Int /\ Cap * y \in Int
  BY <1>1, <1>2
<1>4. Cap * x - Cap * y < Cap /\ Cap * y - Cap * x < Cap
  BY <1>1, <1>2, <1>3
<1>5. x = y
  BY <1>1, <1>2, <1>4, Multiples, Zenon
<1> QED
  BY <1>1, <1>5

(* WordsDiffer: two words less than all the laps apart are different.       *)
LEMMA WordsDiffer ==
    ASSUME NEW m \in Nat, NEW n \in Nat, WordAt(m) = WordAt(n),
           m - n < Laps * Cap, n - m < Laps * Cap
    PROVE  m = n
<1>1. Index(WordAt(m)) = SlotOf(m) /\ Index(WordAt(n)) = SlotOf(n)
  BY IndexAndMark
<1>2. SlotOf(m) = SlotOf(n)
  BY <1>1
<1>3. /\ LapOf(m) \in Int /\ LapOf(n) \in Int /\ SlotOf(n) \in Int
      /\ OneLap * LapOf(m) + SlotOf(n) = OneLap * LapOf(n) + SlotOf(n) /\ OneLap \in Nat /\ OneLap > 0
  BY <1>2, WordParts, RingConstants
<1>4. OneLap * LapOf(m) = OneLap * LapOf(n)
  <2>1. OneLap * LapOf(m) \in Int /\ OneLap * LapOf(n) \in Int
    BY <1>3
  <2> QED
    BY <2>1, <1>3
<1>5. LapOf(m) = LapOf(n)
  <2>1. OneLap * LapOf(m) - OneLap * LapOf(n) < OneLap /\ OneLap * LapOf(n) - OneLap * LapOf(m) < OneLap
    BY <1>3, <1>4
  <2> QED
    BY <2>1, <1>3, Multiples, Zenon
<1> DEFINE x == m \div Cap
           y == n \div Cap
           a == x \div Laps
           b == y \div Laps
<1>6. m = Cap * x + SlotOf(m) /\ x \in Int /\ n = Cap * y + SlotOf(n) /\ y \in Int
  BY DivMod, RingConstants DEF SlotOf
<1>7. x = Laps * a + LapOf(m) /\ a \in Int /\ y = Laps * b + LapOf(n) /\ b \in Int
  BY <1>6, DivMod, RingConstants DEF LapOf
<1> HIDE DEF x, y, a, b
<1>8. m - n = (Laps * Cap) * a - (Laps * Cap) * b
  <2>1. m - n = Cap * x - Cap * y
    <3>1. Cap * x \in Int /\ Cap * y \in Int
      BY <1>6, RingConstants
    <3> QED
      BY <3>1, <1>2, <1>3, <1>6
  <2>2. Cap * x = Cap * (Laps * a) + Cap * LapOf(m) /\ Cap * y = Cap * (Laps * b) + Cap * LapOf(n)
    BY <1>3, <1>7, RingConstants
  <2>3. Cap * (Laps * a) = (Laps * Cap) * a /\ Cap * (Laps * b) = (Laps * Cap) * b
    BY <1>7, RingConstants
  <2>4. Cap * LapOf(m) \in Int /\ Cap * LapOf(m) = Cap * LapOf(n)
    BY <1>3, <1>5, RingConstants
  <2>5. (Laps * Cap) * a \in Int /\ (Laps * Cap) * b \in Int
    BY <1>7, RingConstants
  <2> QED
    BY <2>1, <2>2, <2>3, <2>4, <2>5
<1>9. Laps * Cap \in Nat /\ Laps * Cap > 0
  BY RingConstants
<1> DEFINE c == Laps * Cap
<1>10. c \in Nat /\ c > 0 /\ m - n = c * a - c * b /\ m - n < c /\ n - m < c
  BY <1>8, <1>9
<1> HIDE DEF c
<1>11. c * a \in Int /\ c * b \in Int
  BY <1>7, <1>10
<1>12. c * a - c * b < c /\ c * b - c * a < c
  BY <1>10, <1>11
<1>13. a = b
  BY <1>7, <1>10, <1>12, Multiples, Zenon
<1> QED
  BY <1>10, <1>11, <1>13

(* WithinLap: what is left of a word, and of the stamp one ahead of it,     *)
(* without the lap.                                                         *)
LEMMA WithinLap ==
    ASSUME NEW n \in Nat
    PROVE  WordAt(n) % OneLap = SlotOf(n) /\ (WordAt(n) + 1) % OneLap = SlotOf(n) + 1
<1>1. /\ LapOf(n) \in Int /\ SlotOf(n) \in 0 .. OneLap - 1 /\ SlotOf(n) + 1 \in 0 .. OneLap - 1
      /\ OneLap \in Nat /\ OneLap > 0 /\ WordAt(n) = OneLap * LapOf(n) + SlotOf(n)
  BY WordParts, RingConstants
<1>2. WordAt(n) % OneLap = SlotOf(n)
  BY <1>1, DivUnique, Zenon
<1> DEFINE w == WordAt(n) + 1
           j == SlotOf(n) + 1
<1>3. w = OneLap * LapOf(n) + j /\ j \in 0 .. OneLap - 1
  <2>1. OneLap * LapOf(n) \in Int
    BY <1>1
  <2> QED
    BY <2>1, <1>1
<1> HIDE DEF w, j
<1>4. w % OneLap = j
  BY <1>1, <1>3, DivUnique, Zenon
<1> QED
  BY <1>2, <1>4 DEF w, j

(* StampsDiffer: in one slot, a stamp that says "free" is never one that    *)
(* says "taken".                                                            *)
LEMMA StampsDiffer ==
    ASSUME NEW m \in Nat, NEW n \in Nat, SlotOf(m) = SlotOf(n)
    PROVE  WordAt(m) # WordAt(n) + 1
<1>1. WordAt(m) % OneLap = SlotOf(m) /\ (WordAt(n) + 1) % OneLap = SlotOf(n) + 1
  BY WithinLap
<1>2. SlotOf(n) \in Int
  BY WordParts
<1> QED
  BY <1>1, <1>2

(* TailParts: a tail is the word of its position, and perhaps the mark.     *)
LEMMA TailParts ==
    ASSUME NEW n \in Nat, NEW w \in TailAt(n)
    PROVE  /\ w \in Nat /\ Index(w) = SlotOf(n) /\ Unmarked(w) = WordAt(n)
           /\ w = WordAt(n) + Mark(w) /\ Mark(w) \in {0, MarkBit}
           /\ Mark(w) = 0 <=> w = WordAt(n)
  BY IndexAndMark, WordParts, RingConstants DEF TailAt

-----------------------------------------------------------------------------
(* The start.                                                               *)

(* StartWords: a ring may start at the beginning of any lap.                *)
LEMMA StartWords ==
    ASSUME NEW lap \in 0 .. Laps - 1, NEW i \in 0 .. Cap - 1
    PROVE  lap * Cap + i \in Nat /\ SlotOf(lap * Cap + i) = i /\ WordAt(lap * Cap + i) = lap * OneLap + i
<1> DEFINE n == lap * Cap + i
<1>1. lap * Cap \in Nat /\ n \in Nat /\ n = Cap * lap + i /\ Cap \in Nat /\ Cap > 0 /\ lap \in Int
  BY RingConstants
<1> HIDE DEF n
<1>2. n \div Cap = lap /\ n % Cap = i
  BY <1>1, DivUnique, Zenon
<1>4. lap % Laps = lap
  BY RingConstants
<1> QED
  BY <1>1, <1>2, <1>4 DEF SlotOf, WordAt, n

(* RingInvInit: the invariant holds of a ring that nobody uses yet.         *)
LEMMA RingInvInit == RingInit => RingInv
<1> SUFFICES ASSUME RingInit PROVE RingInv
  OBVIOUS
<1> PICK lap \in StartLaps :
        /\ head = lap * OneLap
        /\ tail = lap * OneLap
        /\ stamp = [i \in 0 .. Cap - 1 |-> lap * OneLap + i]
        /\ slot = [i \in 0 .. Cap - 1 |-> NoMsg]
        /\ step = [t \in Thread |-> "idle"]
        /\ word = [t \in Thread |-> 0]
        /\ word2 = [t \in Thread |-> 0]
        /\ msg = [t \in Thread |-> NoMsg]
        /\ next = 0
        /\ queue = <<>>
        /\ res = [t \in Thread |-> <<"none">>]
        /\ seen = [t \in Thread |-> 0]
        /\ popped = lap * Cap
        /\ pushed = lap * Cap
        /\ pos = [t \in Thread |-> 0]
  BY DEF RingInit
<1>1. lap \in 0 .. Laps - 1 /\ MaxMsgs \in Nat
  BY RingAssumption
<1>2. lap * OneLap \in Nat /\ lap * Cap \in Nat /\ Cap \in Nat /\ Cap > 0
  BY <1>1, RingConstants
<1>3. RingTypes
  BY <1>1, <1>2 DEF RingTypes, RingSteps, NoMsg
<1>4. EndsFit
  <2>1. 0 \in 0 .. Cap - 1 /\ lap * Cap + 0 = lap * Cap /\ lap * OneLap + 0 = lap * OneLap
    BY <1>2
  <2>2. WordAt(lap * Cap) = lap * OneLap
    BY <1>1, <2>1, StartWords
  <2> QED
    BY <2>2, <1>2 DEF EndsFit, TailAt
<1>5. OwnersApart
  BY DEF OwnersApart, Writing, Reading
<1>6. StampsFit
  <2> SUFFICES ASSUME NEW p \in popped .. popped + Cap - 1
               PROVE  /\ stamp[SlotOf(p)] = WordAt(p)
                      /\ ~ (p < pushed)
                      /\ ~ Reader(p - Cap)
    BY DEF StampsFit
  <2> DEFINE i == p - lap * Cap
  <2>1. i \in 0 .. Cap - 1 /\ lap * Cap + i = p /\ ~ (p < pushed)
    BY <1>2
  <2> HIDE DEF i
  <2>2. SlotOf(p) = i /\ WordAt(p) = lap * OneLap + i
    BY <2>1, <1>1, StartWords
  <2> QED
    BY <2>1, <2>2 DEF Reader, Reads, Reading
<1>7. MessagesFit
  BY <1>2 DEF MessagesFit
<1>8. ASSUME NEW t \in Thread PROVE ThreadFits(t)
  BY DEF ThreadFits, WordFits, CasFits, LenFits, ResultFits, TailSteps, HeadSteps, Writing, Reading,
         Asking, Sending
<1> QED
  BY <1>3, <1>4, <1>5, <1>6, <1>7, <1>8 DEF RingInv

-----------------------------------------------------------------------------
(* Facts about a ring in which the invariant holds.                         *)

(* FreeSlot: a tail's slot that has the tail's stamp is free, and nobody    *)
(* is still reading it.                                                     *)
LEMMA FreeSlot ==
    ASSUME RingInv, stamp[SlotOf(pushed)] = WordAt(pushed)
    PROVE  pushed < popped + Cap /\ ~ Reader(pushed - Cap)
<1>1. /\ popped \in Nat /\ pushed \in Nat /\ pushed >= popped /\ pushed <= popped + Cap
      /\ pos \in [Thread -> Nat] /\ StampsFit
  BY DEF RingInv, RingTypes, EndsFit
<1>2. Cap < Laps * Cap
  BY RingConstants
<1>3. ASSUME pushed = popped + Cap PROVE FALSE
  <2>1. SlotOf(pushed) = SlotOf(popped)
    BY <1>1, <1>3, OneLapOn
  <2>2. popped \in popped .. popped + Cap - 1 /\ popped < pushed
    BY <1>1, <1>3, RingConstants
  <2>3. stamp[SlotOf(popped)] = WordAt(popped) \/ stamp[SlotOf(popped)] = WordAt(popped) + 1
    BY <1>1, <2>2 DEF StampsFit
  <2>4. WordAt(pushed) # WordAt(popped) + 1
    BY <2>1, <1>1, StampsDiffer
  <2>5. WordAt(pushed) = WordAt(popped)
    BY <2>1, <2>3, <2>4
  <2>6. pushed - popped < Laps * Cap /\ popped - pushed < Laps * Cap
    BY <1>1, <1>2, <1>3, RingConstants
  <2>7. pushed = popped
    BY <2>5, <2>6, <1>1, WordsDiffer
  <2> QED
    BY <2>7, <2>2, <1>1
<1>4. pushed < popped + Cap
  BY <1>1, <1>3, RingConstants
<1>5. ASSUME Reader(pushed - Cap) PROVE FALSE
  <2>1. PICK t \in Thread : pos[t] = pushed - Cap
    BY <1>5 DEF Reader, Reads
  <2>2. pos[t] \in Nat /\ pos[t] + Cap = pushed
    BY <2>1, <1>1, RingConstants
  <2>3. SlotOf(pushed) = SlotOf(pos[t])
    BY <2>2, OneLapOn
  <2>4. pushed \in popped .. popped + Cap - 1
    BY <1>1, <1>4, RingConstants
  <2>5. stamp[SlotOf(pushed)] = WordAt(pos[t]) + 1
    BY <1>5, <2>1, <2>4, <1>1 DEF StampsFit
  <2> QED
    BY <2>2, <2>3, <2>5, <1>1, StampsDiffer
<1> QED
  BY <1>4, <1>5

(* TakenSlot: a head's slot whose stamp is one ahead of the head holds a    *)
(* message that has been written.                                           *)
LEMMA TakenSlot ==
    ASSUME RingInv, stamp[SlotOf(popped)] = WordAt(popped) + 1
    PROVE  popped < pushed /\ ~ Writer(popped)
<1>1. /\ popped \in Nat /\ pushed \in Nat /\ pushed >= popped /\ pushed <= popped + Cap
      /\ pos \in [Thread -> Nat] /\ StampsFit /\ WordAt(popped) \in Nat
  BY WordParts DEF RingInv, RingTypes, EndsFit
<1>2. Cap < Laps * Cap
  BY RingConstants
<1>3. popped \in popped .. popped + Cap - 1
  BY <1>1, RingConstants
<1>4. ASSUME popped = pushed PROVE FALSE
  <2>1. Reader(popped - Cap) /\ stamp[SlotOf(popped)] = WordAt(popped - Cap) + 1
    BY <1>1, <1>3, <1>4 DEF StampsFit
  <2>2. PICK t \in Thread : pos[t] = popped - Cap
    BY <2>1 DEF Reader, Reads
  <2>3. pos[t] \in Nat /\ pos[t] + Cap = popped /\ WordAt(pos[t]) \in Nat
    BY <2>2, <1>1, WordParts, RingConstants
  <2>4. WordAt(pos[t]) = WordAt(popped)
    BY <2>1, <2>2, <2>3, <1>1
  <2>5. popped - pos[t] < Laps * Cap /\ pos[t] - popped < Laps * Cap
    BY <1>1, <1>2, <2>3, RingConstants
  <2>6. pos[t] = popped
    BY <2>3, <2>4, <2>5, <1>1, WordsDiffer
  <2> QED
    BY <2>3, <2>6, <1>1, RingConstants
<1>5. popped < pushed
  BY <1>1, <1>4
<1>6. ASSUME Writer(popped) PROVE FALSE
  BY <1>1, <1>3, <1>5, <1>6 DEF StampsFit
<1> QED
  BY <1>5, <1>6

(* TailIsMine, HeadIsMine: a thread whose word is still in the tail or the  *)
(* head holds its position too, since nobody was lapped.                    *)
LEMMA TailIsMine ==
    ASSUME RingInv, NobodyLapped, NEW t \in Thread, step[t] \in TailSteps, tail = word[t]
    PROVE  pos[t] = pushed
<1>1. /\ pushed \in Nat /\ pos[t] \in Nat /\ pos[t] <= pushed
      /\ word[t] \in TailAt(pos[t]) /\ tail \in TailAt(pushed)
  BY DEF RingInv, RingTypes, EndsFit, ThreadFits, WordFits
<1>2. WordAt(pos[t]) = WordAt(pushed)
  BY <1>1, TailParts
<1>3. pushed - pos[t] < (Laps - 1) * Cap
  BY DEF NobodyLapped
<1>4. (Laps - 1) * Cap < Laps * Cap /\ Laps * Cap > 0 /\ Laps * Cap \in Int /\ (Laps - 1) * Cap \in Int
  BY RingConstants
<1>5. pushed - pos[t] < Laps * Cap /\ pos[t] - pushed < Laps * Cap
  BY <1>1, <1>3, <1>4
<1> QED
  BY <1>1, <1>2, <1>5, WordsDiffer

(* HeadIsMine: the same for a receiver and the head.                        *)
LEMMA HeadIsMine ==
    ASSUME RingInv, NobodyLapped, NEW t \in Thread, step[t] \in HeadSteps
    PROVE  /\ head = word[t] => pos[t] = popped
           /\ Unmarked(tail) = word[t] => pos[t] = pushed
<1>1. /\ popped \in Nat /\ pushed \in Nat /\ pos[t] \in Nat /\ pos[t] <= popped /\ popped <= pushed
      /\ word[t] = WordAt(pos[t]) /\ head = WordAt(popped) /\ tail \in TailAt(pushed)
  BY DEF RingInv, RingTypes, EndsFit, ThreadFits, WordFits
<1>2. Unmarked(tail) = WordAt(pushed)
  BY <1>1, TailParts
<1>3. pushed - pos[t] < (Laps - 1) * Cap
  BY DEF NobodyLapped
<1>4. (Laps - 1) * Cap < Laps * Cap /\ Laps * Cap > 0 /\ Laps * Cap \in Int /\ (Laps - 1) * Cap \in Int
  BY RingConstants
<1>5. /\ pushed - pos[t] < Laps * Cap /\ pos[t] - pushed < Laps * Cap
      /\ popped - pos[t] < Laps * Cap /\ pos[t] - popped < Laps * Cap
  BY <1>1, <1>3, <1>4
<1> QED
  BY <1>1, <1>2, <1>5, WordsDiffer

(* FullIsFull: a thread that finds the head one lap behind its tail knows   *)
(* that the ring is full now.                                               *)
LEMMA FullIsFull ==
    ASSUME RingInv, NobodyLapped, NEW t \in Thread, step[t] \in TailSteps,
           WrappingAdd(head, OneLap) = Unmarked(word[t])
    PROVE  pos[t] = pushed /\ pushed = popped + Cap
<1>1. /\ popped \in Nat /\ pushed \in Nat /\ pos[t] \in Nat /\ pos[t] <= pushed /\ pushed <= popped + Cap
      /\ popped <= pushed /\ word[t] \in TailAt(pos[t]) /\ head = WordAt(popped)
  BY DEF RingInv, RingTypes, EndsFit, ThreadFits, WordFits
<1> DEFINE e == popped + Cap
<1>2. WordAt(e) = WordAt(pos[t]) /\ e \in Nat
  BY <1>1, TailParts, NextLap, RingConstants
<1>3. pushed - pos[t] < (Laps - 1) * Cap
  BY DEF NobodyLapped
<1>4. (Laps - 1) * Cap + Cap = Laps * Cap /\ Laps * Cap > 0 /\ Laps * Cap \in Int /\ (Laps - 1) * Cap \in Int
  BY RingConstants
<1>5. e - pos[t] < Laps * Cap /\ pos[t] - e < Laps * Cap
  BY <1>1, <1>3, <1>4, RingConstants
<1>6. pos[t] = e
  <2> HIDE DEF e
  <2> QED
    BY <1>1, <1>2, <1>5, WordsDiffer
<1> QED
  BY <1>1, <1>6, RingConstants

-----------------------------------------------------------------------------
(* Steps that change nothing but what one thread has in hand.               *)

OthersKept(t) ==
    \A u \in Thread \ {t} :
        /\ step'[u] = step[u] /\ word'[u] = word[u] /\ pos'[u] = pos[u] /\ word2'[u] = word2[u]
        /\ msg'[u] = msg[u] /\ res'[u] = res[u] /\ seen'[u] = seen[u]

LocalStep(t) ==
    /\ UNCHANGED <<ring, queue>> /\ OthersKept(t)
    /\ step[t] \notin Writing /\ step'[t] \notin Writing
    /\ step[t] \in Reading <=> step'[t] \in Reading
    /\ step[t] \in Reading => pos'[t] = pos[t]

(* LocalSteps: such a step keeps the invariant if it keeps its thread's.    *)
LEMMA LocalSteps ==
    ASSUME RingInv, NEW t \in Thread, LocalStep(t), RingTypes', ThreadFits(t)'
    PROVE  RingInv'
<1>1. /\ UNCHANGED <<head, tail, popped, pushed, stamp, slot, queue>> /\ OthersKept(t)
      /\ step[t] \notin Writing /\ step'[t] \notin Writing
      /\ step[t] \in Reading <=> step'[t] \in Reading
      /\ step[t] \in Reading => pos'[t] = pos[t]
  BY DEF LocalStep, ring, ends
<1>2. \A p : Writer(p)' <=> Writer(p)
  BY <1>1 DEF Writer, Writes, OthersKept
<1>3. \A p : Reader(p)' <=> Reader(p)
  BY <1>1 DEF Reader, Reads, OthersKept
<1>4. EndsFit'
  BY <1>1 DEF RingInv, EndsFit
<1>5. OwnersApart'
  <2> SUFFICES ASSUME NEW u \in Thread, NEW v \in Thread
               PROVE  /\ step'[u] \in Writing /\ step'[v] \in Writing /\ pos'[u] = pos'[v] => u = v
                      /\ step'[u] \in Reading /\ step'[v] \in Reading /\ pos'[u] = pos'[v] => u = v
    BY DEF OwnersApart
  <2> QED
    BY <1>1 DEF RingInv, OwnersApart, OthersKept
<1>6. StampsFit'
  BY <1>1, <1>2, <1>3 DEF RingInv, StampsFit
<1>7. MessagesFit'
  <2>1. step[t] # "s_write" /\ step'[t] # "s_write"
    BY <1>1 DEF Writing
  <2> QED
    BY <1>1, <2>1 DEF RingInv, MessagesFit, OthersKept
<1>8. ASSUME NEW u \in Thread, u # t PROVE ThreadFits(u)'
  <2>1. ThreadFits(u)
    BY DEF RingInv
  <2>2. /\ step'[u] = step[u] /\ word'[u] = word[u] /\ pos'[u] = pos[u] /\ word2'[u] = word2[u]
        /\ msg'[u] = msg[u] /\ res'[u] = res[u] /\ seen'[u] = seen[u]
    BY <1>1, <1>8 DEF OthersKept
  <2> QED
    BY <1>1, <1>2, <1>3, <2>1, <2>2 DEF ThreadFits, WordFits, CasFits, LenFits, ResultFits
<1> QED
  BY <1>4, <1>5, <1>6, <1>7, <1>8 DEF RingInv

(* RingFacts: what the next lemmas use of the invariant about one thread.   *)
LEMMA RingFacts ==
    ASSUME RingInv, NEW t \in Thread
    PROVE  /\ RingTypes /\ ThreadFits(t) /\ head \in Nat /\ tail \in Nat
           /\ step[t] \in RingSteps /\ popped \in Nat /\ pushed \in Nat
           /\ word[t] \in Nat /\ pos[t] \in Nat
  <1>1. RingTypes /\ ThreadFits(t) /\ popped \in Nat /\ pushed \in Nat
    BY DEF RingInv, RingTypes
  <1>2. head \in Nat
    BY <1>1, WordParts DEF RingInv, EndsFit
  <1>3. tail \in Nat
    BY <1>1, TailParts DEF RingInv, EndsFit
  <1> QED
    BY <1>1, <1>2, <1>3 DEF RingTypes

(* LoadsKeep: loads of the head or the tail.                                *)
LEMMA LoadsKeep ==
    ASSUME RingInv, NEW t \in Thread,
           \/ t \in Sender /\ (SendLoadTail(t) \/ SendCasFails(t) \/ CallIsFull(t))
           \/ t \in Receiver /\ (RecvLoadHead(t) \/ RecvCasFails(t) \/ CallIsEmpty(t) \/ LenLoadTail(t))
    PROVE  RingInv'
<1> USE DEF LoadTail, LoadHead, Hold, Go, Result, hist, ring, ends
<1>1. /\ RingTypes /\ ThreadFits(t) /\ head \in Nat /\ tail \in Nat /\ popped \in Nat /\ pushed \in Nat
      /\ head = WordAt(popped) /\ tail \in TailAt(pushed)
  BY RingFacts DEF RingInv, EndsFit
<1>2. /\ UNCHANGED <<ring, queue, word2, msg, next, seen>>
      /\ \E to \in {"s_stamp", "f_head", "r_stamp", "e_tail", "l_head"} : step' = [step EXCEPT ![t] = to]
      /\ \/ res' = res \/ res' = [res EXCEPT ![t] = <<"none">>]
      /\ \/ step'[t] \in {"r_stamp", "e_tail"} /\ word' = [word EXCEPT ![t] = head] /\ pos' = [pos EXCEPT ![t] = popped]
         \/ step'[t] \in {"s_stamp", "f_head", "l_head"} /\ word' = [word EXCEPT ![t] = tail] /\ pos' = [pos EXCEPT ![t] = pushed]
      /\ step[t] \notin Writing \cup Reading
      /\ step'[t] = "s_stamp" => step[t] \in Sending
      /\ step'[t] \in Asking => step[t] \in Asking \/ res'[t] = <<"none">>
  BY <1>1 DEF SendLoadTail, SendCasFails, CallIsFull, RecvLoadHead, RecvCasFails, CallIsEmpty, LenLoadTail,
         Writing, Reading, Sending, Asking, RingTypes
<1>3. RingTypes'
  <2>1. step' \in [Thread -> RingSteps]
    BY <1>1, <1>2 DEF RingTypes, RingSteps, Asking, Sending, TailSteps
  <2>2. word' \in [Thread -> Nat] /\ pos' \in [Thread -> Nat]
    <3>1. word \in [Thread -> Nat] /\ pos \in [Thread -> Nat]
      BY <1>1 DEF RingTypes
    <3>2. \E w \in Nat, n \in Nat : word' = [word EXCEPT ![t] = w] /\ pos' = [pos EXCEPT ![t] = n]
      BY <1>1, <1>2
    <3> QED
      BY <3>1, <3>2
  <2>3. res' = [u \in Thread |-> res'[u]]
    BY <1>1, <1>2 DEF RingTypes
  <2> QED
    BY <1>1, <1>2, <2>1, <2>2, <2>3 DEF RingTypes
<1>4. LocalStep(t)
  BY <1>1, <1>2 DEF LocalStep, OthersKept, RingTypes, Writing, Reading
<1>5. ThreadFits(t)'
  <2>1. word'[t] = (IF step'[t] \in HeadSteps THEN head ELSE tail)
        /\ pos'[t] = (IF step'[t] \in HeadSteps THEN popped ELSE pushed)
        /\ step'[t] \in {"s_stamp", "f_head", "r_stamp", "e_tail", "l_head"}
    BY <1>1, <1>2 DEF RingTypes, HeadSteps
  <2>2. WordFits(t)'
    BY <1>1, <1>2, <2>1 DEF WordFits, TailSteps, HeadSteps, Writing, Reading
  <2>3. CasFits(t)' /\ LenFits(t)'
    BY <2>1 DEF CasFits, LenFits
  <2>4. ResultFits(t)'
    <3>1. step'[t] \in Asking => res'[t] = <<"none">>
      BY <1>1, <1>2 DEF ThreadFits, ResultFits, RingTypes
    <3>2. step'[t] \in Sending \cup {"s_write"} => msg'[t] \in Msg
      BY <1>1, <1>2, <2>1 DEF ThreadFits, ResultFits, Sending
    <3> QED
      BY <3>1, <3>2, <2>1 DEF ResultFits
  <2> QED
    BY <2>2, <2>3, <2>4 DEF ThreadFits
<1> QED
  BY <1>3, <1>4, <1>5, LocalSteps

(* CallsKeep: the start of a call.                                          *)
LEMMA CallsKeep ==
    ASSUME RingInv, NEW t \in Thread,
           \/ t \in Sender /\ CallTrySend(t)
           \/ t \in Receiver /\ (CallTryRecv(t) \/ CallLen(t))
    PROVE  RingInv'
<1> USE DEF Go, Result, ring, ends, held
<1>1. RingTypes /\ ThreadFits(t) /\ MaxMsgs \in Nat
  BY RingFacts, RingAssumption
<1>2. /\ UNCHANGED <<ring, queue, word, pos, word2, seen>>
      /\ \E to \in {"s_tail", "r_head", "l_tail"} : step' = [step EXCEPT ![t] = to]
      /\ res' = [res EXCEPT ![t] = <<"none">>]
      /\ step[t] = "idle"
      /\ \/ UNCHANGED <<msg, next>>
         \/ next < MaxMsgs /\ next' = next + 1 /\ msg' = [msg EXCEPT ![t] = next + 1]
      /\ step'[t] = "s_tail" => msg'[t] # NoMsg
  BY <1>1 DEF CallTrySend, CallTryRecv, CallLen, RingTypes, NoMsg
<1>3. RingTypes'
  <2>1. step' \in [Thread -> RingSteps]
    BY <1>1, <1>2 DEF RingTypes, RingSteps, Asking, Sending
  <2>2. msg' \in [Thread -> Msg \cup {NoMsg}] /\ next' \in 0 .. MaxMsgs
    <3>1. CASE UNCHANGED <<msg, next>>
      BY <1>1, <3>1 DEF RingTypes
    <3>2. CASE next < MaxMsgs /\ next' = next + 1 /\ msg' = [msg EXCEPT ![t] = next + 1]
      <4>1. next + 1 \in Msg /\ next' \in 0 .. MaxMsgs
        BY <1>1, <3>2 DEF RingTypes, Msg
      <4> QED
        BY <1>1, <3>2, <4>1 DEF RingTypes
    <3> QED
      BY <1>2, <3>1, <3>2
  <2>3. res' = [u \in Thread |-> res'[u]]
    BY <1>1, <1>2 DEF RingTypes
  <2> QED
    BY <1>1, <1>2, <2>1, <2>2, <2>3 DEF RingTypes
<1>4. LocalStep(t)
  <2>1. OthersKept(t)
    BY <1>1, <1>2 DEF OthersKept, RingTypes
  <2> QED
    BY <1>1, <1>2, <2>1 DEF LocalStep, RingTypes, Writing, Reading
<1>5. ThreadFits(t)'
  <2>1. step'[t] \in {"s_tail", "r_head", "l_tail"} /\ res'[t] = <<"none">> /\ msg'[t] \in Msg \cup {NoMsg}
    BY <1>1, <1>2, <1>3 DEF RingTypes
  <2>2. step'[t] \in Sending \cup {"s_write"} => msg'[t] \in Msg
    BY <2>1, <1>2 DEF Sending
  <2> QED
    BY <2>1, <2>2 DEF ThreadFits, WordFits, CasFits, LenFits, ResultFits, TailSteps, HeadSteps, Writing, Reading
<1> QED
  BY <1>3, <1>4, <1>5, LocalSteps

(* StampLoadsKeep: what a thread concludes from a stamp.                    *)
LEMMA StampLoadsKeep ==
    ASSUME RingInv, NEW t \in Thread,
           \/ t \in Sender /\ SendLoadStamp(t)
           \/ t \in Receiver /\ RecvLoadStamp(t)
    PROVE  RingInv'
<1> USE DEF Go, ring, ends, held, hist
<1>1. /\ RingTypes /\ ThreadFits(t) /\ pos[t] \in Nat /\ word[t] \in Nat
      /\ popped \in Nat /\ pushed \in Nat
  BY RingFacts
<1>2. /\ UNCHANGED <<ring, held, msg, next, hist>>
      /\ \/ /\ step[t] = "s_stamp"
            /\ \E to \in {"s_cas", "s_head", "s_tail"} : step' = [step EXCEPT ![t] = to]
         \/ /\ step[t] = "r_stamp"
            /\ \E to \in {"r_cas", "r_tail", "r_head"} : step' = [step EXCEPT ![t] = to]
  BY DEF SendLoadStamp, RecvLoadStamp
<1>3. step'[t] = "s_cas" => /\ step[t] = "s_stamp"
                            /\ Unmarked(word[t]) = stamp[Index(Unmarked(word[t]))]
  BY <1>1 DEF SendLoadStamp, RecvLoadStamp, RingTypes
<1>4. step'[t] = "r_cas" => /\ step[t] = "r_stamp"
                            /\ stamp[Index(word[t])] = word[t] + 1
  BY <1>1 DEF SendLoadStamp, RecvLoadStamp, RingTypes
<1>5. RingTypes'
  <2>1. step' \in [Thread -> RingSteps]
    BY <1>1, <1>2 DEF RingTypes, RingSteps, Asking, Sending
  <2> QED
    BY <1>1, <1>2, <2>1 DEF RingTypes
<1>6. LocalStep(t)
  <2>1. OthersKept(t)
    BY <1>1, <1>2 DEF OthersKept, RingTypes
  <2> QED
    BY <1>1, <1>2, <2>1 DEF LocalStep, RingTypes, Writing, Reading
<1>7. ThreadFits(t)'
  <2>1. \/ step[t] = "s_stamp" /\ step'[t] \in {"s_cas", "s_head", "s_tail"}
        \/ step[t] = "r_stamp" /\ step'[t] \in {"r_cas", "r_tail", "r_head"}
    BY <1>1, <1>2 DEF RingTypes
  <2>2. WordFits(t)'
    BY <1>1, <1>2, <2>1 DEF ThreadFits, WordFits, TailSteps, HeadSteps, Writing, Reading
  <2>3. CasFits(t)'
    <3>1. ASSUME step'[t] = "s_cas", pos[t] = pushed
          PROVE  pushed < popped + Cap /\ ~ Reader(pushed - Cap)
      <4>1. word[t] \in TailAt(pos[t])
        BY <1>1, <1>3, <3>1 DEF ThreadFits, WordFits, TailSteps
      <4>2. Unmarked(word[t]) = WordAt(pushed) /\ Index(WordAt(pushed)) = SlotOf(pushed)
        BY <4>1, <1>1, <3>1, TailParts, IndexAndMark
      <4> QED
        BY <4>2, <1>3, <3>1, FreeSlot
    <3>2. ASSUME step'[t] = "r_cas", pos[t] = popped
          PROVE  popped < pushed /\ ~ Writer(popped)
      <4>1. word[t] = WordAt(popped) /\ Index(WordAt(popped)) = SlotOf(popped)
        BY <1>1, <1>4, <3>2, IndexAndMark DEF ThreadFits, WordFits, HeadSteps
      <4> QED
        BY <4>1, <1>4, <3>2, TakenSlot
    <3>3. \A p : (Writer(p)' <=> Writer(p)) /\ (Reader(p)' <=> Reader(p))
      BY <1>6 DEF LocalStep, OthersKept, Writer, Writes, Reader, Reads
    <3> QED
      BY <1>2, <3>1, <3>2, <3>3 DEF CasFits
  <2>4. LenFits(t)' /\ ResultFits(t)'
    BY <1>1, <1>2, <2>1 DEF ThreadFits, LenFits, ResultFits, Asking, Sending
  <2> QED
    BY <2>2, <2>3, <2>4 DEF ThreadFits
<1> QED
  BY <1>5, <1>6, <1>7, LocalSteps

(* AnswersKeep: steps that answer, or start over.                           *)
LEMMA AnswersKeep ==
    ASSUME RingInv, NEW t \in Thread,
           \/ t \in Sender /\ (SendLoadHead(t) \/ IsFull(t))
           \/ t \in Receiver /\ (RecvLoadTail(t) \/ IsEmpty(t) \/ LenReturn(t))
    PROVE  RingInv'
<1> USE DEF Go, Result, Return, Hold, ring, ends, held, hist
<1>1. RingTypes /\ ThreadFits(t)
  BY RingFacts
<1>2. /\ UNCHANGED <<ring, msg, next, queue>>
      /\ step[t] \in {"s_head", "f_head", "r_tail", "e_tail", "l_again"}
      /\ seen' = seen \/ seen' = [seen EXCEPT ![t] = 0]
      /\ \/ /\ step' = [step EXCEPT ![t] = "idle"]
            /\ word' = [word EXCEPT ![t] = 0] /\ pos' = [pos EXCEPT ![t] = 0] /\ word2' = [word2 EXCEPT ![t] = 0]
            /\ res' = res \/ \E r : res' = [res EXCEPT ![t] = r]
         \/ /\ UNCHANGED <<word, pos, word2, res>>
            /\ \/ step[t] = "s_head" /\ step' = [step EXCEPT ![t] = "s_tail"]
               \/ step[t] = "r_tail" /\ step' = [step EXCEPT ![t] = "r_head"]
               \/ step[t] = "l_again" /\ step' = [step EXCEPT ![t] = "l_tail"]
  BY DEF SendLoadHead, IsFull, RecvLoadTail, IsEmpty, LenReturn
<1>3. RingTypes'
  <2>1. step' \in [Thread -> RingSteps]
    BY <1>1, <1>2 DEF RingTypes, RingSteps, Asking, Sending
  <2>2. seen' \in [Thread -> Nat]
    <3>1. seen \in [Thread -> Nat] /\ (seen' = seen \/ seen' = [seen EXCEPT ![t] = 0])
      BY <1>1, <1>2 DEF RingTypes
    <3> QED
      BY <3>1
  <2>3. word' \in [Thread -> Nat] /\ pos' \in [Thread -> Nat] /\ word2' \in [Thread -> Nat]
    <3>1. word \in [Thread -> Nat] /\ pos \in [Thread -> Nat] /\ word2 \in [Thread -> Nat]
      BY <1>1 DEF RingTypes
    <3>2. \/ word' = [word EXCEPT ![t] = 0] /\ pos' = [pos EXCEPT ![t] = 0] /\ word2' = [word2 EXCEPT ![t] = 0]
          \/ UNCHANGED <<word, pos, word2>>
      BY <1>2
    <3> QED
      BY <3>1, <3>2
  <2>4. res' = [u \in Thread |-> res'[u]]
    BY <1>1, <1>2 DEF RingTypes
  <2> QED
    BY <1>1, <1>2, <2>1, <2>2, <2>3, <2>4 DEF RingTypes
<1>4. step'[t] \in {"idle", "s_tail", "r_head", "l_tail"}
  BY <1>1, <1>2 DEF RingTypes
<1>5. LocalStep(t)
  <2>1. OthersKept(t)
    <3> SUFFICES ASSUME NEW u \in Thread \ {t}
                 PROVE  /\ step'[u] = step[u] /\ word'[u] = word[u] /\ pos'[u] = pos[u] /\ word2'[u] = word2[u]
                        /\ msg'[u] = msg[u] /\ res'[u] = res[u] /\ seen'[u] = seen[u]
      BY DEF OthersKept
    <3>1. step'[u] = step[u] /\ seen'[u] = seen[u] /\ msg'[u] = msg[u]
      BY <1>1, <1>2 DEF RingTypes
    <3>2. word'[u] = word[u] /\ pos'[u] = pos[u] /\ word2'[u] = word2[u]
      BY <1>1, <1>2 DEF RingTypes
    <3>3. res'[u] = res[u]
      BY <1>1, <1>2 DEF RingTypes
    <3> QED
      BY <3>1, <3>2, <3>3
  <2> QED
    BY <1>1, <1>2, <1>4, <2>1 DEF LocalStep, RingTypes, Writing, Reading
<1>6. ThreadFits(t)'
  <2>1. ResultFits(t)'
    <3>1. step'[t] \in {"s_tail", "r_head"} => step[t] \in {"s_head", "r_tail"} /\ res'[t] = res[t]
      BY <1>1, <1>2 DEF RingTypes
    <3>2. step'[t] = "s_tail" => step[t] = "s_head" /\ msg'[t] = msg[t]
      BY <1>1, <1>2 DEF RingTypes
    <3> QED
      BY <1>1, <1>4, <3>1, <3>2 DEF ThreadFits, ResultFits, Asking, Sending
  <2> QED
    BY <1>4, <2>1 DEF ThreadFits, WordFits, CasFits, LenFits, TailSteps, HeadSteps, Writing, Reading
<1> QED
  BY <1>3, <1>5, <1>6, LocalSteps

(* LenKeeps: len() loads the head.                                          *)
LEMMA LenKeeps ==
    ASSUME RingInv, NEW t \in Receiver, LenLoadHead(t)
    PROVE  RingInv'
<1> USE DEF Go, ring, ends
<1>1. t \in Thread
  BY DEF Thread
<1>2. /\ RingTypes /\ ThreadFits(t) /\ popped \in Nat /\ pushed \in Nat /\ pos[t] \in Nat /\ head \in Nat
      /\ head = WordAt(popped) /\ Len(queue) = pushed - popped /\ pushed >= popped /\ pushed <= popped + Cap
  BY <1>1, RingFacts DEF RingInv, EndsFit
<1>3. /\ step[t] = "l_head" /\ UNCHANGED <<ring, word, pos, msg, next, queue, res>>
      /\ step' = [step EXCEPT ![t] = "l_again"]
      /\ word2' = [word2 EXCEPT ![t] = head]
      /\ seen' = [seen EXCEPT ![t] = Len(queue)]
  BY DEF LenLoadHead
<1>4. Len(queue) \in Nat
  BY <1>2
<1>5. RingTypes'
  <2>1. step' \in [Thread -> RingSteps]
    BY <1>2, <1>3 DEF RingTypes, RingSteps, TailSteps
  <2>2. word2' \in [Thread -> Nat] /\ seen' \in [Thread -> Nat]
    BY <1>2, <1>3, <1>4 DEF RingTypes
  <2> QED
    BY <1>2, <1>3, <2>1, <2>2 DEF RingTypes
<1>6. step'[t] = "l_again" /\ word2'[t] = WordAt(popped) /\ seen'[t] = pushed - popped
  BY <1>1, <1>2, <1>3 DEF RingTypes
<1>7. LocalStep(t)
  <2>1. OthersKept(t)
    BY <1>1, <1>2, <1>3 DEF OthersKept, RingTypes
  <2> QED
    BY <1>3, <1>6, <2>1 DEF LocalStep, Writing, Reading
<1>8. ThreadFits(t)'
  <2>1. WordFits(t)'
    BY <1>2, <1>3, <1>6 DEF ThreadFits, WordFits, TailSteps, HeadSteps, Writing, Reading
  <2>2. LenFits(t)'
    <3> SUFFICES ASSUME pos[t] = pushed
                 PROVE  pushed - popped <= Cap /\ pushed - popped <= pushed /\ WordAt(popped) = WordAt(pushed - (pushed - popped))
      BY <1>3, <1>6 DEF LenFits
    <3>1. pushed - (pushed - popped) = popped
      BY <1>2
    <3> QED
      BY <1>2, <3>1, RingConstants
  <2> QED
    BY <1>6, <2>1, <2>2 DEF ThreadFits, CasFits, ResultFits, Asking, Sending
<1> QED
  BY <1>1, <1>5, <1>7, <1>8, LocalSteps

(* ReadKeeps: a receiver reads the slot it has taken.                       *)
LEMMA ReadKeeps ==
    ASSUME RingInv, NEW t \in Receiver, RecvRead(t)
    PROVE  RingInv' /\ res' = res
<1> USE DEF Go, Result, ring, ends, held
<1>1. t \in Thread
  BY DEF Thread
<1>2. RingTypes /\ ThreadFits(t) /\ pos[t] \in Nat
  BY <1>1, RingFacts
<1>3. /\ step[t] = "r_read" /\ UNCHANGED <<ring, held, msg, next, queue, seen>>
      /\ step' = [step EXCEPT ![t] = "r_store"]
      /\ res' = [res EXCEPT ![t] = <<"got", slot[Index(word[t])]>>]
  BY DEF RecvRead
<1>4. Index(word[t]) = SlotOf(pos[t])
  BY <1>2, <1>3, IndexAndMark DEF ThreadFits, WordFits, Reading
<1>5. res[t] = <<"got", slot[Index(word[t])]>>
  BY <1>2, <1>3, <1>4 DEF ThreadFits, ResultFits
<1>6. res' = res
  BY <1>2, <1>3, <1>5 DEF RingTypes
<1>7. RingTypes'
  <2>1. step' \in [Thread -> RingSteps]
    BY <1>2, <1>3 DEF RingTypes, RingSteps, Reading
  <2> QED
    BY <1>2, <1>3, <1>6, <2>1 DEF RingTypes
<1>8. step'[t] = "r_store"
  BY <1>1, <1>2, <1>3 DEF RingTypes
<1>9. LocalStep(t)
  <2>1. OthersKept(t)
    BY <1>1, <1>2, <1>3, <1>6 DEF OthersKept, RingTypes
  <2> QED
    BY <1>3, <1>8, <2>1 DEF LocalStep, Writing, Reading
<1>10. ThreadFits(t)'
  <2>1. WordFits(t)'
    BY <1>2, <1>3, <1>8 DEF ThreadFits, WordFits, TailSteps, HeadSteps, Writing, Reading
  <2> QED
    BY <1>8, <2>1 DEF ThreadFits, CasFits, LenFits, ResultFits, Asking, Sending
<1> QED
  BY <1>1, <1>6, <1>7, <1>9, <1>10, LocalSteps

-----------------------------------------------------------------------------
(* Steps that change the ring.                                              *)

(* RingShape: the numbers and the threads' positions, as the next lemmas    *)
(* use them.                                                                *)
LEMMA RingShape ==
    ASSUME RingInv
    PROVE  /\ popped \in Nat /\ pushed \in Nat /\ popped <= pushed /\ pushed <= popped + Cap
           /\ Cap \in Nat /\ Cap > 0 /\ queue \in Seq(Msg) /\ Len(queue) = pushed - popped
           /\ head = WordAt(popped) /\ tail \in TailAt(pushed)
           /\ step \in [Thread -> RingSteps] /\ pos \in [Thread -> Nat] /\ msg \in [Thread -> Msg \cup {NoMsg}]
           /\ \A u \in Thread : step[u] \in Writing => popped <= pos[u] /\ pos[u] < pushed
           /\ \A u \in Thread : step[u] \in Reading => pos[u] < popped /\ pushed <= pos[u] + Cap
           /\ \A u \in Thread : step[u] \in TailSteps => pos[u] <= pushed
           /\ \A u \in Thread : step[u] \in HeadSteps => pos[u] <= popped
  BY RingConstants DEF RingInv, RingTypes, EndsFit, ThreadFits, WordFits

(* SendCasKeeps: a sender takes the tail's slot.                            *)
LEMMA SendCasKeeps ==
    ASSUME RingInv, NobodyLapped, NEW s \in Sender, SendCas(s)
    PROVE  RingInv'
<1> USE DEF Go, Result, held
<1>1. s \in Thread
  BY DEF Thread
<1>2. /\ step[s] = "s_cas" /\ tail = word[s] /\ tail' = Successor(Unmarked(tail)) + Mark(tail)
      /\ step' = [step EXCEPT ![s] = "s_write"] /\ queue' = Append(queue, msg[s]) /\ pushed' = pushed + 1
      /\ res' = [res EXCEPT ![s] = <<"sent">>]
      /\ UNCHANGED <<head, popped, stamp, slot, word, pos, word2, msg, next, seen>>
  BY DEF SendCas
<1>3. RingTypes /\ ThreadFits(s)
  BY <1>1, RingFacts
<1>4. pos[s] = pushed
  BY <1>1, <1>2, TailIsMine DEF TailSteps
<1>5. pushed < popped + Cap /\ ~ Reader(pushed - Cap) /\ msg[s] \in Msg
  BY <1>2, <1>3, <1>4 DEF ThreadFits, CasFits, ResultFits, Sending
<1>6. step'[s] = "s_write" /\ \A u \in Thread : u # s => step'[u] = step[u] /\ res'[u] = res[u]
  BY <1>1, <1>2, <1>3 DEF RingTypes
<1>7. \A p : Writer(p)' <=> (Writer(p) \/ p = pushed)
  BY <1>1, <1>2, <1>4, <1>6 DEF Writer, Writes, Writing
<1>8. \A p : Reader(p)' <=> Reader(p)
  BY <1>1, <1>2, <1>6 DEF Reader, Reads, Reading
<1>9. tail' = WordAt(pushed + 1) + Mark(tail) /\ Mark(tail) \in {0, MarkBit} /\ (Mark(tail) = 0 <=> tail = WordAt(pushed))
  BY <1>2, RingShape, TailParts, NextWord
<1>10. RingTypes'
  <2>1. step' \in [Thread -> RingSteps]
    BY <1>2, <1>3 DEF RingTypes, RingSteps, Writing
  <2>2. queue' \in Seq(Msg) /\ pushed' \in Nat
    BY <1>2, <1>3, <1>5 DEF RingTypes
  <2>3. res' = [u \in Thread |-> res'[u]]
    BY <1>2, <1>3 DEF RingTypes
  <2> QED
    BY <1>2, <1>3, <2>1, <2>2, <2>3 DEF RingTypes
<1>11. EndsFit'
  <2>1. WordAt(pushed + 1) \in Nat
    <3>1. pushed + 1 \in Nat
      BY RingShape
    <3> QED
      BY <3>1, WordParts
  <2>2. tail' \in TailAt(pushed + 1)
    BY <1>9, <2>1 DEF TailAt
  <2>3. Len(queue') = pushed' - popped'
    BY <1>2, <1>5, RingShape
  <2> QED
    BY <1>2, <1>5, <2>2, <2>3, RingShape DEF EndsFit
<1>12. OwnersApart'
  <2> SUFFICES ASSUME NEW u \in Thread, NEW v \in Thread
               PROVE  /\ step'[u] \in Writing /\ step'[v] \in Writing /\ pos[u] = pos[v] => u = v
                      /\ step'[u] \in Reading /\ step'[v] \in Reading /\ pos[u] = pos[v] => u = v
    BY <1>2 DEF OwnersApart
  <2>1. step'[u] \in Reading /\ step'[v] \in Reading /\ pos[u] = pos[v] => u = v
    BY <1>6 DEF RingInv, OwnersApart, Reading
  <2>2. step'[u] \in Writing /\ step'[v] \in Writing /\ pos[u] = pos[v] => u = v
    BY <1>1, <1>4, <1>6, RingShape DEF RingInv, OwnersApart
  <2> QED
    BY <2>1, <2>2
<1>13. StampsFit'
  <2> SUFFICES ASSUME NEW p \in popped .. popped + Cap - 1
               PROVE  /\ p < pushed + 1 /\ Writer(p)' => stamp[SlotOf(p)] = WordAt(p)
                      /\ p < pushed + 1 /\ ~ Writer(p)' => stamp[SlotOf(p)] = WordAt(p) + 1
                      /\ p >= pushed + 1 /\ Reader(p - Cap)' => stamp[SlotOf(p)] = WordAt(p - Cap) + 1
                      /\ p >= pushed + 1 /\ ~ Reader(p - Cap)' => stamp[SlotOf(p)] = WordAt(p)
    BY <1>2 DEF StampsFit
  <2>1. /\ p < pushed /\ Writer(p) => stamp[SlotOf(p)] = WordAt(p)
        /\ p < pushed /\ ~ Writer(p) => stamp[SlotOf(p)] = WordAt(p) + 1
        /\ p >= pushed /\ Reader(p - Cap) => stamp[SlotOf(p)] = WordAt(p - Cap) + 1
        /\ p >= pushed /\ ~ Reader(p - Cap) => stamp[SlotOf(p)] = WordAt(p)
    BY DEF RingInv, StampsFit
  <2>2. CASE p = pushed
    BY <1>5, <1>7, <2>1, <2>2, RingShape
  <2>3. CASE p # pushed
    BY <1>7, <1>8, <2>1, <2>3, RingShape
  <2> QED
    BY <2>2, <2>3
<1>14. MessagesFit'
  <2> SUFFICES ASSUME NEW p \in popped .. pushed
               PROVE  \/ \E t \in Thread : step'[t] = "s_write" /\ pos[t] = p /\ msg[t] = queue'[p - popped + 1]
                      \/ /\ \A t \in Thread : ~ (step'[t] = "s_write" /\ pos[t] = p)
                         /\ slot[SlotOf(p)] = queue'[p - popped + 1]
    <3>1. popped' .. pushed' - 1 = popped .. pushed
      BY <1>2, RingShape
    <3> QED
      BY <1>2, <3>1 DEF MessagesFit
  <2>1. CASE p = pushed
    <3>1. queue'[p - popped + 1] = msg[s]
      BY <1>2, <1>5, <2>1, RingShape
    <3> QED
      BY <1>1, <1>4, <1>6, <2>1, <3>1
  <2>2. CASE p # pushed
    <3>1. p \in popped .. pushed - 1 /\ p - popped + 1 \in 1 .. Len(queue)
      BY <2>2, RingShape
    <3>2. queue'[p - popped + 1] = queue[p - popped + 1]
      BY <1>2, <1>5, <3>1, RingShape
    <3> QED
      BY <1>1, <1>2, <1>4, <1>6, <2>2, <3>1, <3>2 DEF RingInv, MessagesFit
  <2> QED
    BY <2>1, <2>2
<1>15. ThreadFits(s)'
  <2>1. WordFits(s)'
    BY <1>1, <1>2, <1>3, <1>4, <1>6, RingShape DEF ThreadFits, WordFits, TailSteps, HeadSteps, Writing, Reading
  <2> QED
    BY <1>2, <1>5, <1>6, <2>1 DEF ThreadFits, CasFits, LenFits, ResultFits, Asking, Sending
<1>16. ASSUME NEW u \in Thread, u # s PROVE ThreadFits(u)'
  <2>1. ThreadFits(u) /\ step'[u] = step[u] /\ res'[u] = res[u] /\ pos[u] \in Nat
    BY <1>6, <1>16, RingFacts DEF RingInv
  <2>2. WordFits(u)'
    <3>1. step[u] \in Reading => pushed + 1 <= pos[u] + Cap
      <4> SUFFICES ASSUME step[u] \in Reading PROVE pushed + 1 <= pos[u] + Cap
        OBVIOUS
      <4>1. Reader(pos[u])
        BY DEF Reader, Reads
      <4>2. pos[u] # pushed - Cap
        BY <1>5, <4>1
      <4> QED
        BY <2>1, <4>2, RingShape
    <3>2. tail # WordAt(pushed) => tail' # WordAt(pushed + 1)
      <4>1. pushed + 1 \in Nat
        BY RingShape
      <4> QED
        BY <4>1, <1>9, IndexAndMark
    <3> QED
      BY <1>2, <2>1, <3>1, <3>2, RingShape DEF ThreadFits, WordFits
  <2>3. CasFits(u)'
    <3>1. ~ (step[u] = "s_cas" /\ pos[u] = pushed + 1)
      BY <2>1, RingShape DEF TailSteps
    <3>2. ASSUME step[u] = "r_cas", pos[u] = popped
          PROVE  popped < pushed + 1 /\ ~ Writer(popped)'
      <4>1. popped < pushed /\ ~ Writer(popped)
        BY <2>1, <3>2 DEF ThreadFits, CasFits
      <4>2. Writer(popped)' <=> (Writer(popped) \/ popped = pushed)
        BY <1>1, <1>2, <1>4, <1>6 DEF Writer, Writes, Writing
      <4> QED
        BY <4>1, <4>2, RingShape
    <3> QED
      BY <1>2, <2>1, <3>1, <3>2 DEF CasFits
  <2>4. LenFits(u)'
    BY <1>2, <2>1, RingShape DEF LenFits, TailSteps
  <2>5. ResultFits(u)'
    BY <1>2, <2>1 DEF ThreadFits, ResultFits
  <2> QED
    BY <2>2, <2>3, <2>4, <2>5 DEF ThreadFits
<1> QED
  BY <1>10, <1>11, <1>12, <1>13, <1>14, <1>15, <1>16 DEF RingInv

(* InWindow: two positions in the window of Cap slots from the head on have *)
(* different slots.                                                         *)
LEMMA InWindow ==
    ASSUME NEW a \in Nat, NEW m \in a .. a + Cap - 1, NEW n \in a .. a + Cap - 1, m # n
    PROVE  SlotOf(m) # SlotOf(n)
<1>1. m \in Nat /\ n \in Nat /\ m - n < Cap /\ n - m < Cap
  BY RingConstants
<1> QED
  BY <1>1, SameSlot

(* SlotIsRight: threads take their slot's index from their word.            *)
LEMMA SlotIsRight ==
    ASSUME RingInv, NEW t \in Thread, step[t] \in Writing \cup Reading
    PROVE  /\ Index(word[t]) = SlotOf(pos[t]) /\ SlotOf(pos[t]) \in 0 .. Cap - 1
           /\ Unmarked(word[t]) = WordAt(pos[t]) /\ pos[t] \in Nat
<1>1. pos[t] \in Nat /\ ThreadFits(t)
  BY RingFacts
<1>2. word[t] \in TailAt(pos[t])
  BY <1>1 DEF ThreadFits, WordFits, TailAt
<1> QED
  BY <1>1, <1>2, TailParts, WordParts

(* SendWriteKeeps: a sender writes its message into the slot it has taken.  *)
LEMMA SendWriteKeeps ==
    ASSUME RingInv, NEW s \in Sender, SendWrite(s)
    PROVE  RingInv'
<1> USE DEF Go, held, ends, hist
<1>1. s \in Thread
  BY DEF Thread
<1>2. /\ step[s] = "s_write" /\ slot' = [slot EXCEPT ![Index(word[s])] = msg[s]]
      /\ msg' = [msg EXCEPT ![s] = NoMsg] /\ step' = [step EXCEPT ![s] = "s_store"]
      /\ UNCHANGED <<head, tail, popped, pushed, stamp, word, pos, word2, next, queue, res, seen>>
  BY DEF SendWrite
<1>3. RingTypes /\ ThreadFits(s)
  BY <1>1, RingFacts
<1> DEFINE i == SlotOf(pos[s])
<1>4. Index(word[s]) = i /\ i \in 0 .. Cap - 1 /\ msg[s] \in Nat /\ NoMsg \in Nat
  BY <1>1, <1>2, <1>3, SlotIsRight DEF Writing, ThreadFits, ResultFits, Msg, NoMsg
<1>5. step'[s] = "s_store" /\ \A u \in Thread : u # s => step'[u] = step[u] /\ msg'[u] = msg[u]
  BY <1>1, <1>2, <1>3 DEF RingTypes
<1>6. slot'[i] = msg[s] /\ \A j \in 0 .. Cap - 1 : j # i => slot'[j] = slot[j]
  BY <1>2, <1>3, <1>4 DEF RingTypes
<1>7. popped <= pos[s] /\ pos[s] < pushed /\ pos[s] \in popped .. popped + Cap - 1
  BY <1>1, <1>2, RingShape DEF Writing
<1>8. RingTypes'
  <2>1. step' \in [Thread -> RingSteps]
    BY <1>2, <1>3 DEF RingTypes, RingSteps, Writing
  <2>2. slot' \in [0 .. Cap - 1 -> Nat]
    BY <1>2, <1>3, <1>4 DEF RingTypes
  <2>3. msg' \in [Thread -> Msg \cup {NoMsg}]
    BY <1>2, <1>3 DEF RingTypes
  <2> QED
    BY <1>2, <1>3, <2>1, <2>2, <2>3 DEF RingTypes
<1>9. EndsFit'
  BY <1>2 DEF RingInv, EndsFit
<1>10. \A u \in Thread : /\ step'[u] \in Writing <=> step[u] \in Writing
                         /\ step'[u] \in Reading <=> step[u] \in Reading
  BY <1>2, <1>5 DEF Writing, Reading
<1>11. OwnersApart'
  BY <1>2, <1>10 DEF RingInv, OwnersApart
<1>12. \A p : (Writer(p)' <=> Writer(p)) /\ (Reader(p)' <=> Reader(p))
  BY <1>2, <1>10 DEF Writer, Writes, Reader, Reads
<1>13. StampsFit'
  BY <1>2, <1>12 DEF RingInv, StampsFit
<1>14. MessagesFit'
  <2> SUFFICES ASSUME NEW p \in popped .. pushed - 1
               PROVE  \/ \E t \in Thread : step'[t] = "s_write" /\ pos[t] = p /\ msg'[t] = queue[p - popped + 1]
                      \/ /\ \A t \in Thread : ~ (step'[t] = "s_write" /\ pos[t] = p)
                         /\ slot'[SlotOf(p)] = queue[p - popped + 1]
    BY <1>2 DEF MessagesFit
  <2>1. \/ \E t \in Thread : step[t] = "s_write" /\ pos[t] = p /\ msg[t] = queue[p - popped + 1]
        \/ /\ \A t \in Thread : ~ (step[t] = "s_write" /\ pos[t] = p)
           /\ slot[SlotOf(p)] = queue[p - popped + 1]
    BY DEF RingInv, MessagesFit
  <2>2. CASE p = pos[s]
    <3>1. \A t \in Thread : step[t] = "s_write" /\ pos[t] = p => t = s
      BY <1>1, <1>2, <2>2 DEF RingInv, OwnersApart, Writing
    <3>2. msg[s] = queue[p - popped + 1]
      BY <1>1, <1>2, <2>1, <2>2, <3>1
    <3> QED
      BY <1>5, <1>6, <2>2, <3>1, <3>2
  <2>3. CASE p # pos[s]
    <3>1. p \in popped .. popped + Cap - 1 /\ p \in Nat /\ popped \in Nat
      BY RingShape
    <3>2. SlotOf(p) # i /\ SlotOf(p) \in 0 .. Cap - 1
      BY <1>7, <2>3, <3>1, InWindow, WordParts
    <3> QED
      BY <1>1, <1>5, <1>6, <2>1, <2>3, <3>2
  <2> QED
    BY <2>2, <2>3
<1>15. ThreadFits(s)'
  <2>1. WordFits(s)'
    BY <1>2, <1>3, <1>5 DEF ThreadFits, WordFits, TailSteps, HeadSteps, Writing, Reading
  <2> QED
    BY <1>5, <2>1 DEF ThreadFits, CasFits, LenFits, ResultFits, Asking, Sending
<1>16. ASSUME NEW u \in Thread, u # s PROVE ThreadFits(u)'
  <2>1. ThreadFits(u) /\ step'[u] = step[u] /\ msg'[u] = msg[u] /\ pos[u] \in Nat
    BY <1>5, <1>16, RingFacts DEF RingInv
  <2>2. WordFits(u)' /\ LenFits(u)'
    BY <1>2, <2>1 DEF ThreadFits, WordFits, LenFits
  <2>3. CasFits(u)'
    BY <1>2, <1>12, <2>1 DEF ThreadFits, CasFits
  <2>4. ResultFits(u)'
    <3>1. ASSUME step[u] = "r_read" PROVE slot'[SlotOf(pos[u])] = slot[SlotOf(pos[u])]
      <4>1. pos[u] < popped /\ pushed <= pos[u] + Cap
        BY <3>1, RingShape DEF Reading
      <4> DEFINE p == pos[u] + Cap
      <4>2. p \in popped .. popped + Cap - 1 /\ p # pos[s] /\ popped \in Nat
        BY <1>7, <2>1, <4>1, RingShape
      <4> HIDE DEF p
      <4>3. SlotOf(p) # i
        BY <1>7, <4>2, InWindow
      <4>4. SlotOf(p) = SlotOf(pos[u]) /\ SlotOf(pos[u]) \in 0 .. Cap - 1
        BY <2>1, OneLapOn, WordParts DEF p
      <4> QED
        BY <1>6, <4>3, <4>4
    <3> QED
      BY <1>2, <2>1, <3>1 DEF ThreadFits, ResultFits
  <2> QED
    BY <2>2, <2>3, <2>4 DEF ThreadFits
<1> QED
  BY <1>8, <1>9, <1>11, <1>13, <1>14, <1>15, <1>16 DEF RingInv

(* SendStoreKeeps: a sender's stamp hands the slot to the receivers.        *)
LEMMA SendStoreKeeps ==
    ASSUME RingInv, NEW s \in Sender, SendStoreStamp(s)
    PROVE  RingInv'
<1> USE DEF Go, Return, Hold, ends, hist
<1>1. s \in Thread
  BY DEF Thread
<1>2. /\ step[s] = "s_store" /\ stamp' = [stamp EXCEPT ![Index(word[s])] = Unmarked(word[s]) + 1]
      /\ step' = [step EXCEPT ![s] = "idle"] /\ word' = [word EXCEPT ![s] = 0] /\ pos' = [pos EXCEPT ![s] = 0]
      /\ word2' = [word2 EXCEPT ![s] = 0]
      /\ UNCHANGED <<head, tail, popped, pushed, slot, msg, next, queue, res, seen>>
  BY DEF SendStoreStamp
<1>3. RingTypes /\ ThreadFits(s)
  BY <1>1, RingFacts
<1> DEFINE q == pos[s]
<1>4. /\ Index(word[s]) = SlotOf(q) /\ SlotOf(q) \in 0 .. Cap - 1 /\ Unmarked(word[s]) = WordAt(q)
      /\ q \in Nat /\ WordAt(q) \in Nat
  BY <1>1, <1>2, SlotIsRight, WordParts DEF Writing
<1>5. /\ step'[s] = "idle"
      /\ \A u \in Thread : u # s => /\ step'[u] = step[u] /\ word'[u] = word[u] /\ pos'[u] = pos[u]
                                    /\ word2'[u] = word2[u]
  BY <1>1, <1>2, <1>3 DEF RingTypes
<1>6. stamp'[SlotOf(q)] = WordAt(q) + 1 /\ \A j \in 0 .. Cap - 1 : j # SlotOf(q) => stamp'[j] = stamp[j]
  BY <1>2, <1>3, <1>4 DEF RingTypes
<1>7. popped <= q /\ q < pushed /\ q \in popped .. popped + Cap - 1
  BY <1>1, <1>2, RingShape DEF Writing
<1>8. RingTypes'
  <2>1. step' \in [Thread -> RingSteps]
    BY <1>2, <1>3 DEF RingTypes, RingSteps
  <2>2. stamp' \in [0 .. Cap - 1 -> Nat]
    BY <1>2, <1>3, <1>4 DEF RingTypes
  <2>3. word' \in [Thread -> Nat] /\ pos' \in [Thread -> Nat] /\ word2' \in [Thread -> Nat]
    BY <1>2, <1>3 DEF RingTypes
  <2> QED
    BY <1>2, <1>3, <2>1, <2>2, <2>3 DEF RingTypes
<1>9. EndsFit'
  BY <1>2 DEF RingInv, EndsFit
<1>10. OwnersApart'
  <2> SUFFICES ASSUME NEW u \in Thread, NEW v \in Thread
               PROVE  /\ step'[u] \in Writing /\ step'[v] \in Writing /\ pos'[u] = pos'[v] => u = v
                      /\ step'[u] \in Reading /\ step'[v] \in Reading /\ pos'[u] = pos'[v] => u = v
    BY DEF OwnersApart
  <2>1. step'[s] \notin Writing \cup Reading
    BY <1>5 DEF Writing, Reading
  <2> QED
    BY <1>5, <2>1 DEF RingInv, OwnersApart
<1>11. \A p : Writer(p)' <=> Writer(p) /\ p # q
  <2>1. \A u \in Thread : step[u] \in Writing /\ pos[u] = q => u = s
    BY <1>1, <1>2 DEF RingInv, OwnersApart, Writing
  <2>2. step'[s] \notin Writing
    BY <1>5 DEF Writing
  <2> QED
    BY <1>1, <1>5, <2>1, <2>2 DEF Writer, Writes
<1>12. \A p : Reader(p)' <=> Reader(p)
  <2>1. step'[s] \notin Reading /\ step[s] \notin Reading
    BY <1>2, <1>5 DEF Reading
  <2> QED
    BY <1>5, <2>1 DEF Reader, Reads
<1>13. StampsFit'
  <2> SUFFICES ASSUME NEW p \in popped .. popped + Cap - 1
               PROVE  /\ p < pushed /\ Writer(p)' => stamp'[SlotOf(p)] = WordAt(p)
                      /\ p < pushed /\ ~ Writer(p)' => stamp'[SlotOf(p)] = WordAt(p) + 1
                      /\ p >= pushed /\ Reader(p - Cap)' => stamp'[SlotOf(p)] = WordAt(p - Cap) + 1
                      /\ p >= pushed /\ ~ Reader(p - Cap)' => stamp'[SlotOf(p)] = WordAt(p)
    BY <1>2 DEF StampsFit
  <2>1. CASE p = q
    BY <1>6, <1>7, <1>11, <2>1, RingShape
  <2>2. CASE p # q
    <3>1. popped \in Nat /\ p \in Nat
      BY RingShape
    <3>2. SlotOf(p) # SlotOf(q) /\ SlotOf(p) \in 0 .. Cap - 1
      BY <1>7, <2>2, <3>1, InWindow, WordParts
    <3>3. stamp'[SlotOf(p)] = stamp[SlotOf(p)]
      BY <1>6, <3>2
    <3> QED
      BY <1>11, <1>12, <2>2, <3>3 DEF RingInv, StampsFit
  <2> QED
    BY <2>1, <2>2
<1>14. MessagesFit'
  <2>1. step[s] # "s_write" /\ step'[s] # "s_write"
    BY <1>2, <1>5
  <2> QED
    BY <1>2, <1>5, <2>1 DEF RingInv, MessagesFit
<1>15. ThreadFits(s)'
  BY <1>5 DEF ThreadFits, WordFits, CasFits, LenFits, ResultFits, TailSteps, HeadSteps, Writing, Reading,
              Asking, Sending
<1>16. ASSUME NEW u \in Thread, u # s PROVE ThreadFits(u)'
  <2>1. ThreadFits(u) /\ step'[u] = step[u] /\ word'[u] = word[u] /\ pos'[u] = pos[u] /\ word2'[u] = word2[u]
    BY <1>5, <1>16 DEF RingInv
  <2>2. WordFits(u)' /\ LenFits(u)' /\ ResultFits(u)'
    BY <1>2, <2>1 DEF ThreadFits, WordFits, LenFits, ResultFits
  <2>3. CasFits(u)'
    BY <1>2, <1>11, <1>12, <2>1 DEF ThreadFits, CasFits
  <2> QED
    BY <2>2, <2>3 DEF ThreadFits
<1> QED
  BY <1>8, <1>9, <1>10, <1>13, <1>14, <1>15, <1>16 DEF RingInv

(* RecvCasKeeps: a receiver takes the head's slot.                          *)
LEMMA RecvCasKeeps ==
    ASSUME RingInv, NobodyLapped, NEW r \in Receiver, RecvCas(r)
    PROVE  RingInv' /\ queue # <<>>
<1> USE DEF Go, Result, held
<1>1. r \in Thread
  BY DEF Thread
<1>2. /\ step[r] = "r_cas" /\ head = word[r] /\ head' = Successor(head)
      /\ step' = [step EXCEPT ![r] = "r_read"] /\ queue' = Tail(queue) /\ popped' = popped + 1
      /\ res' = [res EXCEPT ![r] = <<"got", Head(queue)>>]
      /\ UNCHANGED <<tail, pushed, stamp, slot, word, pos, word2, msg, next, seen>>
  BY DEF RecvCas
<1>3. RingTypes /\ ThreadFits(r)
  BY <1>1, RingFacts
<1>4. pos[r] = popped
  BY <1>1, <1>2, HeadIsMine DEF HeadSteps
<1>5. popped < pushed /\ ~ Writer(popped)
  BY <1>2, <1>3, <1>4 DEF ThreadFits, CasFits
<1>6. /\ step'[r] = "r_read" /\ res'[r] = <<"got", Head(queue)>>
      /\ \A u \in Thread : u # r => step'[u] = step[u] /\ res'[u] = res[u]
  BY <1>1, <1>2, <1>3 DEF RingTypes
<1>7. \A p : Writer(p)' <=> Writer(p)
  BY <1>1, <1>2, <1>6 DEF Writer, Writes, Writing
<1>8. \A p : Reader(p)' <=> (Reader(p) \/ p = popped)
  BY <1>1, <1>2, <1>4, <1>6 DEF Reader, Reads, Reading
<1>9. queue # <<>> /\ Len(queue) > 0 /\ Tail(queue) \in Seq(Msg) /\ Len(Tail(queue)) = Len(queue) - 1
  BY <1>5, RingShape
<1>10. RingTypes'
  <2>1. step' \in [Thread -> RingSteps]
    BY <1>2, <1>3 DEF RingTypes, RingSteps, Reading
  <2>2. queue' \in Seq(Msg) /\ popped' \in Nat
    BY <1>2, <1>3, <1>9 DEF RingTypes
  <2>3. res' = [u \in Thread |-> res'[u]]
    BY <1>2, <1>3 DEF RingTypes
  <2> QED
    BY <1>2, <1>3, <2>1, <2>2, <2>3 DEF RingTypes
<1>11. EndsFit'
  <2>1. head' = WordAt(popped + 1)
    BY <1>2, RingShape, NextWord
  <2>2. Len(queue') = pushed' - popped'
    BY <1>2, <1>9, RingShape
  <2> QED
    BY <1>2, <1>5, <2>1, <2>2, RingShape DEF EndsFit
<1>12. OwnersApart'
  <2> SUFFICES ASSUME NEW u \in Thread, NEW v \in Thread
               PROVE  /\ step'[u] \in Writing /\ step'[v] \in Writing /\ pos[u] = pos[v] => u = v
                      /\ step'[u] \in Reading /\ step'[v] \in Reading /\ pos[u] = pos[v] => u = v
    BY <1>2 DEF OwnersApart
  <2>1. step'[u] \in Writing /\ step'[v] \in Writing /\ pos[u] = pos[v] => u = v
    BY <1>6 DEF RingInv, OwnersApart, Writing
  <2>2. step'[u] \in Reading /\ step'[v] \in Reading /\ pos[u] = pos[v] => u = v
    BY <1>1, <1>4, <1>6, RingShape DEF RingInv, OwnersApart
  <2> QED
    BY <2>1, <2>2
<1>13. StampsFit'
  <2> SUFFICES ASSUME NEW p \in popped + 1 .. popped + 1 + Cap - 1
               PROVE  /\ p < pushed /\ Writer(p)' => stamp[SlotOf(p)] = WordAt(p)
                      /\ p < pushed /\ ~ Writer(p)' => stamp[SlotOf(p)] = WordAt(p) + 1
                      /\ p >= pushed /\ Reader(p - Cap)' => stamp[SlotOf(p)] = WordAt(p - Cap) + 1
                      /\ p >= pushed /\ ~ Reader(p - Cap)' => stamp[SlotOf(p)] = WordAt(p)
    BY <1>2 DEF StampsFit
  <2>1. CASE p = popped + Cap
    <3>1. SlotOf(p) = SlotOf(popped)
      BY <2>1, RingShape, OneLapOn
    <3>2. popped \in popped .. popped + Cap - 1
      BY RingShape
    <3>3. stamp[SlotOf(popped)] = WordAt(popped) + 1
      BY <1>5, <3>2 DEF RingInv, StampsFit
    <3>4. p - Cap = popped /\ ~ (p < pushed)
      BY <2>1, RingShape
    <3> QED
      BY <1>8, <3>1, <3>3, <3>4
  <2>2. CASE p # popped + Cap
    <3>1. popped \in Nat /\ Cap \in Nat
      BY RingShape
    <3>2. p \in popped .. popped + Cap - 1 /\ p - Cap # popped
      BY <2>2, <3>1
    <3> QED
      BY <1>7, <1>8, <3>2 DEF RingInv, StampsFit
  <2> QED
    BY <2>1, <2>2
<1>14. MessagesFit'
  <2> SUFFICES ASSUME NEW p \in popped + 1 .. pushed - 1
               PROVE  \/ \E t \in Thread : step'[t] = "s_write" /\ pos[t] = p /\ msg[t] = queue'[p - (popped + 1) + 1]
                      \/ /\ \A t \in Thread : ~ (step'[t] = "s_write" /\ pos[t] = p)
                         /\ slot[SlotOf(p)] = queue'[p - (popped + 1) + 1]
    BY <1>2 DEF MessagesFit
  <2> DEFINE j == p - (popped + 1) + 1
  <2>1. p \in popped .. pushed - 1 /\ p - popped + 1 = j + 1 /\ j \in 1 .. Len(queue) - 1
    BY RingShape
  <2> HIDE DEF j
  <2>2. queue'[j] = queue[j + 1]
    BY <1>2, <1>9, <2>1, RingShape
  <2>3. \A t \in Thread : step'[t] = "s_write" <=> step[t] = "s_write"
    BY <1>2, <1>6
  <2> QED
    BY <2>1, <2>2, <2>3 DEF RingInv, MessagesFit, j
<1>15. ThreadFits(r)'
  <2>1. WordFits(r)'
    <3>1. pos[r] < popped + 1 /\ pushed <= pos[r] + Cap /\ word[r] = WordAt(pos[r])
      BY <1>2, <1>3, <1>4, RingShape DEF ThreadFits, WordFits, HeadSteps
    <3> QED
      BY <1>2, <1>6, <3>1 DEF WordFits, TailSteps, HeadSteps, Writing, Reading
  <2>2. slot[SlotOf(popped)] = Head(queue)
    <3>1. popped \in popped .. pushed - 1 /\ popped - popped + 1 = 1 /\ Head(queue) = queue[1]
      BY <1>5, <1>9, RingShape
    <3>2. \A t \in Thread : ~ (step[t] = "s_write" /\ pos[t] = popped)
      BY <1>5 DEF Writer, Writes, Writing
    <3> QED
      BY <3>1, <3>2 DEF RingInv, MessagesFit
  <2> QED
    BY <1>2, <1>4, <1>6, <2>1, <2>2 DEF ThreadFits, CasFits, LenFits, ResultFits, Asking, Sending
<1>16. ASSUME NEW u \in Thread, u # r PROVE ThreadFits(u)'
  <2>1. ThreadFits(u) /\ step'[u] = step[u] /\ res'[u] = res[u] /\ pos[u] \in Nat
    BY <1>6, <1>16, RingFacts DEF RingInv
  <2>2. WordFits(u)'
    <3>1. step[u] \in Writing => popped + 1 <= pos[u]
      <4> SUFFICES ASSUME step[u] \in Writing PROVE popped + 1 <= pos[u]
        OBVIOUS
      <4>1. Writer(pos[u])
        BY DEF Writer, Writes
      <4> QED
        BY <1>5, <2>1, <4>1, RingShape
    <3> QED
      BY <1>2, <2>1, <3>1, RingShape DEF ThreadFits, WordFits
  <2>3. CasFits(u)'
    <3>1. ~ (step[u] = "r_cas" /\ pos[u] = popped + 1)
      BY <2>1, RingShape DEF HeadSteps
    <3>2. ASSUME step[u] = "s_cas", pos[u] = pushed
          PROVE  pushed < popped + 1 + Cap /\ ~ Reader(pushed - Cap)'
      <4>1. pushed < popped + Cap /\ ~ Reader(pushed - Cap)
        BY <2>1, <3>2 DEF ThreadFits, CasFits
      <4>2. Reader(pushed - Cap)' <=> (Reader(pushed - Cap) \/ pushed - Cap = popped)
        BY <1>1, <1>2, <1>4, <1>6 DEF Reader, Reads, Reading
      <4> QED
        BY <4>1, <4>2, RingShape
    <3> QED
      BY <1>2, <2>1, <3>1, <3>2 DEF CasFits
  <2>4. LenFits(u)' /\ ResultFits(u)'
    BY <1>2, <2>1 DEF ThreadFits, LenFits, ResultFits
  <2> QED
    BY <2>2, <2>3, <2>4 DEF ThreadFits
<1> QED
  BY <1>9, <1>10, <1>11, <1>12, <1>13, <1>14, <1>15, <1>16 DEF RingInv

(* RecvStoreKeeps: a receiver's stamp hands the slot to the senders, for    *)
(* their next lap.                                                          *)
LEMMA RecvStoreKeeps ==
    ASSUME RingInv, NEW r \in Receiver, RecvStoreStamp(r)
    PROVE  RingInv'
<1> USE DEF Go, Return, Hold, ends, hist
<1>1. r \in Thread
  BY DEF Thread
<1>2. /\ step[r] = "r_store" /\ stamp' = [stamp EXCEPT ![Index(word[r])] = WrappingAdd(word[r], OneLap)]
      /\ step' = [step EXCEPT ![r] = "idle"] /\ word' = [word EXCEPT ![r] = 0] /\ pos' = [pos EXCEPT ![r] = 0]
      /\ word2' = [word2 EXCEPT ![r] = 0]
      /\ UNCHANGED <<head, tail, popped, pushed, slot, msg, next, queue, res, seen>>
  BY DEF RecvStoreStamp
<1>3. RingTypes /\ ThreadFits(r)
  BY <1>1, RingFacts
<1> DEFINE q == pos[r] + Cap
<1>4. /\ Index(word[r]) = SlotOf(q) /\ SlotOf(q) \in 0 .. Cap - 1 /\ WrappingAdd(word[r], OneLap) = WordAt(q)
      /\ q \in Nat /\ WordAt(q) \in Nat
  <2>1. pos[r] \in Nat /\ Index(word[r]) = SlotOf(pos[r]) /\ SlotOf(pos[r]) \in 0 .. Cap - 1 /\ word[r] = WordAt(pos[r])
    BY <1>1, <1>2, <1>3, SlotIsRight DEF Reading, ThreadFits, WordFits
  <2>2. q \in Nat
    BY <2>1, RingConstants
  <2> QED
    BY <2>1, <2>2, OneLapOn, NextLap, WordParts
<1>5. /\ step'[r] = "idle"
      /\ \A u \in Thread : u # r => /\ step'[u] = step[u] /\ word'[u] = word[u] /\ pos'[u] = pos[u]
                                    /\ word2'[u] = word2[u]
  BY <1>1, <1>2, <1>3 DEF RingTypes
<1>6. /\ q >= pushed /\ q \in popped .. popped + Cap - 1
      /\ \A u \in Thread : step[u] \in Reading /\ pos[u] + Cap = q => u = r
  <2>1. pos[r] \in Nat /\ pos[r] < popped /\ pushed <= pos[r] + Cap
    BY <1>1, <1>2, RingShape DEF Reading
  <2>2. \A u \in Thread : step[u] \in Reading /\ pos[u] + Cap = q => pos[u] = pos[r]
    BY <2>1, RingShape
  <2> QED
    BY <1>1, <1>2, <2>1, <2>2, RingShape DEF RingInv, OwnersApart, Reading
<1>7. \A p \in Int : Reader(p - Cap)' <=> Reader(p - Cap) /\ p # q
  <2> SUFFICES ASSUME NEW p \in Int PROVE Reader(p - Cap)' <=> Reader(p - Cap) /\ p # q
    OBVIOUS
  <2>1. \A u \in Thread : pos[u] = p - Cap <=> pos[u] + Cap = p
    BY RingShape
  <2>2. step'[r] \notin Reading
    BY <1>5 DEF Reading
  <2> HIDE DEF q
  <2>3. p # q => (Reader(p - Cap)' <=> Reader(p - Cap))
    <3>1. p # q => pos[r] # p - Cap
      BY <1>1, <2>1 DEF q
    <3> QED
      BY <1>5, <2>2, <3>1 DEF Reader, Reads
  <2>4. p = q => ~ Reader(p - Cap)'
    BY <1>5, <1>6, <2>1, <2>2 DEF Reader, Reads
  <2> QED
    BY <2>3, <2>4
<1> HIDE DEF q
<1>8. stamp'[SlotOf(q)] = WordAt(q) /\ \A j \in 0 .. Cap - 1 : j # SlotOf(q) => stamp'[j] = stamp[j]
  BY <1>2, <1>3, <1>4 DEF RingTypes
<1>9. RingTypes'
  <2>1. step' \in [Thread -> RingSteps]
    BY <1>2, <1>3 DEF RingTypes, RingSteps
  <2>2. stamp' \in [0 .. Cap - 1 -> Nat]
    BY <1>2, <1>3, <1>4 DEF RingTypes
  <2>3. word' \in [Thread -> Nat] /\ pos' \in [Thread -> Nat] /\ word2' \in [Thread -> Nat]
    BY <1>2, <1>3 DEF RingTypes
  <2> QED
    BY <1>2, <1>3, <2>1, <2>2, <2>3 DEF RingTypes
<1>10. EndsFit'
  BY <1>2 DEF RingInv, EndsFit
<1>11. OwnersApart'
  <2> SUFFICES ASSUME NEW u \in Thread, NEW v \in Thread
               PROVE  /\ step'[u] \in Writing /\ step'[v] \in Writing /\ pos'[u] = pos'[v] => u = v
                      /\ step'[u] \in Reading /\ step'[v] \in Reading /\ pos'[u] = pos'[v] => u = v
    BY DEF OwnersApart
  <2>1. step'[r] \notin Writing \cup Reading
    BY <1>5 DEF Writing, Reading
  <2> QED
    BY <1>5, <2>1 DEF RingInv, OwnersApart
<1>12. \A p : Writer(p)' <=> Writer(p)
  <2>1. step'[r] \notin Writing /\ step[r] \notin Writing
    BY <1>2, <1>5 DEF Writing
  <2> QED
    BY <1>5, <2>1 DEF Writer, Writes
<1>13. StampsFit'
  <2> SUFFICES ASSUME NEW p \in popped .. popped + Cap - 1
               PROVE  /\ p < pushed /\ Writer(p)' => stamp'[SlotOf(p)] = WordAt(p)
                      /\ p < pushed /\ ~ Writer(p)' => stamp'[SlotOf(p)] = WordAt(p) + 1
                      /\ p >= pushed /\ Reader(p - Cap)' => stamp'[SlotOf(p)] = WordAt(p - Cap) + 1
                      /\ p >= pushed /\ ~ Reader(p - Cap)' => stamp'[SlotOf(p)] = WordAt(p)
    BY <1>2 DEF StampsFit
  <2>1. p \in Int
    BY RingShape
  <2>2. CASE p = q
    BY <1>6, <1>7, <1>8, <2>1, <2>2, RingShape
  <2>3. CASE p # q
    <3>1. popped \in Nat /\ p \in Nat
      BY RingShape
    <3>2. SlotOf(p) # SlotOf(q) /\ SlotOf(p) \in 0 .. Cap - 1
      BY <1>6, <2>3, <3>1, InWindow, WordParts
    <3>3. stamp'[SlotOf(p)] = stamp[SlotOf(p)]
      BY <1>8, <3>2
    <3> QED
      BY <1>7, <1>12, <2>1, <2>3, <3>3 DEF RingInv, StampsFit
  <2> QED
    BY <2>2, <2>3
<1>14. MessagesFit'
  <2>1. step[r] # "s_write" /\ step'[r] # "s_write"
    BY <1>2, <1>5
  <2> QED
    BY <1>2, <1>5, <2>1 DEF RingInv, MessagesFit
<1>15. ThreadFits(r)'
  BY <1>5 DEF ThreadFits, WordFits, CasFits, LenFits, ResultFits, TailSteps, HeadSteps, Writing, Reading,
              Asking, Sending
<1>16. ASSUME NEW u \in Thread, u # r PROVE ThreadFits(u)'
  <2>1. ThreadFits(u) /\ step'[u] = step[u] /\ word'[u] = word[u] /\ pos'[u] = pos[u] /\ word2'[u] = word2[u]
    BY <1>5, <1>16 DEF RingInv
  <2>2. WordFits(u)' /\ LenFits(u)' /\ ResultFits(u)'
    BY <1>2, <2>1 DEF ThreadFits, WordFits, LenFits, ResultFits
  <2>3. CasFits(u)'
    <3>1. pushed \in Int
      BY RingShape
    <3> QED
      BY <1>2, <1>7, <1>12, <2>1, <3>1 DEF ThreadFits, CasFits
  <2> QED
    BY <2>2, <2>3 DEF ThreadFits
<1> QED
  BY <1>9, <1>10, <1>11, <1>13, <1>14, <1>15, <1>16 DEF RingInv

(* DisconnectKeeps: the mark bit is set under everybody's feet.             *)
LEMMA DisconnectKeeps ==
    ASSUME RingInv, RingDisconnect
    PROVE  RingInv'
<1> USE DEF held, hist
<1>1. /\ Mark(tail) = 0 /\ tail' = tail + MarkBit
      /\ UNCHANGED <<head, popped, pushed, stamp, slot, step, word, pos, word2, msg, next, queue, res, seen>>
  BY DEF RingDisconnect
<1>2. pushed \in Nat /\ tail = WordAt(pushed)
  BY <1>1, RingShape, TailParts
<1>3. tail' \in TailAt(pushed) /\ tail' # WordAt(pushed)
  BY <1>1, <1>2, IndexAndMark DEF TailAt
<1>4. RingTypes' /\ OwnersApart' /\ MessagesFit'
  BY <1>1 DEF RingInv, RingTypes, OwnersApart, MessagesFit
<1>5. EndsFit'
  BY <1>1, <1>3 DEF RingInv, EndsFit
<1>6. \A p : (Writer(p)' <=> Writer(p)) /\ (Reader(p)' <=> Reader(p))
  BY <1>1 DEF Writer, Writes, Reader, Reads
<1>7. StampsFit'
  BY <1>1, <1>6 DEF RingInv, StampsFit
<1>8. ASSUME NEW u \in Thread PROVE ThreadFits(u)'
  <2>1. ThreadFits(u)
    BY DEF RingInv
  <2>2. WordFits(u)' /\ LenFits(u)' /\ ResultFits(u)'
    BY <1>1, <1>3, <2>1 DEF ThreadFits, WordFits, LenFits, ResultFits
  <2>3. CasFits(u)'
    BY <1>1, <1>6, <2>1 DEF ThreadFits, CasFits
  <2> QED
    BY <2>2, <2>3 DEF ThreadFits
<1> QED
  BY <1>4, <1>5, <1>7, <1>8 DEF RingInv

(* RingInvStep: every step keeps the invariant, as long as nobody has been  *)
(* lapped.                                                                  *)
LEMMA RingInvStep ==
    ASSUME RingInv, NobodyLapped, [RingNext]_ringVars
    PROVE  RingInv'
<1>1. ASSUME NEW s \in Sender,
             \/ CallTrySend(s) \/ SendLoadTail(s) \/ SendLoadStamp(s) \/ SendCas(s)
             \/ SendCasFails(s) \/ SendWrite(s) \/ SendStoreStamp(s) \/ SendLoadHead(s)
             \/ CallIsFull(s) \/ IsFull(s)
      PROVE  RingInv'
  <2>1. s \in Thread
    BY DEF Thread
  <2> QED
    BY <1>1, <2>1, CallsKeep, LoadsKeep, StampLoadsKeep, AnswersKeep, SendCasKeeps, SendWriteKeeps, SendStoreKeeps
<1>2. ASSUME NEW r \in Receiver,
             \/ CallTryRecv(r) \/ RecvLoadHead(r) \/ RecvLoadStamp(r) \/ RecvCas(r)
             \/ RecvCasFails(r) \/ RecvRead(r) \/ RecvStoreStamp(r) \/ RecvLoadTail(r)
             \/ CallIsEmpty(r) \/ IsEmpty(r)
             \/ CallLen(r) \/ LenLoadTail(r) \/ LenLoadHead(r) \/ LenReturn(r)
      PROVE  RingInv'
  <2>1. r \in Thread
    BY DEF Thread
  <2> QED
    BY <1>2, <2>1, CallsKeep, LoadsKeep, StampLoadsKeep, AnswersKeep, LenKeeps, ReadKeeps, RecvCasKeeps, RecvStoreKeeps
<1>3. ASSUME UNCHANGED ringVars PROVE RingInv'
  <2> USE DEF ringVars, ring, ends, held, hist
  <2>1. \A p : (Writer(p)' <=> Writer(p)) /\ (Reader(p)' <=> Reader(p))
    BY <1>3 DEF Writer, Writes, Reader, Reads
  <2>2. RingTypes' /\ EndsFit' /\ OwnersApart' /\ MessagesFit'
    BY <1>3 DEF RingInv, RingTypes, EndsFit, OwnersApart, MessagesFit
  <2>3. StampsFit'
    BY <1>3, <2>1 DEF RingInv, StampsFit
  <2>4. ASSUME NEW u \in Thread PROVE ThreadFits(u)'
    BY <1>3, <2>1 DEF RingInv, ThreadFits, WordFits, CasFits, LenFits, ResultFits
  <2> QED
    BY <2>2, <2>3, <2>4 DEF RingInv
<1> QED
  BY <1>1, <1>2, <1>3, DisconnectKeeps DEF RingNext

(* RingInvariant: with_capacity()'s ring keeps RingInv as long as nobody is *)
(* lapped, over any number of messages.                                     *)
THEOREM RingInvariant == RingSpec /\ []NobodyLapped => []RingInv
<1>1. RingInv /\ NobodyLapped /\ [RingNext]_ringVars => RingInv'
  BY RingInvStep
<1> QED
  BY <1>1, RingInvInit, PTL DEF RingSpec

-----------------------------------------------------------------------------
(* What follows.                                                            *)

(* ExclusiveSlots: senders own slots from the head to the tail, receivers   *)
(* those of a lap ago from the tail to the head, and no two the same one.   *)
LEMMA ExclusiveSlots == RingInv => SlotExclusive
<1> SUFFICES ASSUME RingInv, NEW i \in 0 .. Cap - 1, NEW t \in Thread, NEW u \in Thread,
                    Owns(t, i), Owns(u, i)
             PROVE  t = u
  BY DEF SlotExclusive
<1>1. /\ step[t] \in Writing \cup Reading /\ step[u] \in Writing \cup Reading
      /\ Index(word[t]) = i /\ Index(word[u]) = i
  BY DEF Owns, Writing, Reading
<1>2. SlotOf(pos[t]) = SlotOf(pos[u]) /\ pos[t] \in Nat /\ pos[u] \in Nat
  BY <1>1, SlotIsRight
<1>3. /\ OwnersApart /\ popped \in Nat /\ pushed \in Nat /\ Cap \in Nat
      /\ popped <= pushed /\ pushed <= popped + Cap
      /\ \A v \in {t, u} : step[v] \in Writing => popped <= pos[v] /\ pos[v] < pushed
      /\ \A v \in {t, u} : step[v] \in Reading => pos[v] < popped /\ pushed <= pos[v] + Cap
  BY RingShape DEF RingInv
<1>4. CASE step[t] \in Writing /\ step[u] \in Writing
  <2>1. pos[t] - pos[u] < Cap /\ pos[u] - pos[t] < Cap
    BY <1>2, <1>3, <1>4
  <2>2. pos[t] = pos[u]
    BY <1>2, <2>1, SameSlot
  <2> QED
    BY <1>3, <1>4, <2>2 DEF OwnersApart
<1>5. CASE step[t] \in Reading /\ step[u] \in Reading
  <2>1. pos[t] - pos[u] < Cap /\ pos[u] - pos[t] < Cap
    BY <1>2, <1>3, <1>5
  <2>2. pos[t] = pos[u]
    BY <1>2, <2>1, SameSlot
  <2> QED
    BY <1>3, <1>5, <2>2 DEF OwnersApart
<1>6. \A v, w \in {t, u} :
        ~ (step[v] \in Writing /\ step[w] \in Reading /\ SlotOf(pos[v]) = SlotOf(pos[w]))
  <2> SUFFICES ASSUME NEW v \in {t, u}, NEW w \in {t, u}, step[v] \in Writing, step[w] \in Reading
               PROVE  SlotOf(pos[v]) # SlotOf(pos[w])
    OBVIOUS
  <2> DEFINE p == pos[w] + Cap
  <2>1. p \in popped .. popped + Cap - 1 /\ pos[v] \in popped .. popped + Cap - 1 /\ pos[v] # p
    BY <1>2, <1>3
  <2>2. SlotOf(p) = SlotOf(pos[w])
    BY <1>2, OneLapOn
  <2> HIDE DEF p
  <2>3. SlotOf(pos[v]) # SlotOf(p)
    BY <1>3, <2>1, InWindow
  <2> QED
    BY <2>2, <2>3
<1> QED
  BY <1>1, <1>2, <1>4, <1>5, <1>6

(* SlotAfter: the slot k places on, with the wrap of DropSlots.             *)
LEMMA SlotAfter ==
    ASSUME NEW m \in Nat, NEW k \in 0 .. Cap
    PROVE  SlotOf(m + k) = IF SlotOf(m) + k < Cap THEN SlotOf(m) + k ELSE SlotOf(m) + k - Cap
<1> DEFINE a == m \div Cap
           n == m + k
<1>1. m = Cap * a + SlotOf(m) /\ a \in Int /\ SlotOf(m) \in 0 .. Cap - 1 /\ Cap \in Nat /\ Cap > 0
  BY DivMod, RingConstants DEF SlotOf
<1> HIDE DEF a
<1>2. CASE SlotOf(m) + k < Cap
  <2> DEFINE j == SlotOf(m) + k
  <2>1. n = Cap * a + j /\ j \in 0 .. Cap - 1
    <3>1. Cap * a \in Int
      BY <1>1
    <3> QED
      BY <1>1, <1>2, <3>1
  <2> HIDE DEF n, j
  <2>2. n % Cap = j
    BY <1>1, <2>1, DivUnique, Zenon
  <2> QED
    BY <1>2, <2>2 DEF SlotOf, n, j
<1>3. CASE ~ (SlotOf(m) + k < Cap)
  <2> DEFINE j == SlotOf(m) + k - Cap
             b == a + 1
  <2>1. n = Cap * b + j /\ j \in 0 .. Cap - 1 /\ b \in Int
    <3>1. Cap * a \in Int /\ Cap * b = Cap * a + Cap
      BY <1>1
    <3> HIDE DEF b
    <3>2. n = Cap * b + j /\ j \in 0 .. Cap - 1
      BY <1>1, <1>3, <3>1
    <3> QED
      BY <1>1, <3>2 DEF b
  <2> HIDE DEF n, j, b
  <2>2. n % Cap = j
    BY <1>1, <2>1, DivUnique, Zenon
  <2> QED
    BY <1>3, <2>2 DEF SlotOf, n, j
<1> QED
  BY <1>2, <1>3

(* LenOfFits: what len() computes from the words of two positions.          *)
LEMMA LenOfFits ==
    ASSUME NEW m \in Nat, NEW k \in 0 .. Cap, NEW w \in TailAt(m + k)
    PROVE  LenOf(w, WordAt(m)) = k
<1> DEFINE n == m + k
<1>1. n \in Nat /\ Cap \in Nat /\ Cap > 0 /\ k \in Nat
  BY RingConstants
<1>2. Index(w) = SlotOf(n) /\ Unmarked(w) = WordAt(n) /\ Index(WordAt(m)) = SlotOf(m)
  <2> HIDE DEF n
  <2>1. w \in TailAt(n)
    BY DEF n
  <2> QED
    BY <1>1, <2>1, TailParts, IndexAndMark
<1>3. SlotOf(n) = IF SlotOf(m) + k < Cap THEN SlotOf(m) + k ELSE SlotOf(m) + k - Cap
  BY SlotAfter
<1>4. SlotOf(m) \in 0 .. Cap - 1 /\ SlotOf(n) \in 0 .. Cap - 1
  BY <1>1, WordParts
<1>5. k = Cap => WordAt(n) # WordAt(m)
  <2>1. Cap < Laps * Cap /\ 0 < Laps * Cap
    BY RingConstants
  <2>2. k = Cap => n - m < Laps * Cap /\ m - n < Laps * Cap /\ m # n
    BY <1>1, <2>1, RingConstants
  <2> HIDE DEF n
  <2> QED
    BY <1>1, <2>2, WordsDiffer
<1>6. k = 0 => WordAt(n) = WordAt(m)
  BY <1>1
<1>7. LenOf(w, WordAt(m)) =
          CASE SlotOf(m) < SlotOf(n) -> SlotOf(n) - SlotOf(m)
            [] SlotOf(m) > SlotOf(n) -> Cap - SlotOf(m) + SlotOf(n)
            [] OTHER -> IF WordAt(n) = WordAt(m) THEN 0 ELSE Cap
  BY <1>2 DEF LenOf
<1> HIDE DEF n
<1>8. CASE SlotOf(m) + k < Cap /\ k > 0
  BY <1>1, <1>3, <1>4, <1>7, <1>8
<1>9. CASE k = 0
  BY <1>1, <1>3, <1>4, <1>6, <1>7, <1>9
<1>10. CASE SlotOf(m) + k >= Cap /\ k < Cap
  BY <1>1, <1>3, <1>4, <1>7, <1>10
<1>11. CASE k = Cap
  BY <1>1, <1>3, <1>4, <1>5, <1>7, <1>11
<1> QED
  BY <1>1, <1>4, <1>8, <1>9, <1>10, <1>11

(* ExactLen: if the tail is still the one that len() has loaded, it has     *)
(* counted the messages there were when it loaded the head.                 *)
LEMMA ExactLen == RingInv /\ NobodyLapped => LenIsExact
<1> SUFFICES ASSUME RingInv, NobodyLapped, NEW r \in Receiver, step[r] = "l_again", tail = word[r]
             PROVE  LenOf(word[r], word2[r]) = seen[r]
  BY DEF LenIsExact
<1>1. r \in Thread
  BY DEF Thread
<1>2. pos[r] = pushed
  BY <1>1, TailIsMine DEF TailSteps
<1>3. /\ seen[r] \in Nat /\ seen[r] <= Cap /\ seen[r] <= pushed /\ word2[r] = WordAt(pushed - seen[r])
      /\ pushed \in Nat /\ tail \in TailAt(pushed)
  BY <1>1, <1>2 DEF RingInv, RingTypes, EndsFit, ThreadFits, LenFits
<1> DEFINE m == pushed - seen[r]
<1>4. m \in Nat /\ m + seen[r] = pushed /\ seen[r] \in 0 .. Cap
  BY <1>3, RingConstants
<1> HIDE DEF m
<1>5. word[r] \in TailAt(m + seen[r]) /\ word2[r] = WordAt(m)
  BY <1>3, <1>4 DEF m
<1> QED
  BY <1>4, <1>5, LenOfFits

(* RestIsDropped: Drop for Channel finds the messages of the queue.         *)
LEMMA RestIsDropped == RingInv => DropsTheRest
<1> SUFFICES ASSUME RingInv, \A t \in Thread : step[t] = "idle"
             PROVE  queue = [i \in DOMAIN DropSlots |-> slot[DropSlots[i]]]
  BY DEF DropsTheRest
<1> DEFINE k == pushed - popped
<1>1. k \in 0 .. Cap /\ popped \in Nat /\ popped + k = pushed /\ tail \in TailAt(pushed) /\ head = WordAt(popped)
      /\ queue \in Seq(Msg) /\ Len(queue) = k /\ pushed \in Nat
  BY RingShape
<1>2. LenOf(tail, head) = k
  <2> HIDE DEF k
  <2>1. tail \in TailAt(popped + k)
    BY <1>1
  <2> QED
    BY <1>1, <2>1, LenOfFits
<1> HIDE DEF k
<1>3. DropSlots = [i \in 1 .. k |-> Wrapped(SlotOf(popped) + i - 1)]
  <2>1. Index(head) = SlotOf(popped)
    BY <1>1, IndexAndMark
  <2>2. DropSlots = [i \in 1 .. LenOf(tail, head) |-> Wrapped(Index(head) + i - 1)]
    BY DEF DropSlots
  <2> QED
    BY <1>2, <2>1, <2>2, Zenon
<1>4. ASSUME NEW i \in 1 .. k PROVE slot[DropSlots[i]] = queue[i]
  <2> DEFINE d == i - 1
             p == popped + d
  <2>1. d \in 0 .. Cap /\ i \in Nat /\ Cap \in Nat /\ SlotOf(popped) \in 0 .. Cap - 1
    BY <1>1, RingConstants, WordParts
  <2>2. DropSlots[i] = SlotOf(p)
    <3>1. SlotOf(p) = IF SlotOf(popped) + d < Cap THEN SlotOf(popped) + d ELSE SlotOf(popped) + d - Cap
      <4> HIDE DEF d
      <4> QED
        BY <1>1, <2>1, SlotAfter
    <3>2. SlotOf(popped) + i - 1 = SlotOf(popped) + d
      BY <2>1
    <3>3. DropSlots[i] = IF SlotOf(popped) + i - 1 < Cap THEN SlotOf(popped) + i - 1 ELSE (SlotOf(popped) + i - 1) - Cap
      <4>1. DropSlots[i] = Wrapped(SlotOf(popped) + i - 1)
        BY <1>3
      <4> QED
        BY <4>1 DEF Wrapped
    <3> HIDE DEF d, p
    <3> QED
      BY <2>1, <3>1, <3>2, <3>3
  <2>3. p \in popped .. pushed - 1 /\ p - popped + 1 = i
    BY <1>1, <2>1
  <2>4. \A t \in Thread : step[t] # "s_write"
    OBVIOUS
  <2> HIDE DEF p
  <2>5. slot[SlotOf(p)] = queue[p - popped + 1]
    BY <2>3, <2>4 DEF RingInv, MessagesFit
  <2> QED
    BY <2>2, <2>3, <2>5
<1>5. queue = [i \in 1 .. k |-> queue[i]] /\ DOMAIN DropSlots = 1 .. k
  BY <1>1, <1>3
<1> QED
  BY <1>4, <1>5

-----------------------------------------------------------------------------
(* The ring implements the queue.                                           *)

(* QueueInit, QueueStep: the ring implements BoundedQueue, step by step.    *)
LEMMA QueueInit == RingInit => Q!Init
<1> SUFFICES ASSUME RingInit PROVE Q!Init
  OBVIOUS
<1>1. RingInv
  BY RingInvInit
<1>2. queue = <<>> /\ res = [t \in Thread |-> <<"none">>] /\ tail = head /\ pushed = popped
  BY DEF RingInit
<1>3. Mark(tail) = 0
  BY <1>1, <1>2, RingShape, IndexAndMark
<1> QED
  BY <1>2, <1>3 DEF Q!Init, Thread

(* QueueStep: every step of the ring is a step of the queue, or none.       *)
LEMMA QueueStep ==
    ASSUME RingInv, NobodyLapped, [RingNext]_ringVars
    PROVE  [Q!Next]_Q!vars
<1> USE DEF Go, Result, Return, Hold, LoadTail, LoadHead, ring, ends, held, hist
<1>1. ASSUME NEW t \in Thread, UNCHANGED <<tail, queue>>, res' = [res EXCEPT ![t] = <<"none">>]
      PROVE  Q!Next
  <2>1. Q!Call(t)
    BY <1>1 DEF Q!Call
  <2> QED
    BY <2>1 DEF Q!Next, Thread
<1>2. ASSUME NEW t \in Thread, step[t] \in Asking PROVE res[t] = <<"none">>
  BY <1>2 DEF RingInv, ThreadFits, ResultFits
<1>3. ASSUME UNCHANGED <<tail, queue, res>> PROVE UNCHANGED Q!vars
  BY <1>3 DEF Q!vars
<1>4. Len(queue) = pushed - popped /\ queue \in Seq(Msg) /\ pushed \in Nat /\ popped \in Nat /\ Cap \in Nat
  BY RingShape
<1>5. ASSUME NEW s \in Sender,
             \/ CallTrySend(s) \/ SendLoadTail(s) \/ SendLoadStamp(s) \/ SendCas(s)
             \/ SendCasFails(s) \/ SendWrite(s) \/ SendStoreStamp(s) \/ SendLoadHead(s)
             \/ CallIsFull(s) \/ IsFull(s)
      PROVE  [Q!Next]_Q!vars
  <2>1. s \in Thread
    BY DEF Thread
  <2>2. CASE CallTrySend(s) \/ CallIsFull(s)
    BY <1>1, <2>1, <2>2 DEF CallTrySend, CallIsFull
  <2>3. CASE SendLoadTail(s) \/ SendLoadStamp(s) \/ SendCasFails(s) \/ SendWrite(s) \/ SendStoreStamp(s)
    BY <1>3, <2>3 DEF SendLoadTail, SendLoadStamp, SendCasFails, SendWrite, SendStoreStamp
  <2>4. CASE SendCas(s)
    <3>1. step[s] = "s_cas" /\ tail = word[s] /\ tail' = Successor(Unmarked(tail)) + Mark(tail)
          /\ queue' = Append(queue, msg[s]) /\ res' = [res EXCEPT ![s] = <<"sent">>]
      BY <2>4 DEF SendCas
    <3>2. pos[s] = pushed
      BY <2>1, <3>1, TailIsMine DEF TailSteps
    <3>3. pushed < popped + Cap /\ msg[s] \in Msg
      BY <2>1, <3>1, <3>2 DEF RingInv, ThreadFits, CasFits, ResultFits, Sending
    <3>4. pushed + 1 \in Nat /\ tail' = WordAt(pushed + 1) + Mark(tail) /\ Mark(tail) \in {0, MarkBit}
      <4>1. Unmarked(tail) = WordAt(pushed) /\ Mark(tail) \in {0, MarkBit}
        BY RingShape, TailParts
      <4>2. Successor(WordAt(pushed)) = WordAt(pushed + 1) /\ pushed + 1 \in Nat
        BY <1>4, NextWord
      <4>3. tail' = Successor(WordAt(pushed)) + Mark(tail)
        BY <3>1, <4>1
      <4> QED
        BY <4>1, <4>2, <4>3
    <3>5. Mark(tail') = Mark(tail)
      BY <3>4, IndexAndMark, WordParts
    <3>6. res[s] = <<"none">>
      BY <1>2, <2>1, <3>1 DEF Asking, Sending
    <3>7. Q!Push(s, msg[s])
      BY <1>4, <3>1, <3>3, <3>5, <3>6 DEF Q!Push, Q!Returns
    <3> QED
      BY <3>3, <3>7 DEF Q!Next
  <2>5. CASE SendLoadHead(s)
    <3>1. step[s] = "s_head" /\ UNCHANGED <<tail, queue>> /\ step[s] \in TailSteps
      BY <2>5 DEF SendLoadHead, TailSteps
    <3>2. CASE WrappingAdd(head, OneLap) = Unmarked(word[s])
      <4>1. pushed = popped + Cap /\ pos[s] = pushed
        BY <2>1, <3>1, <3>2, FullIsFull
      <4>2. res[s] = <<"none">>
        BY <1>2, <2>1, <3>1 DEF Asking, Sending
      <4>3. Mark(word[s]) # 0 => Mark(tail) # 0
        <5>1. /\ word[s] \in TailAt(pos[s]) /\ pos[s] \in Nat /\ tail \in TailAt(pushed)
              /\ word[s] # WordAt(pos[s]) => tail # WordAt(pushed)
          BY <2>1, <3>1, RingShape DEF RingInv, ThreadFits, WordFits
        <5> QED
          BY <1>4, <5>1, TailParts
      <4>4. \/ Mark(word[s]) # 0 /\ res' = [res EXCEPT ![s] = <<"disconnected">>]
            \/ res' = [res EXCEPT ![s] = <<"full">>]
        BY <2>5, <3>2 DEF SendLoadHead
      <4>5. Q!SendFails(s)
        BY <1>4, <3>1, <4>1, <4>2, <4>3, <4>4 DEF Q!SendFails, Q!Returns
      <4> QED
        BY <4>5 DEF Q!Next
    <3>3. CASE WrappingAdd(head, OneLap) # Unmarked(word[s])
      BY <1>3, <2>5, <3>1, <3>3 DEF SendLoadHead
    <3> QED
      BY <3>2, <3>3
  <2>6. CASE IsFull(s)
    <3>1. step[s] = "f_head" /\ UNCHANGED <<tail, queue>> /\ step[s] \in TailSteps
      BY <2>6 DEF IsFull, TailSteps
    <3>2. res[s] = <<"none">>
      BY <1>2, <2>1, <3>1 DEF Asking
    <3>3. \/ res' = [res EXCEPT ![s] = <<"is not">>]
          \/ /\ res' = [res EXCEPT ![s] = <<"is">>]
             /\ WrappingAdd(head, OneLap) = Unmarked(word[s])
      BY <2>6 DEF IsFull
    <3>4. WrappingAdd(head, OneLap) = Unmarked(word[s]) => Len(queue) = Cap
      BY <1>4, <2>1, <3>1, FullIsFull
    <3>5. Q!SaysFull(s)
      BY <3>1, <3>2, <3>3, <3>4 DEF Q!SaysFull, Q!Returns
    <3> QED
      BY <3>5 DEF Q!Next
  <2> QED
    BY <1>5, <2>2, <2>3, <2>4, <2>5, <2>6
<1>6. ASSUME NEW r \in Receiver,
             \/ CallTryRecv(r) \/ RecvLoadHead(r) \/ RecvLoadStamp(r) \/ RecvCas(r)
             \/ RecvCasFails(r) \/ RecvRead(r) \/ RecvStoreStamp(r) \/ RecvLoadTail(r)
             \/ CallIsEmpty(r) \/ IsEmpty(r)
             \/ CallLen(r) \/ LenLoadTail(r) \/ LenLoadHead(r) \/ LenReturn(r)
      PROVE  [Q!Next]_Q!vars
  <2>1. r \in Thread
    BY DEF Thread
  <2>2. CASE CallTryRecv(r) \/ CallIsEmpty(r) \/ CallLen(r)
    BY <1>1, <2>1, <2>2 DEF CallTryRecv, CallIsEmpty, CallLen
  <2>3. CASE RecvLoadHead(r) \/ RecvLoadStamp(r) \/ RecvCasFails(r) \/ RecvStoreStamp(r)
             \/ LenLoadTail(r) \/ LenLoadHead(r) \/ LenReturn(r)
    BY <1>3, <2>3 DEF RecvLoadHead, RecvLoadStamp, RecvCasFails, RecvStoreStamp, LenLoadTail, LenLoadHead,
                      LenReturn
  <2>4. CASE RecvRead(r)
    <3>1. UNCHANGED <<tail, queue>>
      BY <2>4 DEF RecvRead
    <3>2. res' = res
      BY <2>4, ReadKeeps
    <3> QED
      BY <1>3, <3>1, <3>2
  <2>5. CASE RecvCas(r)
    <3>1. /\ step[r] = "r_cas" /\ UNCHANGED tail /\ queue' = Tail(queue)
          /\ res' = [res EXCEPT ![r] = <<"got", Head(queue)>>]
      BY <2>5 DEF RecvCas
    <3>2. queue # <<>>
      BY <2>5, RecvCasKeeps
    <3>3. res[r] = <<"none">>
      BY <1>2, <2>1, <3>1 DEF Asking
    <3>4. Q!Pop(r)
      BY <3>1, <3>2, <3>3 DEF Q!Pop, Q!Returns
    <3> QED
      BY <3>4 DEF Q!Next
  <2>6. ASSUME step[r] \in {"r_tail", "e_tail"}, Unmarked(tail) = word[r] PROVE queue = <<>>
    <3>1. pos[r] = pushed /\ pos[r] <= popped /\ popped <= pushed
      BY <2>1, <2>6, HeadIsMine, RingShape DEF HeadSteps
    <3>2. Len(queue) = 0
      BY <1>4, <3>1
    <3> QED
      BY <1>4, <3>2
  <2>7. CASE RecvLoadTail(r)
    <3>1. step[r] = "r_tail" /\ UNCHANGED <<tail, queue>>
      BY <2>7 DEF RecvLoadTail
    <3>2. CASE Unmarked(tail) = word[r]
      <4>1. queue = <<>>
        BY <2>6, <3>1, <3>2
      <4>2. res[r] = <<"none">>
        BY <1>2, <2>1, <3>1 DEF Asking
      <4>3. res' = [res EXCEPT ![r] = IF Mark(tail) # 0 THEN <<"disconnected">> ELSE <<"empty">>]
        BY <2>7, <3>2 DEF RecvLoadTail
      <4>4. Q!RecvFails(r)
        BY <3>1, <4>1, <4>2, <4>3 DEF Q!RecvFails, Q!Returns
      <4> QED
        BY <4>4 DEF Q!Next
    <3>3. CASE Unmarked(tail) # word[r]
      BY <1>3, <2>7, <3>1, <3>3 DEF RecvLoadTail
    <3> QED
      BY <3>2, <3>3
  <2>8. CASE IsEmpty(r)
    <3>1. step[r] = "e_tail" /\ UNCHANGED <<tail, queue>>
      BY <2>8 DEF IsEmpty
    <3>2. res[r] = <<"none">>
      BY <1>2, <2>1, <3>1 DEF Asking
    <3>3. \/ res' = [res EXCEPT ![r] = <<"is not">>]
          \/ res' = [res EXCEPT ![r] = <<"is">>] /\ Unmarked(tail) = word[r]
      BY <2>8 DEF IsEmpty
    <3>4. Unmarked(tail) = word[r] => queue = <<>>
      BY <2>6, <3>1
    <3>5. Q!SaysEmpty(r)
      BY <3>1, <3>2, <3>3, <3>4 DEF Q!SaysEmpty, Q!Returns
    <3> QED
      BY <3>5 DEF Q!Next
  <2> QED
    BY <1>6, <2>2, <2>3, <2>4, <2>5, <2>7, <2>8
<1>7. CASE RingDisconnect
  <2>1. Mark(tail) = 0 /\ tail' = tail + MarkBit /\ UNCHANGED <<queue, res>>
    BY <1>7 DEF RingDisconnect
  <2>2. tail = WordAt(pushed)
    BY <2>1, RingShape, TailParts
  <2>3. Mark(tail') # 0
    BY <1>4, <2>1, <2>2, IndexAndMark
  <2>4. Q!Disconnect
    BY <2>1, <2>3 DEF Q!Disconnect
  <2> QED
    BY <2>4 DEF Q!Next
<1>8. CASE UNCHANGED ringVars
  BY <1>3, <1>8 DEF ringVars
<1> QED
  BY <1>5, <1>6, <1>7, <1>8 DEF RingNext

(* SlotsExclude: between the CAS that claims a slot and the store of its    *)
(* stamp, in try_send() or try_recv(), no other thread touches the slot's   *)
(* message, whatever stale heads and tails the other threads hold.          *)
THEOREM SlotsExclude == RingSpec /\ []NobodyLapped => []SlotExclusive
  BY RingInvariant, ExclusiveSlots, PTL

(* LenIsRight: when len() loads the same tail twice, the length it computes *)
(* from that tail and the head between them is the one the queue had then.  *)
THEOREM LenIsRight == RingSpec /\ []NobodyLapped => []LenIsExact
  BY RingInvariant, ExactLen, PTL

(* DropIsRight: Drop for Channel drops the messages that nobody received,   *)
(* each once and no others: no slot is dropped that holds no message.       *)
THEOREM DropIsRight == RingSpec /\ []NobodyLapped => []DropsTheRest
  BY RingInvariant, RestIsDropped, PTL

(* RingIsQueue: the ring implements the bounded queue: no message is lost,  *)
(* repeated or overtaken, "full" and "empty" are true at some point of the  *)
(* call that answers them, and "disconnected" follows the last message.     *)
THEOREM RingIsQueue == RingSpec /\ []NobodyLapped => ImplementsQueue
<1>1. RingInv /\ NobodyLapped /\ [RingNext]_ringVars => [Q!Next]_Q!vars
  BY QueueStep
<1> QED
  BY <1>1, QueueInit, RingInvariant, PTL DEF RingSpec, ImplementsQueue, Q!Spec

-----------------------------------------------------------------------------
(* Few messages: nobody can be lapped.                                      *)

(* Unsent: the threads that hold a message which is not in the queue.       *)
Unsent == {t \in Thread : msg[t] # NoMsg /\ step[t] # "s_write"}

Comparing == TailSteps \cup HeadSteps

(* Since(n): what a ring that started at position n has pushed, and the     *)
(* messages still to be pushed, are messages that have been made; nobody    *)
(* holds a word from before the start.                                      *)
Since(n) ==
    /\ n <= popped
    /\ IsFiniteSet(Unsent)
    /\ pushed + Cardinality(Unsent) <= n + next
    /\ \A t \in Thread : step[t] \in Comparing => n <= pos[t]

FewInv == RingInv /\ \E n \in Nat : Since(n)

(* FewPushed: a ring that has pushed fewer messages than all the laps but   *)
(* one take has lapped nobody.                                              *)
LEMMA FewPushed ==
    ASSUME FewInv, MaxMsgs < (Laps - 1) * Cap
    PROVE  NobodyLapped
<1>1. PICK n \in Nat : Since(n)
  BY DEF FewInv
<1>2. Cardinality(Unsent) \in Nat
  BY <1>1, FS_CardinalityType DEF Since
<1>3. pushed \in Nat /\ next \in Nat /\ next <= MaxMsgs /\ MaxMsgs \in Nat
  BY RingAssumption DEF FewInv, RingInv, RingTypes
<1>4. pushed <= n + MaxMsgs
  BY <1>1, <1>2, <1>3 DEF Since
<1>5. (Laps - 1) * Cap \in Int
  BY RingConstants
<1> SUFFICES ASSUME NEW t \in Thread, step[t] \in Comparing
             PROVE  pushed - pos[t] < (Laps - 1) * Cap
  BY DEF NobodyLapped, Comparing
<1>6. pos[t] \in Nat /\ n <= pos[t]
  BY <1>1, RingFacts DEF Since, FewInv
<1> QED
  BY <1>3, <1>4, <1>5, <1>6

(* PosFrom: no thread's word is from before the start after a step in which *)
(* only thread t moves.                                                     *)
LEMMA PosFrom ==
    ASSUME RingInv, NEW n \in Nat, Since(n), NEW t \in Thread, NEW l, Go(t, l),
           \/ LoadTail(t) \/ LoadHead(t)
           \/ pos' = pos /\ (l \in Comparing => step[t] \in Comparing)
           \/ l \notin Comparing /\ \E m : pos' = [pos EXCEPT ![t] = m]
    PROVE  \A u \in Thread : step'[u] \in Comparing => n <= pos'[u]
<1>1. step \in [Thread -> RingSteps] /\ pos \in [Thread -> Nat] /\ n <= popped /\ n <= pushed
  BY DEF RingInv, RingTypes, EndsFit, Since
<1>2. \A u \in Thread : step[u] \in Comparing => n <= pos[u]
  BY DEF Since
<1>3. step' = [step EXCEPT ![t] = l]
  BY DEF Go
<1> HIDE DEF Comparing
<1> SUFFICES ASSUME NEW u \in Thread, step'[u] \in Comparing PROVE n <= pos'[u]
  OBVIOUS
<1>4. CASE u # t
  <2>1. step'[u] = step[u] /\ pos'[u] = pos[u]
    BY <1>1, <1>3, <1>4 DEF LoadTail, LoadHead, Hold
  <2> QED
    BY <1>2, <2>1
<1>5. CASE u = t
  <2>1. l \in Comparing
    BY <1>1, <1>3, <1>5
  <2> QED
    BY <1>1, <1>2, <1>5, <2>1 DEF LoadTail, LoadHead, Hold
<1> QED
  BY <1>4, <1>5

(* Unmoved: a step that neither makes nor pushes a message.                 *)
Unmoved(t, l) ==
    /\ Go(t, l) /\ UNCHANGED <<pushed, next, msg>> /\ popped' >= popped
    /\ step[t] # "s_write" /\ l # "s_write"

(* UnmovedKeeps: it keeps Since(n) if nobody's word is from before n.       *)
LEMMA UnmovedKeeps ==
    ASSUME RingInv, NEW n \in Nat, Since(n), NEW t \in Thread, NEW l, Unmoved(t, l), popped' \in Nat,
           \A u \in Thread : step'[u] \in Comparing => n <= pos'[u]
    PROVE  Since(n)'
<1>1. step \in [Thread -> RingSteps] /\ popped \in Nat
  BY DEF RingInv, RingTypes
<1>2. Unsent' = Unsent
  BY <1>1 DEF Unsent, Unmoved, Go
<1> QED
  BY <1>1, <1>2 DEF Since, Unmoved

(* Quiet(t, l): thread t goes to step l in such a step, and loads a word,   *)
(* keeps the one that it has, or no longer compares one.                    *)
Quiet(t, l) ==
    /\ Unmoved(t, l) /\ popped' \in Nat
    /\ \/ LoadTail(t) \/ LoadHead(t)
       \/ pos' = pos /\ (l \in Comparing => step[t] \in Comparing)
       \/ l \notin Comparing /\ \E m : pos' = [pos EXCEPT ![t] = m]

(* QuietKeeps: such a step keeps Since(n).                                  *)
LEMMA QuietKeeps ==
    ASSUME RingInv, NEW n \in Nat, Since(n), NEW t \in Thread, NEW l, Quiet(t, l)
    PROVE  Since(n)'
  BY PosFrom, UnmovedKeeps DEF Quiet, Unmoved

(* QuietSteps: every step but those that make or push a message, the write  *)
(* of one into its slot, and disconnect().                                  *)
LEMMA QuietSteps ==
    ASSUME RingInv, NEW t \in Thread,
           \/ SendLoadTail(t) \/ SendLoadStamp(t) \/ SendCasFails(t) \/ SendStoreStamp(t)
           \/ SendLoadHead(t) \/ CallIsFull(t) \/ IsFull(t)
           \/ CallTryRecv(t) \/ RecvLoadHead(t) \/ RecvLoadStamp(t) \/ RecvCas(t)
           \/ RecvCasFails(t) \/ RecvRead(t) \/ RecvStoreStamp(t) \/ RecvLoadTail(t)
           \/ CallIsEmpty(t) \/ IsEmpty(t)
           \/ CallLen(t) \/ LenLoadTail(t) \/ LenLoadHead(t) \/ LenReturn(t)
    PROVE  \E l : Quiet(t, l)
<1>1. popped \in Nat
  BY DEF RingInv, RingTypes
<1> USE DEF Unmoved, ring, ends, hist
<1>2. CASE SendLoadTail(t) \/ SendCasFails(t)
  <2>1. Quiet(t, "s_stamp")
    BY <1>1, <1>2 DEF Quiet, SendLoadTail, SendCasFails
  <2> QED
    BY <2>1
<1>3. CASE RecvLoadHead(t) \/ RecvCasFails(t)
  <2>1. Quiet(t, "r_stamp")
    BY <1>1, <1>3 DEF Quiet, RecvLoadHead, RecvCasFails
  <2> QED
    BY <2>1
<1>4. CASE CallIsFull(t) \/ CallIsEmpty(t) \/ LenLoadTail(t)
  <2>1. Quiet(t, "f_head") \/ Quiet(t, "e_tail") \/ Quiet(t, "l_head")
    BY <1>1, <1>4 DEF Quiet, CallIsFull, CallIsEmpty, LenLoadTail
  <2> QED
    BY <2>1
<1> USE DEF held, Comparing, TailSteps, HeadSteps
<1>5. CASE SendLoadStamp(t)
  <2>1. Quiet(t, "s_cas") \/ Quiet(t, "s_head") \/ Quiet(t, "s_tail")
    BY <1>1, <1>5 DEF Quiet, SendLoadStamp
  <2> QED
    BY <2>1
<1>6. CASE RecvLoadStamp(t)
  <2>1. Quiet(t, "r_cas") \/ Quiet(t, "r_tail") \/ Quiet(t, "r_head")
    BY <1>1, <1>6 DEF Quiet, RecvLoadStamp
  <2> QED
    BY <2>1
<1>7. CASE CallTryRecv(t) \/ CallLen(t) \/ RecvRead(t) \/ RecvCas(t) \/ LenLoadHead(t)
  <2>1. Quiet(t, "r_head") \/ Quiet(t, "l_tail") \/ Quiet(t, "r_store") \/ Quiet(t, "r_read") \/ Quiet(t, "l_again")
    BY <1>1, <1>7 DEF Quiet, CallTryRecv, CallLen, RecvRead, RecvCas, LenLoadHead
  <2> QED
    BY <2>1
<1>8. ASSUME Return(t), UNCHANGED <<pushed, popped, next, msg>>, step[t] # "s_write"
      PROVE  Quiet(t, "idle")
  <2>1. pos' = [pos EXCEPT ![t] = 0] /\ Go(t, "idle")
    BY <1>8 DEF Return, Hold
  <2>2. \E m : pos' = [pos EXCEPT ![t] = m]
    BY <2>1
  <2>3. Unmoved(t, "idle") /\ popped' \in Nat
    BY <1>1, <1>8, <2>1
  <2>4. "idle" \notin Comparing
    OBVIOUS
  <2> HIDE DEF Unmoved, Comparing
  <2> QED
    BY <2>2, <2>3, <2>4, Zenon DEF Quiet
<1>9. CASE SendStoreStamp(t) \/ RecvStoreStamp(t) \/ IsFull(t) \/ IsEmpty(t)
  <2>1. Quiet(t, "idle")
    BY <1>8, <1>9 DEF SendStoreStamp, RecvStoreStamp, IsFull, IsEmpty
  <2> QED
    BY <2>1
<1>10. CASE SendLoadHead(t) \/ RecvLoadTail(t) \/ LenReturn(t)
  <2>1. CASE Return(t)
    BY <1>8, <1>10, <2>1 DEF SendLoadHead, RecvLoadTail, LenReturn
  <2>2. CASE ~ Return(t)
    <3>1. Quiet(t, "s_tail") \/ Quiet(t, "r_head") \/ Quiet(t, "l_tail")
      BY <1>1, <1>10, <2>2 DEF Quiet, SendLoadHead, RecvLoadTail, LenReturn
    <3> QED
      BY <3>1
  <2> QED
    BY <2>1, <2>2
<1> QED
  BY <1>2, <1>3, <1>4, <1>5, <1>6, <1>7, <1>9, <1>10

(* MadeKeeps: a call to try_send() makes a message, or tries one again.     *)
LEMMA MadeKeeps ==
    ASSUME RingInv, NEW n \in Nat, Since(n), NEW s \in Thread, CallTrySend(s)
    PROVE  Since(n)'
<1>1. /\ step \in [Thread -> RingSteps] /\ msg \in [Thread -> Msg \cup {NoMsg}] /\ next \in Nat /\ pushed \in Nat
      /\ popped \in Nat /\ pos \in [Thread -> Nat]
  BY DEF RingInv, RingTypes
<1>2. Go(s, "s_tail") /\ step[s] = "idle" /\ UNCHANGED <<popped, pushed, pos>>
  BY DEF CallTrySend, ring, ends, held
<1>3. \A u \in Thread : step'[u] \in Comparing => n <= pos'[u]
  BY <1>1, <1>2, PosFrom DEF Comparing, TailSteps, HeadSteps
<1>4. CASE UNCHANGED <<msg, next>>
  <2>1. Unmoved(s, "s_tail") /\ popped' \in Nat
    BY <1>1, <1>2, <1>4 DEF Unmoved
  <2> QED
    BY <1>3, <2>1, UnmovedKeeps
<1>5. CASE msg[s] = NoMsg /\ next' = next + 1 /\ msg' = [msg EXCEPT ![s] = next + 1]
  <2>1. Unsent' = Unsent \cup {s} /\ s \notin Unsent
    BY <1>1, <1>2, <1>5 DEF Unsent, Go, NoMsg
  <2>2. /\ IsFiniteSet(Unsent) /\ IsFiniteSet(Unsent') /\ Cardinality(Unsent') = Cardinality(Unsent) + 1
        /\ Cardinality(Unsent) \in Nat
    BY <2>1, FS_AddElement, FS_CardinalityType DEF Since
  <2> QED
    BY <1>1, <1>2, <1>3, <1>5, <2>2 DEF Since
<1> QED
  BY <1>4, <1>5 DEF CallTrySend

(* PushKeeps: the CAS of the tail pushes a message that was made.           *)
LEMMA PushKeeps ==
    ASSUME RingInv, NEW n \in Nat, Since(n), NEW s \in Thread, SendCas(s)
    PROVE  Since(n)'
<1>1. /\ step \in [Thread -> RingSteps] /\ msg \in [Thread -> Msg \cup {NoMsg}] /\ next \in Nat /\ pushed \in Nat
      /\ popped \in Nat /\ pos \in [Thread -> Nat]
  BY DEF RingInv, RingTypes
<1>2. Go(s, "s_write") /\ step[s] = "s_cas" /\ UNCHANGED <<popped, pos, msg, next>> /\ pushed' = pushed + 1
  BY DEF SendCas, held
<1>3. \A u \in Thread : step'[u] \in Comparing => n <= pos'[u]
  BY <1>1, <1>2, PosFrom DEF Comparing, TailSteps, HeadSteps
<1>4. msg[s] # NoMsg
  <2>1. msg[s] \in Msg
    BY <1>2 DEF RingInv, ThreadFits, ResultFits, Sending
  <2> QED
    BY <2>1, RingAssumption DEF Msg, NoMsg
<1>5. Unsent' = Unsent \ {s} /\ s \in Unsent
  BY <1>1, <1>2, <1>4 DEF Unsent, Go
<1>6. /\ IsFiniteSet(Unsent) /\ IsFiniteSet(Unsent') /\ Cardinality(Unsent') = Cardinality(Unsent) - 1
      /\ Cardinality(Unsent) \in Nat
  BY <1>5, FS_RemoveElement, FS_CardinalityType DEF Since
<1> QED
  BY <1>1, <1>2, <1>3, <1>6 DEF Since

(* WriteKeeps: the write of a pushed message into its slot.                 *)
LEMMA WriteKeeps ==
    ASSUME RingInv, NEW n \in Nat, Since(n), NEW s \in Thread, SendWrite(s)
    PROVE  Since(n)'
<1>1. /\ step \in [Thread -> RingSteps] /\ msg \in [Thread -> Msg \cup {NoMsg}] /\ popped \in Nat
  BY DEF RingInv, RingTypes
<1>2. /\ Go(s, "s_store") /\ step[s] = "s_write" /\ UNCHANGED <<popped, pos, next, pushed>>
      /\ msg' = [msg EXCEPT ![s] = NoMsg]
  BY DEF SendWrite, held, ends
<1>3. \A u \in Thread : step'[u] \in Comparing => n <= pos'[u]
  BY <1>1, <1>2, PosFrom DEF Comparing, TailSteps, HeadSteps
<1>4. Unsent' = Unsent
  BY <1>1, <1>2 DEF Unsent, Go
<1> QED
  BY <1>1, <1>2, <1>3, <1>4 DEF Since

(* SinceStep: every step keeps Since(n).                                    *)
LEMMA SinceStep ==
    ASSUME RingInv, NEW n \in Nat, Since(n), [RingNext]_ringVars
    PROVE  Since(n)'
<1>1. ASSUME NEW s \in Sender,
             \/ CallTrySend(s) \/ SendLoadTail(s) \/ SendLoadStamp(s) \/ SendCas(s)
             \/ SendCasFails(s) \/ SendWrite(s) \/ SendStoreStamp(s) \/ SendLoadHead(s)
             \/ CallIsFull(s) \/ IsFull(s)
      PROVE  Since(n)'
  <2>1. s \in Thread
    BY DEF Thread
  <2> QED
    BY <1>1, <2>1, MadeKeeps, PushKeeps, WriteKeeps, QuietSteps, QuietKeeps
<1>2. ASSUME NEW r \in Receiver,
             \/ CallTryRecv(r) \/ RecvLoadHead(r) \/ RecvLoadStamp(r) \/ RecvCas(r)
             \/ RecvCasFails(r) \/ RecvRead(r) \/ RecvStoreStamp(r) \/ RecvLoadTail(r)
             \/ CallIsEmpty(r) \/ IsEmpty(r)
             \/ CallLen(r) \/ LenLoadTail(r) \/ LenLoadHead(r) \/ LenReturn(r)
      PROVE  Since(n)'
  <2>1. r \in Thread
    BY DEF Thread
  <2> QED
    BY <1>2, <2>1, QuietSteps, QuietKeeps
<1>3. CASE RingDisconnect \/ UNCHANGED ringVars
  <2>1. UNCHANGED <<popped, pushed, step, pos, msg, next>>
    BY <1>3 DEF RingDisconnect, ringVars, ring, ends, held
  <2> QED
    BY <2>1 DEF Since, Unsent
<1> QED
  BY <1>1, <1>2, <1>3 DEF RingNext

(* FewInit: the position of the first word of the lap where the ring starts. *)
LEMMA FewInit == RingInit => FewInv
<1> SUFFICES ASSUME RingInit PROVE FewInv
  OBVIOUS
<1>1. RingInv
  BY RingInvInit
<1>2. step = [t \in Thread |-> "idle"] /\ msg = [t \in Thread |-> NoMsg] /\ next = 0 /\ popped = pushed
  BY DEF RingInit
<1>3. Unsent = {}
  BY <1>2 DEF Unsent
<1>4. IsFiniteSet(Unsent) /\ Cardinality(Unsent) = 0
  BY <1>3, FS_EmptySet
<1>5. popped \in Nat
  BY <1>1 DEF RingInv, RingTypes
<1>6. Since(popped)
  BY <1>2, <1>4, <1>5 DEF Since, Comparing, TailSteps, HeadSteps
<1> QED
  BY <1>1, <1>5, <1>6 DEF FewInv

(* FewAreNeverLapped: a run in which fewer messages are sent than all the   *)
(* laps but one take cannot lap a thread that sleeps between its load of a  *)
(* word and its compare_exchange: it satisfies NobodyLapped by itself.      *)
THEOREM FewAreNeverLapped ==
    ASSUME MaxMsgs < (Laps - 1) * Cap
    PROVE  RingSpec => []NobodyLapped
<1>1. FewInv => NobodyLapped
  BY FewPushed
<1>2. FewInv /\ [RingNext]_ringVars => FewInv'
  <2> SUFFICES ASSUME FewInv, [RingNext]_ringVars PROVE FewInv'
    OBVIOUS
  <2>1. RingInv'
    BY <1>1, RingInvStep DEF FewInv
  <2>2. PICK n \in Nat : Since(n)
    BY DEF FewInv
  <2>3. Since(n)'
    BY <2>2, SinceStep DEF FewInv
  <2> QED
    BY <2>1, <2>3 DEF FewInv
<1> QED
  BY <1>1, <1>2, FewInit, PTL DEF RingSpec

(* RingOfFewMessages: for such runs, whatever their capacity, threads and   *)
(* start lap, all that was shown of the ring holds with no hypothesis.      *)
THEOREM RingOfFewMessages ==
    ASSUME MaxMsgs < (Laps - 1) * Cap
    PROVE  RingSpec => [](SlotExclusive /\ LenIsExact /\ DropsTheRest) /\ ImplementsQueue
  BY FewAreNeverLapped, SlotsExclude, LenIsRight, DropIsRight, RingIsQueue, PTL
=============================================================================
