----------------------------- MODULE MCChannel -----------------------------
(***************************************************************************)
(* The two halves of the channel, checked side by side: the lock-free ring   *)
(* (ChannelRing), and the wakers and handles around it (Channel, where the   *)
(* ring is what ChannelRing implements).  `half` says which of them runs.    *)
(***************************************************************************)
EXTENDS Channel, ChannelRing, TLC

VARIABLE half

(* While the ring runs, all the handles are there and idle, so that they are *)
(* as interchangeable as the threads of the ring.                          *)
AllCloned ==
    /\ len = 0 /\ marked = FALSE
    /\ send_wakers = NewWakerSet(Sender)
    /\ recv_wakers = NewWakerSet(Receiver) /\ stream_wakers = NewWakerSet(Receiver)
    /\ sender_count = Cardinality(Sender) /\ receiver_count = Cardinality(Receiver)
    /\ pc = [h \in Handle |-> "idle"] /\ op = [h \in Handle |-> FirstOp(h)]

ChannelInit ==
    /\ RingInit
    /\ \/ half = "ring" /\ AllCloned
       \/ half = "wakers" /\ Init

(* Every sender and receiver was dropped: the channel is gone.              *)
AllGone == (\A h \in Handle : pc[h] = "gone") /\ UNCHANGED vars

ChannelNext ==
    /\ half' = half
    /\ \/ half = "ring" /\ RingNext /\ UNCHANGED vars
       \/ half = "wakers" /\ (Next \/ AllGone) /\ UNCHANGED ringVars

ChannelSpec == ChannelInit /\ [][ChannelNext]_<<half, vars, ringVars>>

(* Senders are interchangeable, and so are receivers.                       *)
Symmetry == Permutations(Sender) \cup Permutations(Receiver)
=============================================================================
