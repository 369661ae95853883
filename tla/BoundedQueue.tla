---------------------------- MODULE BoundedQueue ----------------------------
(***************************************************************************)
(* What the ring buffer of sync::Channel promises: a bounded first-in      *)
(* first-out queue with atomic try_send and try_recv, that can be          *)
(* disconnected.  Every call takes effect in one step between the moment   *)
(* it starts and the moment it returns.                                    *)
(***************************************************************************)
EXTENDS Naturals, Sequences

CONSTANTS Cap, Sender, Receiver, Msg

VARIABLES
    queue,         \* the messages sent and not received yet
    disconnected,  \* have all senders, or all receivers, gone?
    res            \* the result of each thread's last call, "none" until it is known

vars == <<queue, disconnected, res>>

Init ==
    /\ queue = <<>>
    /\ disconnected = FALSE
    /\ res = [t \in Sender \cup Receiver |-> <<"none">>]

Returns(t, r) == res[t] = <<"none">> /\ res' = [res EXCEPT ![t] = r]

Call(t) == res' = [res EXCEPT ![t] = <<"none">>] /\ UNCHANGED <<queue, disconnected>>

(* A message goes in even when the channel is disconnected, as long as      *)
(* there is room for it.                                                    *)
Push(s, m) ==
    /\ Len(queue) < Cap
    /\ queue' = Append(queue, m)
    /\ Returns(s, <<"sent">>)
    /\ UNCHANGED disconnected

SendFails(s) ==
    /\ Len(queue) = Cap
    /\ Returns(s, <<"full">>) \/ (disconnected /\ Returns(s, <<"disconnected">>))
    /\ UNCHANGED <<queue, disconnected>>

Pop(r) ==
    /\ queue # <<>>
    /\ queue' = Tail(queue)
    /\ Returns(r, <<"got", Head(queue)>>)
    /\ UNCHANGED disconnected

RecvFails(r) ==
    /\ queue = <<>>
    /\ Returns(r, IF disconnected THEN <<"disconnected">> ELSE <<"empty">>)
    /\ UNCHANGED <<queue, disconnected>>

(* is_full() and is_empty() may miss a moment, but never invent one.        *)
SaysFull(s) ==
    /\ \E answer \in {"is", "is not"} :
          (answer = "is" => Len(queue) = Cap) /\ Returns(s, <<answer>>)
    /\ UNCHANGED <<queue, disconnected>>

SaysEmpty(r) ==
    /\ \E answer \in {"is", "is not"} :
          (answer = "is" => queue = <<>>) /\ Returns(r, <<answer>>)
    /\ UNCHANGED <<queue, disconnected>>

Disconnect == disconnected' = TRUE /\ UNCHANGED <<queue, res>>

Next ==
    \/ \E t \in Sender \cup Receiver : Call(t)
    \/ \E s \in Sender : SendFails(s) \/ SaysFull(s) \/ \E m \in Msg : Push(s, m)
    \/ \E r \in Receiver : Pop(r) \/ RecvFails(r) \/ SaysEmpty(r)
    \/ Disconnect

Spec == Init /\ [][Next]_vars
=============================================================================
