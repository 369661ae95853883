---------------------------- MODULE ChannelRing ----------------------------
(***************************************************************************)
(* The lock-free ring buffer inside sync::Channel (src/sync/channel.rs,    *)
(* struct Channel): head, tail and one stamp per slot, words that pack an  *)
(* index, the mark bit and a lap.                                          *)
(*                                                                         *)
(* One action is one access to shared memory: a load, a store or a CAS of  *)
(* head, tail or a stamp, or the plain read or write of a slot's message.  *)
(* Memory is sequentially consistent.  A compare_exchange_weak may fail    *)
(* for no reason.  Arithmetic on the words wraps at WordSize, a power of   *)
(* two; the ring starts in any of the laps StartLaps, which it reaches     *)
(* after that many rounds, so that wrapping happens within the bound.      *)
(*                                                                         *)
(* The waker sets play no part here: module Channel adds them to the queue *)
(* that this module is shown to implement.  Both modules can be extended   *)
(* together, so their names differ.                                        *)
(***************************************************************************)
EXTENDS Integers, Sequences, FiniteSetsExt, ChannelEnds

CONSTANTS
    MaxMsgs,    \* bound: how many messages the senders have
    Laps,       \* how many laps fit in a word
    StartLaps   \* laps the ring may start in

Thread == Sender \cup Receiver
Msg == 1 .. MaxMsgs

(* with_capacity(): mark_bit = (cap + 1).next_power_of_two(), one_lap twice that. *)
MarkBit  == Min({x \in {2 ^ k : k \in 0 .. Cap + 1} : x >= Cap + 1})
OneLap   == 2 * MarkBit
WordSize == Laps * OneLap

(* A slot takes at least a word, so that with_capacity() can allocate cap   *)
(* of them only if one_lap fits in a word several times, and then           *)
(* next_power_of_two() does not overflow: it is no less than its argument.  *)
ASSUME RingAssumption ==
    /\ MaxMsgs \in Nat
    /\ Laps \in Nat \ {0, 1} /\ StartLaps \subseteq 0 .. Laps - 1
    /\ MarkBit \in Nat /\ MarkBit > Cap

Index(w)     == w % MarkBit
Mark(w)      == ((w \div MarkBit) % 2) * MarkBit
Unmarked(w)  == w - Mark(w)
Lap(w)       == w - (w % OneLap)
WrappingAdd(w, n) == (w + n) % WordSize

(* The word after w: the next index, or the start of the next lap. *)
Successor(w) == IF Index(w) + 1 < Cap THEN w + 1 ELSE WrappingAdd(Lap(w), OneLap)

VARIABLES
    head, tail, stamp, slot,  \* the ring
    step, word,               \* each thread's step and its local head or tail
    word2,                    \* the second word that len() loads
    msg,                      \* SendFuture.msg
    next,                     \* how many messages have been made
    queue, res,               \* history: the queue and the results, see BoundedQueue
    seen,                     \* history: how many messages len() saw
    popped, pushed,           \* history: head and tail as counts that never wrap
    pos                       \* history: the count behind each thread's word

ends == <<head, tail, popped, pushed>>
ring == <<ends, stamp, slot>>
held == <<word, pos, word2>>
hist == <<queue, res, seen>>
ringVars == <<ring, step, held, msg, next, hist>>

NoMsg == 0

RingInit ==
    \E lap \in StartLaps :
        /\ head = lap * OneLap
        /\ tail = lap * OneLap
        /\ stamp = [i \in 0 .. Cap - 1 |-> lap * OneLap + i]
        /\ slot = [i \in 0 .. Cap - 1 |-> NoMsg]
        /\ step = [t \in Thread |-> "idle"]
        /\ word = [t \in Thread |-> 0]
        /\ word2 = [t \in Thread |-> 0]
        /\ msg = [t \in Thread |-> NoMsg]
        /\ next = 0
        /\ queue = <<>>
        /\ res = [t \in Thread |-> <<"none">>]
        /\ seen = [t \in Thread |-> 0]
        /\ popped = lap * Cap
        /\ pushed = lap * Cap
        /\ pos = [t \in Thread |-> 0]

Go(t, label) == step' = [step EXCEPT ![t] = label]
Hold(t, w, n) == word' = [word EXCEPT ![t] = w] /\ pos' = [pos EXCEPT ![t] = n]
LoadHead(t) == Hold(t, head, popped)
LoadTail(t) == Hold(t, tail, pushed)
Result(t, r) == res' = [res EXCEPT ![t] = r]

(* Return from a call; the locals go out of scope. *)
Return(t) ==
    /\ Go(t, "idle")
    /\ Hold(t, 0, 0)
    /\ word2' = [word2 EXCEPT ![t] = 0]

-----------------------------------------------------------------------------
(* try_send(msg).  A message that was handed back is tried again.           *)
CallTrySend(s) ==
    /\ step[s] = "idle"
    /\ \/ msg[s] # NoMsg /\ UNCHANGED <<msg, next>>
       \/ /\ msg[s] = NoMsg /\ next < MaxMsgs
          /\ next' = next + 1
          /\ msg' = [msg EXCEPT ![s] = next + 1]
    /\ Go(s, "s_tail")
    /\ Result(s, <<"none">>)
    /\ UNCHANGED <<ring, held, queue, seen>>

SendLoadTail(s) ==
    /\ step[s] = "s_tail"
    /\ LoadTail(s)
    /\ Go(s, "s_stamp")
    /\ UNCHANGED <<ring, word2, msg, next, hist>>

(* The slot's stamp: push, or see whether the channel is full, or snooze.   *)
SendLoadStamp(s) ==
    /\ step[s] = "s_stamp"
    /\ LET t == Unmarked(word[s])
           st == stamp[Index(t)]
       IN  Go(s, CASE t = st -> "s_cas"
                     [] t # st /\ WrappingAdd(st, OneLap) = t + 1 -> "s_head"
                     [] OTHER -> "s_tail")
    /\ UNCHANGED <<ring, held, msg, next, hist>>

(* Mutant: moving the tail clears the mark bit. *)
SendCasUnmarks(s) ==
    /\ step[s] = "s_cas"
    /\ tail = word[s]
    /\ tail' = Successor(Unmarked(tail))
    /\ Go(s, "s_write")
    /\ queue' = Append(queue, msg[s])
    /\ pushed' = pushed + 1
    /\ Result(s, <<"sent">>)
    /\ UNCHANGED <<head, popped, stamp, slot, held, msg, next, seen>>

(* compare_exchange_weak(tail | mark_bit, new_tail | mark_bit). *)
SendCas(s) ==
    /\ step[s] = "s_cas"
    /\ tail = word[s]
    /\ tail' = Successor(Unmarked(tail)) + Mark(tail)
    /\ Go(s, "s_write")
    /\ queue' = Append(queue, msg[s])
    /\ pushed' = pushed + 1
    /\ Result(s, <<"sent">>)
    /\ UNCHANGED <<head, popped, stamp, slot, held, msg, next, seen>>

SendCasFails(s) ==
    /\ step[s] = "s_cas"
    /\ LoadTail(s)
    /\ Go(s, "s_stamp")
    /\ UNCHANGED <<ring, word2, msg, next, hist>>

SendWrite(s) ==
    /\ step[s] = "s_write"
    /\ slot' = [slot EXCEPT ![Index(word[s])] = msg[s]]
    /\ msg' = [msg EXCEPT ![s] = NoMsg]
    /\ Go(s, "s_store")
    /\ UNCHANGED <<ends, stamp, held, next, hist>>

SendStoreStamp(s) ==
    /\ step[s] = "s_store"
    /\ stamp' = [stamp EXCEPT ![Index(word[s])] = Unmarked(word[s]) + 1]
    /\ Return(s)
    /\ UNCHANGED <<ends, slot, msg, next, hist>>

(* Mutant: once the head has moved on, push without looking at the stamp. *)
SendLoadHeadThenPush(s) ==
    /\ step[s] = "s_head"
    /\ IF WrappingAdd(head, OneLap) = Unmarked(word[s])
         THEN /\ Result(s, IF Mark(word[s]) # 0 THEN <<"disconnected">> ELSE <<"full">>)
              /\ Return(s)
         ELSE /\ Go(s, "s_cas")
              /\ UNCHANGED <<held, res>>
    /\ UNCHANGED <<ring, msg, next, queue, seen>>

(* "If the head lags one lap behind the tail as well, the channel is full." *)
SendLoadHead(s) ==
    /\ step[s] = "s_head"
    /\ IF WrappingAdd(head, OneLap) = Unmarked(word[s])
         THEN /\ Result(s, IF Mark(word[s]) # 0 THEN <<"disconnected">> ELSE <<"full">>)
              /\ Return(s)
         ELSE /\ Go(s, "s_tail")
              /\ UNCHANGED <<held, res>>
    /\ UNCHANGED <<ring, msg, next, queue, seen>>

-----------------------------------------------------------------------------
(* try_recv(). *)
CallTryRecv(r) ==
    /\ step[r] = "idle"
    /\ Go(r, "r_head")
    /\ Result(r, <<"none">>)
    /\ UNCHANGED <<ring, held, msg, next, queue, seen>>

RecvLoadHead(r) ==
    /\ step[r] = "r_head"
    /\ LoadHead(r)
    /\ Go(r, "r_stamp")
    /\ UNCHANGED <<ring, word2, msg, next, hist>>

(* The slot's stamp: pop, or see whether the channel is empty, or snooze.   *)
RecvLoadStamp(r) ==
    /\ step[r] = "r_stamp"
    /\ LET st == stamp[Index(word[r])]
       IN  Go(r, CASE st = word[r] + 1 -> "r_cas"
                     [] st = word[r] -> "r_tail"
                     [] OTHER -> "r_head")
    /\ UNCHANGED <<ring, held, msg, next, hist>>

(* compare_exchange_weak(head, new).  The history result is what a queue    *)
(* hands out here; the code reads it from the slot in the next step.        *)
RecvCas(r) ==
    /\ step[r] = "r_cas"
    /\ head = word[r]
    /\ head' = Successor(head)
    /\ Go(r, "r_read")
    /\ queue' = Tail(queue)
    /\ popped' = popped + 1
    /\ Result(r, <<"got", Head(queue)>>)
    /\ UNCHANGED <<tail, pushed, stamp, slot, held, msg, next, seen>>

RecvCasFails(r) ==
    /\ step[r] = "r_cas"
    /\ LoadHead(r)
    /\ Go(r, "r_stamp")
    /\ UNCHANGED <<ring, word2, msg, next, hist>>

RecvRead(r) ==
    /\ step[r] = "r_read"
    /\ Result(r, <<"got", slot[Index(word[r])]>>)
    /\ Go(r, "r_store")
    /\ UNCHANGED <<ring, held, msg, next, queue, seen>>

RecvStoreStamp(r) ==
    /\ step[r] = "r_store"
    /\ stamp' = [stamp EXCEPT ![Index(word[r])] = WrappingAdd(word[r], OneLap)]
    /\ Return(r)
    /\ UNCHANGED <<ends, slot, msg, next, hist>>

(* "If the tail equals the head, that means the channel is empty." *)
RecvLoadTail(r) ==
    /\ step[r] = "r_tail"
    /\ IF Unmarked(tail) = word[r]
         THEN /\ Result(r, IF Mark(tail) # 0 THEN <<"disconnected">> ELSE <<"empty">>)
              /\ Return(r)
         ELSE /\ Go(r, "r_head")
              /\ UNCHANGED <<held, res>>
    /\ UNCHANGED <<ring, msg, next, queue, seen>>

-----------------------------------------------------------------------------
(* is_full(), called by a send operation: the tail, then the head.          *)
CallIsFull(s) ==
    /\ step[s] = "idle"
    /\ LoadTail(s)
    /\ Go(s, "f_head")
    /\ Result(s, <<"none">>)
    /\ UNCHANGED <<ring, word2, msg, next, queue, seen>>

IsFull(s) ==
    /\ step[s] = "f_head"
    /\ Result(s, IF WrappingAdd(head, OneLap) = Unmarked(word[s]) THEN <<"is">> ELSE <<"is not">>)
    /\ Return(s)
    /\ UNCHANGED <<ring, msg, next, queue, seen>>

(* is_empty(), called by a receive operation: the head, then the tail.      *)
CallIsEmpty(r) ==
    /\ step[r] = "idle"
    /\ LoadHead(r)
    /\ Go(r, "e_tail")
    /\ Result(r, <<"none">>)
    /\ UNCHANGED <<ring, word2, msg, next, queue, seen>>

IsEmpty(r) ==
    /\ step[r] = "e_tail"
    /\ Result(r, IF Unmarked(tail) = word[r] THEN <<"is">> ELSE <<"is not">>)
    /\ Return(r)
    /\ UNCHANGED <<ring, msg, next, queue, seen>>

(* len(): the tail, the head, and the tail again; if it has changed, again. *)
CallLen(r) ==
    /\ step[r] = "idle"
    /\ Go(r, "l_tail")
    /\ Result(r, <<"none">>)
    /\ UNCHANGED <<ring, held, msg, next, queue, seen>>

LenLoadTail(r) ==
    /\ step[r] = "l_tail"
    /\ LoadTail(r)
    /\ Go(r, "l_head")
    /\ UNCHANGED <<ring, word2, msg, next, hist>>

LenLoadHead(r) ==
    /\ step[r] = "l_head"
    /\ word2' = [word2 EXCEPT ![r] = head]
    /\ seen' = [seen EXCEPT ![r] = Len(queue)]
    /\ Go(r, "l_again")
    /\ UNCHANGED <<ring, word, pos, msg, next, queue, res>>

LenReturn(r) ==
    /\ step[r] = "l_again"
    /\ IF tail = word[r] THEN Return(r) ELSE Go(r, "l_tail") /\ UNCHANGED held
    /\ seen' = [seen EXCEPT ![r] = 0]
    /\ UNCHANGED <<ring, msg, next, queue, res>>

(* disconnect(): fetch_or of the mark bit, by the last Sender or Receiver   *)
(* to go, while threads of the other side may be in the middle of a call.   *)
RingDisconnect ==
    /\ Mark(tail) = 0
    /\ tail' = tail + MarkBit
    /\ UNCHANGED <<head, popped, pushed, stamp, slot, step, held, msg, next, hist>>

RingNext ==
    \/ \E s \in Sender :
         \/ CallTrySend(s) \/ SendLoadTail(s) \/ SendLoadStamp(s) \/ SendCas(s)
         \/ SendCasFails(s) \/ SendWrite(s) \/ SendStoreStamp(s) \/ SendLoadHead(s)
         \/ CallIsFull(s) \/ IsFull(s)
    \/ \E r \in Receiver :
         \/ CallTryRecv(r) \/ RecvLoadHead(r) \/ RecvLoadStamp(r) \/ RecvCas(r)
         \/ RecvCasFails(r) \/ RecvRead(r) \/ RecvStoreStamp(r) \/ RecvLoadTail(r)
         \/ CallIsEmpty(r) \/ IsEmpty(r)
         \/ CallLen(r) \/ LenLoadTail(r) \/ LenLoadHead(r) \/ LenReturn(r)
    \/ RingDisconnect

RingSpec == RingInit /\ [][RingNext]_ringVars

-----------------------------------------------------------------------------
(* Owns(t, i): thread t is between its CAS and its store of slot i's stamp.  *)
Owns(t, i) == step[t] \in {"s_write", "s_store", "r_read", "r_store"} /\ Index(word[t]) = i

(* SlotExclusive: a slot's message, an UnsafeCell, is touched by one thread  *)
(* at a time, whatever stale heads and tails the threads hold.               *)
SlotExclusive ==
    \A i \in 0 .. Cap - 1 : \A t, u \in Thread : Owns(t, i) /\ Owns(u, i) => t = u

(* Mutant: a full ring counts as empty. *)
LenOfNeverFull(t, h) ==
    LET hix == Index(h) tix == Index(t)
    IN  CASE hix < tix -> tix - hix
          [] hix > tix -> Cap - hix + tix
          [] OTHER -> 0

(* len() computed on a tail t and a head h. *)
LenOf(t, h) ==
    LET hix == Index(h) tix == Index(t)
    IN  CASE hix < tix -> tix - hix
          [] hix > tix -> Cap - hix + tix
          [] OTHER -> IF Unmarked(t) = h THEN 0 ELSE Cap

(* LenIsExact: when len() finds the tail unchanged, what it returns is the   *)
(* number of messages there were when it loaded the head, on whatever lap.   *)
LenIsExact ==
    \A r \in Receiver :
        step[r] = "l_again" /\ tail = word[r] => LenOf(word[r], word2[r]) = seen[r]

(* Drop for Channel: index j of the ring, one lap on at most.                *)
Wrapped(j) == IF j < Cap THEN j ELSE j - Cap

(* Mutant: the slots are counted from the tail. *)
DropSlotsFromTail == [i \in 1 .. LenOf(tail, head) |-> Wrapped(Index(tail) + i - 1)]

(* Drop for Channel: the slots whose messages are dropped, in order.         *)
DropSlots == [i \in 1 .. LenOf(tail, head) |-> Wrapped(Index(head) + i - 1)]

(* DropsTheRest: once no call is in progress, len() is the number of the     *)
(* messages in the channel and Drop for Channel would drop exactly those, in *)
(* the slots where they are: none leaked, none dropped twice.                *)
DropsTheRest ==
    (\A t \in Thread : step[t] = "idle")
        => queue = [i \in DOMAIN DropSlots |-> slot[DropSlots[i]]]

(* ImplementsQueue: the ring is a first-in first-out queue: no message is    *)
(* lost, duplicated or reordered, "full" and "empty" are true when they are  *)
(* said, and a receiver hears "disconnected" only once the queue is empty.   *)
Q == INSTANCE BoundedQueue WITH disconnected <- Mark(tail) # 0
ImplementsQueue == Q!Spec
=============================================================================
