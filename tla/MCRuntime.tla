----------------------------- MODULE MCRuntime -----------------------------
(***************************************************************************)
(* Parts of the library that share no state, checked side by side: the two   *)
(* locks, the pool for blocking closures, the networking driver, block_on,   *)
(* task-locals and task ids, the barrier, and the liveness of the channel.   *)
(* `unit` says which of them runs; the others stay in their initial state,   *)
(* where no step that is fair is enabled.                                  *)
(***************************************************************************)
EXTENDS Mutex, RwLock, ChannelEnds, BlockingPool, Reactor, BlockOn, TaskLocals, Barrier

CONSTANTS
    FirstSender, FirstReceiver      \* of the channel

VARIABLES
    unit,
    len, marked, send_wakers, recv_wakers, stream_wakers,   \* of the channel
    sender_count, receiver_count, channelPc, op

channelVars == <<len, marked, send_wakers, recv_wakers, stream_wakers, sender_count,
                 receiver_count, channelPc, op>>

C == INSTANCE Channel WITH pc <- channelPc

(* Part u runs, the others stand still.                                    *)
Only(u) ==
    /\ unit = u /\ unit' = unit
    /\ u # "mutex" => UNCHANGED vars
    /\ u # "rwlock" => UNCHANGED rwVars
    /\ u # "channel" => UNCHANGED channelVars
    /\ u # "pool" => UNCHANGED poolVars
    /\ u # "reactor" => UNCHANGED ioVars
    /\ u # "block_on" => UNCHANGED blockVars
    /\ u \notin {"keys", "ids"} => UNCHANGED localVars
    /\ u # "barrier" => UNCHANGED barrierVars

RuntimeInit ==
    /\ unit \in {"mutex", "rwlock", "channel", "pool", "reactor", "block_on", "keys", "ids",
                "barrier"}
    /\ Init /\ RwInit /\ C!Init
    /\ PoolInit /\ IoInit /\ BlockInit /\ LocalInit /\ BarrierInit

RuntimeNext ==
    \/ Only("mutex") /\ Next
    \/ Only("rwlock") /\ RwNext
    \/ Only("channel") /\ C!Next
    \/ Only("pool") /\ PoolNext
    \/ Only("reactor") /\ IoNext
    \/ Only("block_on") /\ BlockNext
    \/ Only("keys") /\ KeyNext
    \/ Only("ids") /\ IdNext
    \/ Only("barrier") /\ BarrierNext

RuntimeSpec ==
    /\ RuntimeInit
    /\ [][RuntimeNext]_<<unit, vars, rwVars, channelVars, poolVars, ioVars, blockVars,
                       localVars, barrierVars>>
    /\ Fairness /\ RwFairness /\ C!Fairness /\ PoolFairness /\ IoFairness /\ BlockFairness
---------------------------------------------------------------------------
(* Channel operations that can go on do (channel.rs).                       *)
OperationsServed == C!OperationsServed
=============================================================================
