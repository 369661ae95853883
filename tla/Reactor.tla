------------------------------ MODULE Reactor ------------------------------
(***************************************************************************)
(* The networking driver and the sockets over it: src/net/driver/mod.rs.    *)
(* The sockets of src/net/ and src/os/unix/net/ do all their waiting in      *)
(* Watcher::poll_read_with and poll_write_with, around one non-blocking      *)
(* system call.                                                            *)
(*                                                                         *)
(* The poller is edge-triggered: a source that becomes ready makes one event *)
(* (edges), which the driver thread collects and looks up by token, the     *)
(* source's key in the slab of entries.                                    *)
(***************************************************************************)
EXTENDS Naturals, FiniteSets

CONSTANTS
    Sockets,    \* how many I/O sources there are
    IoTasks,    \* how many tasks, each doing one operation
    MaxOpen     \* how often a socket is opened

ASSUME IoAssumption == Sockets \in Nat /\ IoTasks \in Nat /\ MaxOpen \in Nat

VARIABLES
    opened,     \* opened[s]: how often s was opened
    token,      \* token[s]: the key of its entry, 0 while it is closed
    leaving,    \* sockets deregistered in the poller whose entry is still there
    wakers,     \* wakers[k][d]: the tasks in the entry's list of direction d
    locked,     \* locked[k][d]: who holds that list's mutex
    ready,      \* ready[s]: the directions in which s would not block
    edges,      \* edges[s]: readiness the poller has not reported yet
    driver,     \* events the driver thread has collected and not handled
    table,      \* the driver thread holds the lock of the entries
    doing,         \* doing[t]: the operation of task t
    io          \* io[t]: where it is in its poll

ioVars == <<opened, token, leaving, wakers, locked, ready, edges, driver, table, doing, io>>

Socket == 1..Sockets
IoTask == 1..IoTasks
(* The keys of the slab.                                                   *)
Slot == 1..Sockets
Dirs == {"read", "write"}
Nobody == 0

(* The methods of the sockets: the direction in which they wait, and what    *)
(* their system call does with the readiness it finds.  It takes some or all *)
(* of it, only looks, or never asks for it.                                *)
Method(d, effect) == [s |-> 0, d |-> d, effect |-> effect]
TcpRead  == Method("read", "takes")
TcpPeek  == Method("read", "looks")
TcpWrite == Method("write", "takes")
TcpFlush == Method("write", "none")
UdpRecvFrom == Method("read", "takes")
UdpRecv     == Method("read", "takes")
UdpSendTo   == Method("write", "takes")
UdpSend     == Method("write", "takes")
UnixRead  == Method("read", "takes")
UnixWrite == Method("write", "takes")
UnixFlush == Method("write", "none")
UnixRecvFrom == Method("read", "takes")
UnixRecv     == Method("read", "takes")
UnixSendTo   == Method("write", "takes")
UnixSend     == Method("write", "takes")
Methods == {TcpRead, TcpPeek, TcpWrite, TcpFlush, UdpRecvFrom, UdpRecv, UdpSendTo, UdpSend,
            UnixRead, UnixWrite, UnixFlush, UnixRecvFrom, UnixRecv, UnixSendTo, UnixSend}
NoOp == Method("read", "none")

IoInit ==
    /\ opened = [s \in Socket |-> 0] /\ token = [s \in Socket |-> 0] /\ leaving = {}
    /\ wakers = [k \in Slot |-> [d \in Dirs |-> {}]]
    /\ locked = [k \in Slot |-> [d \in Dirs |-> Nobody]]
    /\ ready = [s \in Socket |-> {}] /\ edges = [s \in Socket |-> {}]
    /\ driver = {} /\ table = FALSE /\ doing = [t \in IoTask |-> NoOp] /\ io = [t \in IoTask |-> "new"]

(* reader_interests() and writer_interests(): a hang-up concerns both.      *)
ReaderInterests == {"readable", "hup"}
WriterInterests == {"writable", "hup"}
Concerns(flag, d) == flag \in IF d = "read" THEN ReaderInterests ELSE WriterInterests

---------------------------------------------------------------------------
(* Watcher::new: the entry takes the first vacant key.  (Sockets are first   *)
(* opened in order.)                                                       *)
Register(s) ==
    /\ token[s] = 0 /\ opened[s] < MaxOpen /\ ~table
    /\ \A o \in 1..(s - 1) : opened[o] > 0
    /\ \E k \in Slot :
        /\ \A o \in Socket : token[o] # k
        /\ \A j \in 1..(k - 1) : \E o \in Socket : token[o] = j
        /\ token' = [token EXCEPT ![s] = k]
    /\ opened' = [opened EXCEPT ![s] = @ + 1]
    /\ UNCHANGED <<leaving, wakers, locked, ready, edges, driver, table, doing, io>>

(* Drop and into_inner: first the poller, then the slab.  No operation       *)
(* borrows the watcher.                                                    *)
Deregister(s) ==
    /\ token[s] # 0 /\ s \notin leaving
    /\ \A t \in IoTask : io[t] \in {"new", "done"} \/ doing[t].s # s
    /\ leaving' = leaving \union {s}
    /\ edges' = [edges EXCEPT ![s] = {}] /\ ready' = [ready EXCEPT ![s] = {}]
    /\ UNCHANGED <<opened, token, wakers, locked, driver, table, doing, io>>

FreeEntry(s) ==
    /\ s \in leaving /\ ~table
    /\ leaving' = leaving \ {s} /\ token' = [token EXCEPT ![s] = 0]
    /\ wakers' = [wakers EXCEPT ![token[s]] = [d \in Dirs |-> {}]]
    /\ UNCHANGED <<opened, locked, ready, edges, driver, table, doing, io>>

(* The network makes a socket ready (in a way some operation under way is    *)
(* concerned with: nobody sees the others).                                *)
BecomesReady(s, flag) ==
    /\ \E t \in IoTask : doing[t].s = s /\ io[t] # "done" /\ Concerns(flag, doing[t].d)
    /\ {d \in Dirs : Concerns(flag, d)} \ ready[s] # {}
    /\ ready' = [ready EXCEPT ![s] = @ \union {d \in Dirs : Concerns(flag, d)}]
    /\ edges' = [edges EXCEPT ![s] = @ \union {flag}]
    /\ UNCHANGED <<opened, token, leaving, wakers, locked, driver, table, doing, io>>

---------------------------------------------------------------------------
(* Watcher::poll_read_with and poll_write_with.                            *)

StartOp(t, s, m) ==
    /\ io[t] = "new" /\ \A u \in 1..(t - 1) : io[u] # "new"
    /\ token[s] # 0 /\ s \notin leaving
    /\ doing' = [doing EXCEPT ![t] = [m EXCEPT !.s = s]]
    /\ io' = [io EXCEPT ![t] = "try"]
    /\ UNCHANGED <<opened, token, leaving, wakers, locked, ready, edges, driver, table>>

Key(t) == token[doing[t].s]

SystemCall(t) ==
    \/ ready' = ready
    \/ doing[t].effect = "takes" /\ ready' = [ready EXCEPT ![doing[t].s] = @ \ {doing[t].d}]
IsReady(t) == doing[t].effect = "none" \/ doing[t].d \in ready[doing[t].s]
Done(t) == io' = [io EXCEPT ![t] = "done"] /\ doing' = [doing EXCEPT ![t] = NoOp]

TryOp(t) ==
    /\ io[t] = "try"
    /\ IF IsReady(t) THEN SystemCall(t) /\ Done(t)
       ELSE ready' = ready /\ io' = [io EXCEPT ![t] = "lock"] /\ doing' = doing
    /\ UNCHANGED <<opened, token, leaving, wakers, locked, edges, driver, table>>

LockList(t) ==
    /\ io[t] = "lock" /\ locked[Key(t)][doing[t].d] = Nobody
    /\ locked' = [locked EXCEPT ![Key(t)][doing[t].d] = t]
    /\ io' = [io EXCEPT ![t] = "retry"]
    /\ UNCHANGED <<opened, token, leaving, wakers, ready, edges, driver, table, doing>>

(* Mutants: no second try; the list stays locked when the second one succeeds. *)
NoRetry(t) ==
    /\ io[t] = "retry"
    /\ io' = [io EXCEPT ![t] = "push"]
    /\ UNCHANGED <<opened, token, leaving, wakers, locked, ready, edges, driver, table, doing>>

RetryOpKeepsLock(t) ==
    /\ io[t] = "retry"
    /\ IF IsReady(t) THEN SystemCall(t) /\ Done(t)
       ELSE /\ ready' = ready /\ doing' = doing
            /\ io' = [io EXCEPT ![t] = "push"]
    /\ UNCHANGED <<opened, token, leaving, wakers, locked, edges, driver, table>>

RetryOp(t) ==
    /\ io[t] = "retry"
    /\ IF IsReady(t)
       THEN /\ SystemCall(t) /\ Done(t)
            /\ locked' = [locked EXCEPT ![Key(t)][doing[t].d] = Nobody]
       ELSE /\ ready' = ready /\ locked' = locked /\ doing' = doing
            /\ io' = [io EXCEPT ![t] = "push"]
    /\ UNCHANGED <<opened, token, leaving, wakers, edges, driver, table>>

PushWaker(t) ==
    /\ io[t] = "push"
    /\ wakers' = [wakers EXCEPT ![Key(t)][doing[t].d] = @ \union {t}]
    /\ locked' = [locked EXCEPT ![Key(t)][doing[t].d] = Nobody]
    /\ io' = [io EXCEPT ![t] = "parked"]
    /\ UNCHANGED <<opened, token, leaving, ready, edges, driver, table, doing>>

---------------------------------------------------------------------------
(* main_loop                                                               *)

(* poller.poll(): an event is the token of its source at that time.         *)
Collect ==
    /\ driver = {}
    /\ driver' = {[k |-> token[s], flags |-> edges[s]] : s \in {x \in Socket : edges[x] # {}}}
    /\ driver' # {}
    /\ edges' = [s \in Socket |-> {}]
    /\ UNCHANGED <<opened, token, leaving, wakers, locked, ready, table, doing, io>>

(* Handles direction d of event e, if it has an entry: readers first.  The   *)
(* entries stay locked until the last event is handled.                    *)
WakeList(e, d) ==
    /\ e \in driver
    /\ \E flag \in e.flags : Concerns(flag, d)
    /\ d = "write" => \A flag \in e.flags : ~Concerns(flag, "read")
    /\ locked[e.k][d] = Nobody
    /\ LET woken == IF \E s \in Socket : token[s] = e.k THEN wakers[e.k][d] ELSE {}
       IN  /\ wakers' = [wakers EXCEPT ![e.k][d] = @ \ woken]
           /\ io' = [t \in IoTask |-> IF t \in woken /\ io[t] = "parked" THEN "try" ELSE io[t]]
    /\ driver' = (driver \ {e}) \union
                 (IF d = "read" /\ \E flag \in e.flags : Concerns(flag, "write")
                  THEN {[e EXCEPT !.flags = {"writable"}]} ELSE {})
    /\ table' = (driver' # {})
    /\ UNCHANGED <<opened, token, leaving, locked, ready, edges, doing>>

(* The task is polled for another reason: its waker stays in the list.       *)
Rewoken(t) ==
    /\ io[t] = "parked"
    /\ io' = [io EXCEPT ![t] = "try"]
    /\ UNCHANGED <<opened, token, leaving, wakers, locked, ready, edges, driver, table, doing>>

TaskStep(t) == TryOp(t) \/ LockList(t) \/ RetryOp(t) \/ PushWaker(t)
DriverStep == Collect \/ \E e \in driver, d \in Dirs : WakeList(e, d)

IoNext ==
    \/ \E s \in Socket : Register(s) \/ Deregister(s) \/ FreeEntry(s)
    \/ \E s \in Socket, flag \in {"readable", "writable", "hup"} : BecomesReady(s, flag)
    \/ \E t \in IoTask, s \in Socket, m \in Methods : StartOp(t, s, m)
    \/ \E t \in IoTask : TaskStep(t) \/ Rewoken(t)
    \/ DriverStep

IoSpec == IoInit /\ [][IoNext]_ioVars

(* The driver thread and the executor run, and a socket that is waited for   *)
(* becomes ready in the end.                                               *)
IoFairness ==
    /\ WF_ioVars(DriverStep) /\ \A t \in IoTask : WF_ioVars(TaskStep(t))
    /\ \A s \in Socket : /\ WF_ioVars(BecomesReady(s, "readable"))
                         /\ WF_ioVars(BecomesReady(s, "writable"))

---------------------------------------------------------------------------
(* A task that waits for a socket that is ready is about to be woken: its    *)
(* waker is in the list of the entry the event will be looked up in, and the *)
(* event is still to be reported or handled.  The second try under the       *)
(* list's mutex is what closes the gap between WouldBlock and the push.     *)
NoEdgeLost ==
    \A t \in IoTask :
        io[t] = "parked" /\ IsReady(t) =>
            /\ t \in wakers[Key(t)][doing[t].d]
            /\ \/ \E flag \in edges[doing[t].s] : Concerns(flag, doing[t].d)
               \/ \E e \in driver : e.k = Key(t) /\ \E flag \in e.flags : Concerns(flag, doing[t].d)

(* An operation on a socket completes, whoever else reads and writes the     *)
(* same socket, and whichever sockets are opened and closed meanwhile.       *)
(* (Each task makes one.)                                                  *)
IoCompletes == []<>(\A t \in IoTask : io[t] \in {"new", "done"})
=============================================================================
