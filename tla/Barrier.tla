------------------------------ MODULE Barrier ------------------------------
(***************************************************************************)
(* sync::Barrier: src/sync/barrier.rs.  Its mutex is the Mutex of this       *)
(* project, of which only the exclusion is used here.                       *)
(*                                                                         *)
(* External, modelled from how it is used: the broadcast channel.  A clone   *)
(* is a receiver of its own that gets every later message.                  *)
(***************************************************************************)
EXTENDS Naturals, Sequences, FiniteSets

CONSTANTS
    Waiters,    \* how many tasks call wait(), again and again
    Parties,    \* the n of Barrier::new
    Generations \* a bound on the generations in which they do

ASSUME BarrierAssumption == Waiters \in Nat /\ Parties \in Nat /\ Generations \in Nat

VARIABLES
    holder,         \* the task that holds the state's lock, 0 if none
    count,          \* BarrierState.count
    generation_id,  \* BarrierState.generation_id
    rx,             \* rx[t]: the messages in task t's receiver
    subscribed,     \* the tasks that have a receiver
    local_gen,      \* local_gen[t] of the wait() under way, or the last one
    bpc,            \* where it is in wait()
    entered, passed, led    \* per generation: the waits begun, ended, ended as leader

barrierVars == <<holder, count, generation_id, rx, subscribed, local_gen, bpc,
                 entered, passed, led>>

Waiter == 1..Waiters
(* "in std::sync::Barrier, an n of 0 exhibits the same behavior as n == 1"  *)
BarrierSize == IF Parties = 0 THEN 1 ELSE Parties
Generation == 1..Generations

BarrierInit ==
    /\ holder = 0 /\ count = 0 /\ generation_id = 1
    /\ rx = [t \in Waiter |-> <<>>] /\ subscribed = {}
    /\ local_gen = [t \in Waiter |-> 0]
    /\ bpc = [t \in Waiter |-> "idle"]
    /\ entered = [g \in Generation |-> 0] /\ passed = entered /\ led = entered

AtBarrier(t, label) == bpc' = [bpc EXCEPT ![t] = label]

(* wait(): lock, and count oneself.                                        *)
Enter(t) ==
    /\ bpc[t] = "idle" /\ generation_id <= Generations /\ holder = 0
    /\ holder' = t
    /\ local_gen' = [local_gen EXCEPT ![t] = generation_id]
    /\ count' = count + 1
    /\ entered' = [entered EXCEPT ![generation_id] = @ + 1]
    /\ AtBarrier(t, IF count' < BarrierSize THEN "subscribe" ELSE "lead")
    /\ UNCHANGED <<generation_id, rx, subscribed, passed, led>>

(* self.wait.clone(), and only then drop(lock).                            *)
Subscribe(t) ==
    /\ bpc[t] = "subscribe"
    /\ subscribed' = subscribed \union {t} /\ rx' = [rx EXCEPT ![t] = <<>>]
    /\ AtBarrier(t, "unlock")
    /\ UNCHANGED <<holder, count, generation_id, local_gen, entered, passed, led>>

Unlock(t) ==
    /\ bpc[t] = "unlock"
    /\ holder' = 0
    /\ AtBarrier(t, "recv")
    /\ UNCHANGED <<count, generation_id, rx, subscribed, local_gen, entered, passed, led>>

(* One round of the loop over wait.recv(), which ends in another generation *)
(* or with n tasks counted.                                                *)
Receive(t) ==
    LET message == Head(rx[t])
        goes_on == message.gen = local_gen[t] /\ message.count < BarrierSize
    IN  /\ bpc[t] = "recv" /\ rx[t] # <<>>
        /\ rx' = [rx EXCEPT ![t] = Tail(@)]
        /\ subscribed' = IF goes_on THEN subscribed ELSE subscribed \ {t}
        /\ passed' = IF goes_on THEN passed ELSE [passed EXCEPT ![local_gen[t]] = @ + 1]
        /\ AtBarrier(t, IF goes_on THEN "recv" ELSE "idle")
        /\ UNCHANGED <<holder, count, generation_id, local_gen, entered, led>>

(* Mutant: the count goes on from the last generation. *)
LeadOn(t) ==
    /\ bpc[t] = "lead"
    /\ generation_id' = generation_id + 1
    /\ AtBarrier(t, "send")
    /\ UNCHANGED <<holder, count, rx, subscribed, local_gen, entered, passed, led>>

(* The last task begins a new generation.                                  *)
Lead(t) ==
    /\ bpc[t] = "lead"
    /\ count' = 0 /\ generation_id' = generation_id + 1
    /\ AtBarrier(t, "send")
    /\ UNCHANGED <<holder, rx, subscribed, local_gen, entered, passed, led>>

(* It sends it to every receiver, and unlocks as its wait() returns.         *)
Send(t) ==
    /\ bpc[t] = "send"
    /\ rx' = [u \in Waiter |-> IF u \in subscribed
                               THEN Append(rx[u], [gen |-> generation_id, count |-> count])
                               ELSE rx[u]]
    /\ AtBarrier(t, "return")
    /\ UNCHANGED <<holder, count, generation_id, subscribed, local_gen, entered, passed, led>>

ReturnAsLeader(t) ==
    /\ bpc[t] = "return"
    /\ holder' = 0
    /\ passed' = [passed EXCEPT ![local_gen[t]] = @ + 1]
    /\ led' = [led EXCEPT ![local_gen[t]] = @ + 1]
    /\ AtBarrier(t, "idle")
    /\ UNCHANGED <<count, generation_id, rx, subscribed, local_gen, entered>>

BarrierNext ==
    \E t \in Waiter : \/ Enter(t) \/ Subscribe(t) \/ Unlock(t) \/ Receive(t)
                      \/ Lead(t) \/ Send(t) \/ ReturnAsLeader(t)

BarrierSpec == BarrierInit /\ [][BarrierNext]_barrierVars

---------------------------------------------------------------------------
(* Nobody passes the barrier before n tasks have come to it in the same       *)
(* generation, of which one is told that it leads; and nobody is left behind *)
(* when a generation is over: its message is there, or is being sent.  All    *)
(* this though tasks of one generation are still on their way out while      *)
(* those of the next come in (Barrier::wait).                               *)
Rendezvous ==
    /\ \A g \in Generation : /\ passed[g] > 0 => entered[g] = BarrierSize
                             /\ passed[g] = BarrierSize => led[g] = 1
                             /\ entered[g] <= BarrierSize /\ led[g] <= 1
    /\ \A t \in Waiter :
        bpc[t] = "recv" /\ local_gen[t] # generation_id =>
            rx[t] # <<>> \/ \E leader \in Waiter : bpc[leader] = "send"
=============================================================================
