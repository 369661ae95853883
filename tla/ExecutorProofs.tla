--------------------------- MODULE ExecutorProofs ---------------------------
(***************************************************************************)
(* Proofs about the task executor, for any number of workers, other        *)
(* threads and tasks: no Runnable is lost or duplicated on its way through *)
(* slots, queues and steals; the count of sleeping workers is exact; and   *)
(* the workers do not all sleep beside a queued task.                      *)
(***************************************************************************)
EXTENDS Executor, FiniteSetTheorems, SequenceTheorems, TLAPS

-----------------------------------------------------------------------------
(* The inductive invariant.                                                 *)

WorkerPC == {"none", "find", "pop", "inject", "steal", "wait", "asleep", "run"}
SharedPC == {"schedule", "load", "notify"}

PcTyped ==
    /\ pc \in [Thread -> WorkerPC \cup SharedPC \cup {"idle"}]
    /\ \A w \in Worker : pc[w] # "idle"
    /\ \A x \in External : pc[x] \in SharedPC \cup {"idle"}

Types ==
    /\ injector \in Seq(Task) /\ local \in [Worker -> Seq(Task)]
    /\ slot \in [Worker -> Task \cup {None}]
    /\ slot_runs \in [Worker -> Nat] /\ fails \in [Worker -> Nat]
    /\ sleep \in Nat /\ notified \in BOOLEAN
    /\ task \in [Task -> {"idle", "scheduled", "running", "rewoken"}]
    /\ running \in [Worker -> Task \cup {None}]
    /\ hand \in [Thread -> Task \cup {None}]
    /\ PcTyped

(* What a thread holds at each of its steps.                                *)
HandsFit == \A t \in Thread : hand[t] # None <=> pc[t] = "schedule"
RunsFit ==
    \A w \in Worker : /\ pc[w] = "run" => running[w] # None
                      /\ running[w] # None => pc[w] \in {"run"} \cup SharedPC

(* A worker past its own queue has emptied it, and one that has found        *)
(* nothing once has looked into its slot since.                             *)
WorkerFits(w) ==
    /\ pc[w] \in {"inject", "steal", "wait", "asleep"} => local[w] = <<>>
    /\ pc[w] \in {"wait", "asleep"} => slot[w] = None
    /\ pc[w] \in {"pop", "inject", "steal"} => slot_runs[w] = 0
    /\ fails[w] > 0 /\ pc[w] = "find" => slot_runs[w] = 0
    /\ fails[w] > 0 /\ pc[w] \in {"pop", "inject", "steal"} => slot[w] = None
    /\ fails[w] > 0 => pc[w] \in {"find", "pop", "inject", "steal", "wait"}
SearchFits == \A w \in Worker : WorkerFits(w)

(* No task is in two places, or twice in one.                               *)
QueuesApart ==
    /\ IsInjective(injector)
    /\ \A w \in Worker : IsInjective(local[w])
    /\ \A w \in Worker : \A k \in Task : ~(k \in Range(injector) /\ k \in Range(local[w]))
    /\ \A v, w \in Worker : \A k \in Task : k \in Range(local[v]) /\ k \in Range(local[w]) => v = w

SlotsApart ==
    /\ \A w \in Worker : slot[w] \notin Range(injector)
    /\ \A v, w \in Worker : slot[w] \notin Range(local[v])
    /\ \A v, w \in Worker : slot[v] = slot[w] /\ slot[v] # None => v = w

HandsApart ==
    /\ \A t \in Thread : hand[t] \notin Range(injector)
    /\ \A t \in Thread : \A w \in Worker : hand[t] \notin Range(local[w])
    /\ \A t \in Thread : \A w \in Worker : hand[t] = slot[w] => hand[t] = None
    /\ \A t, u \in Thread : hand[t] = hand[u] /\ hand[t] # None => t = u

(* A task is scheduled if and only if it is somewhere, and it runs if and    *)
(* only if a worker runs it.                                                *)
Somewhere(k) ==
    \/ k \in Range(injector)
    \/ \E w \in Worker : k \in Range(local[w])
    \/ \E w \in Worker : slot[w] = k
    \/ \E t \in Thread : hand[t] = k
ScheduledFits == \A k \in Task : task[k] = "scheduled" <=> Somewhere(k)

RunningFits ==
    /\ \A k \in Task : task[k] \in {"running", "rewoken"} <=> \E w \in Worker : running[w] = k
    /\ \A v, w \in Worker : running[v] = running[w] /\ running[v] # None => v = w

(* A task in the injector is announced, or there is a worker that will look  *)
(* into the injector before it sleeps.                                      *)
Unaware == {"none", "steal", "wait", "asleep"}
InjectorWatched ==
    injector # <<>> =>
        \/ notified
        \/ \E t \in Thread : pc[t] \in {"load", "notify"}
        \/ \E w \in Worker : pc[w] \notin Unaware

ThreadsFit == HandsFit /\ RunsFit /\ SearchFits
TasksFit   == QueuesApart /\ SlotsApart /\ HandsApart /\ ScheduledFits /\ RunningFits

ExecutorInv == Types /\ ThreadsFit /\ TasksFit /\ SleepCountExact /\ InjectorWatched

-----------------------------------------------------------------------------
(* What the operations of the deque do to the set of tasks in a queue.      *)

(* RangeFacts: a queue holds tasks, and an empty one none.                  *)
LEMMA RangeFacts ==
    ASSUME NEW q \in Seq(Task)
    PROVE  /\ \A k \in Range(q) : k \in Task
           /\ q = <<>> <=> \A k \in Task : k \notin Range(q)
           /\ None \notin Range(q)
  <1>1. \A k \in Range(q) : k \in Task
    BY DEF Range
  <1>2. q = <<>> => \A k \in Task : k \notin Range(q)
    BY DEF Range
  <1>3. q # <<>> => q[1] \in Range(q) /\ q[1] \in Task
    BY DEF Range
  <1>4. QED
    BY <1>1, <1>2, <1>3, ExecutorAssumption

(* EmptyQueue: nothing is in an empty queue.                                *)
LEMMA EmptyQueue ==
    <<>> \in Seq(Task) /\ IsInjective(<<>>) /\ \A k : k \notin Range(<<>>)
  BY DEF IsInjective, Range

(* PushFacts: push puts the task behind the others.                         *)
LEMMA PushFacts ==
    ASSUME NEW q \in Seq(Task), NEW k \in Task
    PROVE  /\ Append(q, k) \in Seq(Task)
           /\ \A j : j \in Range(Append(q, k)) <=> j \in Range(q) \/ j = k
           /\ IsInjective(q) /\ k \notin Range(q) => IsInjective(Append(q, k))
  <1>1. /\ Append(q, k) \in Seq(Task) /\ Len(Append(q, k)) = Len(q) + 1
        /\ \A i \in 1 .. Len(q) : Append(q, k)[i] = q[i]
        /\ Append(q, k)[Len(q) + 1] = k
        /\ Len(q) \in Nat /\ DOMAIN q = 1 .. Len(q) /\ DOMAIN Append(q, k) = 1 .. Len(q) + 1
    OBVIOUS
  <1> DEFINE new == Append(q, k)
  <1> HIDE DEF new
  <1>2. \A j : j \in Range(new) <=> j \in Range(q) \/ j = k
    BY <1>1 DEF Range, new
  <1>3. IsInjective(q) /\ k \notin Range(q) => IsInjective(new)
    <2>1. SUFFICES ASSUME IsInjective(q), k \notin Range(q), NEW a \in DOMAIN new, NEW b \in DOMAIN new,
                          new[a] = new[b]
                   PROVE  a = b
      BY DEF IsInjective
    <2>2. a \in 1 .. Len(q) + 1 /\ b \in 1 .. Len(q) + 1
      BY <1>1 DEF new
    <2>3. CASE a \in 1 .. Len(q) /\ b \in 1 .. Len(q)
      BY <1>1, <2>1, <2>3 DEF IsInjective, new
    <2>4. CASE a = Len(q) + 1 /\ b = Len(q) + 1
      BY <2>4
    <2>5. CASE a = Len(q) + 1 /\ b \in 1 .. Len(q)
      BY <1>1, <2>1, <2>5 DEF Range, new
    <2>6. CASE b = Len(q) + 1 /\ a \in 1 .. Len(q)
      BY <1>1, <2>1, <2>6 DEF Range, new
    <2>7. QED
      BY <1>1, <2>2, <2>3, <2>4, <2>5, <2>6
  <1>4. QED
    BY <1>1, <1>2, <1>3 DEF new

(* The two parts of a queue behind its head when n tasks are stolen with it. *)
Batch(q, n) == SubSeq(q, 2, n + 1)
Rest(q, n)  == SubSeq(q, n + 2, Len(q))

(* StealFacts: steal_batch_and_pop splits the queue in three.               *)
LEMMA StealFacts ==
    ASSUME NEW q \in Seq(Task), q # <<>>, IsInjective(q), NEW n \in 0 .. Len(q) - 1
    PROVE  /\ Head(q) \in Task
           /\ Batch(q, n) \in Seq(Task) /\ IsInjective(Batch(q, n))
           /\ Rest(q, n) \in Seq(Task) /\ IsInjective(Rest(q, n))
           /\ Head(q) \notin Range(Batch(q, n)) /\ Head(q) \notin Range(Rest(q, n))
           /\ \A k : ~(k \in Range(Batch(q, n)) /\ k \in Range(Rest(q, n)))
           /\ \A k : k \in Range(q) <=> \/ k = Head(q)
                                       \/ k \in Range(Batch(q, n))
                                       \/ k \in Range(Rest(q, n))
  <1>1. Len(q) \in Nat \ {0} /\ DOMAIN q = 1 .. Len(q) /\ n \in Nat /\ n <= Len(q) - 1
    OBVIOUS
  <1>2. Head(q) = q[1] /\ Head(q) \in Task
    OBVIOUS
  <1> DEFINE b == Batch(q, n)
             r == Rest(q, n)
  <1>3. /\ b \in Seq(Task) /\ Len(b) = n /\ DOMAIN b = 1 .. n
        /\ \A i \in 1 .. n : b[i] = q[i + 1]
    <2>1. 2 \in 1 .. Len(q) + 1 /\ n + 1 \in 2 - 1 .. Len(q)
      BY <1>1
    <2>2. QED
      BY <1>1, <2>1, SubSeqProperties DEF Batch
  <1>4. /\ r \in Seq(Task) /\ Len(r) = Len(q) - n - 1 /\ DOMAIN r = 1 .. Len(q) - n - 1
        /\ \A i \in 1 .. Len(q) - n - 1 : r[i] = q[i + n + 1]
    <2>1. /\ n + 2 \in Int /\ Len(q) \in Int /\ \A i \in n + 2 .. Len(q) : q[i] \in Task
      BY <1>1
    <2>2. /\ r \in Seq(Task)
          /\ Len(r) = IF n + 2 <= Len(q) THEN Len(q) - (n + 2) + 1 ELSE 0
          /\ \A i \in 1 .. Len(q) - (n + 2) + 1 : r[i] = q[(n + 2) + i - 1]
      BY <2>1, SubSeqProperties DEF Rest
    <2> HIDE DEF r
    <2>3. Len(r) = Len(q) - n - 1 /\ DOMAIN r = 1 .. Len(r)
      <3>1. DOMAIN r = 1 .. Len(r)
        BY <2>2
      <3>2. CASE n + 2 <= Len(q)
        BY <1>1, <2>2, <3>1, <3>2
      <3>3. CASE ~(n + 2 <= Len(q))
        <4>1. Len(q) - n - 1 = 0
          <5>1. \A m, l \in Int : ~(m + 2 <= l) /\ m <= l - 1 => l - m - 1 = 0
            OBVIOUS
          <5>2. n \in Int /\ Len(q) \in Int
            BY <1>1
          <5>3. QED
            BY <1>1, <3>3, <5>1, <5>2
        <4>2. Len(r) = 0
          BY <2>2, <3>3
        <4>3. QED
          BY <3>1, <4>1, <4>2
      <3>4. QED
        BY <3>2, <3>3
    <2>4. ASSUME NEW i \in 1 .. Len(q) - n - 1 PROVE r[i] = q[i + n + 1]
      <3>1. i \in 1 .. Len(q) - (n + 2) + 1 /\ (n + 2) + i - 1 = i + n + 1
        BY <1>1
      <3>2. QED
        BY <2>2, <3>1
    <2>5. QED
      BY <2>2, <2>3, <2>4
  <1> HIDE DEF b, r
  <1>5. /\ \A i \in DOMAIN b : i + 1 \in 2 .. n + 1 /\ i + 1 \in DOMAIN q /\ b[i] = q[i + 1]
        /\ \A i \in DOMAIN r : i + n + 1 \in n + 2 .. Len(q) /\ i + n + 1 \in DOMAIN q
                               /\ r[i] = q[i + n + 1]
    BY <1>1, <1>3, <1>4
  <1>6. /\ IsInjective(b) /\ IsInjective(r)
        /\ Head(q) \notin Range(b) /\ Head(q) \notin Range(r)
    <2>1. ASSUME NEW i \in DOMAIN b, NEW j \in DOMAIN b, b[i] = b[j] PROVE i = j
      <3>1. i + 1 = j + 1
        BY <1>5, <2>1 DEF IsInjective
      <3>2. QED
        BY <1>3, <3>1
    <2>2. ASSUME NEW i \in DOMAIN r, NEW j \in DOMAIN r, r[i] = r[j] PROVE i = j
      <3>1. i + n + 1 = j + n + 1
        BY <1>5, <2>2 DEF IsInjective
      <3>2. i \in Int /\ j \in Int /\ n \in Int
        BY <1>1, <1>4
      <3>3. QED
        BY <3>1, <3>2
    <2>3. ASSUME NEW i \in DOMAIN b PROVE b[i] # Head(q)
      <3>1. i + 1 # 1 /\ 1 \in DOMAIN q
        BY <1>1, <1>5
      <3>2. QED
        BY <1>2, <1>5, <3>1 DEF IsInjective
    <2>4. ASSUME NEW i \in DOMAIN r PROVE r[i] # Head(q)
      <3>1. i + n + 1 # 1 /\ 1 \in DOMAIN q
        BY <1>1, <1>5
      <3>2. QED
        BY <1>2, <1>5, <3>1 DEF IsInjective
    <2>5. QED
      BY <2>1, <2>2, <2>3, <2>4 DEF IsInjective, Range
  <1>7. ASSUME NEW k, k \in Range(b), k \in Range(r) PROVE FALSE
    <2>1. PICK i \in DOMAIN b : k = b[i]
      BY <1>7 DEF Range
    <2>2. PICK j \in DOMAIN r : k = r[j]
      BY <1>7 DEF Range
    <2>3. i + 1 # j + n + 1
      BY <1>1, <1>5
    <2>4. k = q[i + 1] /\ i + 1 \in DOMAIN q /\ k = q[j + n + 1] /\ j + n + 1 \in DOMAIN q
      BY <1>5, <2>1, <2>2
    <2>5. QED
      BY <2>3, <2>4 DEF IsInjective
  <1>8. ASSUME NEW k PROVE k \in Range(q) <=> k = Head(q) \/ k \in Range(b) \/ k \in Range(r)
    <2>1. ASSUME NEW i \in DOMAIN q, k = q[i] PROVE k = Head(q) \/ k \in Range(b) \/ k \in Range(r)
      <3>1. CASE i = 1
        BY <1>2, <2>1, <3>1
      <3>2. CASE i \in 2 .. n + 1
        <4>1. i - 1 \in 1 .. n /\ b[i - 1] = q[i]
          BY <1>1, <1>3, <3>2
        <4>2. QED
          BY <1>3, <2>1, <4>1 DEF Range
      <3>3. CASE i \in n + 2 .. Len(q)
        <4>1. i - n - 1 \in 1 .. Len(q) - n - 1 /\ r[i - n - 1] = q[i]
          BY <1>1, <1>4, <3>3
        <4>2. QED
          BY <1>4, <2>1, <4>1 DEF Range
      <3>4. QED
        BY <1>1, <3>1, <3>2, <3>3
    <2>2. k \in Range(b) => k \in Range(q)
      BY <1>5 DEF Range
    <2>3. k \in Range(r) => k \in Range(q)
      BY <1>5 DEF Range
    <2>4. k = Head(q) => k \in Range(q)
      BY <1>1, <1>2 DEF Range
    <2>5. QED
      BY <2>1, <2>2, <2>3, <2>4 DEF Range
  <1>9. QED
    BY <1>2, <1>3, <1>4, <1>6, <1>7, <1>8 DEF b, r

(* PopFacts: pop takes the head, and what is left is the rest.              *)
LEMMA PopFacts ==
    ASSUME NEW q \in Seq(Task), q # <<>>, IsInjective(q)
    PROVE  /\ Head(q) \in Task
           /\ Tail(q) \in Seq(Task) /\ IsInjective(Tail(q))
           /\ Head(q) \notin Range(Tail(q))
           /\ \A k : k \in Range(q) <=> k = Head(q) \/ k \in Range(Tail(q))
  <1>1. 0 \in 0 .. Len(q) - 1
    OBVIOUS
  <1>2. Rest(q, 0) = Tail(q)
    BY DEF Rest
  <1>3. Batch(q, 0) = <<>>
    BY DEF Batch
  <1>4. /\ Head(q) \in Task
        /\ Rest(q, 0) \in Seq(Task) /\ IsInjective(Rest(q, 0))
        /\ Head(q) \notin Range(Rest(q, 0))
        /\ \A k : k \in Range(q) <=> \/ k = Head(q)
                                    \/ k \in Range(Batch(q, 0))
                                    \/ k \in Range(Rest(q, 0))
    BY <1>1, StealFacts
  <1>5. QED
    BY <1>2, <1>3, <1>4, EmptyQueue

-----------------------------------------------------------------------------
(* Where the tasks are, action by action.                                   *)

(* TaskStarts: what StartRun does to the tasks' states, when task k is in    *)
(* no place any more and the others are where they were.                    *)
LEMMA TaskStarts ==
    ASSUME Types, TasksFit, NEW w \in Worker, NEW k \in Task, Somewhere(k), running[w] = None,
           task' = [task EXCEPT ![k] = "running"], running' = [running EXCEPT ![w] = k],
           ~Somewhere(k)', \A j \in Task \ {k} : Somewhere(j)' <=> Somewhere(j)
    PROVE  ScheduledFits' /\ RunningFits'
  <1>1. task[k] = "scheduled"
    BY DEF TasksFit, ScheduledFits
  <1>2. ScheduledFits'
    BY <1>1 DEF ScheduledFits, TasksFit, Types
  <1>3. \A v \in Worker : running[v] # k
    BY <1>1 DEF RunningFits, TasksFit
  <1>4. ASSUME NEW j \in Task
        PROVE  task'[j] \in {"running", "rewoken"} <=> \E v \in Worker : running'[v] = j
    <2>1. CASE j = k
      BY <2>1 DEF Types
    <2>2. CASE j # k
      <3>1. \A v \in Worker : running'[v] = j <=> running[v] = j
        BY <2>2, ExecutorAssumption DEF Types
      <3>2. QED
        BY <2>2, <3>1 DEF Types, TasksFit, RunningFits
    <2>3. QED
      BY <2>1, <2>2
  <1>5. \A u, v \in Worker : running'[u] = running'[v] /\ running'[u] # None => u = v
    BY <1>3 DEF Types, TasksFit, RunningFits
  <1>6. QED
    BY <1>2, <1>4, <1>5 DEF RunningFits

(* SlotTaken: the slot's task starts to run.                                *)
LEMMA SlotTaken ==
    ASSUME Types, ThreadsFit, TasksFit, NEW w \in Worker, TakeSlot(w)
    PROVE  TasksFit'
  <1>1. PICK k \in Task :
        /\ k = slot[w] /\ k # None /\ w \in Thread /\ running[w] = None
        /\ UNCHANGED <<injector, local, hand>>
        /\ slot' = [slot EXCEPT ![w] = None]
        /\ task' = [task EXCEPT ![k] = "running"]
        /\ running' = [running EXCEPT ![w] = k]
    BY DEF TakeSlot, StartRun, Types, Thread, queues, ThreadsFit, RunsFit, SharedPC
  <1>2. QueuesApart'
    BY <1>1 DEF TasksFit, QueuesApart
  <1>3. \A q \in Seq(Task) : None \notin Range(q)
    BY RangeFacts
  <1>4. SlotsApart'
    BY <1>1, <1>3 DEF TasksFit, SlotsApart, Types
  <1>5. HandsApart'
    BY <1>1 DEF TasksFit, HandsApart, Types
  <1>6. Somewhere(k) /\ ~Somewhere(k)'
    BY <1>1 DEF Somewhere, TasksFit, SlotsApart, HandsApart, Types
  <1>7. \A j \in Task \ {k} : Somewhere(j)' <=> Somewhere(j)
    BY <1>1, ExecutorAssumption DEF Somewhere, Types
  <1>8. QED
    BY <1>1, <1>2, <1>4, <1>5, <1>6, <1>7, TaskStarts DEF TasksFit

(* LocalPopped: the head of the own queue starts to run.                    *)
LEMMA LocalPopped ==
    ASSUME Types, ThreadsFit, TasksFit, NEW w \in Worker, PopLocal(w)
    PROVE  TasksFit'
  <1>1. CASE local[w] = <<>>
    <2>1. UNCHANGED <<injector, local, slot, hand, task, running>>
      BY <1>1 DEF PopLocal
    <2>2. QED
      BY <2>1 DEF TasksFit, QueuesApart, SlotsApart, HandsApart, ScheduledFits, Somewhere, RunningFits
  <1>2. CASE local[w] # <<>>
    <2>1. local[w] \in Seq(Task) /\ IsInjective(local[w])
      BY DEF Types, TasksFit, QueuesApart
    <2>2. PICK k \in Task, r \in Seq(Task) :
          /\ k = Head(local[w]) /\ r = Tail(local[w])
          /\ IsInjective(r) /\ k \notin Range(r)
          /\ \A j : j \in Range(local[w]) <=> j = k \/ j \in Range(r)
      BY <1>2, <2>1, PopFacts
    <2>3. /\ local' = [local EXCEPT ![w] = r]
          /\ task' = [task EXCEPT ![k] = "running"]
          /\ running' = [running EXCEPT ![w] = k]
          /\ UNCHANGED <<injector, slot, hand>>
          /\ running[w] = None
      BY <1>2, <2>2 DEF PopLocal, StartRun, ThreadsFit, RunsFit, SharedPC
    <2>4. \A u \in Worker : local'[u] = IF u = w THEN r ELSE local[u]
      BY <2>3 DEF Types
    <2>5. QueuesApart'
      BY <2>2, <2>3, <2>4 DEF TasksFit, QueuesApart
    <2>6. SlotsApart' /\ HandsApart'
      BY <2>2, <2>3, <2>4 DEF TasksFit, SlotsApart, HandsApart
    <2>7. Somewhere(k) /\ ~Somewhere(k)'
      BY <2>2, <2>3, <2>4 DEF Somewhere, TasksFit, QueuesApart, SlotsApart, HandsApart
    <2>8. \A j \in Task \ {k} : Somewhere(j)' <=> Somewhere(j)
      BY <2>2, <2>3, <2>4 DEF Somewhere
    <2>9. QED
      BY <2>3, <2>5, <2>6, <2>7, <2>8, TaskStarts DEF TasksFit
  <1>3. QED
    BY <1>1, <1>2

(* InjectorStolen: the head of the injector starts to run, and a batch of    *)
(* the others goes to the worker's own queue, which is empty.               *)
LEMMA InjectorStolen ==
    ASSUME Types, ThreadsFit, TasksFit, NEW w \in Worker, StealInjector(w)
    PROVE  TasksFit'
  <1>1. CASE injector = <<>>
    <2>1. UNCHANGED <<injector, local, slot, hand, task, running>>
      BY <1>1 DEF StealInjector, queues
    <2>2. QED
      BY <2>1 DEF TasksFit, QueuesApart, SlotsApart, HandsApart, ScheduledFits, Somewhere, RunningFits
  <1>2. CASE injector # <<>>
    <2>1. PICK n \in 0 .. Len(injector) - 1 :
            /\ local' = [local EXCEPT ![w] = @ \o Batch(injector, n)]
            /\ injector' = Rest(injector, n)
            /\ StartRun(w, Head(injector))
      BY <1>2 DEF StealInjector, Batch, Rest
    <2>2. injector \in Seq(Task) /\ IsInjective(injector)
      BY DEF Types, TasksFit, QueuesApart
    <2>3. PICK k \in Task, b \in Seq(Task), r \in Seq(Task) :
          /\ k = Head(injector) /\ b = Batch(injector, n) /\ r = Rest(injector, n)
          /\ IsInjective(b) /\ IsInjective(r) /\ k \notin Range(b) /\ k \notin Range(r)
          /\ \A j : ~(j \in Range(b) /\ j \in Range(r))
          /\ \A j : j \in Range(injector) <=> j = k \/ j \in Range(b) \/ j \in Range(r)
      BY <1>2, <2>2, StealFacts
    <2>4. local[w] = <<>> /\ local[w] \o b = b
      BY DEF StealInjector, ThreadsFit, SearchFits, WorkerFits
    <2>5. /\ local' = [local EXCEPT ![w] = b] /\ injector' = r
          /\ task' = [task EXCEPT ![k] = "running"]
          /\ running' = [running EXCEPT ![w] = k]
          /\ UNCHANGED <<slot, hand>>
          /\ running[w] = None
      BY <2>1, <2>3, <2>4 DEF StealInjector, StartRun, ThreadsFit, RunsFit, SharedPC
    <2>6. /\ \A u \in Worker : local'[u] = IF u = w THEN b ELSE local[u]
          /\ \A j : j \notin Range(local[w])
      BY <2>4, <2>5, EmptyQueue DEF Types
    <2>7. QueuesApart'
      BY <2>3, <2>5, <2>6 DEF TasksFit, QueuesApart
    <2>8. SlotsApart' /\ HandsApart'
      BY <2>3, <2>5, <2>6 DEF TasksFit, SlotsApart, HandsApart
    <2>9. Somewhere(k) /\ ~Somewhere(k)'
      BY <2>3, <2>5, <2>6 DEF Somewhere, TasksFit, QueuesApart, SlotsApart, HandsApart
    <2>10. \A j \in Task \ {k} : Somewhere(j)' <=> Somewhere(j)
      BY <2>3, <2>5, <2>6 DEF Somewhere
    <2>11. QED
      BY <2>5, <2>7, <2>8, <2>9, <2>10, TaskStarts DEF TasksFit
  <1>3. QED
    BY <1>1, <1>2

(* LocalStolen: the same with the queue of another worker.                  *)
LEMMA LocalStolen ==
    ASSUME Types, ThreadsFit, TasksFit, NEW w \in Worker, NEW v \in Worker, StealFrom(w, v)
    PROVE  TasksFit'
  <1>1. CASE local[v] = <<>>
    <2>1. UNCHANGED <<injector, local, slot, hand, task, running>>
      BY <1>1 DEF StealFrom
    <2>2. QED
      BY <2>1 DEF TasksFit, QueuesApart, SlotsApart, HandsApart, ScheduledFits, Somewhere, RunningFits
  <1>2. CASE local[v] # <<>>
    <2>1. PICK n \in 0 .. Len(local[v]) - 1 :
            /\ local' = [u \in Worker |-> IF u = v THEN Rest(local[v], n)
                                          ELSE IF u = w THEN local[w] \o Batch(local[v], n)
                                          ELSE local[u]]
            /\ StartRun(w, Head(local[v]))
      BY <1>2 DEF StealFrom, Batch, Rest
    <2>2. local[v] \in Seq(Task) /\ IsInjective(local[v])
      BY DEF Types, TasksFit, QueuesApart
    <2>3. PICK k \in Task, b \in Seq(Task), r \in Seq(Task) :
          /\ k = Head(local[v]) /\ b = Batch(local[v], n) /\ r = Rest(local[v], n)
          /\ IsInjective(b) /\ IsInjective(r) /\ k \notin Range(b) /\ k \notin Range(r)
          /\ \A j : ~(j \in Range(b) /\ j \in Range(r))
          /\ \A j : j \in Range(local[v]) <=> j = k \/ j \in Range(b) \/ j \in Range(r)
      BY <1>2, <2>2, StealFacts
    <2>4. local[w] = <<>> /\ local[w] \o b = b /\ v # w
      <3>1. local[w] = <<>>
        BY DEF StealFrom, ThreadsFit, SearchFits, WorkerFits
      <3>2. QED
        BY <1>2, <3>1
    <2>5. /\ task' = [task EXCEPT ![k] = "running"]
          /\ running' = [running EXCEPT ![w] = k]
          /\ UNCHANGED <<injector, slot, hand>>
          /\ running[w] = None
      BY <2>1, <2>3 DEF StealFrom, StartRun, ThreadsFit, RunsFit, SharedPC
    <2>6. /\ \A u \in Worker : local'[u] = IF u = v THEN r ELSE IF u = w THEN b ELSE local[u]
          /\ \A j : j \notin Range(local[w])
      BY <2>1, <2>3, <2>4, EmptyQueue
    <2>7. QueuesApart'
      BY <2>3, <2>4, <2>5, <2>6 DEF TasksFit, QueuesApart
    <2>8. SlotsApart' /\ HandsApart'
      BY <2>3, <2>4, <2>5, <2>6 DEF TasksFit, SlotsApart, HandsApart
    <2>9. Somewhere(k) /\ ~Somewhere(k)'
      BY <2>3, <2>4, <2>5, <2>6 DEF Somewhere, TasksFit, QueuesApart, SlotsApart, HandsApart
    <2>10. \A j \in Task \ {k} : Somewhere(j)' <=> Somewhere(j)
      BY <2>3, <2>4, <2>5, <2>6 DEF Somewhere
    <2>11. QED
      BY <2>5, <2>7, <2>8, <2>9, <2>10, TaskStarts DEF TasksFit
  <1>3. QED
    BY <1>1, <1>2

(* TaskWoken: an idle task that is woken is in the hand of the thread that   *)
(* woke it; a running one is left to its worker.                            *)
LEMMA TaskWoken ==
    ASSUME Types, ThreadsFit, TasksFit, NEW t \in Thread, NEW k \in Task, Wake(t, k)
    PROVE  TasksFit'
  <1>1. UNCHANGED <<injector, local, slot, running>> /\ hand[t] = None
    BY DEF Wake, queues, mine, ThreadsFit, HandsFit
  <1>2. CASE task[k] = "idle"
    <2>1. task' = [task EXCEPT ![k] = "scheduled"] /\ hand' = [hand EXCEPT ![t] = k]
      BY <1>2 DEF Wake
    <2>2. ~Somewhere(k) /\ k # None
      BY <1>2, ExecutorAssumption DEF TasksFit, ScheduledFits
    <2>3. QueuesApart' /\ SlotsApart'
      BY <1>1 DEF TasksFit, QueuesApart, SlotsApart
    <2>4. HandsApart'
      BY <1>1, <2>1, <2>2 DEF TasksFit, HandsApart, Somewhere, Types
    <2>5. Somewhere(k)'
      BY <2>1 DEF Somewhere, Types
    <2>6. \A j \in Task \ {k} : Somewhere(j)' <=> Somewhere(j)
      BY <1>1, <2>1, ExecutorAssumption DEF Somewhere, Types
    <2>7. ScheduledFits'
      BY <2>1, <2>5, <2>6 DEF TasksFit, ScheduledFits, Types
    <2>8. RunningFits'
      BY <1>1, <1>2, <2>1 DEF TasksFit, RunningFits, Types
    <2>9. QED
      BY <2>3, <2>4, <2>7, <2>8 DEF TasksFit
  <1>3. CASE task[k] = "running"
    <2>1. task' = [task EXCEPT ![k] = "rewoken"] /\ UNCHANGED hand
      BY <1>3 DEF Wake
    <2>2. QueuesApart' /\ SlotsApart' /\ HandsApart'
      BY <1>1, <2>1 DEF TasksFit, QueuesApart, SlotsApart, HandsApart
    <2>3. \A j \in Task : Somewhere(j)' <=> Somewhere(j)
      BY <1>1, <2>1 DEF Somewhere
    <2>4. ScheduledFits'
      BY <1>3, <2>1, <2>3 DEF TasksFit, ScheduledFits, Types
    <2>5. RunningFits'
      BY <1>1, <1>3, <2>1 DEF TasksFit, RunningFits, Types
    <2>6. QED
      BY <2>2, <2>4, <2>5 DEF TasksFit
  <1>4. QED
    BY <1>2, <1>3 DEF Wake

(* RunEnded: a task that was woken while it ran is in the hand of its        *)
(* worker, any other is idle.                                               *)
LEMMA RunEnded ==
    ASSUME Types, ThreadsFit, TasksFit, NEW w \in Worker, EndRun(w)
    PROVE  TasksFit'
  <1>1. PICK k \in Task : /\ k = running[w] /\ w \in Thread /\ hand[w] = None /\ k # None
                         /\ UNCHANGED <<injector, local, slot>>
                         /\ running' = [running EXCEPT ![w] = None]
    BY ExecutorAssumption DEF EndRun, ThreadsFit, RunsFit, HandsFit, Types, Thread, queues, mine
  <1>2. /\ task[k] \in {"running", "rewoken"} /\ ~Somewhere(k)
        /\ \A v \in Worker \ {w} : running[v] # k
    BY <1>1 DEF TasksFit, ScheduledFits, RunningFits
  <1>3. /\ \A v \in Worker : running'[v] # k
        /\ \A j \in Task \ {k} : \A v \in Worker : running'[v] = j <=> running[v] = j
        /\ \A u, v \in Worker : running'[u] = running'[v] /\ running'[u] # None => u = v
    BY <1>1, <1>2, ExecutorAssumption DEF TasksFit, RunningFits, Types
  <1>4. QueuesApart' /\ SlotsApart'
    BY <1>1 DEF TasksFit, QueuesApart, SlotsApart
  <1>5. CASE task[k] = "rewoken"
    <2>1. task' = [task EXCEPT ![k] = "scheduled"] /\ hand' = [hand EXCEPT ![w] = k]
      BY <1>1, <1>5 DEF EndRun
    <2>2. HandsApart'
      BY <1>1, <1>2, <2>1 DEF TasksFit, HandsApart, Somewhere, Types
    <2>3. Somewhere(k)'
      BY <1>1, <2>1 DEF Somewhere, Types
    <2>4. \A j \in Task \ {k} : Somewhere(j)' <=> Somewhere(j)
      BY <1>1, <2>1, ExecutorAssumption DEF Somewhere, Types
    <2>5. ScheduledFits'
      BY <2>1, <2>3, <2>4 DEF TasksFit, ScheduledFits, Types
    <2>6. RunningFits'
      BY <1>3, <2>1 DEF TasksFit, RunningFits, Types
    <2>7. QED
      BY <1>4, <2>2, <2>5, <2>6 DEF TasksFit
  <1>6. CASE task[k] # "rewoken"
    <2>1. task' = [task EXCEPT ![k] = "idle"] /\ UNCHANGED hand
      BY <1>1, <1>6 DEF EndRun
    <2>2. HandsApart'
      BY <1>1, <2>1 DEF TasksFit, HandsApart
    <2>3. \A j \in Task : Somewhere(j)' <=> Somewhere(j)
      BY <1>1, <2>1 DEF Somewhere
    <2>4. ScheduledFits'
      BY <1>2, <2>1, <2>3 DEF TasksFit, ScheduledFits, Types
    <2>5. RunningFits'
      BY <1>3, <2>1 DEF TasksFit, RunningFits, Types
    <2>6. QED
      BY <1>4, <2>2, <2>4, <2>5 DEF TasksFit
  <1>7. QED
    BY <1>5, <1>6

(* SlotFilled: the task goes from the hand to the slot, and the one that was *)
(* there to the queue.                                                      *)
LEMMA SlotFilled ==
    ASSUME Types, ThreadsFit, TasksFit, NEW w \in Worker, ScheduleOnWorker(w)
    PROVE  TasksFit'
  <1>1. PICK k \in Task : /\ k = hand[w] /\ w \in Thread /\ k # None
                         /\ slot' = [slot EXCEPT ![w] = k] /\ hand' = [hand EXCEPT ![w] = None]
                         /\ UNCHANGED <<injector, task, running>>
    BY ExecutorAssumption DEF ScheduleOnWorker, ThreadsFit, HandsFit, Types, Thread
  <1>2. RunningFits'
    BY <1>1 DEF TasksFit, RunningFits
  <1>3. \A q \in Seq(Task) : None \notin Range(q)
    BY RangeFacts
  <1>4. CASE slot[w] = None
    <2>1. UNCHANGED local
      BY <1>4 DEF ScheduleOnWorker
    <2>2. QueuesApart'
      BY <1>1, <2>1 DEF TasksFit, QueuesApart
    <2>3. SlotsApart'
      BY <1>1, <2>1 DEF TasksFit, SlotsApart, HandsApart, Types
    <2>4. HandsApart'
      BY <1>1, <1>3, <2>1 DEF TasksFit, HandsApart, Types
    <2>5. Somewhere(k) /\ Somewhere(k)'
      BY <1>1 DEF Somewhere, Types
    <2>6. \A j \in Task \ {k} : Somewhere(j)' <=> Somewhere(j)
      BY <1>1, <1>4, <2>1, ExecutorAssumption DEF Somewhere, Types
    <2>7. ScheduledFits'
      BY <1>1, <2>5, <2>6 DEF TasksFit, ScheduledFits
    <2>8. QED
      BY <1>2, <2>2, <2>3, <2>4, <2>7 DEF TasksFit
  <1>5. CASE slot[w] # None
    <2>1. PICK old \in Task, q \in Seq(Task) :
            /\ old = slot[w] /\ local' = [local EXCEPT ![w] = q]
            /\ old # k /\ old # None /\ IsInjective(q)
            /\ \A j : j \in Range(q) <=> j \in Range(local[w]) \/ j = old
      <3>1. /\ slot[w] \in Task /\ local[w] \in Seq(Task) /\ IsInjective(local[w])
            /\ slot[w] \notin Range(local[w]) /\ slot[w] # k
        BY <1>1, <1>5 DEF Types, TasksFit, QueuesApart, SlotsApart, HandsApart
      <3>2. /\ Append(local[w], slot[w]) \in Seq(Task) /\ IsInjective(Append(local[w], slot[w]))
            /\ \A j : j \in Range(Append(local[w], slot[w])) <=> j \in Range(local[w]) \/ j = slot[w]
        BY <3>1, PushFacts
      <3>3. local' = [local EXCEPT ![w] = Append(local[w], slot[w])]
        BY <1>5 DEF ScheduleOnWorker
      <3>4. QED
        BY <1>5, <3>1, <3>2, <3>3
    <2>2. \A u \in Worker : local'[u] = IF u = w THEN q ELSE local[u]
      BY <2>1 DEF Types
    <2>3. QueuesApart'
      BY <1>1, <2>1, <2>2 DEF TasksFit, QueuesApart, SlotsApart
    <2>4. SlotsApart'
      BY <1>1, <2>1, <2>2 DEF TasksFit, SlotsApart, HandsApart, Types
    <2>5. HandsApart'
      BY <1>1, <1>3, <2>1, <2>2 DEF TasksFit, HandsApart, Types
    <2>6. Somewhere(k) /\ Somewhere(k)' /\ Somewhere(old) /\ Somewhere(old)'
      BY <1>1, <2>1, <2>2 DEF Somewhere, Types
    <2>7. ASSUME NEW j \in Task \ {k, old} PROVE Somewhere(j)' <=> Somewhere(j)
      <3>1. j \in Range(injector)' <=> j \in Range(injector)
        BY <1>1
      <3>2. \A u \in Worker : j \in Range(local'[u]) <=> j \in Range(local[u])
        BY <2>1, <2>2
      <3>3. \A u \in Worker : slot'[u] = j <=> slot[u] = j
        BY <1>1, <2>1 DEF Types
      <3>4. \A t \in Thread : hand'[t] = j <=> hand[t] = j
        BY <1>1, ExecutorAssumption DEF Types
      <3>5. QED
        BY <3>1, <3>2, <3>3, <3>4 DEF Somewhere
    <2>8. ScheduledFits'
      BY <1>1, <2>6, <2>7 DEF TasksFit, ScheduledFits
    <2>9. QED
      BY <1>2, <2>3, <2>4, <2>5, <2>8 DEF TasksFit
  <1>6. QED
    BY <1>4, <1>5

(* InjectorFilled: the task goes from the hand to the injector.             *)
LEMMA InjectorFilled ==
    ASSUME Types, ThreadsFit, TasksFit, NEW x \in Thread, ScheduleElsewhere(x)
    PROVE  TasksFit'
  <1>1. PICK k \in Task : /\ k = hand[x] /\ k # None
                         /\ injector' = Append(injector, k) /\ hand' = [hand EXCEPT ![x] = None]
                         /\ UNCHANGED <<local, slot, task, running>>
    BY ExecutorAssumption DEF ScheduleElsewhere, ThreadsFit, HandsFit, Types, mine
  <1>2. PICK q \in Seq(Task) : /\ injector' = q /\ IsInjective(q)
                              /\ \A j : j \in Range(q) <=> j \in Range(injector) \/ j = k
    <2>1. injector \in Seq(Task) /\ IsInjective(injector) /\ k \notin Range(injector)
      BY <1>1 DEF Types, TasksFit, QueuesApart, HandsApart
    <2>2. /\ Append(injector, k) \in Seq(Task) /\ IsInjective(Append(injector, k))
          /\ \A j : j \in Range(Append(injector, k)) <=> j \in Range(injector) \/ j = k
      BY <2>1, PushFacts
    <2>3. QED
      BY <1>1, <2>2
  <1>3. \A p \in Seq(Task) : None \notin Range(p)
    BY RangeFacts
  <1>4. QueuesApart'
    BY <1>1, <1>2 DEF TasksFit, QueuesApart, HandsApart
  <1>5. SlotsApart'
    BY <1>1, <1>2 DEF TasksFit, SlotsApart, HandsApart
  <1>6. HandsApart'
    BY <1>1, <1>2, <1>3 DEF TasksFit, HandsApart, Types
  <1>7. Somewhere(k) /\ Somewhere(k)'
    BY <1>1, <1>2 DEF Somewhere
  <1>8. \A j \in Task \ {k} : Somewhere(j)' <=> Somewhere(j)
    BY <1>1, <1>2, ExecutorAssumption DEF Somewhere, Types
  <1>9. ScheduledFits'
    BY <1>1, <1>7, <1>8 DEF TasksFit, ScheduledFits
  <1>10. RunningFits'
    BY <1>1 DEF TasksFit, RunningFits
  <1>11. QED
    BY <1>4, <1>5, <1>6, <1>9, <1>10 DEF TasksFit

(* TasksStep: no step loses a task or has it in two places.                 *)
LEMMA TasksStep ==
    ASSUME Types, ThreadsFit, TasksFit, Next
    PROVE  TasksFit'
  <1>1. ASSUME UNCHANGED <<injector, local, slot, hand, task, running>> PROVE TasksFit'
    BY <1>1 DEF TasksFit, QueuesApart, SlotsApart, HandsApart, ScheduledFits, Somewhere, RunningFits
  <1>2. ASSUME NEW w \in Worker, SkipSlot(w) \/ FoundNothing(w) \/ Wait(w) \/ Retry(w)
        PROVE  TasksFit'
    BY <1>1, <1>2 DEF SkipSlot, FoundNothing, Wait, Retry, queues, mine
  <1>3. ASSUME NEW t \in Thread, LoadNotified(t) \/ NotifyOne(t)
        PROVE  TasksFit'
    BY <1>1, <1>3 DEF LoadNotified, NotifyOne, queues, mine
  <1>4. ASSUME NEW t \in Thread, ScheduleOnWorker(t)
        PROVE  TasksFit'
    BY <1>4, SlotFilled DEF ScheduleOnWorker
  <1>5. QED
    BY <1>2, <1>3, <1>4, SlotTaken, LocalPopped, InjectorStolen, LocalStolen, TaskWoken, RunEnded,
       InjectorFilled DEF Next, Search, Schedule

-----------------------------------------------------------------------------
(* The threads, action by action.                                           *)

(* StealTypes: the queues stay sequences of tasks when they are split.      *)
LEMMA StealTypes ==
    ASSUME NEW q \in Seq(Task), q # <<>>, NEW n \in 0 .. Len(q) - 1
    PROVE  Head(q) \in Task /\ SubSeq(q, 2, n + 1) \in Seq(Task) /\ SubSeq(q, n + 2, Len(q)) \in Seq(Task)
  <1>1. /\ 2 \in Int /\ n + 1 \in Int /\ n + 2 \in Int /\ Len(q) \in Int
        /\ \A i \in 2 .. n + 1 : q[i] \in Task
        /\ \A i \in n + 2 .. Len(q) : q[i] \in Task
    OBVIOUS
  <1>2. SubSeq(q, 2, n + 1) \in Seq(Task)
    BY <1>1, SubSeqProperties
  <1>3. SubSeq(q, n + 2, Len(q)) \in Seq(Task)
    BY <1>1, SubSeqProperties
  <1>4. QED
    BY <1>2, <1>3

(* WorkerGoes, AnyGoes: the labels that a thread may go to.                 *)
LEMMA WorkerGoes ==
    ASSUME PcTyped, NEW w \in Worker, NEW label \in WorkerPC \cup SharedPC, Goto(w, label)
    PROVE  PcTyped'
  BY ExecutorAssumption DEF PcTyped, Goto, Thread, WorkerPC, SharedPC

LEMMA AnyGoes ==
    ASSUME PcTyped, NEW t \in Thread, NEW label \in SharedPC, Goto(t, label)
    PROVE  PcTyped'
  BY ExecutorAssumption DEF PcTyped, Goto, Thread, WorkerPC, SharedPC

(* RunTypes: StartRun keeps the types, whatever happens to the queues.      *)
LEMMA RunTypes ==
    ASSUME Types, NEW w \in Worker, NEW k \in Task, StartRun(w, k),
           injector' \in Seq(Task), local' \in [Worker -> Seq(Task)],
           slot' \in [Worker -> Task \cup {None}], slot_runs' \in [Worker -> Nat],
           UNCHANGED <<place, hand>>
    PROVE  Types'
  <1>1. PcTyped'
    BY WorkerGoes DEF Types, StartRun, WorkerPC
  <1>2. QED
    BY <1>1 DEF Types, StartRun, place

(* TypesStep: every step keeps the types.                                   *)
LEMMA TypesStep ==
    ASSUME Types, ThreadsFit, Next
    PROVE  Types'
  <1> USE DEF Types
  <1>1. ASSUME NEW w \in Worker, TakeSlot(w) PROVE Types'
    <2>1. /\ slot[w] \in Task /\ StartRun(w, slot[w]) /\ UNCHANGED <<injector, local, place, hand>>
          /\ slot' \in [Worker -> Task \cup {None}] /\ slot_runs' \in [Worker -> Nat]
      BY <1>1 DEF TakeSlot, queues
    <2>2. QED
      BY <2>1, RunTypes
  <1>2. ASSUME NEW w \in Worker, SkipSlot(w) PROVE Types'
    <2>1. PcTyped'
      BY <1>2, WorkerGoes DEF SkipSlot, WorkerPC
    <2>2. QED
      BY <1>2, <2>1 DEF SkipSlot, queues, place
  <1>3. ASSUME NEW w \in Worker, PopLocal(w) PROVE Types'
    <2>1. CASE local[w] = <<>>
      <3>1. PcTyped'
        BY <1>3, <2>1, WorkerGoes DEF PopLocal, WorkerPC
      <3>2. QED
        BY <1>3, <2>1, <3>1 DEF PopLocal, place
    <2>2. CASE local[w] # <<>>
      <3>1. Head(local[w]) \in Task /\ Tail(local[w]) \in Seq(Task)
        BY <2>2
      <3>2. /\ StartRun(w, Head(local[w])) /\ UNCHANGED <<injector, slot, slot_runs, place, hand>>
            /\ local' \in [Worker -> Seq(Task)]
        BY <1>3, <2>2, <3>1 DEF PopLocal
      <3>3. QED
        BY <3>1, <3>2, RunTypes
    <2>3. QED
      BY <2>1, <2>2
  <1>4. ASSUME NEW w \in Worker, StealInjector(w) PROVE Types'
    <2>1. CASE injector = <<>>
      <3>1. PcTyped'
        BY <1>4, <2>1, WorkerGoes DEF StealInjector, WorkerPC
      <3>2. QED
        BY <1>4, <2>1, <3>1 DEF StealInjector, queues, place
    <2>2. CASE injector # <<>>
      <3>1. PICK n \in 0 .. Len(injector) - 1 :
              /\ local' = [local EXCEPT ![w] = @ \o SubSeq(injector, 2, n + 1)]
              /\ injector' = SubSeq(injector, n + 2, Len(injector))
              /\ StartRun(w, Head(injector))
        BY <1>4, <2>2 DEF StealInjector
      <3>2. /\ Head(injector) \in Task /\ SubSeq(injector, 2, n + 1) \in Seq(Task)
            /\ SubSeq(injector, n + 2, Len(injector)) \in Seq(Task)
        BY <2>2, StealTypes
      <3>3. local[w] \o SubSeq(injector, 2, n + 1) \in Seq(Task)
        BY <3>2
      <3>4. local' \in [Worker -> Seq(Task)] /\ injector' \in Seq(Task)
        BY <3>1, <3>2, <3>3
      <3>5. UNCHANGED <<slot, slot_runs, place, hand>>
        BY <1>4 DEF StealInjector
      <3>6. QED
        BY <3>1, <3>2, <3>4, <3>5, RunTypes
    <2>3. QED
      BY <2>1, <2>2
  <1>5. ASSUME NEW w \in Worker, NEW v \in Worker, StealFrom(w, v) PROVE Types'
    <2>1. CASE local[v] = <<>>
      BY <1>5, <2>1 DEF StealFrom, place, PcTyped
    <2>2. CASE local[v] # <<>>
      <3>1. PICK n \in 0 .. Len(local[v]) - 1 :
              /\ local' = [u \in Worker |->
                     IF u = v THEN SubSeq(local[v], n + 2, Len(local[v]))
                     ELSE IF u = w THEN local[w] \o SubSeq(local[v], 2, n + 1)
                     ELSE local[u]]
              /\ StartRun(w, Head(local[v]))
        BY <1>5, <2>2 DEF StealFrom
      <3>2. /\ Head(local[v]) \in Task /\ SubSeq(local[v], 2, n + 1) \in Seq(Task)
            /\ SubSeq(local[v], n + 2, Len(local[v])) \in Seq(Task)
        BY <2>2, StealTypes
      <3>3. local[w] \o SubSeq(local[v], 2, n + 1) \in Seq(Task)
        BY <3>2
      <3>4. local' \in [Worker -> Seq(Task)]
        BY <3>1, <3>2, <3>3
      <3>5. UNCHANGED <<injector, slot, slot_runs, place, hand>>
        BY <1>5 DEF StealFrom
      <3>6. QED
        BY <3>1, <3>2, <3>4, <3>5, RunTypes
    <2>3. QED
      BY <2>1, <2>2
  <1>6. ASSUME NEW w \in Worker, Retry(w) PROVE Types'
    <2>1. PcTyped'
      BY <1>6, WorkerGoes DEF Retry, WorkerPC
    <2>2. QED
      BY <1>6, <2>1 DEF Retry, queues, mine, place
  <1>7. ASSUME NEW w \in Worker, FoundNothing(w) PROVE Types'
    <2>1. PcTyped'
      BY <1>7, WorkerGoes DEF FoundNothing, WorkerPC
    <2>2. fails' \in [Worker -> Nat]
      <3>1. CASE fails[w] + 1 <= IDLE_TRIES
        <4>1. fails[w] + 1 \in Nat /\ fails' = [fails EXCEPT ![w] = fails[w] + 1]
          BY <1>7, <3>1 DEF FoundNothing
        <4>2. QED
          BY <4>1
      <3>2. CASE ~(fails[w] + 1 <= IDLE_TRIES)
        BY <1>7, <3>2 DEF FoundNothing
      <3>3. QED
        BY <3>1, <3>2
    <2>3. QED
      BY <1>7, <2>1, <2>2 DEF FoundNothing, queues, place
  <1>8. ASSUME NEW w \in Worker, Wait(w) PROVE Types'
    <2>1. notified' \in BOOLEAN
      BY <1>8 DEF Wait
    <2>2. PcTyped'
      BY <1>8, WorkerGoes DEF Wait, WorkerPC
    <2>3. sleep' \in Nat /\ fails' \in [Worker -> Nat]
      BY <1>8 DEF Wait
    <2>4. QED
      BY <1>8, <2>1, <2>2, <2>3 DEF Wait, queues
  <1>9. ASSUME NEW t \in Thread, NEW k \in Task, Wake(t, k) PROVE Types'
    <2>1. PcTyped'
      <3>1. CASE UNCHANGED pc
        BY <3>1 DEF PcTyped
      <3>2. CASE Goto(t, "schedule")
        BY <3>2, AnyGoes DEF SharedPC
      <3>3. QED
        BY <1>9, <3>1, <3>2 DEF Wake
    <2>2. task' \in [Task -> {"idle", "scheduled", "running", "rewoken"}]
      BY <1>9 DEF Wake
    <2>3. hand' \in [Thread -> Task \cup {None}]
      BY <1>9 DEF Wake
    <2>4. QED
      BY <1>9, <2>1, <2>2, <2>3 DEF Wake, queues, mine, place
  <1>10. ASSUME NEW w \in Worker, EndRun(w) PROVE Types'
    <2>1. running[w] \in Task /\ w \in Thread
      BY <1>10 DEF EndRun, ThreadsFit, RunsFit, Thread
    <2>2. PcTyped'
      BY <1>10, WorkerGoes DEF EndRun, WorkerPC, SharedPC
    <2>3. task' \in [Task -> {"idle", "scheduled", "running", "rewoken"}]
      BY <1>10, <2>1 DEF EndRun
    <2>4. hand' \in [Thread -> Task \cup {None}] /\ running' \in [Worker -> Task \cup {None}]
      BY <1>10, <2>1 DEF EndRun
    <2>5. QED
      BY <1>10, <2>2, <2>3, <2>4 DEF EndRun, queues, mine, place
  <1>11. ASSUME NEW w \in Thread, ScheduleOnWorker(w) PROVE Types'
    <2>1. w \in Worker /\ hand[w] \in Task
      BY <1>11 DEF ScheduleOnWorker, ThreadsFit, HandsFit
    <2>2. PcTyped'
      BY <1>11, <2>1, WorkerGoes DEF ScheduleOnWorker, WorkerPC, SharedPC
    <2>3. local' \in [Worker -> Seq(Task)]
      <3>1. CASE slot[w] = None
        BY <1>11, <3>1 DEF ScheduleOnWorker
      <3>2. CASE slot[w] # None
        <4>1. slot[w] \in Task /\ local[w] \in Seq(Task)
          BY <2>1, <3>2
        <4>2. Append(local[w], slot[w]) \in Seq(Task)
          BY <4>1
        <4>3. local' = [local EXCEPT ![w] = Append(local[w], slot[w])]
          BY <1>11, <3>2 DEF ScheduleOnWorker
        <4>4. QED
          BY <4>2, <4>3
      <3>3. QED
        BY <3>1, <3>2
    <2>4. slot' \in [Worker -> Task \cup {None}] /\ hand' \in [Thread -> Task \cup {None}]
      BY <1>11, <2>1 DEF ScheduleOnWorker
    <2>5. QED
      BY <1>11, <2>2, <2>3, <2>4 DEF ScheduleOnWorker, place
  <1>12. ASSUME NEW x \in Thread, ScheduleElsewhere(x) PROVE Types'
    <2>1. hand[x] \in Task
      BY <1>12 DEF ScheduleElsewhere, ThreadsFit, HandsFit
    <2>2. injector' \in Seq(Task)
      BY <1>12, <2>1 DEF ScheduleElsewhere
    <2>3. PcTyped'
      BY <1>12, ExecutorAssumption DEF PcTyped, ScheduleElsewhere, Thread, WorkerPC, SharedPC
    <2>4. QED
      BY <1>12, <2>2, <2>3 DEF ScheduleElsewhere, mine, place
  <1>13. ASSUME NEW t \in Thread, LoadNotified(t) PROVE Types'
    <2>1. PcTyped'
      BY <1>13, ExecutorAssumption
         DEF PcTyped, LoadNotified, AfterNotify, Goto, Thread, WorkerPC, SharedPC
    <2>2. QED
      BY <1>13, <2>1 DEF LoadNotified, queues, mine, place
  <1>14. ASSUME NEW t \in Thread, NotifyOne(t) PROVE Types'
    <2>1. sleep' \in Nat
      BY <1>14 DEF NotifyOne
    <2>2. notified' \in BOOLEAN
      BY <1>14 DEF NotifyOne
    <2>3. PcTyped'
      <3>1. AfterNotify(t) \in {"find", "run", "idle"} /\ (AfterNotify(t) = "idle" <=> t \in External)
        BY DEF AfterNotify
      <3>2. CASE pc' = [pc EXCEPT ![t] = AfterNotify(t)]
        BY <3>1, <3>2, ExecutorAssumption DEF PcTyped, Thread, WorkerPC, SharedPC
      <3>3. ASSUME NEW w \in Worker, pc' = [[pc EXCEPT ![w] = "find"] EXCEPT ![t] = AfterNotify(t)]
            PROVE  PcTyped'
        BY <3>1, <3>3, ExecutorAssumption DEF PcTyped, Thread, WorkerPC, SharedPC
      <3>4. QED
        BY <1>14, <3>2, <3>3 DEF NotifyOne, Signalled, Asleep, Goto
    <2>4. QED
      BY <1>14, <2>1, <2>2, <2>3 DEF NotifyOne, queues, mine
  <1>15. QED
    BY <1>1, <1>2, <1>3, <1>4, <1>5, <1>6, <1>7, <1>8, <1>9, <1>10, <1>11, <1>12, <1>13, <1>14
       DEF Next, Search, Schedule

(* NotifyMoves: what notify_one does to the threads: it wakes a sleeping     *)
(* worker if the count says that there is one.                              *)
LEMMA NotifyMoves ==
    ASSUME Types, SleepCountExact, NEW t \in Thread, NotifyOne(t)
    PROVE  \/ /\ \E w \in Asleep :
                    /\ w # t
                    /\ pc' = [[pc EXCEPT ![w] = "find"] EXCEPT ![t] = AfterNotify(t)]
              /\ sleep' = sleep - 1 /\ UNCHANGED notified
           \/ pc' = [pc EXCEPT ![t] = AfterNotify(t)] /\ notified' /\ UNCHANGED sleep
  <1>1. CASE sleep > 0
    <2>1. Asleep # {}
      BY <1>1, FS_EmptySet DEF SleepCountExact
    <2>2. PICK w \in Asleep : pc' = [[pc EXCEPT ![w] = "find"] EXCEPT ![t] = AfterNotify(t)]
      <3>1. pc' \in {[p EXCEPT ![t] = AfterNotify(t)] : p \in Signalled}
        BY <1>1 DEF NotifyOne, Types
      <3>2. Signalled = {[pc EXCEPT ![w] = "find"] : w \in Asleep}
        BY <2>1 DEF Signalled
      <3>3. QED
        BY <3>1, <3>2
    <2>3. w # t
      BY DEF Asleep, NotifyOne
    <2>4. sleep' = sleep - 1 /\ UNCHANGED notified
      BY <1>1 DEF NotifyOne, Types
    <2>5. QED
      BY <2>2, <2>3, <2>4
  <1>2. CASE sleep = 0
    BY <1>2 DEF NotifyOne, Goto
  <1>3. QED
    BY <1>1, <1>2 DEF NotifyOne

(* HandsStep: a thread has a Runnable in its hand exactly on its way into    *)
(* schedule().                                                              *)
LEMMA HandsStep ==
    ASSUME Types, ThreadsFit, SleepCountExact, Next
    PROVE  HandsFit'
  <1> USE ExecutorAssumption DEF Types, PcTyped, ThreadsFit, HandsFit, Goto, Thread, queues, mine, place
  <1>1. ASSUME NEW w \in Worker, TakeSlot(w) \/ SkipSlot(w) \/ PopLocal(w) PROVE HandsFit'
    BY <1>1 DEF TakeSlot, SkipSlot, PopLocal, StartRun
  <1>2. ASSUME NEW w \in Worker, StealInjector(w) PROVE HandsFit'
    BY <1>2 DEF StealInjector, StartRun
  <1>3. ASSUME NEW w \in Worker, NEW v \in Worker, StealFrom(w, v) PROVE HandsFit'
    BY <1>3 DEF StealFrom, StartRun
  <1>4. ASSUME NEW w \in Worker, Retry(w) \/ FoundNothing(w) \/ Wait(w) PROVE HandsFit'
    BY <1>4 DEF Retry, FoundNothing, Wait
  <1>5. ASSUME NEW t \in Thread, NEW k \in Task, Wake(t, k) PROVE HandsFit'
    BY <1>5 DEF Wake
  <1>6. ASSUME NEW w \in Worker, EndRun(w) PROVE HandsFit'
    <2>1. running[w] \in Task /\ w \in Thread /\ hand[w] = None
      BY <1>6 DEF EndRun, RunsFit
    <2>2. CASE task[running[w]] = "rewoken"
      <3>1. hand' = [hand EXCEPT ![w] = running[w]] /\ pc' = [pc EXCEPT ![w] = "schedule"]
        BY <1>6, <2>2 DEF EndRun
      <3>2. QED
        BY <2>1, <3>1
    <2>3. CASE task[running[w]] # "rewoken"
      BY <1>6, <2>1, <2>3 DEF EndRun
    <2>4. QED
      BY <2>2, <2>3
  <1>7. ASSUME NEW t \in Thread, ScheduleOnWorker(t) PROVE HandsFit'
    BY <1>7 DEF ScheduleOnWorker
  <1>8. ASSUME NEW t \in Thread, ScheduleElsewhere(t) PROVE HandsFit'
    BY <1>8 DEF ScheduleElsewhere
  <1>9. ASSUME NEW t \in Thread, LoadNotified(t) PROVE HandsFit'
    BY <1>9 DEF LoadNotified, AfterNotify
  <1>10. ASSUME NEW t \in Thread, NotifyOne(t) PROVE HandsFit'
    <2>1. AfterNotify(t) # "schedule" /\ hand' = hand /\ pc[t] = "notify"
      BY <1>10 DEF AfterNotify, NotifyOne
    <2>2. CASE pc' = [pc EXCEPT ![t] = AfterNotify(t)]
      BY <2>1, <2>2
    <2>3. ASSUME NEW w \in Asleep, pc' = [[pc EXCEPT ![w] = "find"] EXCEPT ![t] = AfterNotify(t)]
          PROVE  HandsFit'
      BY <2>1, <2>3 DEF Asleep
    <2>4. QED
      BY <1>10, <2>2, <2>3, NotifyMoves
  <1>11. QED
    BY <1>1, <1>2, <1>3, <1>4, <1>5, <1>6, <1>7, <1>8, <1>9, <1>10 DEF Next, Search, Schedule

(* RunsStep: a worker runs a task exactly between find_runnable() and the    *)
(* end of the poll, and may schedule others meanwhile.                      *)
LEMMA RunsStep ==
    ASSUME Types, ThreadsFit, SleepCountExact, Next
    PROVE  RunsFit'
  <1> USE ExecutorAssumption
      DEF Types, PcTyped, ThreadsFit, RunsFit, Goto, Thread, SharedPC, queues, mine, place
  <1>1. ASSUME NEW w \in Worker, NEW k \in Task, StartRun(w, k) PROVE RunsFit'
    BY <1>1 DEF StartRun
  <1>2. ASSUME NEW w \in Worker, TakeSlot(w) PROVE RunsFit'
    BY <1>1, <1>2 DEF TakeSlot
  <1>3. ASSUME NEW w \in Worker, PopLocal(w) PROVE RunsFit'
    <2>1. CASE local[w] = <<>>
      BY <1>3, <2>1 DEF PopLocal
    <2>2. CASE local[w] # <<>>
      <3>1. Head(local[w]) \in Task /\ StartRun(w, Head(local[w]))
        BY <1>3, <2>2 DEF PopLocal
      <3>2. QED
        BY <1>1, <3>1
    <2>3. QED
      BY <2>1, <2>2
  <1>4. ASSUME NEW w \in Worker, StealInjector(w) PROVE RunsFit'
    <2>1. CASE injector = <<>>
      BY <1>4, <2>1 DEF StealInjector
    <2>2. CASE injector # <<>>
      <3>1. Head(injector) \in Task /\ StartRun(w, Head(injector))
        BY <1>4, <2>2 DEF StealInjector
      <3>2. QED
        BY <1>1, <3>1
    <2>3. QED
      BY <2>1, <2>2
  <1>5. ASSUME NEW w \in Worker, NEW v \in Worker, StealFrom(w, v) PROVE RunsFit'
    <2>1. CASE local[v] = <<>>
      BY <1>5, <2>1 DEF StealFrom
    <2>2. CASE local[v] # <<>>
      <3>1. Head(local[v]) \in Task /\ StartRun(w, Head(local[v]))
        BY <1>5, <2>2 DEF StealFrom
      <3>2. QED
        BY <1>1, <3>1
    <2>3. QED
      BY <2>1, <2>2
  <1>6. ASSUME NEW w \in Worker, SkipSlot(w) \/ Retry(w) PROVE RunsFit'
    BY <1>6 DEF SkipSlot, Retry
  <1>7. ASSUME NEW w \in Worker, FoundNothing(w) \/ Wait(w) PROVE RunsFit'
    <2>1. /\ UNCHANGED running /\ pc[w] \in {"steal", "wait"}
          /\ \E to \in {"find", "wait", "asleep"} : pc' = [pc EXCEPT ![w] = to]
      BY <1>7 DEF FoundNothing, Wait
    <2>2. QED
      BY <2>1
  <1>8. ASSUME NEW t \in Thread, NEW k \in Task, Wake(t, k) PROVE RunsFit'
    BY <1>8 DEF Wake
  <1>9. ASSUME NEW w \in Worker, EndRun(w) PROVE RunsFit'
    <2>1. running' = [running EXCEPT ![w] = None] /\ \E to \in {"schedule", "find"} : pc' = [pc EXCEPT ![w] = to]
      BY <1>9 DEF EndRun
    <2>2. QED
      BY <2>1
  <1>10. ASSUME NEW t \in Thread, ScheduleOnWorker(t) PROVE RunsFit'
    <2>1. UNCHANGED running /\ t \in Worker
      BY <1>10 DEF ScheduleOnWorker
    <2>2. \/ pc' = [pc EXCEPT ![t] = "load"]
          \/ pc' = [pc EXCEPT ![t] = IF running[t] = None THEN "find" ELSE "run"]
      BY <1>10 DEF ScheduleOnWorker
    <2>3. QED
      BY <2>1, <2>2
  <1>11. ASSUME NEW t \in Thread, ScheduleElsewhere(t) PROVE RunsFit'
    BY <1>11 DEF ScheduleElsewhere
  <1>12. ASSUME NEW t \in Thread, LoadNotified(t) PROVE RunsFit'
    BY <1>12 DEF LoadNotified, AfterNotify
  <1>13. ASSUME NEW t \in Thread, NotifyOne(t) PROVE RunsFit'
    <2>1. /\ t \in Worker => AfterNotify(t) = IF running[t] = None THEN "find" ELSE "run"
          /\ running' = running
      BY <1>13 DEF AfterNotify, NotifyOne
    <2>2. CASE pc' = [pc EXCEPT ![t] = AfterNotify(t)]
      BY <2>1, <2>2
    <2>3. ASSUME NEW w \in Asleep, pc' = [[pc EXCEPT ![w] = "find"] EXCEPT ![t] = AfterNotify(t)]
          PROVE  RunsFit'
      BY <2>1, <2>3 DEF Asleep
    <2>4. QED
      BY <1>13, <2>2, <2>3, NotifyMoves
  <1>14. QED
    BY <1>2, <1>3, <1>4, <1>5, <1>6, <1>7, <1>8, <1>9, <1>10, <1>11, <1>12, <1>13
       DEF Next, Search, Schedule

(* SearchStep: a worker that goes to sleep has emptied its queue and slot.  *)
LEMMA SearchStep ==
    ASSUME Types, ThreadsFit, SleepCountExact, Next
    PROVE  SearchFits'
  <1> USE ExecutorAssumption DEF Types, PcTyped, ThreadsFit, SearchFits, Goto, Thread, queues, mine, place
  <1>1. ASSUME NEW w \in Worker,
               \A u \in Worker \ {w} : /\ pc'[u] = pc[u] /\ local'[u] = local[u] /\ slot'[u] = slot[u]
                                      /\ slot_runs'[u] = slot_runs[u] /\ fails'[u] = fails[u],
               WorkerFits(w)'
        PROVE  SearchFits'
    BY <1>1 DEF WorkerFits
  <1>2. ASSUME NEW w \in Worker, TakeSlot(w) PROVE SearchFits'
    <2>1. WorkerFits(w)'
      BY <1>2 DEF TakeSlot, StartRun, WorkerFits
    <2>2. QED
      BY <1>1, <1>2, <2>1 DEF TakeSlot, StartRun
  <1>3. ASSUME NEW w \in Worker, SkipSlot(w) PROVE SearchFits'
    <2>1. WorkerFits(w)'
      BY <1>3 DEF SkipSlot, WorkerFits
    <2>2. QED
      BY <1>1, <1>3, <2>1 DEF SkipSlot
  <1>4. ASSUME NEW w \in Worker, PopLocal(w) PROVE SearchFits'
    <2>1. CASE local[w] = <<>>
      <3>1. WorkerFits(w)'
        BY <1>4, <2>1 DEF PopLocal, WorkerFits
      <3>2. QED
        BY <1>1, <1>4, <2>1, <3>1 DEF PopLocal
    <2>2. CASE local[w] # <<>>
      <3>1. WorkerFits(w)'
        BY <1>4, <2>2 DEF PopLocal, StartRun, WorkerFits
      <3>2. QED
        BY <1>1, <1>4, <2>2, <3>1 DEF PopLocal, StartRun
    <2>3. QED
      BY <2>1, <2>2
  <1>5. ASSUME NEW w \in Worker, StealInjector(w) PROVE SearchFits'
    <2>1. CASE injector = <<>>
      <3>1. WorkerFits(w)'
        BY <1>5, <2>1 DEF StealInjector, WorkerFits
      <3>2. QED
        BY <1>1, <1>5, <2>1, <3>1 DEF StealInjector
    <2>2. CASE injector # <<>>
      <3>1. StartRun(w, Head(injector)) /\ UNCHANGED <<slot, slot_runs>>
        BY <1>5, <2>2 DEF StealInjector
      <3>2. WorkerFits(w)'
        BY <3>1 DEF StartRun, WorkerFits
      <3>3. \A u \in Worker \ {w} : local'[u] = local[u]
        BY <1>5, <2>2 DEF StealInjector
      <3>4. QED
        BY <1>1, <3>1, <3>2, <3>3 DEF StartRun
    <2>3. QED
      BY <2>1, <2>2
  <1>6. ASSUME NEW w \in Worker, NEW v \in Worker, StealFrom(w, v) PROVE SearchFits'
    <2>1. CASE local[v] = <<>>
      BY <1>6, <2>1 DEF StealFrom, WorkerFits
    <2>2. CASE local[v] # <<>>
      <3>1. StartRun(w, Head(local[v])) /\ UNCHANGED <<slot, slot_runs>>
        BY <1>6, <2>2 DEF StealFrom
      <3>2. WorkerFits(w)'
        BY <3>1 DEF StartRun, WorkerFits
      <3>3. \A u \in Worker \ {w, v} : local'[u] = local[u]
        BY <1>6, <2>2 DEF StealFrom
      <3>4. ASSUME NEW u \in Worker, u # w PROVE WorkerFits(u)'
        <4>1. pc'[u] = pc[u] /\ fails'[u] = fails[u] /\ slot'[u] = slot[u] /\ slot_runs'[u] = slot_runs[u]
          BY <3>1, <3>4 DEF StartRun
        <4>2. local'[u] = local[u] \/ local[u] # <<>>
          BY <2>2, <3>3, <3>4
        <4>3. WorkerFits(u)
          OBVIOUS
        <4>4. QED
          BY <4>1, <4>2, <4>3 DEF WorkerFits
      <3>5. QED
        BY <3>2, <3>4
    <2>3. QED
      BY <2>1, <2>2
  <1>7. ASSUME NEW w \in Worker, Retry(w) PROVE SearchFits'
    <2>1. WorkerFits(w)'
      BY <1>7 DEF Retry, WorkerFits
    <2>2. QED
      BY <1>1, <1>7, <2>1 DEF Retry
  <1>8. ASSUME NEW w \in Worker, FoundNothing(w) PROVE SearchFits'
    <2>1. CASE fails[w] + 1 <= IDLE_TRIES
      <3>1. WorkerFits(w)'
        BY <1>8, <2>1 DEF FoundNothing, WorkerFits
      <3>2. QED
        BY <1>1, <1>8, <2>1, <3>1 DEF FoundNothing
    <2>2. CASE ~(fails[w] + 1 <= IDLE_TRIES)
      <3>1. fails[w] > 0
        BY <2>2
      <3>2. WorkerFits(w)'
        BY <1>8, <2>2, <3>1 DEF FoundNothing, WorkerFits
      <3>3. QED
        BY <1>1, <1>8, <2>2, <3>2 DEF FoundNothing
    <2>3. QED
      BY <2>1, <2>2
  <1>9. ASSUME NEW w \in Worker, Wait(w) PROVE SearchFits'
    <2>1. WorkerFits(w)'
      BY <1>9 DEF Wait, WorkerFits
    <2>2. QED
      BY <1>1, <1>9, <2>1 DEF Wait
  <1>10. ASSUME NEW t \in Thread, NEW k \in Task, Wake(t, k) PROVE SearchFits'
    BY <1>10 DEF Wake, WorkerFits
  <1>11. ASSUME NEW w \in Worker, EndRun(w) PROVE SearchFits'
    <2>1. PICK to \in {"find", "schedule"} : pc' = [pc EXCEPT ![w] = to] /\ pc[w] = "run"
      BY <1>11 DEF EndRun
    <2>2. WorkerFits(w)'
      BY <1>11, <2>1 DEF EndRun, WorkerFits
    <2>3. QED
      BY <1>1, <1>11, <2>1, <2>2 DEF EndRun
  <1>12. ASSUME NEW t \in Thread, ScheduleOnWorker(t) PROVE SearchFits'
    <2>1. PICK to \in {"find", "run", "load"} : pc' = [pc EXCEPT ![t] = to] /\ pc[t] = "schedule"
      BY <1>12 DEF ScheduleOnWorker
    <2>2. t \in Worker /\ WorkerFits(t)'
      BY <1>12, <2>1 DEF ScheduleOnWorker, WorkerFits
    <2>3. QED
      BY <1>1, <1>12, <2>1, <2>2 DEF ScheduleOnWorker
  <1>13. ASSUME NEW t \in Thread, ScheduleElsewhere(t) PROVE SearchFits'
    BY <1>13 DEF ScheduleElsewhere, WorkerFits
  <1>14. ASSUME NEW t \in Thread, LoadNotified(t) PROVE SearchFits'
    BY <1>14 DEF LoadNotified, AfterNotify, WorkerFits
  <1>15. ASSUME NEW t \in Thread, NotifyOne(t) PROVE SearchFits'
    <2>1. /\ AfterNotify(t) \in {"idle", "find", "run"} /\ pc[t] = "notify"
          /\ UNCHANGED <<local, slot, slot_runs, fails>>
      BY <1>15 DEF AfterNotify, NotifyOne
    <2>2. CASE pc' = [pc EXCEPT ![t] = AfterNotify(t)]
      BY <2>1, <2>2 DEF WorkerFits
    <2>3. ASSUME NEW w \in Asleep, pc' = [[pc EXCEPT ![w] = "find"] EXCEPT ![t] = AfterNotify(t)]
          PROVE  SearchFits'
      BY <2>1, <2>3 DEF Asleep, WorkerFits
    <2>4. QED
      BY <1>15, <2>2, <2>3, NotifyMoves
  <1>16. QED
    BY <1>2, <1>3, <1>4, <1>5, <1>6, <1>7, <1>8, <1>9, <1>10, <1>11, <1>12, <1>13, <1>14, <1>15
       DEF Next, Search, Schedule

-----------------------------------------------------------------------------
(* Who sleeps.                                                              *)

Sleeping(p) == {w \in Worker : p[w] = "asleep"}

(* SleepingFinite: there are finitely many workers.                         *)
LEMMA SleepingFinite ==
    ASSUME NEW p PROVE IsFiniteSet(Sleeping(p)) /\ Cardinality(Sleeping(p)) \in Nat
  <1>1. Sleeping(p) \in SUBSET Worker
    BY DEF Sleeping
  <1>2. QED
    BY <1>1, ExecutorAssumption, FS_Subset, FS_CardinalityType

(* SleepStep: the count in Sleepers stays exact.                            *)
LEMMA SleepStep ==
    ASSUME Types, ThreadsFit, SleepCountExact, Next
    PROVE  SleepCountExact'
  <1>1. /\ sleep = Cardinality(Sleeping(pc)) /\ IsFiniteSet(Sleeping(pc)) /\ sleep \in Nat
    BY SleepingFinite DEF SleepCountExact, Asleep, Sleeping
  <1>2. SUFFICES sleep' = Cardinality(Sleeping(pc'))
    BY DEF SleepCountExact, Asleep, Sleeping
  <1>3. ASSUME UNCHANGED sleep, \A w \in Worker : pc'[w] = "asleep" <=> pc[w] = "asleep"
        PROVE  sleep' = Cardinality(Sleeping(pc'))
    <2>1. Sleeping(pc') = Sleeping(pc)
      BY <1>3 DEF Sleeping
    <2>2. QED
      BY <1>1, <1>3, <2>1
  <1> USE ExecutorAssumption DEF Types, PcTyped, Goto, Thread, queues, mine, place
  <1>4. ASSUME NEW w \in Worker, TakeSlot(w) \/ SkipSlot(w) \/ PopLocal(w) \/ Retry(w)
        PROVE  UNCHANGED sleep /\ \A u \in Worker : pc'[u] = "asleep" <=> pc[u] = "asleep"
    BY <1>4 DEF TakeSlot, SkipSlot, PopLocal, StartRun, Retry
  <1>5. ASSUME NEW w \in Worker, StealInjector(w)
        PROVE  UNCHANGED sleep /\ \A u \in Worker : pc'[u] = "asleep" <=> pc[u] = "asleep"
    BY <1>5 DEF StealInjector, StartRun
  <1>6. ASSUME NEW w \in Worker, NEW v \in Worker, StealFrom(w, v)
        PROVE  UNCHANGED sleep /\ \A u \in Worker : pc'[u] = "asleep" <=> pc[u] = "asleep"
    BY <1>6 DEF StealFrom, StartRun
  <1>7. ASSUME NEW w \in Worker, FoundNothing(w) \/ EndRun(w)
        PROVE  UNCHANGED sleep /\ \A u \in Worker : pc'[u] = "asleep" <=> pc[u] = "asleep"
    BY <1>7 DEF FoundNothing, EndRun
  <1>8. ASSUME NEW t \in Thread, NEW k \in Task, Wake(t, k)
        PROVE  UNCHANGED sleep /\ \A u \in Worker : pc'[u] = "asleep" <=> pc[u] = "asleep"
    BY <1>8 DEF Wake
  <1>9. ASSUME NEW t \in Thread, ScheduleOnWorker(t) \/ ScheduleElsewhere(t) \/ LoadNotified(t)
        PROVE  UNCHANGED sleep /\ \A u \in Worker : pc'[u] = "asleep" <=> pc[u] = "asleep"
    <2>1. CASE ScheduleOnWorker(t)
      <3>1. \E to \in {"load", "find", "run"} : pc' = [pc EXCEPT ![t] = to]
        BY <2>1 DEF ScheduleOnWorker
      <3>2. UNCHANGED sleep /\ pc[t] = "schedule"
        BY <2>1 DEF ScheduleOnWorker
      <3>3. QED
        BY <3>1, <3>2
    <2>2. CASE ScheduleElsewhere(t)
      BY <2>2 DEF ScheduleElsewhere
    <2>3. CASE LoadNotified(t)
      <3>1. \E to \in {"idle", "find", "run", "notify"} : pc' = [pc EXCEPT ![t] = to]
        BY <2>3 DEF LoadNotified, AfterNotify
      <3>2. UNCHANGED sleep /\ pc[t] = "load"
        BY <2>3 DEF LoadNotified
      <3>3. QED
        BY <3>1, <3>2
    <2>4. QED
      BY <1>9, <2>1, <2>2, <2>3
  <1>10. ASSUME NEW w \in Worker, Wait(w)
         PROVE  sleep' = Cardinality(Sleeping(pc'))
    <2>1. CASE notified
      BY <1>3, <1>10, <2>1 DEF Wait
    <2>2. CASE ~notified
      <3>1. sleep' = sleep + 1 /\ pc' = [pc EXCEPT ![w] = "asleep"] /\ pc[w] = "wait"
        BY <1>10, <2>2 DEF Wait
      <3>2. Sleeping(pc') = Sleeping(pc) \cup {w} /\ w \notin Sleeping(pc)
        BY <3>1 DEF Sleeping
      <3>3. QED
        BY <1>1, <3>1, <3>2, FS_AddElement
    <2>3. QED
      BY <2>1, <2>2
  <1>11. ASSUME NEW t \in Thread, NotifyOne(t)
         PROVE  sleep' = Cardinality(Sleeping(pc'))
    <2>1. AfterNotify(t) # "asleep" /\ pc[t] = "notify"
      BY <1>11 DEF AfterNotify, NotifyOne
    <2>2. CASE pc' = [pc EXCEPT ![t] = AfterNotify(t)] /\ UNCHANGED sleep
      BY <1>3, <2>1, <2>2
    <2>3. ASSUME NEW w \in Asleep, sleep' = sleep - 1,
                 pc' = [[pc EXCEPT ![w] = "find"] EXCEPT ![t] = AfterNotify(t)]
          PROVE  sleep' = Cardinality(Sleeping(pc'))
      <3>1. Sleeping(pc') = Sleeping(pc) \ {w} /\ w \in Sleeping(pc)
        BY <2>1, <2>3 DEF Sleeping, Asleep
      <3>2. Cardinality(Sleeping(pc) \ {w}) = Cardinality(Sleeping(pc)) - 1
        BY <1>1, <3>1, FS_RemoveElement
      <3>3. QED
        BY <1>1, <2>3, <3>1, <3>2
    <2>4. QED
      BY <1>11, <2>2, <2>3, NotifyMoves
  <1>12. QED
    BY <1>3, <1>4, <1>5, <1>6, <1>7, <1>8, <1>9, <1>10, <1>11 DEF Next, Search, Schedule

(* WatchStep: a task in the injector stays announced or watched for.        *)
LEMMA WatchStep ==
    ASSUME Types, ThreadsFit, SleepCountExact, InjectorWatched, Next
    PROVE  InjectorWatched'
  <1> USE ExecutorAssumption
      DEF Types, PcTyped, InjectorWatched, Unaware, Goto, Thread, queues, mine, place
  <1>1. ASSUME NEW w \in Worker, NEW k, StartRun(w, k) PROVE InjectorWatched'
    BY <1>1 DEF StartRun
  <1>2. ASSUME NEW w \in Worker, TakeSlot(w) PROVE InjectorWatched'
    BY <1>1, <1>2 DEF TakeSlot
  <1>3. ASSUME NEW w \in Worker, SkipSlot(w) \/ Retry(w) PROVE InjectorWatched'
    BY <1>3 DEF SkipSlot, Retry
  <1>4. ASSUME NEW w \in Worker, PopLocal(w) PROVE InjectorWatched'
    BY <1>1, <1>4 DEF PopLocal
  <1>5. ASSUME NEW w \in Worker, StealInjector(w) PROVE InjectorWatched'
    BY <1>1, <1>5 DEF StealInjector
  <1>6. ASSUME NEW w \in Worker, NEW v \in Worker, StealFrom(w, v) PROVE InjectorWatched'
    BY <1>1, <1>6 DEF StealFrom
  <1>7. ASSUME NEW w \in Worker, FoundNothing(w) PROVE InjectorWatched'
    BY <1>7 DEF FoundNothing
  <1>8. ASSUME NEW w \in Worker, Wait(w) PROVE InjectorWatched'
    <2>1. CASE notified
      BY <1>8, <2>1 DEF Wait
    <2>2. CASE ~notified
      BY <1>8, <2>2 DEF Wait
    <2>3. QED
      BY <2>1, <2>2
  <1>9. ASSUME NEW t \in Thread, NEW k \in Task, Wake(t, k) PROVE InjectorWatched'
    BY <1>9 DEF Wake
  <1>10. ASSUME NEW w \in Worker, EndRun(w) PROVE InjectorWatched'
    <2>1. \E to \in {"schedule", "find"} : pc' = [pc EXCEPT ![w] = to]
      BY <1>10 DEF EndRun
    <2>2. UNCHANGED <<injector, notified>> /\ pc[w] = "run"
      BY <1>10 DEF EndRun
    <2>3. pc'[w] \notin Unaware
      BY <2>1
    <2>4. QED
      BY <2>2, <2>3
  <1>11. ASSUME NEW t \in Thread, ScheduleOnWorker(t) PROVE InjectorWatched'
    <2>1. UNCHANGED <<injector, notified>> /\ t \in Worker
      BY <1>11 DEF ScheduleOnWorker
    <2>2. \E to \in {"load", "find", "run"} : pc' = [pc EXCEPT ![t] = to]
      BY <1>11 DEF ScheduleOnWorker
    <2>3. pc'[t] \notin Unaware
      BY <2>1, <2>2
    <2>4. QED
      BY <2>1, <2>3
  <1>12. ASSUME NEW t \in Thread, ScheduleElsewhere(t) PROVE InjectorWatched'
    BY <1>12 DEF ScheduleElsewhere
  <1>13. ASSUME NEW t \in Thread, LoadNotified(t) PROVE InjectorWatched'
    <2>1. CASE notified
      BY <1>13, <2>1 DEF LoadNotified
    <2>2. CASE ~notified
      BY <1>13, <2>2 DEF LoadNotified
    <2>3. QED
      BY <2>1, <2>2
  <1>14. ASSUME NEW t \in Thread, NotifyOne(t) PROVE InjectorWatched'
    <2>1. CASE notified'
      BY <2>1
    <2>2. ASSUME NEW w \in Asleep, w # t,
                 pc' = [[pc EXCEPT ![w] = "find"] EXCEPT ![t] = AfterNotify(t)]
          PROVE  InjectorWatched'
      <3>1. w \in Worker /\ pc'[w] = "find"
        BY <2>2 DEF Asleep
      <3>2. QED
        BY <3>1
    <2>3. QED
      BY <1>14, <2>1, <2>2, NotifyMoves
  <1>15. QED
    BY <1>2, <1>3, <1>4, <1>5, <1>6, <1>7, <1>8, <1>9, <1>10, <1>11, <1>12, <1>13, <1>14
       DEF Next, Search, Schedule

-----------------------------------------------------------------------------
(* ExecutorInvInit: no task is scheduled, no worker has started.            *)
LEMMA ExecutorInvInit == Init => ExecutorInv
  <1> SUFFICES ASSUME Init PROVE ExecutorInv
    OBVIOUS
  <1> USE ExecutorAssumption DEF Init, Thread
  <1>1. Types
    <2>1. notified \in BOOLEAN
      OBVIOUS
    <2>2. PcTyped
      BY DEF PcTyped, WorkerPC, SharedPC
    <2>3. injector \in Seq(Task) /\ local \in [Worker -> Seq(Task)]
      BY EmptyQueue
    <2>4. QED
      BY <2>1, <2>2, <2>3 DEF Types
  <1>2. ThreadsFit
    BY DEF ThreadsFit, HandsFit, RunsFit, SearchFits, WorkerFits
  <1>3. QueuesApart /\ SlotsApart /\ HandsApart
    BY EmptyQueue DEF QueuesApart, SlotsApart, HandsApart
  <1>4. ScheduledFits /\ RunningFits
    BY EmptyQueue DEF ScheduledFits, RunningFits, Somewhere
  <1>5. SleepCountExact
    <2>1. Asleep = {}
      BY DEF Asleep
    <2>2. QED
      BY <2>1, FS_EmptySet DEF SleepCountExact
  <1>6. InjectorWatched
    BY DEF InjectorWatched
  <1>7. QED
    BY <1>1, <1>2, <1>3, <1>4, <1>5, <1>6 DEF ExecutorInv, TasksFit

(* ExecutorInvStep: every step of a thread preserves the invariant.         *)
LEMMA ExecutorInvStep == ExecutorInv /\ [Next]_vars => ExecutorInv'
  <1> SUFFICES ASSUME ExecutorInv, [Next]_vars PROVE ExecutorInv'
    OBVIOUS
  <1>1. CASE Next
    BY <1>1, TypesStep, HandsStep, RunsStep, SearchStep, TasksStep, SleepStep, WatchStep
       DEF ExecutorInv, ThreadsFit
  <1>2. CASE UNCHANGED vars
    <2> USE <1>2 DEF vars, queues, mine, place
    <2>1. Types'
      BY DEF ExecutorInv, Types, PcTyped
    <2>2. ThreadsFit'
      BY DEF ExecutorInv, ThreadsFit, HandsFit, RunsFit, SearchFits, WorkerFits
    <2>3. TasksFit'
      BY DEF ExecutorInv, TasksFit, QueuesApart, SlotsApart, HandsApart, ScheduledFits, Somewhere,
             RunningFits
    <2>4. SleepCountExact' /\ InjectorWatched'
      BY DEF ExecutorInv, SleepCountExact, Asleep, InjectorWatched
    <2>5. QED
      BY <2>1, <2>2, <2>3, <2>4 DEF ExecutorInv
  <1>3. QED
    BY <1>1, <1>2

(* TasksFitImplies: a task that is somewhere is in exactly one place.       *)
LEMMA TasksFitImplies ==
    ASSUME Types, TasksFit
    PROVE  OneRunnable
  <1>1. IsInjective(injector) /\ \A w \in Worker : IsInjective(local[w])
    BY DEF TasksFit, QueuesApart
  <1>2. ASSUME NEW k \in Task
        PROVE  Cardinality(Places(k)) = IF task[k] = "scheduled" THEN 1 ELSE 0
    <2>1. CASE task[k] # "scheduled"
      <3>1. Places(k) = {}
        BY <2>1 DEF TasksFit, ScheduledFits, Somewhere, Places
      <3>2. QED
        BY <2>1, <3>1, FS_EmptySet
    <2>2. CASE k \in Range(injector)
      <3>1. Places(k) = {<<"injector", None>>}
        BY <2>2, ExecutorAssumption DEF TasksFit, QueuesApart, SlotsApart, HandsApart, Places
      <3>2. task[k] = "scheduled"
        BY <2>2 DEF TasksFit, ScheduledFits, Somewhere
      <3>3. QED
        BY <3>1, <3>2, FS_Singleton
    <2>3. ASSUME NEW w \in Worker, k \in Range(local[w])
          PROVE  Cardinality(Places(k)) = IF task[k] = "scheduled" THEN 1 ELSE 0
      <3>1. Places(k) = {<<"local", w>>}
        BY <2>3, ExecutorAssumption DEF TasksFit, QueuesApart, SlotsApart, HandsApart, Places
      <3>2. task[k] = "scheduled"
        BY <2>3 DEF TasksFit, ScheduledFits, Somewhere
      <3>3. QED
        BY <3>1, <3>2, FS_Singleton
    <2>4. ASSUME NEW w \in Worker, slot[w] = k
          PROVE  Cardinality(Places(k)) = IF task[k] = "scheduled" THEN 1 ELSE 0
      <3>1. Places(k) = {<<"slot", w>>}
        BY <2>4, ExecutorAssumption DEF TasksFit, QueuesApart, SlotsApart, HandsApart, Places
      <3>2. task[k] = "scheduled"
        BY <2>4 DEF TasksFit, ScheduledFits, Somewhere
      <3>3. QED
        BY <3>1, <3>2, FS_Singleton
    <2>5. ASSUME NEW t \in Thread, hand[t] = k
          PROVE  Cardinality(Places(k)) = IF task[k] = "scheduled" THEN 1 ELSE 0
      <3>1. Places(k) = {<<"hand", t>>}
        BY <2>5, ExecutorAssumption DEF TasksFit, QueuesApart, SlotsApart, HandsApart, Places
      <3>2. task[k] = "scheduled"
        BY <2>5 DEF TasksFit, ScheduledFits, Somewhere
      <3>3. QED
        BY <3>1, <3>2, FS_Singleton
    <2>6. QED
      BY <2>1, <2>2, <2>3, <2>4, <2>5 DEF TasksFit, ScheduledFits, Somewhere
  <1>3. ASSUME NEW k \in Task
        PROVE  Cardinality({w \in Worker : running[w] = k})
                 = IF task[k] \in {"running", "rewoken"} THEN 1 ELSE 0
    <2>1. CASE task[k] \in {"running", "rewoken"}
      <3>1. PICK w \in Worker : running[w] = k
        BY <2>1 DEF TasksFit, RunningFits
      <3>2. {v \in Worker : running[v] = k} = {w}
        BY <3>1, ExecutorAssumption DEF TasksFit, RunningFits
      <3>3. QED
        BY <2>1, <3>2, FS_Singleton
    <2>2. CASE task[k] \notin {"running", "rewoken"}
      <3>1. {v \in Worker : running[v] = k} = {}
        BY <2>2 DEF TasksFit, RunningFits
      <3>2. QED
        BY <2>2, <3>1, FS_EmptySet
    <2>3. QED
      BY <2>1, <2>2
  <1>4. QED
    BY <1>1, <1>2, <1>3 DEF OneRunnable

(* ExecutorInvariant: the invariant holds throughout, for any numbers of     *)
(* workers, other threads and tasks, any SLOT_LIMIT and any IDLE_TRIES.     *)
THEOREM ExecutorInvariant == Spec => []ExecutorInv
  BY ExecutorInvInit, ExecutorInvStep, PTL DEF Spec

(* NoTaskLostOrDoubled: a scheduled task is in exactly one slot, queue or    *)
(* hand, and a running one on exactly one worker (pool.rs).                 *)
THEOREM NoTaskLostOrDoubled == Spec => []OneRunnable
  <1>1. ExecutorInv => OneRunnable
    BY TasksFitImplies DEF ExecutorInv
  <1>2. QED
    BY <1>1, ExecutorInvariant, PTL

(* SleepersCounted: Sleepers.sleep is the number of sleeping workers, as     *)
(* long as the condition variable does not wake one by itself (sleepers.rs). *)
THEOREM SleepersCounted == Spec => []SleepCountExact
  <1>1. ExecutorInv => SleepCountExact
    BY DEF ExecutorInv
  <1>2. QED
    BY <1>1, ExecutorInvariant, PTL

(* TasksAreFound: the workers do not all sleep beside a queued task that     *)
(* nobody announces, and none sleeps on a task of its own (pool.rs).        *)
THEOREM TasksAreFound == Spec => []NoTaskStranded
  <1>1. ExecutorInv => NoTaskStranded
    <2>1. SUFFICES ASSUME ExecutorInv PROVE NoTaskStranded
      OBVIOUS
    <2>2. \A w \in Asleep : w \in Worker /\ slot[w] = None /\ local[w] = <<>> /\ pc[w] \in Unaware
      BY <2>1 DEF ExecutorInv, ThreadsFit, SearchFits, WorkerFits, Asleep, Unaware
    <2>3. QED
      BY <2>1, <2>2 DEF NoTaskStranded, ExecutorInv, InjectorWatched
  <1>2. QED
    BY <1>1, ExecutorInvariant, PTL
=============================================================================
