----------------------------- MODULE TaskLocals -----------------------------
(***************************************************************************)
(* Task-local keys, the map of task-locals and the lazily made part of a    *)
(* task: src/task/task_local.rs, task.rs and task_id.rs.                    *)
(*                                                                         *)
(* Thread c runs task c.  One step is one atomic operation; the map is only  *)
(* touched by the thread that runs the task.  The initialiser of a           *)
(* task-local runs between the search for its key and the insertion, and may  *)
(* use other task-locals: they are found, or initialised and inserted first. *)
(***************************************************************************)
EXTENDS Naturals, Sequences, FiniteSets

CONSTANTS
    Callers,    \* how many threads, each running a task
    Locals,     \* how many LocalKeys there are
    MaxEntries  \* bound: how long a map may grow

ASSUME LocalAssumption == Callers \in Nat /\ Locals \in Nat /\ MaxEntries \in Nat

VARIABLES
    key_counter,    \* COUNTER of LocalKey::key
    keys,           \* keys[l]: __key of LocalKey l, 0 before its first use
    id_counter,     \* COUNTER of TaskId::generate
    inner,          \* inner[t]: the id in Task.inner of task t, 0 while it is null
    entries,        \* entries[t]: the LocalsMap of task t
    nested,         \* nested[t]: the initialisers that run in t, the innermost last
    outrun,         \* history: the tasks in which an initialiser has inserted a
                    \* smaller key than that of the value it was called for
    ids,            \* ids[c][t]: the id thread c was told t has
    call,           \* call[c]: the LocalKey or the task thread c works on
    fresh,          \* fresh[c]: the number it took from a counter
    lpc             \* where it is

localVars == <<key_counter, keys, id_counter, inner, entries, nested, outrun, ids, call, fresh,
              lpc>>
maps == <<entries, nested, outrun>>

Caller == 1..Callers
Local == 1..Locals

LocalInit ==
    /\ key_counter = 1 /\ keys = [l \in Local |-> 0]
    /\ id_counter = 1 /\ inner = [t \in Caller |-> 0]
    /\ entries = [t \in Caller |-> <<>>]
    /\ nested = [t \in Caller |-> <<>>] /\ outrun = {}
    /\ ids = [c \in Caller |-> [t \in Caller |-> 0]]
    /\ call = [c \in Caller |-> 0] /\ fresh = [c \in Caller |-> 0]
    /\ lpc = [c \in Caller |-> "idle"]

AtLocal(c, label) == lpc' = [lpc EXCEPT ![c] = label]
Idle(c) == /\ AtLocal(c, "idle")
           /\ call' = [call EXCEPT ![c] = 0] /\ fresh' = [fresh EXCEPT ![c] = 0]

---------------------------------------------------------------------------
(* LocalKey::try_with, from the task or from an initialiser that runs in it: *)
(* key(), then get_or_insert.  An initialiser that used its own task-local   *)
(* would recurse for ever.                                                 *)

LoadKey(c, l) ==
    /\ lpc[c] = "idle"
    /\ \A i \in DOMAIN nested[c] : nested[c][i].of # l
    /\ call' = [call EXCEPT ![c] = l]
    /\ fresh' = [fresh EXCEPT ![c] = keys[l]]
    /\ AtLocal(c, IF keys[l] = 0 THEN "new_key" ELSE "search")
    /\ UNCHANGED <<key_counter, keys, id_counter, inner, maps, ids>>

NewKey(c) ==
    /\ lpc[c] = "new_key"
    /\ fresh' = [fresh EXCEPT ![c] = key_counter] /\ key_counter' = key_counter + 1
    /\ AtLocal(c, "swap_key")
    /\ UNCHANGED <<keys, id_counter, inner, maps, ids, call>>

(* Mutant: the thread that loses the race uses its own number. *)
SwapKeyRegardless(c) ==
    /\ lpc[c] = "swap_key"
    /\ keys' = [keys EXCEPT ![call[c]] = IF @ = 0 THEN fresh[c] ELSE @]
    /\ AtLocal(c, "search")
    /\ UNCHANGED <<key_counter, id_counter, inner, maps, ids, call, fresh>>

(* compare_and_swap: the thread that comes second uses the first one's key. *)
SwapKey(c) ==
    /\ lpc[c] = "swap_key"
    /\ keys' = [keys EXCEPT ![call[c]] = IF @ = 0 THEN fresh[c] ELSE @]
    /\ fresh' = [fresh EXCEPT ![c] = keys'[call[c]]]
    /\ AtLocal(c, "search")
    /\ UNCHANGED <<key_counter, id_counter, inner, maps, ids, call>>

Sorted(s) == \A i, j \in DOMAIN s : i < j => s[i].key < s[j].key
Smaller(s, key) == {i \in DOMAIN s : s[i].key < key}
Holds(s, key) == \E i \in DOMAIN s : s[i].key = key

(* binary_search_by_key: what it answers on an unsorted list is unspecified. *)
Found == [found |-> TRUE, index |-> 0]
Missing(i) == [found |-> FALSE, index |-> i]
BinarySearch(s, key) ==
    IF Sorted(s) THEN {IF Holds(s, key) THEN Found ELSE Missing(Cardinality(Smaller(s, key)))}
    ELSE {r \in {Found} \union {Missing(i) : i \in 0..Len(s)} : r.found => Holds(s, key)}

(* LocalsMap::get_or_insert up to init(): the place is kept in the frame of  *)
(* the initialiser.                                                        *)
SearchKey(c) ==
    /\ lpc[c] = "search"
    /\ \E r \in BinarySearch(entries[c], fresh[c]) :
         IF r.found THEN nested' = nested
         ELSE /\ Len(entries[c]) + Len(nested[c]) < MaxEntries
              /\ nested' = [nested EXCEPT ![c] =
                                Append(@, [of |-> call[c], key |-> fresh[c], index |-> r.index])]
    /\ Idle(c)
    /\ UNCHANGED <<key_counter, keys, id_counter, inner, entries, outrun, ids>>

InsertAt(s, n, x) == SubSeq(s, 1, n) \o <<x>> \o SubSeq(s, n + 1, Len(s))

(* Mutant: the value goes behind the entry at the place the search gave. *)
InsertValueBehind(c) ==
    LET depth == Len(nested[c])
        f == nested[c][depth]
        place == IF f.index < Len(entries[c]) THEN f.index + 1 ELSE f.index
    IN  /\ lpc[c] = "idle" /\ depth > 0
        /\ entries' = [entries EXCEPT ![c] = InsertAt(@, place, [key |-> f.key, of |-> f.of])]
        /\ nested' = [nested EXCEPT ![c] = SubSeq(@, 1, depth - 1)]
        /\ outrun' = IF \E i \in 1..(depth - 1) : f.key < nested[c][i].key
                     THEN outrun \union {c} ELSE outrun
        /\ UNCHANGED <<key_counter, keys, id_counter, inner, ids, call, fresh, lpc>>

(* The initialiser returns: insert() at the place that was found before it.  *)
InsertValue(c) ==
    LET depth == Len(nested[c])
        f == nested[c][depth]
    IN  /\ lpc[c] = "idle" /\ depth > 0
        /\ entries' = [entries EXCEPT ![c] = InsertAt(@, f.index, [key |-> f.key, of |-> f.of])]
        /\ nested' = [nested EXCEPT ![c] = SubSeq(@, 1, depth - 1)]
        /\ outrun' = IF \E i \in 1..(depth - 1) : f.key < nested[c][i].key
                     THEN outrun \union {c} ELSE outrun
        /\ UNCHANGED <<key_counter, keys, id_counter, inner, ids, call, fresh, lpc>>

(* The task ends: drop_locals().                                           *)
DropLocals(c) ==
    /\ lpc[c] = "idle" /\ nested[c] = <<>>
    /\ entries' = [entries EXCEPT ![c] = <<>>]
    /\ AtLocal(c, "ended")
    /\ UNCHANGED <<key_counter, keys, id_counter, inner, nested, outrun, ids, call, fresh>>

---------------------------------------------------------------------------
(* Task::inner, called through id(): the inner part is made by the first    *)
(* thread that asks, which may be several at once.                         *)

LoadInner(c, t) ==
    /\ \/ lpc[c] = "idle" /\ ids[c][t] = 0
       \/ lpc[c] = "load_inner" /\ call[c] = t
    /\ ids' = [ids EXCEPT ![c][t] = inner[t]]
    /\ IF inner[t] # 0 THEN Idle(c)
       ELSE call' = [call EXCEPT ![c] = t] /\ AtLocal(c, "new_inner") /\ fresh' = fresh
    /\ UNCHANGED <<key_counter, keys, id_counter, inner, maps>>

(* Inner::new with TaskId::generate.                                       *)
NewInner(c) ==
    /\ lpc[c] = "new_inner"
    /\ fresh' = [fresh EXCEPT ![c] = id_counter] /\ id_counter' = id_counter + 1
    /\ AtLocal(c, "swap_inner")
    /\ UNCHANGED <<key_counter, keys, inner, maps, ids, call>>

SwapInner(c) ==
    /\ lpc[c] = "swap_inner"
    /\ inner' = [inner EXCEPT ![call[c]] = IF @ = 0 THEN fresh[c] ELSE @]
    /\ AtLocal(c, "load_inner")
    /\ UNCHANGED <<key_counter, keys, id_counter, maps, ids, call, fresh>>

KeyNext ==
    \E c \in Caller : \/ NewKey(c) \/ SwapKey(c) \/ SearchKey(c) \/ InsertValue(c)
                      \/ DropLocals(c) \/ \E l \in Local : LoadKey(c, l)
IdNext ==
    \E c \in Caller : NewInner(c) \/ SwapInner(c) \/ \E t \in Caller : LoadInner(c, t)

LocalSpec == LocalInit /\ [][KeyNext \/ IdNext]_localVars

---------------------------------------------------------------------------
(* Whoever uses a task-local first, every thread files it under the same      *)
(* key, and no two task-locals share one (a value would be read as another's *)
(* type).  Likewise every thread is told the same id of a task, and no two    *)
(* tasks share one (LocalKey::key, Task::inner).                            *)
LocalsAgree ==
    /\ \A c \in Caller :
        /\ \A i \in DOMAIN entries[c] : entries[c][i].key = keys[entries[c][i].of]
        /\ \A t \in Caller : ids[c][t] \in {0, inner[t]}
    /\ \A l, m \in Local : keys[l] = keys[m] /\ keys[l] # 0 => l = m
    /\ \A t, u \in Caller : inner[t] = inner[u] /\ inner[t] # 0 => t = u

(* However deep initialisers nest, a task has one value of a task-local and   *)
(* initialises it once, and its map stays sorted, as the binary search       *)
(* needs; unless an initialiser was the first in its task to use a            *)
(* task-local with a smaller key (LocalsMap::get_or_insert).                *)
InitialisedOnce ==
    \A c \in Caller \ outrun :
        /\ Sorted(entries[c])
        /\ \A i \in DOMAIN entries[c], j \in DOMAIN nested[c] : entries[c][i].of # nested[c][j].of

(* "A list of key-value entries sorted by the key" (task_local.rs:173).       *)
SortedByKey == \A c \in Caller : Sorted(entries[c])
=============================================================================
