--------------------------- MODULE WakerSetFacts ---------------------------
(***************************************************************************)
(* What the calls of WakerSetOps guarantee, for any set of operations: the *)
(* facts that the proofs about Mutex, RwLock and Channel rest on.          *)
(***************************************************************************)
EXTENDS WakerSetOps, TLAPS

(* NotifyOneFacts: notify_one keeps the set's domain and its absent         *)
(* entries, keeps what was notified, leaves nobody notified only if nobody  *)
(* is waiting, and lets nobody wait who did not.                            *)
LEMMA NotifyOneFacts ==
    ASSUME NEW S, NEW ws \in [S -> EntryStates], NEW new \in NotifyOne(ws)
    PROVE  /\ new \in [S -> EntryStates]
           /\ \A o \in S : new[o] = "absent" <=> ws[o] = "absent"
           /\ \A o \in S : ws[o] = "notified" => new[o] = "notified"
           /\ Waiting(new) # {} => \E o \in S : new[o] = "notified"
           /\ \A o \in S : new[o] = "waiting" => ws[o] = "waiting"
  BY DEF NotifyOne, Wake, Waiting, EntryStates

(* NotifyAnyFacts: the same for notify_any.                                 *)
LEMMA NotifyAnyFacts ==
    ASSUME NEW S, NEW ws \in [S -> EntryStates], NEW new \in NotifyAny(ws)
    PROVE  /\ new \in [S -> EntryStates]
           /\ \A o \in S : new[o] = "absent" <=> ws[o] = "absent"
           /\ \A o \in S : ws[o] = "notified" => new[o] = "notified"
           /\ Waiting(new) # {} => \E o \in S : new[o] = "notified"
  BY DEF NotifyAny, Wake, Waiting, Notified, EntryStates

(* CancelFacts: cancel removes the entry of the cancelled operation and     *)
(* leaves every other entry present; if that operation had been notified,   *)
(* another one is notified unless nobody is waiting.                        *)
LEMMA CancelFacts ==
    ASSUME NEW S, NEW ws \in [S -> EntryStates], NEW c \in S, NEW new \in Cancel(ws, c)
    PROVE  /\ new \in [S -> EntryStates]
           /\ new[c] = "absent"
           /\ \A o \in S \ {c} : new[o] = "absent" <=> ws[o] = "absent"
           /\ \A o \in S \ {c} : ws[o] = "notified" => new[o] = "notified"
           /\ ws[c] = "notified" /\ Waiting(new) # {} => \E o \in S : new[o] = "notified"
           /\ \A o \in S : new[o] = "waiting" => ws[o] = "waiting"
  <1>1. Remove(ws, c) \in [S -> EntryStates]
    BY DEF Remove, EntryStates
  <1>2. CASE ws[c] = "notified"
    <2>1. new \in NotifyOne(Remove(ws, c))
      BY <1>2 DEF Cancel
    <2>2. /\ new \in [S -> EntryStates]
          /\ \A o \in S : new[o] = "absent" <=> Remove(ws, c)[o] = "absent"
          /\ \A o \in S : Remove(ws, c)[o] = "notified" => new[o] = "notified"
          /\ Waiting(new) # {} => \E o \in S : new[o] = "notified"
      BY <1>1, <2>1, NotifyOneFacts
    <2>3. \A o \in S : new[o] = "waiting" => ws[o] = "waiting"
      BY <2>1 DEF NotifyOne, Wake, Waiting, Remove, EntryStates
    <2>4. QED
      BY <2>2, <2>3 DEF Remove
  <1>3. CASE ws[c] # "notified"
    BY <1>1, <1>3 DEF Cancel, Remove, Waiting
  <1>4. QED
    BY <1>2, <1>3

(* NotifyAllFacts: notify_all leaves nobody waiting, keeps the absent       *)
(* entries absent, and reports whether anybody is notified because of it.   *)
LEMMA NotifyAllFacts ==
    ASSUME NEW S, NEW ws \in [S -> EntryStates]
    PROVE  /\ NotifyAll(ws) \in [S -> EntryStates]
           /\ \A o \in S : NotifyAll(ws)[o] = "absent" <=> ws[o] = "absent"
           /\ \A o \in S : ws[o] = "notified" => NotifyAll(ws)[o] = "notified"
           /\ \A o \in S : NotifyAll(ws)[o] # "waiting"
           /\ Woke(ws, NotifyAll(ws)) => \E o \in S : NotifyAll(ws)[o] = "notified"
  BY DEF NotifyAll, Woke, Notified, EntryStates

(* NotifyOnePicks: notify_one wakes one waiting operation, or there is none. *)
LEMMA NotifyOnePicks ==
    ASSUME NEW S, NEW ws \in [S -> EntryStates], NEW new \in NotifyOne(ws)
    PROVE  \/ new = ws /\ \A o \in S : ws[o] # "waiting"
           \/ \E o \in S : ws[o] = "waiting" /\ new = Wake(ws, o)
  BY DEF NotifyOne, Waiting

(* CancelPicks: cancel passes a notification on to a waiting operation, or   *)
(* there is none.                                                           *)
LEMMA CancelPicks ==
    ASSUME NEW S, NEW ws \in [S -> EntryStates], NEW c \in S, NEW new \in Cancel(ws, c)
    PROVE  \/ ws[c] # "notified" /\ new = Remove(ws, c)
           \/ ws[c] = "notified" /\ new = Remove(ws, c) /\ \A o \in S : new[o] # "waiting"
           \/ /\ ws[c] = "notified"
              /\ \E o \in S \ {c} : ws[o] = "waiting" /\ new = Wake(Remove(ws, c), o)
  <1>1. Remove(ws, c) \in [S -> EntryStates]
    BY DEF Remove, EntryStates
  <1>2. CASE ws[c] # "notified"
    BY <1>2 DEF Cancel
  <1>3. CASE ws[c] = "notified"
    <2>1. new \in NotifyOne(Remove(ws, c))
      BY <1>3 DEF Cancel
    <2>2. \/ new = Remove(ws, c) /\ \A o \in S : Remove(ws, c)[o] # "waiting"
          \/ \E o \in S : Remove(ws, c)[o] = "waiting" /\ new = Wake(Remove(ws, c), o)
      BY <1>1, <2>1, NotifyOnePicks
    <2>3. QED
      BY <1>3, <2>2 DEF Remove
  <1>4. QED
    BY <1>2, <1>3
=============================================================================
