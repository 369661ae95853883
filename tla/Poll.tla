-------------------------------- MODULE Poll --------------------------------
(***************************************************************************)
(* The vocabulary of the adapters.  An adapter is a record                 *)
(*   k   its kind (the method that makes it)                               *)
(*   p   its closure or parameter     n    its counter                     *)
(*   acc its accumulator or cache     io   the size or bytes of its I/O     *)
(*   at  what its poll function does next: poll input 1 or 2, flush input  *)
(*       2 (3), or go on without polling anything (0).                     *)
(* The operator of an adapter takes the record and the answer of the poll  *)
(* at `at`, and says what its poll function does with it.                  *)
(***************************************************************************)
EXTENDS Naturals, Sequences

(* What polling an input answers.                                          *)
Pending  == [t |-> "pending"]
None     == [t |-> "none"]
Some(v)  == [t |-> "some", v |-> v]
Err      == [t |-> "err"]
Unpolled == [t |-> "unpolled"]

(* What the poll function does with it: Ready(Some(v)) or Ready(None) of a  *)
(* stream, Ready(v) of a future, another round of its loop, Pending after   *)
(* wake_by_ref(), or just Pending.  A panic is the last thing a task does.   *)
(* `load` replaces an input (a new inner stream, a clone, a timer that was   *)
(* reset).                                                                 *)
Outcome(r, ad, v) == [r |-> r, ad |-> ad, v |-> v, load |-> <<>>]
Item(ad, v)   == Outcome("item", ad, v)
End(ad)       == Outcome("end", ad, 0)
Ready(ad, v)  == Outcome("ready", ad, v)
Loop(ad)      == Outcome("loop", ad, 0)
WakeSelf(ad)  == Outcome("again", ad, 0)
Park(ad)      == Outcome("park", ad, 0)
Panic(ad)     == Ready(ad, <<"panic", <<>>>>)
Load(o, i, s) == [o EXCEPT !.load = <<i, s>>]

At(ad, i) == [ad EXCEPT !.at = i]
Acc(ad, x) == [ad EXCEPT !.acc = x]

(* What a constructor makes, the fields it does not name being unused.      *)
Make(k, at) == [k |-> k, at |-> at, p |-> 0, n |-> 0, acc |-> 0, io |-> 0]
MakeP(k, p) == [Make(k, 1) EXCEPT !.p = p]
MakeN(k, n) == [Make(k, 1) EXCEPT !.n = n]
MakeAcc(k, acc) == [Make(k, 1) EXCEPT !.acc = acc]
MakeFold(k, p, acc) == [MakeP(k, p) EXCEPT !.acc = acc]

(* Option as a sequence of at most one element.                            *)
NoVal == <<>>
=============================================================================
