--------------------------- MODULE StreamAdapters ---------------------------
(***************************************************************************)
(* The stream adapters: src/stream/stream/*.rs, the double-ended ones, the *)
(* sources of src/stream/*.rs and the collections that are filled from a   *)
(* stream.  `ready!(inner.poll_next(cx))`, which most of them start with,   *)
(* is in PollAdapters: an operator that does not say what it does when its  *)
(* input is Pending is never asked.                                        *)
(***************************************************************************)
EXTENDS Poll, Integers

(* The largest item of a stream that is compared.                          *)
MaxItem == 3

Ended(a) == a.t = "none"

---------------------------------------------------------------------------
(* One input, one item out for one item in.                                *)

Map(ad, a)       == IF Ended(a) THEN End(ad) ELSE Item(ad, ad.p[a.v])
Inspect(ad, a)   == IF Ended(a) THEN End(ad) ELSE Item(ad, a.v)
Cloned(ad, a)    == IF Ended(a) THEN End(ad) ELSE Item(ad, a.v)
Copied(ad, a)    == IF Ended(a) THEN End(ad) ELSE Item(ad, a.v)
Fuse(ad, a)      == IF Ended(a) THEN End(At(ad, 0)) ELSE Item(ad, a.v)
Enumerate(ad, a) == IF Ended(a) THEN End(ad) ELSE Item([ad EXCEPT !.n = @ + 1], <<ad.n, a.v>>)

(* The closure given to scan adds the item to its state and stops at p.     *)
Scan(ad, a) ==
    IF Ended(a) \/ a.v \in ad.p THEN End(ad)
    ELSE LET sum == ad.acc + a.v IN Item(Acc(ad, sum), sum)

TakeWhile(ad, a) == IF Ended(a) \/ a.v \notin ad.p THEN End(ad) ELSE Item(ad, a.v)

(* `remaining` is n; at 0 the stream is not polled any more.               *)
Take(ad, a) ==
    IF a.t = "unpolled" THEN End(ad)
    ELSE LET left == IF Ended(a) THEN 0 ELSE ad.n - 1
             now  == [ad EXCEPT !.n = left, !.at = IF left = 0 THEN 0 ELSE 1]
         IN  IF Ended(a) THEN End(now) ELSE Item(now, a.v)

---------------------------------------------------------------------------
(* One input, some items are dropped.                                      *)

(* Mutant: the task is not woken for the item after the one that is dropped. *)
FilterParks(ad, a) ==
    IF Ended(a) THEN End(ad) ELSE IF a.v \in ad.p THEN Item(ad, a.v) ELSE Park(ad)

Filter(ad, a) ==
    IF Ended(a) THEN End(ad) ELSE IF a.v \in ad.p THEN Item(ad, a.v) ELSE WakeSelf(ad)

FilterMap(ad, a) ==
    IF Ended(a) THEN End(ad) ELSE IF a.v \in DOMAIN ad.p THEN Item(ad, ad.p[a.v]) ELSE WakeSelf(ad)

Skip(ad, a) ==
    IF Ended(a) THEN End(ad)
    ELSE IF ad.n = 0 THEN Item(ad, a.v) ELSE Loop([ad EXCEPT !.n = @ - 1])

(* acc: the predicate is still there.                                      *)
SkipWhile(ad, a) ==
    IF Ended(a) THEN End(ad)
    ELSE IF ad.acc /\ a.v \in ad.p THEN Loop(ad) ELSE Item(Acc(ad, FALSE), a.v)

(* n is `i`, acc is `step`, one less than the argument.                     *)
StepBy(ad, a) ==
    IF Ended(a) THEN End(ad)
    ELSE IF ad.n = 0 THEN Item([ad EXCEPT !.n = ad.acc], a.v)
         ELSE Loop([ad EXCEPT !.n = @ - 1])

---------------------------------------------------------------------------
(* Several inputs, or an input that is replaced.                           *)

(* acc: the clone has just been made, its first poll is returned as it is.  *)
Cycle(ad, a) ==
    IF ~Ended(a) THEN Item(Acc(ad, FALSE), a.v)
    ELSE IF ad.acc THEN End(Acc(ad, FALSE))
    ELSE Load(Loop(Acc(ad, TRUE)), 1, ad.p)

Chain(ad, a) ==
    IF ~Ended(a) THEN Item(ad, a.v)
    ELSE IF ad.at = 1 THEN Loop(At(ad, 2)) ELSE End(ad)

(* acc is item_slot, set exactly when input 2 is the one to poll.           *)
Zip(ad, a) ==
    IF Ended(a) THEN End(At(ad, 1))
    ELSE IF ad.at = 1 THEN Loop([ad EXCEPT !.at = 2, !.acc = a.v])
    ELSE Item(At(ad, 1), <<ad.acc, a.v>>)

(* Mutant: the merged stream ends with the first of the two. *)
MergeEndsEarly(ad, a) ==
    IF a.t = "some" THEN Item(ad, a.v)
    ELSE IF ad.at = ad.n THEN Loop([ad EXCEPT !.at = 3 - ad.n, !.acc = a.t])
    ELSE IF Ended(a) \/ ad.acc = "none" THEN End(ad) ELSE Park(ad)

(* poll_next_in_order: n is the input that was polled first (a random       *)
(* choice), acc what it answered.                                          *)
Merge(ad, a) ==
    IF a.t = "some" THEN Item(ad, a.v)
    ELSE IF ad.at = ad.n THEN Loop([ad EXCEPT !.at = 3 - ad.n, !.acc = a.t])
    ELSE IF Ended(a) /\ ad.acc = "none" THEN End(ad) ELSE Park(ad)

(* The items of input 1 are streams; the current one is input 2 and, once   *)
(* there is one (n = 2), what every poll starts with.                      *)
Flatten(ad, a) ==
    IF a.t = "pending" THEN Park(At(ad, ad.n))
    ELSE IF ad.at = 2 THEN IF Ended(a) THEN Loop(At(ad, 1)) ELSE Item(ad, a.v)
    ELSE IF Ended(a) THEN End(ad) ELSE Load(Loop([ad EXCEPT !.at = 2, !.n = 2]), 2, a.v)

(* As Flatten over Map: p is the closure.                                  *)
FlatMap(ad, a) ==
    IF a.t = "pending" THEN Park(At(ad, ad.n))
    ELSE IF ad.at = 2 THEN IF Ended(a) THEN Loop(At(ad, 1)) ELSE Item(ad, a.v)
    ELSE IF Ended(a) THEN End(ad) ELSE Load(Loop([ad EXCEPT !.at = 2, !.n = 2]), 2, ad.p[a.v])

(* Input 2 is the timer.                                                   *)
Delay(ad, a) ==
    IF ad.at = 2 THEN Loop(At(ad, 1)) ELSE IF Ended(a) THEN End(ad) ELSE Item(ad, a.v)

(* at = 2 is `blocked`; delay.reset() after an item arms the timer anew.   *)
Throttle(ad, a) ==
    IF ad.at = 2 THEN Loop(At(ad, 1))
    ELSE IF Ended(a) THEN End(ad) ELSE Load(Item(At(ad, 2), a.v), 2, <<>>)

(* The timer is only asked when the stream is Pending, and never reset.     *)
Timeout(ad, a) ==
    IF ad.at = 1
    THEN IF a.t = "pending" THEN Loop(At(ad, 2))
         ELSE IF Ended(a) THEN End(ad) ELSE Item(ad, <<"ok", a.v>>)
    ELSE IF a.t = "pending" THEN Park(At(ad, 1)) ELSE Item(At(ad, 1), <<"err", 0>>)

---------------------------------------------------------------------------
(* Futures over one stream, woken for every item.                          *)

NextFuture(ad, a) == Ready(ad, IF Ended(a) THEN NoVal ELSE <<a.v>>)
AllFuture(ad, a) ==
    IF Ended(a) THEN Ready(ad, TRUE) ELSE IF a.v \in ad.p THEN WakeSelf(ad) ELSE Ready(ad, FALSE)
AnyFuture(ad, a) ==
    IF Ended(a) THEN Ready(ad, FALSE) ELSE IF a.v \in ad.p THEN Ready(ad, TRUE) ELSE WakeSelf(ad)
CountFuture(ad, a) ==
    IF Ended(a) THEN Ready(ad, ad.n) ELSE WakeSelf([ad EXCEPT !.n = @ + 1])
LastFuture(ad, a) == IF Ended(a) THEN Ready(ad, ad.acc) ELSE WakeSelf(Acc(ad, <<a.v>>))
FindFuture(ad, a) ==
    IF Ended(a) THEN Ready(ad, NoVal) ELSE IF a.v \in ad.p THEN Ready(ad, <<a.v>>) ELSE WakeSelf(ad)
FindMapFuture(ad, a) ==
    IF Ended(a) THEN Ready(ad, NoVal)
    ELSE IF a.v \in DOMAIN ad.p THEN Ready(ad, <<ad.p[a.v]>>) ELSE WakeSelf(ad)
NthFuture(ad, a) ==
    IF Ended(a) THEN Ready(ad, NoVal)
    ELSE IF ad.n = 0 THEN Ready(ad, <<a.v>>) ELSE WakeSelf([ad EXCEPT !.n = @ - 1])
PositionFuture(ad, a) ==
    IF Ended(a) THEN Ready(ad, NoVal)
    ELSE IF a.v \in ad.p THEN Ready(ad, <<ad.n>>) ELSE WakeSelf([ad EXCEPT !.n = @ + 1])

(* The accumulated extreme is replaced only by one that is strictly better. *)
Extreme(ad, a, better) ==
    IF Ended(a) THEN Ready(ad, ad.acc)
    ELSE WakeSelf(IF ad.acc = NoVal \/ better THEN Acc(ad, <<a.v>>) ELSE ad)

MaxFuture(ad, a)      == Extreme(ad, a, a.v > ad.acc[1])
MinFuture(ad, a)      == Extreme(ad, a, a.v < ad.acc[1])
(* The comparison and the key function compare p[v].                       *)
MaxByFuture(ad, a)    == Extreme(ad, a, ad.p[a.v] > ad.p[ad.acc[1]])
MinByFuture(ad, a)    == Extreme(ad, a, ad.p[a.v] < ad.p[ad.acc[1]])
MaxByKeyFuture(ad, a) == Extreme(ad, a, ad.p[a.v] > ad.p[ad.acc[1]])
MinByKeyFuture(ad, a) == Extreme(ad, a, ad.p[a.v] < ad.p[ad.acc[1]])

---------------------------------------------------------------------------
(* Futures that take every ready item in one poll.                         *)

(* The closure given to the folds appends, so that the order shows; it      *)
(* fails on the items of p.                                                *)
FoldFuture(ad, a) ==
    IF Ended(a) THEN Ready(ad, ad.acc) ELSE Loop(Acc(ad, Append(ad.acc, a.v)))
ForEachFuture(ad, a) ==
    IF Ended(a) THEN Ready(ad, ad.acc) ELSE Loop(Acc(ad, Append(ad.acc, a.v)))
TryFoldFuture(ad, a) ==
    IF Ended(a) THEN Ready(ad, <<"ok", ad.acc>>)
    ELSE IF a.v \in ad.p THEN Ready(ad, <<"err", a.v>>)
    ELSE Loop(Acc(ad, Append(ad.acc, a.v)))
TryForEachFuture(ad, a) ==
    IF Ended(a) THEN Ready(ad, <<"ok", ad.acc>>)
    ELSE IF a.v \in ad.p THEN Ready(ad, <<"err", a.v>>)
    ELSE Loop(Acc(ad, Append(ad.acc, a.v)))
PartitionFuture(ad, a) ==
    IF Ended(a) THEN Ready(ad, ad.acc)
    ELSE Loop([ad EXCEPT !.acc[IF a.v \in ad.p THEN 1 ELSE 2] = Append(@, a.v)])
(* The items are pairs (v, p[v]).                                          *)
UnzipFuture(ad, a) ==
    IF Ended(a) THEN Ready(ad, ad.acc)
    ELSE Loop(Acc(ad, <<Append(ad.acc[1], a.v), Append(ad.acc[2], ad.p[a.v])>>))

(* From the back, over poll_next_back.                                     *)
NextBackFuture(ad, a) == NextFuture(ad, a)
NthBackFuture(ad, a)  == NthFuture(ad, a)
RFindFuture(ad, a)    == FindFuture(ad, a)
RFoldFuture(ad, a)    == FoldFuture(ad, a)
TryRFoldFuture(ad, a) == TryFoldFuture(ad, a)

---------------------------------------------------------------------------
(* Comparison of two streams.  acc is <<l_cache, r_cache>>, done says which *)
(* of the fused inputs has ended (with this answer).                       *)

Order(x, y) == IF x = y THEN "eq" ELSE IF x < y THEN "lt" ELSE "gt"

(* Item 0 stands for a value that compares with none (NaN).                 *)
PartialOrder(x, y) == IF x = 0 \/ y = 0 THEN NoVal ELSE <<Order(x, y)>>

(* The loop of poll, from its top (at = 0), where the stream that has        *)
(* completed is the lesser one, to its comparison; `less` is the answer     *)
(* Ordering::Less and so on.                                               *)
CmpTop(ad, done, less, equal, greater) ==
    LET over(i) == done[i] /\ ad.acc[i] = NoVal
    IN  IF over(1) /\ over(2) THEN Ready(ad, equal)
        ELSE IF over(1) THEN Ready(ad, less)
        ELSE IF over(2) THEN Ready(ad, greater)
        ELSE Loop(At(ad, IF ad.acc[1] = NoVal THEN 1 ELSE 2))

CmpLoop(ad, a, done, result, less, equal, greater) ==
    LET now == IF a.t = "some" THEN [ad EXCEPT !.acc[ad.at] = <<a.v>>] ELSE ad
        two == now.acc[1] # NoVal /\ now.acc[2] # NoVal
    IN  IF a.t = "pending" THEN Park(At(ad, 0))
        ELSE IF ad.at = 1 /\ ~done[2] /\ ad.acc[2] = NoVal THEN Loop(At(now, 2))
        ELSE IF two /\ result[now.acc[1][1], now.acc[2][1]] # equal
        THEN Ready(now, result[now.acc[1][1], now.acc[2][1]])
        ELSE CmpTop(IF two THEN Acc(now, <<NoVal, NoVal>>) ELSE now, done, less, equal, greater)

CmpFuture(ad, a, done) ==
    CmpLoop(ad, a, done, [x, y \in 0..MaxItem |-> Order(x, y)], "lt", "eq", "gt")

PartialCmpFuture(ad, a, done) ==
    CmpLoop(ad, a, done, [x, y \in 0..MaxItem |-> PartialOrder(x, y)], <<"lt">>, <<"eq">>, <<"gt">>)

(* ge, gt, le and lt look at what partial_cmp is Ready with.               *)
OnPartialCmp(o, yes) == IF o.r = "ready" THEN [o EXCEPT !.v = (@ \in yes)] ELSE o
GeFuture(ad, a, done) == OnPartialCmp(PartialCmpFuture(ad, a, done), {<<"gt">>, <<"eq">>})
GtFuture(ad, a, done) == OnPartialCmp(PartialCmpFuture(ad, a, done), {<<"gt">>})
LeFuture(ad, a, done) == OnPartialCmp(PartialCmpFuture(ad, a, done), {<<"lt">>, <<"eq">>})
LtFuture(ad, a, done) == OnPartialCmp(PartialCmpFuture(ad, a, done), {<<"lt">>})

(* l_val is a local variable of poll: it is gone when the right stream is   *)
(* Pending.                                                                *)
EqFuture(ad, a, done) ==
    IF a.t = "pending" THEN Park(At(ad, 1))
    ELSE IF ad.at = 1 THEN Loop([ad EXCEPT !.at = 2, !.acc = a])
    ELSE IF done[1] /\ done[2] THEN Ready(ad, TRUE)
    ELSE IF ad.acc.t = "some" /\ a.t = "some" /\ ad.acc # a THEN Ready(ad, FALSE)
    ELSE Loop(At(ad, 1))

NeFuture(ad, a, done) ==
    IF a.t = "pending" THEN Park(At(ad, 1))
    ELSE IF ad.at = 1 THEN Loop([ad EXCEPT !.at = 2, !.acc = a])
    ELSE IF done[1] \/ done[2] THEN Ready(ad, FALSE)
    ELSE IF ad.acc = a THEN Loop(At(ad, 1)) ELSE Ready(ad, TRUE)

---------------------------------------------------------------------------
(* Sources: streams without an input (at = 0).                             *)

Empty(ad) == End(ad)
Once(ad) == IF ad.acc = NoVal THEN End(ad) ELSE Item(Acc(ad, NoVal), ad.acc[1])
Repeat(ad) == Item(ad, ad.p)
(* The closures of repeat_with and from_fn count; from_fn's stops at p.      *)
RepeatWith(ad) == Item([ad EXCEPT !.n = @ + 1], ad.n)
FromFn(ad) == IF ad.n = ad.p THEN End(ad) ELSE Item([ad EXCEPT !.n = @ + 1], ad.n)
FromIter(ad) == IF ad.acc = <<>> THEN End(ad) ELSE Item(Acc(ad, Tail(ad.acc)), Head(ad.acc))
(* p is the closure; the slot already holds the successor of what is given. *)
Successors(ad) ==
    IF ad.acc = NoVal THEN End(ad)
    ELSE LET x == ad.acc[1]
         IN  Item(Acc(ad, IF x \in DOMAIN ad.p THEN <<ad.p[x]>> ELSE NoVal), x)
(* Input 2 is the timer, armed again after every tick.                     *)
Interval(ad, a) == Load(Item([ad EXCEPT !.n = @ + 1], ad.n), 2, <<>>)

---------------------------------------------------------------------------
(* collect(), sum() and product(): what one more item does to the value     *)
(* being built.  Every one is a for_each or a fold over the stream.          *)

VecExtend(c, v)        == Append(c, v)
VecDequeExtend(c, v)   == Append(c, v)
LinkedListExtend(c, v) == Append(c, v)
StringExtend(c, v)     == Append(c, v)
HashSetExtend(c, v)    == c \union {v}
BTreeSetExtend(c, v)   == c \union {v}
BinaryHeapExtend(c, v) == [c EXCEPT ![v] = @ + 1]
(* The items of a map are pairs; the key of item v is v % 2.                *)
HashMapExtend(c, v)    == [c EXCEPT ![v % 2] = v]
BTreeMapExtend(c, v)   == [c EXCEPT ![v % 2] = v]
UnitExtend(c, v)       == c
SumOf(c, v)            == c + v
ProductOf(c, v)        == c * v

Built(into, c, v) ==
    CASE into = "vec" -> VecExtend(c, v)            [] into = "deque" -> VecDequeExtend(c, v)
      [] into = "list" -> LinkedListExtend(c, v)    [] into = "string" -> StringExtend(c, v)
      [] into = "hashset" -> HashSetExtend(c, v)    [] into = "btreeset" -> BTreeSetExtend(c, v)
      [] into = "heap" -> BinaryHeapExtend(c, v)    [] into = "hashmap" -> HashMapExtend(c, v)
      [] into = "btreemap" -> BTreeMapExtend(c, v)  [] into = "unit" -> UnitExtend(c, v)
      [] into = "sum" -> SumOf(c, v)                [] into = "product" -> ProductOf(c, v)

Collect(ad, a) ==
    IF Ended(a) THEN Ready(ad, ad.acc) ELSE Loop(Acc(ad, Built(ad.io, ad.acc, a.v)))

(* The value from_stream() starts with.                                    *)
VecFromStream        == <<>>
VecDequeFromStream   == <<>>
LinkedListFromStream == <<>>
StringFromStream     == <<>>
HashSetFromStream    == {}
BTreeSetFromStream   == {}
BinaryHeapFromStream == [v \in 0..MaxItem |-> 0]
HashMapFromStream    == [k \in 0..1 |-> 0]
BTreeMapFromStream   == [k \in 0..1 |-> 0]
UnitFromStream       == 0

(* Option and Result are built through scan(), which ends the stream at the *)
(* first None or Err (an item of p).                                       *)
OptionFromStream(ad, a) ==
    IF Ended(a) THEN Ready(ad, <<ad.acc>>)
    ELSE IF a.v \in ad.p THEN Ready(ad, NoVal) ELSE Loop(Acc(ad, Built(ad.io, ad.acc, a.v)))
ResultFromStream(ad, a) ==
    IF Ended(a) THEN Ready(ad, <<"ok", ad.acc>>)
    ELSE IF a.v \in ad.p THEN Ready(ad, <<"err", a.v>>)
    ELSE Loop(Acc(ad, Built(ad.io, ad.acc, a.v)))
OptionSum(ad, a)     == OptionFromStream(ad, a)
OptionProduct(ad, a) == OptionFromStream(ad, a)
ResultSum(ad, a)     == ResultFromStream(ad, a)
ResultProduct(ad, a) == ResultFromStream(ad, a)

---------------------------------------------------------------------------
(* The methods of StreamExt and DoubleEndedStreamExt, and the functions that *)
(* make a source: the adapter as its constructor leaves it.                *)

map(f)         == MakeP("map", f)
inspect        == Make("inspect", 1)
cloned         == Make("cloned", 1)
copied         == Make("copied", 1)
fuse           == Make("fuse", 1)
enumerate      == Make("enumerate", 1)
scan(stop)     == MakeFold("scan", stop, 0)
take_while(P)  == MakeP("take_while", P)
take(n)        == [MakeN("take", n) EXCEPT !.at = IF n = 0 THEN 0 ELSE 1]
filter(P)      == MakeP("filter", P)
filter_map(f)  == MakeP("filter_map", f)
skip(n)        == MakeN("skip", n)
skip_while(P)  == MakeFold("skip_while", P, TRUE)
(* step_by(0) panics.                                                      *)
step_by(step)  == MakeAcc("step_by", step - 1)
cycle(s)       == MakeFold("cycle", s, FALSE)
chain          == Make("chain", 1)
zip            == Make("zip", 1)
merge          == Make("merge", 1)
flatten        == MakeN("flatten", 1)
flat_map(f)    == [MakeN("flat_map", 1) EXCEPT !.p = f]
delay          == Make("delay", 2)
throttle       == Make("throttle", 1)
timeout        == Make("timeout", 1)
next           == Make("next", 1)
all(P)         == MakeP("all", P)
any(P)         == MakeP("any", P)
count          == Make("count", 1)
last           == MakeAcc("last", NoVal)
find(P)        == MakeP("find", P)
find_map(f)    == MakeP("find_map", f)
nth(n)         == MakeN("nth", n)
position(P)    == MakeP("position", P)
max            == MakeAcc("max", NoVal)
min            == MakeAcc("min", NoVal)
max_by(f)      == MakeFold("max_by", f, NoVal)
min_by(f)      == MakeFold("min_by", f, NoVal)
max_by_key(f)  == MakeFold("max_by_key", f, NoVal)
min_by_key(f)  == MakeFold("min_by_key", f, NoVal)
fold           == MakeAcc("fold", <<>>)
for_each       == MakeAcc("for_each", <<>>)
try_fold(P)    == MakeFold("try_fold", P, <<>>)
try_for_each(P) == MakeFold("try_for_each", P, <<>>)
partition(P)   == MakeFold("partition", P, <<<<>>, <<>>>>)
unzip(f)       == MakeFold("unzip", f, <<<<>>, <<>>>>)
next_back      == Make("next_back", 1)
nth_back(n)    == MakeN("nth_back", n)
rfind(P)       == MakeP("rfind", P)
rfold          == MakeAcc("rfold", <<>>)
try_rfold(P)   == MakeFold("try_rfold", P, <<>>)
Comparison(k)  == [MakeAcc(k, <<NoVal, NoVal>>) EXCEPT !.at = 0]
cmp            == Comparison("cmp")
partial_cmp    == Comparison("partial_cmp")
ge             == Comparison("ge")
gt             == Comparison("gt")
le             == Comparison("le")
lt             == Comparison("lt")
eq             == Make("eq", 1)
ne             == Make("ne", 1)

empty          == Make("empty", 0)
once(v)        == [MakeAcc("once", <<v>>) EXCEPT !.at = 0]
repeat(v)      == [MakeP("repeat", v) EXCEPT !.at = 0]
repeat_with    == Make("repeat_with", 0)
from_fn(stop)  == [MakeP("from_fn", stop) EXCEPT !.at = 0]
from_iter(s)   == [MakeAcc("from_iter", s) EXCEPT !.at = 0]
successors(first, f) == [MakeFold("successors", f, first) EXCEPT !.at = 0]
interval       == Make("interval", 2)

EmptyOf(into) ==
    CASE into = "vec" -> VecFromStream            [] into = "deque" -> VecDequeFromStream
      [] into = "list" -> LinkedListFromStream    [] into = "string" -> StringFromStream
      [] into = "hashset" -> HashSetFromStream    [] into = "btreeset" -> BTreeSetFromStream
      [] into = "heap" -> BinaryHeapFromStream    [] into = "hashmap" -> HashMapFromStream
      [] into = "btreemap" -> BTreeMapFromStream  [] into = "unit" -> UnitFromStream
      [] into = "sum" -> 0                        [] into = "product" -> 1
Into(k, into, P) == [MakeFold(k, P, EmptyOf(into)) EXCEPT !.io = into]
collect(into)   == Into("collect", into, {})
sum             == collect("sum")
product         == collect("product")
collect_option(into, P) == Into("collect_option", into, P)
collect_result(into, P) == Into("collect_result", into, P)
option_sum(P)     == Into("option_sum", "sum", P)
option_product(P) == Into("option_product", "product", P)
result_sum(P)     == Into("result_sum", "sum", P)
result_product(P) == Into("result_product", "product", P)
=============================================================================
