--------------------------- MODULE FutureAdapters ---------------------------
(***************************************************************************)
(* The future combinators of src/future/, io::timeout and the futures of   *)
(* src/task/ that only touch their waker.  A future that is ready answers   *)
(* Some(v); the v of the fallible ones is <<"ok", x>> or <<"err", x>>.       *)
(***************************************************************************)
EXTENDS Poll

Settled(a) == a.t = "some"
Failed(v)  == v[1] = "err"

(* Mutant: the output is not kept, so the future is polled again. *)
MaybeDoneForgets(ad, a) == ad

(* acc holds the two MaybeDone: the output of a future that is done.  A      *)
(* done future is not polled again (PollAdapters!Answers).                  *)
MaybeDone(ad, a) == IF Settled(a) THEN [ad EXCEPT !.acc[ad.at] = <<a.v>>] ELSE ad
Output(ad, i)    == ad.acc[i] # NoVal

(* Every one of these polls left, then right, and starts anew at left.      *)
Race(ad, a) ==
    IF Settled(a) THEN Ready(ad, a.v)
    ELSE IF ad.at = 1 THEN Loop(At(ad, 2)) ELSE Park(At(ad, 1))

TryRace(ad, a) ==
    LET now == MaybeDone(ad, a)
    IN  IF Settled(a) /\ ~Failed(a.v) THEN Ready(now, a.v)
        ELSE IF ad.at = 1 THEN Loop(At(now, 2))
        ELSE IF Settled(a) /\ Output(ad, 1) THEN Ready(now, a.v) ELSE Park(At(now, 1))

Join(ad, a) ==
    LET now == MaybeDone(ad, a)
    IN  IF Output(now, 1) /\ Output(now, 2) THEN Ready(now, <<now.acc[1][1], now.acc[2][1]>>)
        ELSE IF ad.at = 1 THEN Loop(At(now, 2)) ELSE Park(At(now, 1))

TryJoin(ad, a) ==
    LET now == MaybeDone(ad, a)
    IN  IF Settled(a) /\ Failed(a.v) THEN Ready(now, a.v)
        ELSE IF Output(now, 1) /\ Output(now, 2)
        THEN Ready(now, <<"ok", <<now.acc[1][1][2], now.acc[2][1][2]>>>>)
        ELSE IF ad.at = 1 THEN Loop(At(now, 2)) ELSE Park(At(now, 1))

(* The output of the first future is the second one.                       *)
FlattenFuture(ad, a) ==
    IF ad.at = 1 THEN Load(Loop(At(ad, 2)), 2, <<a.v>>) ELSE Ready(At(ad, 0), a.v)

(* Input 2 is the timer.  A delayed future is not polled before it fires,   *)
(* one with a time-out is always polled first.                              *)
DelayFuture(ad, a) ==
    IF ~Settled(a) THEN Park(At(ad, 2))
    ELSE IF ad.at = 2 THEN Loop(At(ad, 1)) ELSE Ready(ad, a.v)

TimeoutFuture(ad, a) ==
    IF ad.at = 1 THEN IF Settled(a) THEN Ready(ad, <<"ok", a.v>>) ELSE Loop(At(ad, 2))
    ELSE IF Settled(a) THEN Ready(ad, <<"err", 0>>) ELSE Park(At(ad, 1))

(* io::timeout: the future answers an io::Result already.                   *)
IoTimeout(ad, a) ==
    IF ad.at = 1 THEN IF Settled(a) THEN Ready(ad, a.v) ELSE Loop(At(ad, 2))
    ELSE IF Settled(a) THEN Ready(ad, <<"err", 0>>) ELSE Park(At(ad, 1))

(* sleep() is io::timeout over the future that is never ready.              *)
Sleep(ad, a) == IoTimeout(ad, a)

(* poll_fn over a closure that polls input 1, and the futures without input.*)
PollFn(ad, a) == IF Settled(a) THEN Ready(ad, a.v) ELSE Park(ad)
ReadyFuture(ad) == Ready(ad, ad.acc)
YieldNow(ad) == IF ad.acc THEN Ready(ad, 0) ELSE WakeSelf(Acc(ad, TRUE))

(* The methods of FutureExt and the functions that make a future.           *)
race        == Make("race", 1)
try_race    == MakeAcc("try_race", <<NoVal, NoVal>>)
join        == MakeAcc("join", <<NoVal, NoVal>>)
try_join    == MakeAcc("try_join", <<NoVal, NoVal>>)
flatten     == Make("future_flatten", 1)
delay       == Make("future_delay", 2)
timeout     == Make("future_timeout", 1)
io_timeout  == Make("io_timeout", 1)
sleep       == Make("sleep", 1)
poll_fn     == Make("poll_fn", 1)
ready(v)    == [MakeAcc("ready", v) EXCEPT !.at = 0]
yield_now   == [MakeAcc("yield_now", FALSE) EXCEPT !.at = 0]
=============================================================================
