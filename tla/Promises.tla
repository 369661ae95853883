------------------------------ MODULE Promises ------------------------------
(***************************************************************************)
(* What the adapters promise: a stream as the sequence of all its items, a   *)
(* future as its value, computed from the whole inputs, without polls.  g is *)
(* what an adapter is given: ad, as constructed, and the data s and t of    *)
(* its inputs.                                                             *)
(***************************************************************************)
EXTENDS Poll, Integers, SequencesExt

I == INSTANCE IoAdapters

Positions(s, P) == {i \in DOMAIN s : s[i] \in P}
(* The first position of an item of P, 0 if there is none.                 *)
First(s, P) == IF Positions(s, P) = {} THEN 0 ELSE Min(Positions(s, P))
Values(s) == {s[i] : i \in DOMAIN s}
Mapped(s, f) == [i \in DOMAIN s |-> f[s[i]]]
Upto(s, n) == SubSeq(s, 1, Min({n, Len(s)}))
After(s, n) == SubSeq(s, n + 1, Len(s))
Until(s, P) == IF First(s, P) = 0 THEN s ELSE Upto(s, First(s, P) - 1)
Only(s, P) == SelectSeq(s, LAMBDA v : v \in P)
Total(s) == FoldLeft(LAMBDA x, y : x + y, 0, s)
Option(s, i) == IF i \in DOMAIN s THEN <<s[i]>> ELSE NoVal

(* The first of the best items, the larger key being the better.           *)
Best(s, key) ==
    IF s = <<>> THEN NoVal
    ELSE <<s[Min({i \in DOMAIN s : \A j \in DOMAIN s : key[s[j]] <= key[s[i]]})]>>
Identity == [v \in 0..9 |-> v]
Negated(f) == [v \in DOMAIN f |-> -f[v]]

(* All of s, or the first item that makes the closure fail.                *)
Tried(s, P) == IF First(s, P) = 0 THEN <<"ok", s>> ELSE <<"err", s[First(s, P)]>>

(* Lexicographic order; 0 compares with nothing.                           *)
Lexicographic(s, t) ==
    LET both == DOMAIN s \intersect DOMAIN t
        differ == {i \in both : s[i] # t[i] \/ s[i] = 0}
        by(x, y) == IF x < y THEN "lt" ELSE IF x > y THEN "gt" ELSE "eq"
    IN  IF differ = {} THEN <<by(Len(s), Len(t))>>
        ELSE LET i == Min(differ) IN IF s[i] = 0 \/ t[i] = 0 THEN NoVal ELSE <<by(s[i], t[i])>>

(* The streams whose items are determined by their inputs.                 *)
StreamPromise(g, bound) ==
    LET s == g.s  t == g.t  p == g.ad.p  n == g.ad.n  k == g.ad.k
    IN  CASE k = "map" -> Mapped(s, p)
          [] k \in {"inspect", "cloned", "copied", "fuse", "delay", "throttle", "read_dir",
                  "tcp_incoming", "unix_incoming"} -> s
          [] k = "enumerate" -> [i \in DOMAIN s |-> <<i - 1, s[i]>>]
          [] k = "scan" -> [i \in DOMAIN Until(s, p) |-> Total(Upto(s, i))]
          [] k = "take_while" -> Until(s, Values(s) \ p)
          [] k = "take" -> Upto(s, n)
          [] k = "filter" -> Only(s, p)
          [] k = "filter_map" -> Mapped(Only(s, DOMAIN p), p)
          [] k = "skip" -> After(s, n)
          [] k = "skip_while" -> After(s, Len(Until(s, Values(s) \ p)))
          [] k = "step_by" -> [i \in 1..((Len(s) + g.ad.acc) \div (g.ad.acc + 1))
                                 |-> s[(i - 1) * (g.ad.acc + 1) + 1]]
          [] k = "cycle" -> [i \in 1..(IF s = <<>> THEN 0 ELSE bound) |-> s[((i - 1) % Len(s)) + 1]]
          [] k = "chain" -> s \o t
          [] k = "zip" -> [i \in DOMAIN s \intersect DOMAIN t |-> <<s[i], t[i]>>]
          [] k = "flatten" -> FlattenSeq(s)
          [] k = "flat_map" -> FlattenSeq(Mapped(s, p))
          [] k \in {"empty", "read_empty"} -> <<>>
          [] k = "once" -> g.ad.acc
          [] k = "repeat" -> [i \in 1..bound |-> p]
          [] k = "read_repeat" -> [i \in 1..bound |-> <<"ok", [j \in 1..n |-> p]>>]
          [] k \in {"repeat_with", "interval"} -> [i \in 1..bound |-> i - 1]
          [] k = "from_fn" -> [i \in 1..p |-> i - 1]
          [] k = "from_iter" -> g.ad.acc
          [] k = "successors" ->
                 IF g.ad.acc = NoVal THEN <<>>
                 ELSE LET x == g.ad.acc[1] IN IF x \in DOMAIN p THEN <<x, p[x]>> ELSE <<x>>
StreamKinds ==
    {"map", "inspect", "cloned", "copied", "fuse", "delay", "throttle", "enumerate", "scan",
     "take_while", "take", "filter", "filter_map", "skip", "skip_while", "step_by", "cycle",
     "chain", "zip", "flatten", "flat_map", "empty", "once", "repeat", "repeat_with", "interval",
     "from_fn", "from_iter", "successors", "read_empty", "read_repeat", "read_dir",
     "tcp_incoming", "unix_incoming"}

(* What collect() builds.                                                  *)
Collected(into, s) ==
    CASE into \in {"vec", "deque", "list", "string"} -> s
      [] into \in {"hashset", "btreeset"} -> Values(s)
      [] into = "heap" -> [v \in 0..3 |-> Cardinality(Positions(s, {v}))]
      [] into \in {"hashmap", "btreemap"} ->
             [k \in 0..1 |-> LET keyed == Only(s, {v \in Values(s) : v % 2 = k})
                             IN  IF keyed = <<>> THEN 0 ELSE keyed[Len(keyed)]]
      [] into = "unit" -> 0
      [] into = "sum" -> Total(s)
      [] into = "product" -> FoldLeft(LAMBDA x, y : x * y, 1, s)

(* The addresses a name stands for, and the first that can be reached; if    *)
(* none can, the error of the last.                                        *)
Addresses(g) == IF g.ad.at = 0 THEN g.ad.acc ELSE g.s[1]
Reached(g, res) ==
    LET first == First(res[2], g.ad.p)
    IN  IF res[1] = "err" THEN res
        ELSE IF first # 0 THEN <<"ok", res[2][first]>>
        ELSE <<"err", IF res[2] = <<>> THEN 0 ELSE res[2][Len(res[2])]>>

(* The futures whose value is determined by their inputs.                  *)
FuturePromise(g) ==
    LET s == g.s  t == g.t  p == g.ad.p  n == g.ad.n  k == g.ad.k
        order == Lexicographic(s, t)
    IN  CASE k = "next" -> Option(s, 1)
          [] k = "all" -> Values(s) \subseteq p
          [] k = "any" -> Values(s) \intersect p # {}
          [] k = "count" -> Len(s)
          [] k = "last" -> Option(s, Len(s))
          [] k = "find" -> Option(s, First(s, p))
          [] k = "find_map" -> Option(Mapped(Only(s, DOMAIN p), p), 1)
          [] k = "nth" -> Option(s, n + 1)
          [] k = "position" -> IF First(s, p) = 0 THEN NoVal ELSE <<First(s, p) - 1>>
          [] k = "max" -> Best(s, Identity)
          [] k = "min" -> Best(s, Negated(Identity))
          [] k \in {"max_by", "max_by_key"} -> Best(s, p)
          [] k \in {"min_by", "min_by_key"} -> Best(s, Negated(p))
          [] k \in {"fold", "for_each"} -> s
          [] k \in {"try_fold", "try_for_each"} -> Tried(s, p)
          [] k = "partition" -> <<Only(s, p), Only(s, Values(s) \ p)>>
          [] k = "unzip" -> <<s, Mapped(s, p)>>
          [] k = "next_back" -> Option(s, Len(s))
          [] k = "nth_back" -> Option(Reverse(s), n + 1)
          [] k = "rfind" -> Option(Reverse(s), First(Reverse(s), p))
          [] k = "rfold" -> Reverse(s)
          [] k = "try_rfold" -> Tried(Reverse(s), p)
          [] k = "cmp" -> order[1]
          [] k = "partial_cmp" -> order
          [] k = "ge" -> order \in {<<"gt">>, <<"eq">>}
          [] k = "gt" -> order = <<"gt">>
          [] k = "le" -> order \in {<<"lt">>, <<"eq">>}
          [] k = "lt" -> order = <<"lt">>
          [] k = "eq" -> s = t
          [] k = "ne" -> s # t
          [] k = "collect" -> Collected(g.ad.io, s)
          [] k \in {"collect_option", "option_sum", "option_product"} ->
                 IF First(s, p) = 0 THEN <<Collected(g.ad.io, s)>> ELSE NoVal
          [] k \in {"collect_result", "result_sum", "result_product"} ->
                 IF First(s, p) = 0 THEN <<"ok", Collected(g.ad.io, s)>> ELSE <<"err", s[First(s, p)]>>
          [] k = "join" -> <<s[1], t[1]>>
          [] k = "future_flatten" -> s[1]
          [] k \in {"future_delay", "poll_fn", "job", "tcp_accept", "unix_accept"} -> s[1]
          [] k = "to_socket_addrs" -> Addresses(g)
          [] k \in {"tcp_connect", "tcp_bind", "udp_bind", "udp_connect"} -> Reached(g, Addresses(g))
          [] k = "udp_send_to" ->
                 Reached(g, IF Addresses(g)[1] = "err" THEN Addresses(g)
                            ELSE <<"ok", Upto(Addresses(g)[2], 1)>>)
          [] k = "ready" -> g.ad.acc
          [] k = "yield_now" -> 0
          [] k = "sleep" -> <<"err", 0>>
          [] k = "sink" -> <<"ok", Len(p)>>
FutureKinds ==
    {"next", "all", "any", "count", "last", "find", "find_map", "nth", "position", "max", "min",
     "max_by", "max_by_key", "min_by", "min_by_key", "fold", "for_each", "try_fold",
     "try_for_each", "partition", "unzip", "next_back", "nth_back", "rfind", "rfold",
     "try_rfold", "cmp", "partial_cmp", "ge", "gt", "le", "lt", "eq", "ne", "collect",
     "collect_option", "collect_result", "option_sum", "option_product", "result_sum",
     "result_product", "job", "to_socket_addrs", "tcp_connect", "tcp_bind", "udp_bind",
     "udp_connect", "udp_send_to", "join", "future_flatten", "future_delay", "poll_fn",
     "ready", "yield_now", "sleep", "sink", "tcp_accept", "unix_accept"}

---------------------------------------------------------------------------
(* The ones that depend on what comes first: what may have come out, given   *)
(* what the inputs have done.  fired is how often the timer has fired, over  *)
(* whether the adapter has finished.                                       *)

Oks(out) == LET ok == SelectSeq(out, LAMBDA r : r[1] = "ok") IN [i \in DOMAIN ok |-> ok[i][2]]

Interleaves(out, s, t) ==
    \E left \in SUBSET DOMAIN out :
        LET part(I0) == LET order == SetToSortSeq(I0, LAMBDA x, y : x < y)
                        IN  [i \in DOMAIN order |-> out[order[i]]]
        IN  IsPrefix(part(left), s) /\ IsPrefix(part(DOMAIN out \ left), t)

RacePromise(g, out, over, fired) ==
    LET s == g.s  t == g.t  k == g.ad.k  v == out[1]
    IN  CASE k = "merge" -> Interleaves(out, s, t) /\ (over => Len(out) = Len(s) + Len(t))
          [] k = "timeout" -> /\ IsPrefix(Oks(out), s)
                              /\ Len(Oks(out)) < Len(out) => fired > 0
                              /\ over => Oks(out) = s
          [] k = "race" -> over => v \in {s[1], t[1]}
          [] k = "try_race" -> over => /\ v \in {s[1], t[1]}
                                       /\ v[1] = "err" => s[1][1] = "err" /\ t[1][1] = "err"
          [] k = "try_join" -> over => IF s[1][1] = "ok" /\ t[1][1] = "ok"
                                       THEN v = <<"ok", <<s[1][2], t[1][2]>>>>
                                       ELSE v \in {x \in {s[1], t[1]} : x[1] = "err"}
          [] k = "future_timeout" -> over => v = <<"ok", s[1]>> \/ (v[1] = "err" /\ fired > 0)
          [] k = "io_timeout" -> over => v = s[1] \/ (v[1] = "err" /\ fired > 0)
RaceKinds == {"merge", "timeout", "race", "try_race", "try_join", "future_timeout", "io_timeout"}

(* A timer keeps items apart, or holds them back.                          *)
InTime(g, out, fired) ==
    /\ g.ad.k = "throttle" => Len(out) <= fired + 1
    /\ g.ad.k = "interval" => Len(out) <= fired
    /\ g.ad.k \in {"delay", "future_delay", "sleep"} => (out # <<>> => fired > 0)

---------------------------------------------------------------------------
(* Readers: the bytes that come out are the bytes of the input, in order.   *)
(* failed says whether an input has answered an error.                     *)

(* What a successful read of a future returns; an error returns a prefix.   *)
ReadPromise(g) ==
    LET s == g.s  nl == First(s, {I!NL})
    IN  CASE g.ad.k = "read_exact" -> Upto(s, g.ad.n)
          [] g.ad.k \in {"read_to_end", "read_to_string"} -> s
          [] g.ad.k \in {"read_until", "read_line"} -> IF nl = 0 THEN s ELSE Upto(s, nl)
ReadFails(g, failed) ==
    \/ failed
    \/ g.ad.k = "read_exact" /\ Len(g.s) < g.ad.n
    \/ g.ad.k \in {"read_to_string", "read_line"} /\ ~I!Utf8(ReadPromise(g))
ReadKinds == {"read_exact", "read_to_end", "read_to_string", "read_until", "read_line"}

(* read_line() and lines() panic only if debug assertions are on and the     *)
(* reader failed in the middle of a line, read bytes having been read.      *)
MayPanic(g, failed, read) ==
    g.ad.k \in {"read_line", "lines"} /\ g.ad.acc.debug /\ failed /\ read > 0 /\ g.s[read] # I!NL

KeepsRead(g, out, over, failed, read) ==
    over => CASE out[1][1] = "ok" -> out[1][2] = ReadPromise(g) /\ ~ReadFails(g, failed)
              [] out[1][1] = "err" -> IsPrefix(out[1][2], g.s) /\ ReadFails(g, failed)
              [] out[1][1] = "panic" -> MayPanic(g, failed, read)

(* The readers that are read again and again, or as a stream of lines.      *)
Pieces(s) ==
    LET ends == SetToSortSeq(Positions(s, {I!NL}), LAMBDA x, y : x < y)
        start(i) == IF i = 1 THEN 1 ELSE ends[i - 1] + 1
        cut == [i \in DOMAIN ends |-> SubSeq(s, start(i), ends[i] - 1)]
        rest == After(s, IF ends = <<>> THEN 0 ELSE ends[Len(ends)])
    IN  IF rest = <<>> THEN cut ELSE Append(cut, rest)

ChunkPromise(g) ==
    CASE g.ad.k \in {"bytes", "stdin"} -> g.s
      [] g.ad.k \in {"read", "read_vectored"} -> Upto(g.s, I!Room)
      [] g.ad.k = "read_chain" -> g.s \o g.t
      [] g.ad.k = "read_take" -> Upto(g.s, g.ad.n)
ChunkKinds == {"bytes", "stdin", "read", "read_vectored", "read_chain", "read_take"}

KeepsChunks(g, out, over, failed) ==
    LET oks == Oks(out)
        got == IF g.ad.k = "bytes" THEN oks ELSE FlattenSeq(oks)
    IN  /\ IsPrefix(got, ChunkPromise(g))
        /\ Len(oks) < Len(out) => failed
        /\ over /\ g.ad.k \notin {"read", "read_vectored"} => got = ChunkPromise(g)

(* A line that ends in CR NL loses both; the last one may end in CR.        *)
LinesPromise(g) ==
    LET cut == Pieces(g.s)
        ended(i) == i < Len(cut) \/ (g.s # <<>> /\ g.s[Len(g.s)] = I!NL)
    IN  [i \in DOMAIN cut |-> IF g.ad.k = "lines" /\ ended(i) THEN I!Chomp(cut[i], I!CR) ELSE cut[i]]

(* Up to an error the items are the lines.  split() goes on where it failed,  *)
(* and so does lines(), unless it failed in the middle of a line and went on  *)
(* because debug assertions are off.                                       *)
KeepsLines(g, out, over, failed, read) ==
    LET all == LinesPromise(g)
        bad == {i \in DOMAIN out : out[i][1] # "ok"}
        before == IF bad = {} THEN out ELSE Upto(out, Min(bad) - 1)
        panicked == \E i \in bad : out[i][1] = "panic"
    IN  /\ bad # {} => failed /\ Cardinality(bad) = 1
        /\ panicked => MayPanic(g, failed, read)
        /\ IsPrefix(Oks(before), all)
        /\ bad = {} \/ g.ad.k = "split" \/ g.ad.acc.debug =>
               IsPrefix(Oks(out), all) /\ (over /\ ~panicked => Oks(out) = all)

(* Every read continues where the consumer is, wherever the buffered reader  *)
(* is, and so does a seek from the current position.  Answers the position   *)
(* after out, -1 when some answer is wrong.                                *)
Position(s, out) ==
    LET from(at, whence) == CASE whence = "current" -> at [] whence = "start" -> 0
                              [] whence = "end" -> Len(s)
    IN  FoldLeft(LAMBDA at, r :
                     IF at = -1 \/ r[1] = "err" THEN at
                     ELSE IF r[1] = "seek" THEN IF r[2] = from(at, r[3]) + r[4] THEN r[2] ELSE -1
                     ELSE IF r[2] = SubSeq(s, at + 1, at + Len(r[2])) THEN at + Len(r[2]) ELSE -1,
                 0, out)
=============================================================================
