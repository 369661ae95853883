--------------------------- MODULE MCPollAdapters ---------------------------
(***************************************************************************)
(* PollAdapters over every adapter, with small inputs.  Scope chooses between *)
(*   "all"          all the adapters but eq and ne, with the right stream of  *)
(*                  a comparison never late                                *)
(*   "comparisons"  the comparisons, with both streams late                 *)
(*   "lines"        read_line() and lines() over readers that may fail       *)
(*   "interrupted"  copy() where reads and writes may be interrupted         *)
(***************************************************************************)
EXTENDS PollAdapters

CONSTANTS Scope, MaxLen

Seqs(V, n) == UNION {[1..m -> V] : m \in 0..n}
One   == Seqs({1, 2, 3}, MaxLen)
Two   == Seqs({1, 2}, 2)
Sets  == {{2}, {1, 3}}
Items(s) == Input("items", s)
Timer == Input("timer", <<>>)
Square == [v \in 1..3 |-> v * v]
Part  == [v \in {1, 3} |-> v + 4]
(* Two of the three keys are the same.                                     *)
Keys  == {[v \in 1..3 |-> v \div 2], [v \in 1..3 |-> 4 - ((v + 1) \div 2)]}
Inner == [v \in 1..3 |-> Seqs({v}, 2)]
Results == {<<"ok", 1>>, <<"err", 2>>}
Bytes3 == Seqs({1, 2, 3}, MaxLen)
Collections == {"vec", "deque", "list", "string", "hashset", "btreeset", "heap", "hashmap",
                "btreemap", "unit"}
Faulty(input) == {input, [input EXCEPT !.fault = {"err"}]}
Sinks == LET w == Input("writer", <<>>) IN {w, [w EXCEPT !.fault = {"err", "zero", "interrupted"}]}

StartStream ==
    \/ \E s \in One :
        \/ Begin(S!map(Square), Items(s), Nothing)
        \/ Begin(S!inspect, Items(s), Nothing)
        \/ Begin(S!cloned, Items(s), Nothing)
        \/ Begin(S!copied, Items(s), Nothing)
        \/ Begin(S!fuse, Items(s), Nothing)
        \/ Begin(S!enumerate, Items(s), Nothing)
        \/ Begin(S!filter_map(Part), Items(s), Nothing)
        \/ s # <<>> /\ Begin(S!cycle(s), Items(s), Nothing)    \* of an empty stream: no end
        \/ Begin(S!delay, Items(s), Timer)
        \/ Begin(S!throttle, Items(s), Timer)
        \/ Begin(S!timeout, Items(s), Timer)
        \/ Begin(S!from_iter(s), Nothing, Nothing)
        \/ \E P \in Sets :
            \/ Begin(S!scan(P), Items(s), Nothing)
            \/ Begin(S!take_while(P), Items(s), Nothing)
            \/ Begin(S!filter(P), Items(s), Nothing)
            \/ Begin(S!skip_while(P), Items(s), Nothing)
        \/ \E n \in 0..2 :
            \/ Begin(S!take(n), Items(s), Nothing)
            \/ Begin(S!skip(n), Items(s), Nothing)
            \/ Begin(S!step_by(n + 1), Items(s), Nothing)
    \/ \E s, t \in Two :
        \/ Begin(S!chain, Items(s), Items(t))
        \/ Begin(S!zip, Items(s), Items(t))
        \/ Begin(S!merge, Items(s), Items(t))
    \/ \E s \in Seqs(Two \ {<<1, 2>>}, 2) : Begin(S!flatten, Items(s), Items(<<>>))
    \/ \E s \in Two : Begin(S!flat_map([v \in 1..2 |-> [i \in 1..(v - 1) |-> v]]), Items(s), Items(<<>>))
    \/ Begin(S!empty, Nothing, Nothing)
    \/ Begin(S!once(1), Nothing, Nothing)
    \/ Begin(S!repeat(1), Nothing, Nothing)
    \/ Begin(S!repeat_with, Nothing, Nothing)
    \/ Begin(S!from_fn(2), Nothing, Nothing)
    \/ \E first \in {<<1>>, <<2>>, NoVal} :
            Begin(S!successors(first, [v \in {1} |-> 2]), Nothing, Nothing)
    \/ Begin(S!interval, Nothing, Timer)

StartStreamFuture ==
    \E s \in One :
        \/ Begin(S!next, Items(s), Nothing)
        \/ Begin(S!count, Items(s), Nothing)
        \/ Begin(S!last, Items(s), Nothing)
        \/ Begin(S!find_map(Part), Items(s), Nothing)
        \/ Begin(S!max, Items(s), Nothing)
        \/ Begin(S!min, Items(s), Nothing)
        \/ Begin(S!fold, Items(s), Nothing)
        \/ Begin(S!for_each, Items(s), Nothing)
        \/ Begin(S!unzip(Square), Items(s), Nothing)
        \/ Begin(S!next_back, Input("back", s), Nothing)
        \/ Begin(S!rfold, Input("back", s), Nothing)
        \/ \E n \in 0..2 : \/ Begin(S!nth(n), Items(s), Nothing)
                           \/ Begin(S!nth_back(n), Input("back", s), Nothing)
        \/ \E f \in Keys : \/ Begin(S!max_by(f), Items(s), Nothing)
                           \/ Begin(S!min_by(f), Items(s), Nothing)
                           \/ Begin(S!max_by_key(f), Items(s), Nothing)
                           \/ Begin(S!min_by_key(f), Items(s), Nothing)
        \/ \E P \in Sets : \/ Begin(S!all(P), Items(s), Nothing)
                           \/ Begin(S!any(P), Items(s), Nothing)
                           \/ Begin(S!find(P), Items(s), Nothing)
                           \/ Begin(S!position(P), Items(s), Nothing)
                           \/ Begin(S!try_fold(P), Items(s), Nothing)
                           \/ Begin(S!try_for_each(P), Items(s), Nothing)
                           \/ Begin(S!partition(P), Items(s), Nothing)
                           \/ Begin(S!rfind(P), Input("back", s), Nothing)
                           \/ Begin(S!try_rfold(P), Input("back", s), Nothing)
        \/ \E into \in Collections : Begin(S!collect(into), Items(s), Nothing)
        \/ Begin(S!sum, Items(s), Nothing)
        \/ Begin(S!product, Items(s), Nothing)
        \/ Begin(S!collect_option("vec", {2}), Items(s), Nothing)
        \/ Begin(S!collect_result("vec", {2}), Items(s), Nothing)
        \/ Begin(S!option_sum({2}), Items(s), Nothing)
        \/ Begin(S!option_product({2}), Items(s), Nothing)
        \/ Begin(S!result_sum({2}), Items(s), Nothing)
        \/ Begin(S!result_product({2}), Items(s), Nothing)

(* right: what kind of input the second stream is.                         *)
StartComparison(right) ==
    \/ \E s, t \in Two :
        \/ Begin(S!cmp, Items(s), Input(right, t))
        \/ Begin(S!ge, Items(s), Input(right, t))
        \/ Begin(S!gt, Items(s), Input(right, t))
        \/ Begin(S!le, Items(s), Input(right, t))
        \/ Begin(S!lt, Items(s), Input(right, t))
        \/ Scope = "comparisons" /\ Begin(S!eq, Items(s), Input(right, t))
        \/ Scope = "comparisons" /\ Begin(S!ne, Items(s), Input(right, t))
    \/ \E s, t \in Seqs({0, 1}, 2) : Begin(S!partial_cmp, Items(s), Input(right, t))

StartFuture ==
    LET future(v) == Input("future", <<v>>)
    IN  \/ Begin(F!race, future(1), future(2))
        \/ Begin(F!join, future(1), future(2))
        \/ \E v, w \in Results : \/ Begin(F!try_race, future(v), future(w))
                                 \/ Begin(F!try_join, future(v), future(w))
        \/ Begin(F!flatten, future(1), Input("future", <<>>))
        \/ Begin(F!delay, future(1), Timer)
        \/ Begin(F!timeout, future(1), Timer)
        \/ \E v \in Results : Begin(F!io_timeout, future(v), Timer)
        \/ Begin(F!sleep, Nothing, Timer)
        \/ Begin(F!poll_fn, future(1), Nothing)
        \/ Begin(F!ready(1), Nothing, Nothing)
        \/ Begin(F!yield_now, Nothing, Nothing)

StartLines ==
    \E debug \in BOOLEAN :
        \/ \E b \in Seqs({0, 1, 3}, MaxLen) : \E r \in Faulty(Input("reader", b)) :
                Begin(I!read_line(debug), r, Nothing)
        \/ \E b \in Bytes3 : \E r \in Faulty(Input("reader", b)) :
                Begin(I!lines(debug), r, Nothing)

StartIo ==
    \/ \E b \in Bytes3 : \E r \in Faulty(Input("reader", b)) :
        \/ Begin(I!read, r, Nothing)
        \/ Begin(I!read_vectored, r, Nothing)
        \/ \E n \in 0..3 : Begin(I!read_exact(n), r, Nothing)
        \/ Begin(I!read_to_end, r, Nothing)
        \/ Begin(I!bytes, r, Nothing)
        \/ \E n \in 0..3 : Begin(I!take(n), r, Nothing)
        \/ Begin(I!read_until, r, Nothing)
        \/ Begin(I!split, r, Nothing)
        \/ Begin(I!stdin, r, Nothing)
        \/ \E w \in Sinks : Begin(I!copy, r, w)
    \/ \E b \in Seqs({0, 1, 3}, MaxLen) : \E r \in Faulty(Input("reader", b)) :
        \/ Begin(I!read_to_string, r, Nothing)
    \/ \E b, c \in Seqs({1}, 2) : \E r \in Faulty(Input("reader", b)) :
            Begin(I!chain, r, Input("reader", c))
    \/ \E r \in Faulty(Input("reader", <<1, 2, 3, 4>>)) : Begin(I!with_capacity(2), r, Nothing)
    \/ \E b \in {<<>>, <<1>>, <<1, 2>>, <<1, 2, 3>>} : \E w \in Sinks :
        \/ Begin(I!write_all(b), Nothing, w)
        \/ Begin(I!stdout(b), Nothing, w)
        \/ Begin(I!stderr(b), Nothing, w)
        \/ Begin(I!write(b), Nothing, w)
        \/ Begin(I!write_vectored(b), Nothing, w)
        \/ Begin(I!write_fmt(b), Nothing, Input("whole", <<>>))
        \/ Begin(I!sink(b), Nothing, Nothing)
    \/ \E whence \in {"start", "end", "current"}, off \in {0, -1, 2} :
            Begin(I!seek(whence, off), Input("reader", <<1, 2>>), Nothing)
    \/ \E w \in Sinks :
        \/ Begin(I!flush, Nothing, w)
        \/ \E pieces \in Seqs({<<1>>, <<2, 3>>, <<4, 5, 6>>}, 3) : Begin(I!buf_writer(3, pieces), Nothing, w)
    \/ Begin(I!empty, Nothing, Nothing)
    \/ Begin(I!repeat(1, 2), Nothing, Nothing)

(* Of two addresses none, one or both can be reached; a name may resolve to  *)
(* none of them, or not at all.                                            *)
Addressed(addrs) ==
    LET resolver == Input("future", <<addrs>>)
        attempt == Input("future", <<>>)
        known == IF addrs[1] = "err" THEN {} ELSE {N!SliceAddrs(addrs[2])} \union
                 IF Len(addrs[2]) # 1 THEN {}
                 ELSE {N!StrAddrs(addrs[2]), N!HostAddrs(addrs[2]), N!SocketAddrAddrs(addrs[2][1]),
                       N!Ipv4AddrAddrs(addrs[2][1]), N!Ipv6AddrAddrs(addrs[2][1])}
    IN  \E from \in known \union {N!StrAddrs(NoVal), N!HostAddrs(NoVal)}, P \in SUBSET {1, 2} :
            \/ Begin(from, resolver, Nothing)
            \/ Begin(N!tcp_connect(P, from), resolver, attempt)
            \/ Begin(N!tcp_bind(P, from), resolver, Nothing)
            \/ Begin(N!udp_bind(P, from), resolver, Nothing)
            \/ Begin(N!udp_connect(P, from), resolver, Nothing)
            \/ Begin(N!udp_send_to(P, from), resolver, attempt)

StartSocket ==
    \/ \E addrs \in {<<"ok", s>> : s \in Two} \union {<<"err", N!Unresolved>>} : Addressed(addrs)
    \/ \E v \in Results : Begin(N!job, Input("future", <<v>>), Nothing)
    \/ \E s \in Seqs(Results, 2) : Begin(N!read_dir, Items(s), Nothing)
    \/ \E v \in Results : \/ Begin(N!tcp_accept, Input("future", <<v>>), Nothing)
                          \/ Begin(N!unix_accept, Input("future", <<v>>), Nothing)
    \/ \E s \in [1..MaxOut -> Results] : \/ Begin(N!tcp_incoming, Items(s), Nothing)
                                        \/ Begin(N!unix_incoming, Items(s), Nothing)

StartInterrupted ==
    \E b \in Bytes3 :
        LET interrupted(input) == [input EXCEPT !.fault = {"interrupted"}]
        IN  Begin(I!copy, interrupted(Input("reader", b)), interrupted(Input("writer", <<>>)))

Init ==
    CASE Scope = "all" -> StartStream \/ StartStreamFuture \/ StartComparison("ready")
                          \/ StartFuture \/ StartLines \/ StartIo \/ StartSocket
      [] Scope = "comparisons" -> StartComparison("items")
      [] Scope = "lines" -> StartLines
      [] Scope = "interrupted" -> StartInterrupted

Spec == Init /\ [][AdapterNext]_pollVars /\ Fairness

---------------------------------------------------------------------------
(* What read_line.rs and lines.rs assert when a line, or an error, has come:  *)
(* "debug_assert!(buf.is_empty())", and that `read` is 0.  The assertions     *)
(* hold: no poll panics (read_line.rs, lines.rs).                           *)
AssertionsHold ==
    Scope = "lines" => \A i \in DOMAIN output : output[i][1] # "panic"

(* "All instances of `ErrorKind::Interrupted` are handled by this function    *)
(* and the underlying operation is retried" (copy.rs): where nothing else can *)
(* fail, copy() succeeds (interrupted).                                     *)
InterruptedIsRetried ==
    Scope = "interrupted" /\ poller = "done" => output[1][1] = "ok"
=============================================================================
