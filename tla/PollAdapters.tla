---------------------------- MODULE PollAdapters ----------------------------
(***************************************************************************)
(* A task that polls an adapter over inputs that are ready late.  The       *)
(* adapters are in StreamAdapters, FutureAdapters, IoAdapters and            *)
(* SocketAdapters; here are the inputs, the `ready!` that most adapters      *)
(* start with, and the task: it is woken, polls, and parks until a waker it  *)
(* left with an input, or with itself, is woken.                           *)
(*                                                                         *)
(* An input is late before every answer: Arrive makes the next one ready,    *)
(* before, during or after a poll.  It wakes the task only if the input was  *)
(* polled while it was not ready, which is when it was given the waker.     *)
(***************************************************************************)
EXTENDS Promises

S == INSTANCE StreamAdapters
F == INSTANCE FutureAdapters
N == INSTANCE SocketAdapters

CONSTANT MaxOut     \* items after which the task drops the stream

VARIABLES
    given,      \* the adapter and the data of its inputs, as constructed
    ad,         \* the adapter
    src,        \* its two inputs
    poller,     \* the task: "woken", "polling", "idle", "done", "enough"
    notified,   \* woken since the poll began
    output      \* what the polls have returned

pollVars == <<given, ad, src, poller, notified, output>>

(* pos: how much of data is taken.  open: the next answer is there.  reg:    *)
(* the waker is registered.  over: it has answered None, or is a future that *)
(* was Ready.  bad: it was polled after that.  fault: what it may answer     *)
(* once instead.  n: how often a timer fired; what a writer had at its last  *)
(* flush.                                                                  *)
Input(ty, data) ==
    [ty |-> ty, data |-> data, pos |-> 0, open |-> ty = "ready", reg |-> FALSE, over |-> FALSE,
     bad |-> FALSE, fault |-> {}, failed |-> FALSE, n |-> 0]
Nothing == Input("never", <<>>)

Begin(a, first, second) ==
    /\ given = [ad |-> a, s |-> first.data, t |-> second.data]
    /\ ad = a /\ src = <<first, second>>
    /\ poller = "woken" /\ notified = FALSE /\ output = <<>>

---------------------------------------------------------------------------
(* What polling input s answers, and the input after it.                   *)

Taken(s, k) == [s EXCEPT !.pos = @ + k, !.open = s.ty = "ready"]

ItemAnswers(s) ==
    IF s.pos = Len(s.data) THEN {<<None, [s EXCEPT !.over = TRUE, !.bad = @ \/ s.over]>>}
    ELSE {<<Some(s.data[IF s.ty = "back" THEN Len(s.data) - s.pos ELSE s.pos + 1]), Taken(s, 1)>>}

(* A read of at most `room` bytes, or of a line (room 0), or a seek.        *)
ReadAnswers(s, at, io) ==
    LET rest == After(s.data, s.pos)
        line == IF First(rest, {I!NL}) = 0 THEN Len(rest) ELSE First(rest, {I!NL})
        ks   == IF rest = <<>> THEN {0} ELSE IF io = 0 THEN {line} ELSE 1..Min({io, Len(rest)})
    IN  IF at = 4
        THEN LET to == io[2] + CASE io[1] = "start" -> 0 [] io[1] = "end" -> Len(s.data)
                                 [] io[1] = "current" -> s.pos
             IN  IF to < 0 THEN {<<Err, Taken(s, 0)>>} ELSE {<<Some(to), Taken(s, to - s.pos)>>}
        ELSE {<<Some(Upto(rest, k)), Taken(s, k)>> : k \in ks}

WriteAnswers(s, at, io) ==
    IF at = 3 THEN {<<Some(0), [Taken(s, 0) EXCEPT !.n = Len(s.data)]>>}
    ELSE {<<Some(k), [Taken(s, 0) EXCEPT !.data = @ \o SubSeq(io, 1, k)]>> :
              k \in IF s.ty = "whole" \/ io = <<>> THEN {Len(io)} ELSE 1..Len(io)}

Answers(s, at, io) ==
    IF ~s.open THEN {<<Pending, [s EXCEPT !.reg = TRUE]>>}
    ELSE {<<IF f = "zero" THEN Some(0) ELSE [t |-> f],
            [Taken(s, 0) EXCEPT !.fault = {}, !.failed = TRUE]>> :
              f \in IF at = 3 THEN s.fault \intersect {"err"} ELSE s.fault}
         \union
         CASE s.ty \in {"items", "back", "ready"} -> ItemAnswers(s)
           [] s.ty = "future" -> {<<Some(s.data[1]), [s EXCEPT !.over = TRUE, !.bad = @ \/ s.over]>>}
           [] s.ty = "timer" -> {<<Some(0), s>>}
           [] s.ty = "reader" -> ReadAnswers(s, at, io)
           [] s.ty \in {"writer", "whole"} -> WriteAnswers(s, at, io)

(* A fused stream that has ended, and a MaybeDone that is done, answer       *)
(* without polling their input.                                            *)
Comparisons == {"cmp", "partial_cmp", "ge", "gt", "le", "lt", "eq", "ne"}
Fused == Comparisons \union {"merge"}
Joined == {"try_race", "join", "try_join"}

Polled(i) ==
    IF ad.k \in Fused /\ src[i].over THEN {<<None, src[i]>>}
    ELSE IF ad.k \in Joined /\ ad.acc[i] # NoVal THEN {<<Some(ad.acc[i][1]), src[i]>>}
    ELSE Answers(src[i], ad.at, ad.io)

---------------------------------------------------------------------------
(* The poll functions.  The adapters that do more than return Pending when   *)
(* an input is Pending:                                                    *)

PendingAware ==
    Comparisons \union {"merge", "timeout", "flatten", "flat_map", "race", "try_race", "join",
                        "try_join", "future_delay", "future_timeout", "io_timeout", "sleep",
                        "poll_fn", "buf_reader"}

PollNext(d, a) ==
    CASE d.k = "map" -> S!Map(d, a)                  [] d.k = "inspect" -> S!Inspect(d, a)
      [] d.k = "cloned" -> S!Cloned(d, a)            [] d.k = "copied" -> S!Copied(d, a)
      [] d.k = "fuse" -> S!Fuse(d, a)                [] d.k = "enumerate" -> S!Enumerate(d, a)
      [] d.k = "scan" -> S!Scan(d, a)                [] d.k = "take_while" -> S!TakeWhile(d, a)
      [] d.k = "take" -> S!Take(d, a)                [] d.k = "filter" -> S!Filter(d, a)
      [] d.k = "filter_map" -> S!FilterMap(d, a)     [] d.k = "skip" -> S!Skip(d, a)
      [] d.k = "skip_while" -> S!SkipWhile(d, a)     [] d.k = "step_by" -> S!StepBy(d, a)
      [] d.k = "cycle" -> S!Cycle(d, a)              [] d.k = "chain" -> S!Chain(d, a)
      [] d.k = "zip" -> S!Zip(d, a)                  [] d.k = "merge" -> S!Merge(d, a)
      [] d.k = "flatten" -> S!Flatten(d, a)          [] d.k = "flat_map" -> S!FlatMap(d, a)
      [] d.k = "delay" -> S!Delay(d, a)              [] d.k = "throttle" -> S!Throttle(d, a)
      [] d.k = "timeout" -> S!Timeout(d, a)          [] d.k = "empty" -> S!Empty(d)
      [] d.k = "once" -> S!Once(d)                   [] d.k = "repeat" -> S!Repeat(d)
      [] d.k = "repeat_with" -> S!RepeatWith(d)      [] d.k = "from_fn" -> S!FromFn(d)
      [] d.k = "from_iter" -> S!FromIter(d)          [] d.k = "successors" -> S!Successors(d)
      [] d.k = "interval" -> S!Interval(d, a)        [] d.k = "bytes" -> I!Bytes(d, a)
      [] d.k = "read_chain" -> I!ReadChain(d, a)     [] d.k = "read_take" -> I!ReadTake(d, a)
      [] d.k = "read_empty" -> I!EmptyRead(d)        [] d.k = "read_repeat" -> I!RepeatRead(d)
      [] d.k = "buf_reader" -> I!BufReader(d, a)     [] d.k = "split" -> I!Split(d, a)
      [] d.k = "lines" -> I!Lines(d, a)              [] d.k = "stdin" -> I!Stdin(d, a)
      [] d.k = "read_dir" -> N!ReadDir(d, a)
      [] d.k = "tcp_incoming" -> N!TcpIncoming(d, a)  [] d.k = "unix_incoming" -> N!UnixIncoming(d, a)

PollFuture(d, a) ==
    CASE d.k = "next" -> S!NextFuture(d, a)          [] d.k = "all" -> S!AllFuture(d, a)
      [] d.k = "any" -> S!AnyFuture(d, a)            [] d.k = "count" -> S!CountFuture(d, a)
      [] d.k = "last" -> S!LastFuture(d, a)          [] d.k = "find" -> S!FindFuture(d, a)
      [] d.k = "find_map" -> S!FindMapFuture(d, a)   [] d.k = "nth" -> S!NthFuture(d, a)
      [] d.k = "position" -> S!PositionFuture(d, a)  [] d.k = "max" -> S!MaxFuture(d, a)
      [] d.k = "min" -> S!MinFuture(d, a)            [] d.k = "max_by" -> S!MaxByFuture(d, a)
      [] d.k = "min_by" -> S!MinByFuture(d, a)       [] d.k = "max_by_key" -> S!MaxByKeyFuture(d, a)
      [] d.k = "min_by_key" -> S!MinByKeyFuture(d, a)
      [] d.k = "fold" -> S!FoldFuture(d, a)          [] d.k = "for_each" -> S!ForEachFuture(d, a)
      [] d.k = "try_fold" -> S!TryFoldFuture(d, a)
      [] d.k = "try_for_each" -> S!TryForEachFuture(d, a)
      [] d.k = "partition" -> S!PartitionFuture(d, a) [] d.k = "unzip" -> S!UnzipFuture(d, a)
      [] d.k = "next_back" -> S!NextBackFuture(d, a) [] d.k = "nth_back" -> S!NthBackFuture(d, a)
      [] d.k = "rfind" -> S!RFindFuture(d, a)        [] d.k = "rfold" -> S!RFoldFuture(d, a)
      [] d.k = "try_rfold" -> S!TryRFoldFuture(d, a) [] d.k = "collect" -> S!Collect(d, a)
      [] d.k = "collect_option" -> S!OptionFromStream(d, a)
      [] d.k = "collect_result" -> S!ResultFromStream(d, a)
      [] d.k = "option_sum" -> S!OptionSum(d, a)     [] d.k = "option_product" -> S!OptionProduct(d, a)
      [] d.k = "result_sum" -> S!ResultSum(d, a)     [] d.k = "result_product" -> S!ResultProduct(d, a)
      [] d.k = "race" -> F!Race(d, a)                [] d.k = "try_race" -> F!TryRace(d, a)
      [] d.k = "join" -> F!Join(d, a)                [] d.k = "try_join" -> F!TryJoin(d, a)
      [] d.k = "future_flatten" -> F!FlattenFuture(d, a)
      [] d.k = "future_delay" -> F!DelayFuture(d, a)
      [] d.k = "future_timeout" -> F!TimeoutFuture(d, a)
      [] d.k = "io_timeout" -> F!IoTimeout(d, a)     [] d.k = "sleep" -> F!Sleep(d, a)
      [] d.k = "poll_fn" -> F!PollFn(d, a)           [] d.k = "ready" -> F!ReadyFuture(d)
      [] d.k = "yield_now" -> F!YieldNow(d)
      [] d.k = "read" -> I!ReadFuture(d, a)          [] d.k = "read_vectored" -> I!ReadVectoredFuture(d, a)
      [] d.k = "read_exact" -> I!ReadExact(d, a)     [] d.k = "read_to_end" -> I!ReadToEnd(d, a)
      [] d.k = "read_to_string" -> I!ReadToString(d, a)
      [] d.k = "read_until" -> I!ReadUntil(d, a)     [] d.k = "read_line" -> I!ReadLine(d, a)
      [] d.k = "write" -> I!WriteFuture(d, a)        [] d.k = "flush" -> I!FlushFuture(d, a)
      [] d.k = "write_all" -> I!WriteAll(d, a)       [] d.k = "write_fmt" -> I!WriteFmt(d, a)
      [] d.k = "copy" -> I!Copy(d, a)                [] d.k = "buf_writer" -> I!BufWriter(d, a)
      [] d.k = "sink" -> I!SinkWrite(d)              [] d.k = "stdout" -> I!Stdout(d, a)
      [] d.k = "stderr" -> I!Stderr(d, a)            [] d.k = "seek" -> I!SeekFuture(d, a)
      [] d.k = "write_vectored" -> I!WriteVectoredFuture(d, a)
      [] d.k = "job" -> N!JoinHandle(d, a)           [] d.k = "to_socket_addrs" -> N!ToSocketAddrsFuture(d, a)
      [] d.k = "tcp_connect" -> N!TcpConnect(d, a)   [] d.k = "tcp_bind" -> N!TcpBind(d, a)
      [] d.k = "udp_bind" -> N!UdpBind(d, a)         [] d.k = "udp_connect" -> N!UdpConnect(d, a)
      [] d.k = "udp_send_to" -> N!UdpSendTo(d, a)
      [] d.k = "tcp_accept" -> N!TcpAccept(d, a)     [] d.k = "unix_accept" -> N!UnixAccept(d, a)

PollCmp(d, a, done) ==
    CASE d.k = "cmp" -> S!CmpFuture(d, a, done)
      [] d.k = "partial_cmp" -> S!PartialCmpFuture(d, a, done)
      [] d.k = "ge" -> S!GeFuture(d, a, done)  [] d.k = "gt" -> S!GtFuture(d, a, done)
      [] d.k = "le" -> S!LeFuture(d, a, done)  [] d.k = "lt" -> S!LtFuture(d, a, done)
      [] d.k = "eq" -> S!EqFuture(d, a, done)  [] d.k = "ne" -> S!NeFuture(d, a, done)

Streams == StreamKinds \union ChunkKinds \union {"merge", "timeout", "buf_reader", "split", "lines"}

PollAdapter(d, a, done) ==
    IF a = Pending /\ d.k \notin PendingAware THEN Park(d)
    ELSE IF d.k \in Comparisons THEN PollCmp(d, a, done)
    ELSE IF d.k \in Streams \ {"read", "read_vectored"} THEN PollNext(d, a)
    ELSE PollFuture(d, a)

---------------------------------------------------------------------------
(* How a poll starts: merge() picks the stream it asks first, cycle() has no *)
(* clone under way, and the consumer of a reader makes its next call.       *)
Calls(k) ==
    IF k = "stdin" THEN {<<"read", 1>>, <<"read", 2>>, <<"line", 0>>}
    ELSE {<<"read", 1>>, <<"read", 2>>, <<"seek", "start", 1>>, <<"seek", "end", -1>>}
         \union {<<"seek", "current", off>> : off \in {-2, -1, 1}}

Entry(d) ==
    IF d.k = "merge" THEN {[d EXCEPT !.n = i, !.at = i] : i \in {1, 2}}
    ELSE IF d.k = "cycle" THEN {Acc(d, FALSE)}
    ELSE IF d.k \in {"buf_reader", "stdin"} /\ d.p = <<>> THEN {[d EXCEPT !.p = c] : c \in Calls(d.k)}
    ELSE {d}

StartPoll ==
    /\ poller = "woken"
    /\ \E d \in Entry(ad) : ad' = d
    /\ poller' = "polling" /\ notified' = FALSE
    /\ UNCHANGED <<given, src, output>>

Loaded(s, o) ==
    IF o.load = <<>> THEN s
    ELSE [s EXCEPT ![o.load[1]] = [@ EXCEPT !.data = o.load[2], !.pos = 0, !.open = FALSE,
                                            !.reg = FALSE, !.over = FALSE]]

(* What the poll function makes of the answer, and what becomes of the task. *)
Apply(a, inputs) ==
    LET o == PollAdapter(ad, a, [i \in 1..2 |-> inputs[i].over])
    IN  /\ ad' = o.ad
        /\ src' = Loaded(inputs, o)
        /\ output' = IF o.r \in {"item", "ready"} THEN Append(output, o.v) ELSE output
        /\ poller' = CASE o.r = "loop" -> "polling"
                     [] o.r = "again" -> "woken"
                     [] o.r = "park" -> IF notified THEN "woken" ELSE "idle"
                     [] o.r \in {"end", "ready"} -> "done"
                     [] o.r = "item" -> IF Len(output') = MaxOut THEN "enough" ELSE "woken"
        /\ UNCHANGED <<given, notified>>

PollInput ==
    /\ poller = "polling" /\ ad.at # 0
    /\ LET i == IF ad.at \in {1, 4} THEN 1 ELSE 2
       IN  \E r \in Polled(i) : Apply(r[1], [src EXCEPT ![i] = r[2]])

GoOn ==
    /\ poller = "polling" /\ ad.at = 0
    /\ Apply(Unpolled, src)

(* The next answer of input i is ready.                                    *)
Arrive(i) ==
    /\ ~src[i].open /\ src[i].ty # "never"
    /\ poller \notin {"done", "enough"}
    /\ src' = [src EXCEPT ![i].open = TRUE, ![i].reg = FALSE,
                          ![i].n = IF src[i].ty = "timer" THEN @ + 1 ELSE @]
    /\ notified' = (notified \/ src[i].reg)
    /\ poller' = IF poller = "idle" /\ src[i].reg THEN "woken" ELSE poller
    /\ UNCHANGED <<given, ad, output>>

(* Another future of the same task was woken.                              *)
Rewoken ==
    /\ poller = "idle"
    /\ poller' = "woken"
    /\ UNCHANGED <<given, ad, src, notified, output>>

Finished ==
    /\ poller \in {"done", "enough"}
    /\ UNCHANGED pollVars

AdapterNext == StartPoll \/ PollInput \/ GoOn \/ (\E i \in 1..2 : Arrive(i)) \/ Rewoken \/ Finished

(* The executor polls a task that is woken, a poll ends, and what is late    *)
(* arrives.                                                                *)
Fairness ==
    /\ WF_pollVars(StartPoll) /\ WF_pollVars(PollInput \/ GoOn)
    /\ \A i \in 1..2 : WF_pollVars(Arrive(i))

---------------------------------------------------------------------------
(* What comes out of an adapter is what it promises, whatever the inputs'    *)
(* timing: which of them are late, in which poll, and how much a read or a   *)
(* write moves (the poll functions of src/stream/stream/, src/future/future/,*)
(* src/io/).                                                               *)
KeepsPromise ==
    LET k == given.ad.k
        over == poller = "done"
        fired == src[2].n
        failed == src[1].failed \/ src[2].failed
    IN  /\ k \in StreamKinds =>
               LET all == StreamPromise(given, MaxOut)
               IN  IsPrefix(output, all) /\ (over => output = all)
        /\ k \in FutureKinds => (over => output[1] = FuturePromise(given))
        /\ k \in RaceKinds => RacePromise(given, output, over, fired)
        /\ InTime(given, output, fired)
        /\ k \in ReadKinds => KeepsRead(given, output, over, failed, src[1].pos)
        /\ k \in ChunkKinds => KeepsChunks(given, output, over, failed)
        /\ k \in {"lines", "split"} => KeepsLines(given, output, over, failed, src[1].pos)

(* "Determines if the elements of this `Stream` are [not] lexicographically   *)
(* equal to those of another", "Lexicographically compares the elements of   *)
(* this `Stream` with those of another" (stream/stream/mod.rs): the result   *)
(* of a comparison does not depend on which stream is late, or longer.      *)
ComparesLexicographically ==
    given.ad.k \in Comparisons /\ poller = "done" => output[1] = FuturePromise(given)

(* A byte given to a writer is in the sink, in a buffer, or still with the   *)
(* caller: never in two of them, never in none, after a short write, an      *)
(* interrupted or a failed one, and a successful end has flushed all of them.*)
(* Only copy(), when its writer fails, takes bytes with it that it has read  *)
(* and not written: its BufReader is dropped with the future                *)
(* (BufWriter::poll_flush_buf, WriteAllFuture, CopyFuture, Stdout).         *)
Data == IF given.ad.k = "buf_writer" THEN FlattenSeq(given.ad.p)
        ELSE IF given.ad.k \in {"stdout", "stderr"} THEN given.ad.p
        ELSE IF given.ad.k = "copy" THEN given.s ELSE given.ad.acc
InHand == CASE given.ad.k = "buf_writer" ->
                   After(ad.acc.buf, ad.acc.written) \o FlattenSeq(ad.p)
            [] given.ad.k \in {"stdout", "stderr"} ->
                   IF ad.at = 0 /\ ad.acc # NoVal /\ ad.acc[1] = "write" /\ ad.acc[2].t = "some"
                   THEN After(ad.p, ad.acc[2].v) ELSE ad.p
            [] given.ad.k = "copy" ->
                   (IF poller = "done" THEN <<>> ELSE ad.acc) \o After(given.s, src[1].pos)
            [] given.ad.k = "write_fmt" -> After(ad.acc, ad.n)
            [] given.ad.k = "write_all" -> ad.acc
Discarded == IF given.ad.k = "copy" /\ poller = "done" THEN ad.acc ELSE <<>>
NoByteLost ==
    given.ad.k \in {"buf_writer", "stdout", "stderr", "copy", "write_fmt", "write_all"} =>
        /\ src[2].data \o Discarded \o InHand = Data
        /\ Discarded # <<>> => src[2].failed
        /\ poller = "done" => IF output[1][1] = "err" THEN src[1].failed \/ src[2].failed
                            ELSE /\ src[2].data = Data
                                 /\ given.ad.k # "write_all" => src[2].n = Len(Data)
                                 /\ given.ad.k = "copy" => output[1][2] = Len(Data)

(* BufReader is where its consumer is: the reader's position, less what is   *)
(* buffered, is where the reads and seeks so far lead (BufReader::poll_read, *)
(* poll_seek).                                                             *)
SeeksAreExact ==
    given.ad.k = "buf_reader" =>
        /\ Position(given.s, output) # -1
        /\ src[1].pos - Len(ad.acc) = Position(given.s, output)

(* No input is polled after it ended or was ready, which an async fn answers *)
(* with a panic.  flatten() and flat_map() do poll an inner stream that has  *)
(* ended, whenever the outer one is Pending.                               *)
NotPolledAfterEnd ==
    given.ad.k \notin {"flatten", "flat_map"} => \A i \in 1..2 : ~src[i].bad

(* A task that polls an adapter gets all of it: no adapter returns Pending   *)
(* without a waker that will be woken.                                     *)
Completes == <>(poller \in {"done", "enough"})
=============================================================================
