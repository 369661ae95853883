----------------------------- MODULE IoAdapters -----------------------------
(***************************************************************************)
(* The readers and writers of src/io/.  Input 1 is a reader, which answers  *)
(* a read of at most io bytes with the bytes (<<>> at the end); input 2 is a *)
(* writer, which answers a write of the bytes io with the number it took.    *)
(* A consumer that reads or writes again and again is part of the adapter:  *)
(* a reader is the stream of what its reads return.                        *)
(***************************************************************************)
EXTENDS Poll, Integers, FiniteSetsExt

(* Bytes: CR, NL, a byte that is not UTF-8, and others.                    *)
NotUtf8 == 0
CR == 2
NL == 3
Utf8(b) == \A i \in DOMAIN b : b[i] # NotUtf8

From(s, i) == SubSeq(s, i, Len(s))
PollRead(ad, room)   == [ad EXCEPT !.at = 1, !.io = room]
PollWrite(ad, bytes) == [ad EXCEPT !.at = 2, !.io = bytes]
PollFlush(ad)        == At(ad, 3)
PollSeek(ad, whence, off) == [ad EXCEPT !.at = 4, !.io = <<whence, off>>]
Ok(v)     == <<"ok", v>>
Error(v)  == <<"err", v>>
IsErr(a)  == a.t \in {"err", "interrupted"}

---------------------------------------------------------------------------
(* Futures and streams over a reader.                                      *)

ReadFuture(ad, a) == Ready(ad, IF IsErr(a) THEN Error(<<>>) ELSE Ok(a.v))
ReadVectoredFuture(ad, a) == ReadFuture(ad, a)

(* acc is the filled part of a buffer of n bytes.                          *)
ReadExact(ad, a) ==
    IF a.t = "unpolled" THEN Ready(ad, Ok(ad.acc))
    ELSE IF IsErr(a) \/ a.v = <<>> THEN Ready(ad, Error(ad.acc))
    ELSE LET now == Acc(ad, ad.acc \o a.v)
         IN  IF Len(now.acc) = ad.n THEN Ready(now, Ok(now.acc))
             ELSE Loop(PollRead(now, ad.n - Len(now.acc)))

(* The vector is grown before every read: io only bounds what one returns. *)
ReadToEnd(ad, a) ==
    IF IsErr(a) THEN Ready(ad, Error(ad.acc))
    ELSE IF a.v = <<>> THEN Ready(ad, Ok(ad.acc)) ELSE Loop(Acc(ad, ad.acc \o a.v))

(* On an error the string is still given what was read, if it is UTF-8.     *)
ReadToString(ad, a) ==
    LET o == ReadToEnd(ad, a)
    IN  IF o.r = "ready" /\ ~Utf8(ad.acc) THEN [o EXCEPT !.v = Error(<<>>)] ELSE o

(* An interrupted read parks the task, which nothing will wake.             *)
Bytes(ad, a) ==
    IF a.t = "interrupted" THEN Park(ad)
    ELSE IF IsErr(a) THEN Item(ad, Error(<<>>))
    ELSE IF a.v = <<>> THEN End(ad) ELSE Item(ad, Ok(a.v[1]))

(* at = 2 is done_first.                                                   *)
ReadChain(ad, a) ==
    IF IsErr(a) THEN Item(ad, Error(<<>>))
    ELSE IF a.v # <<>> THEN Item(ad, Ok(a.v))
    ELSE IF ad.at = 1 THEN Loop(At(ad, 2)) ELSE End(ad)

(* n is the limit, p the size of the caller's buffer; at the limit the      *)
(* reader is not polled.                                                   *)
ReadTake(ad, a) ==
    IF a.t = "unpolled" THEN End(ad)
    ELSE IF IsErr(a) THEN Item(ad, Error(<<>>))
    ELSE LET left == ad.n - Len(a.v)
             now  == [ad EXCEPT !.n = left, !.io = Min({ad.p, left}),
                                !.at = IF left = 0 THEN 0 ELSE 1]
         IN  IF a.v = <<>> THEN End(now) ELSE Item(now, Ok(a.v))

EmptyRead(ad)  == End(ad)
RepeatRead(ad) == Item(ad, Ok([i \in 1..ad.n |-> ad.p]))
SinkWrite(ad)  == Ready(ad, Ok(Len(ad.p)))

---------------------------------------------------------------------------
(* BufReader.  n is the capacity, acc the bytes between pos and cap, p the   *)
(* consumer's call: <<"read", size>> or <<"seek", whence, offset>>, <<>>     *)
(* before it is made.                                                      *)

(* i64::MIN on a number line of this model's size.                         *)
MinOffset == -2

(* rem.read(buf) and consume(nread); <<>> ends the stream.                  *)
Served(ad) ==
    LET size == Min({ad.p[2], Len(ad.acc)})
    IN  IF size = 0 THEN End(ad)
        ELSE Item([ad EXCEPT !.acc = From(@, size + 1), !.p = <<>>, !.at = 0],
                  <<"read", SubSeq(ad.acc, 1, size)>>)

BufReaderRead(ad, a) ==
    IF a.t = "unpolled"
    THEN IF ad.acc # <<>> THEN Served(ad)
         ELSE Loop(PollRead(ad, IF ad.p[2] >= ad.n THEN ad.p[2] ELSE ad.n))
    ELSE IF IsErr(a) THEN Item([ad EXCEPT !.p = <<>>, !.at = 0], <<"err", 0>>)
    ELSE Served(Acc(ad, a.v))

(* Mutant: a relative seek starts where the reader is. *)
BufReaderSeekFromReader(ad, a) ==
    IF a.t = "unpolled" THEN Loop(PollSeek(ad, ad.p[2], ad.p[3]))
    ELSE IF IsErr(a) THEN Item([ad EXCEPT !.p = <<>>, !.at = 0], <<"err", 0>>)
    ELSE Item([ad EXCEPT !.acc = <<>>, !.p = <<>>, !.at = 0], <<"seek", a.v, ad.p[2], ad.p[3]>>)

(* A seek from the current position starts where the consumer is, Len(acc)   *)
(* before the reader; with SeekFrom::Start or End the buffer does not matter.*)
(* io is the seek that is under way.                                       *)
BufReaderSeek(ad, a) ==
    LET whence == ad.p[2]
        offset == ad.p[3]
        remainder == IF whence = "current" THEN Len(ad.acc) ELSE 0
        underflows == offset - remainder < MinOffset
        finished == [ad EXCEPT !.acc = <<>>, !.p = <<>>, !.at = 0]
    IN  IF a.t = "unpolled"
        THEN Loop(PollSeek(ad, whence, IF underflows THEN -remainder ELSE offset - remainder))
        ELSE IF IsErr(a) THEN Item([ad EXCEPT !.p = <<>>, !.at = 0], <<"err", 0>>)
        ELSE IF underflows THEN Loop(PollSeek(Acc(ad, <<>>), whence, offset))
        ELSE Item(finished, <<"seek", a.v, whence, offset>>)

BufReader(ad, a) ==
    IF a.t = "pending" THEN Park(At(ad, 0))
    ELSE IF ad.p[1] = "read" THEN BufReaderRead(ad, a) ELSE BufReaderSeek(ad, a)

---------------------------------------------------------------------------
(* BufRead: read_until, read_line, split, lines over a BufReader.  n is      *)
(* `read`, p is what the BufReader has left of its last fill, acc.bytes the  *)
(* vector that is filled (`buf` of read_until and split, else `bytes`),      *)
(* acc.buf the string it becomes, acc.debug whether the build has debug      *)
(* assertions.                                                             *)

Upto(b) == LET nls == {i \in DOMAIN b : b[i] = NL} IN IF nls = {} THEN 0 ELSE Min(nls)

(* One round of read_until_internal: Ready(n) when it returns, with the     *)
(* adapter as it leaves it.                                                *)
ReadUntilInternal(ad, a) ==
    LET available == IF a.t = "some" THEN a.v ELSE ad.p
        used == IF Upto(available) > 0 THEN Upto(available) ELSE Len(available)
        now  == [ad EXCEPT !.acc.bytes = @ \o SubSeq(available, 1, used),
                           !.p = From(available, used + 1), !.n = @ + used,
                           !.at = IF used < Len(available) THEN 0 ELSE 1]
    IN  IF IsErr(a) THEN Ready(ad, Error(0))
        ELSE IF Upto(available) > 0 \/ used = 0
        THEN Ready([now EXCEPT !.n = 0], Ok(now.n)) ELSE Loop(now)

WithBytes(o) == IF o.r = "ready" THEN [o EXCEPT !.v = <<@[1], o.ad.acc.bytes>>] ELSE o
ReadUntil(ad, a) == WithBytes(ReadUntilInternal(ad, a))

(* bytes and buf are swapped if bytes is UTF-8, also when the reader failed; *)
(* before that the code asserts that buf is empty and read is 0, which only  *)
(* a build with debug assertions evaluates.                                *)
SwapLine(o) ==
    LET now == o.ad.acc
    IN  IF o.r # "ready" THEN o
        ELSE IF ~Utf8(now.bytes) THEN [o EXCEPT !.v = Error(0)]
        ELSE IF now.debug /\ (now.buf # <<>> \/ o.ad.n # 0) THEN Panic(o.ad)
        ELSE [o EXCEPT !.ad.acc = [now EXCEPT !.buf = now.bytes, !.bytes = now.buf]]
ReadLineInternal(ad, a) == SwapLine(ReadUntilInternal(ad, a))

WithBuf(o) == IF o.r = "ready" THEN [o EXCEPT !.v = <<@[1], o.ad.acc.buf>>] ELSE o
ReadLine(ad, a) == WithBuf(ReadLineInternal(ad, a))

Chomp(b, c) == IF b # <<>> /\ b[Len(b)] = c THEN SubSeq(b, 1, Len(b) - 1) ELSE b
ChompLine(b) == IF Chomp(b, NL) # b THEN Chomp(Chomp(b, NL), CR) ELSE b

(* The item that becomes of outcome o, the stream's end if it is empty.      *)
LineItem(o, b, line, emptied) ==
    IF o.r # "ready" \/ o.v[1] = "panic" THEN o
    ELSE IF o.v[1] = "err" THEN Item(o.ad, Error(<<>>))
    ELSE IF o.v[2] = 0 /\ b = <<>> THEN End(o.ad)
    ELSE Item(emptied, Ok(line))

SplitItem(o) ==
    LineItem(o, o.ad.acc.bytes, Chomp(o.ad.acc.bytes, NL), [o.ad EXCEPT !.acc.bytes = <<>>])
Split(ad, a) == SplitItem(ReadUntilInternal(ad, a))

LinesItem(o) ==
    LineItem(o, o.ad.acc.buf, ChompLine(o.ad.acc.buf), [o.ad EXCEPT !.acc.buf = <<>>])
Lines(ad, a) == LinesItem(ReadLineInternal(ad, a))

---------------------------------------------------------------------------
(* Futures over a writer.                                                  *)

WriteFuture(ad, a) == Ready(ad, IF IsErr(a) THEN Error(0) ELSE Ok(a.v))
WriteVectoredFuture(ad, a) == WriteFuture(ad, a)
SeekFuture(ad, a) == Ready(ad, IF IsErr(a) THEN Error(0) ELSE Ok(a.v))
FlushFuture(ad, a) == Ready(ad, IF IsErr(a) THEN Error(0) ELSE Ok(0))

(* acc is the rest of the buffer.                                          *)
WriteAll(ad, a) ==
    IF a.t = "unpolled" THEN Ready(ad, Ok(0))
    ELSE IF IsErr(a) \/ a.v = 0 THEN Ready(ad, Error(0))
    ELSE LET rest == From(ad.acc, a.v + 1)
         IN  IF rest = <<>> THEN Ready(Acc(ad, rest), Ok(0))
             ELSE Loop(PollWrite(Acc(ad, rest), rest))

(* acc is the buffer, n is amt; every write is given the whole buffer.      *)
WriteFmt(ad, a) ==
    IF IsErr(a) \/ (ad.at = 2 /\ a.v = 0) THEN Ready(ad, Error(0))
    ELSE IF ad.at = 3 THEN Ready(ad, Ok(0))
    ELSE LET now == [ad EXCEPT !.n = @ + a.v]
         IN  Loop(IF now.n = Len(ad.acc) THEN PollFlush(now) ELSE PollWrite(now, ad.acc))

(* acc is what the BufReader holds, p its capacity, n is amt.               *)
Copy(ad, a) ==
    IF IsErr(a) \/ (ad.at = 2 /\ a.v = 0) THEN Ready(ad, Error(ad.n))
    ELSE IF ad.at = 3 THEN Ready(ad, Ok(ad.n))
    ELSE IF ad.at = 1
    THEN Loop(IF a.v = <<>> THEN PollFlush(ad) ELSE PollWrite(Acc(ad, a.v), a.v))
    ELSE LET rest == From(ad.acc, a.v + 1)
             now  == [ad EXCEPT !.n = @ + a.v, !.acc = rest]
         IN  Loop(IF rest = <<>> THEN PollRead(now, ad.p) ELSE PollWrite(now, rest))

---------------------------------------------------------------------------
(* BufWriter under write_all() of the pieces p, then flush().  n is the      *)
(* capacity, acc = [buf, written, direct]: direct when the write under way   *)
(* is the piece itself.                                                    *)

(* What poll_write does after poll_flush_buf, if it needs one, or poll_flush *)
(* when no piece is left.                                                  *)
BufWriterRest(ad) ==
    IF ad.p = <<>> THEN Loop(PollFlush(ad))
    ELSE IF Len(ad.p[1]) >= ad.n THEN Loop(PollWrite([ad EXCEPT !.acc.direct = TRUE], ad.p[1]))
    ELSE Loop([ad EXCEPT !.acc.buf = @ \o ad.p[1], !.p = Tail(@), !.at = 0])

(* The end of poll_flush_buf: buf.drain(..written), also after an error.     *)
Drained(ad) == [ad EXCEPT !.acc.buf = From(@, ad.acc.written + 1), !.acc.written = 0]

(* Mutant: after a short write the buffer is written from its start. *)
PollFlushBufAnew(ad) ==
    IF ad.acc.written < Len(ad.acc.buf) THEN Loop(PollWrite(ad, ad.acc.buf))
    ELSE BufWriterRest(Drained(ad))

PollFlushBuf(ad) ==
    IF ad.acc.written < Len(ad.acc.buf)
    THEN Loop(PollWrite(ad, From(ad.acc.buf, ad.acc.written + 1)))
    ELSE BufWriterRest(Drained(ad))

BufWriterPoll(ad) ==
    IF ad.p = <<>> \/ Len(ad.acc.buf) + Len(ad.p[1]) > ad.n THEN PollFlushBuf(ad)
    ELSE BufWriterRest(ad)

BufWriter(ad, a) ==
    IF a.t = "unpolled" THEN BufWriterPoll(ad)
    ELSE IF a.t = "interrupted" /\ ~ad.acc.direct THEN PollFlushBuf(ad)
    ELSE IF ad.at = 3 THEN Ready(ad, IF a.t = "some" THEN Ok(0) ELSE Error(0))
    ELSE IF a.t # "some" \/ a.v = 0 THEN Ready(Drained(ad), Error(0))
    ELSE IF ad.acc.direct
    THEN LET rest == From(ad.p[1], a.v + 1)
         IN  Loop([ad EXCEPT !.acc.direct = FALSE, !.at = 0,
                             !.p = (IF rest = <<>> THEN <<>> ELSE <<rest>>) \o Tail(@)])
    ELSE PollFlushBuf([ad EXCEPT !.acc.written = @ + a.v])

---------------------------------------------------------------------------
(* Stdin, Stdout and Stderr.  The blocking call is the input: Busy while at  *)
(* is not 0.  acc is last_op, p the call of the consumer.                   *)

(* p is <<"read", size>> or <<"line", 0>>; a blocking call of size 0 is a    *)
(* read_line().  The result of another operation is thrown away.           *)
StdinRead(ad) ==
    LET idle == Acc(ad, NoVal)
        res  == ad.acc[2]
    IN  IF ad.acc = NoVal \/ ad.acc[1] # "read" THEN Loop(PollRead(idle, ad.p[2]))
        ELSE IF Len(res[2]) > ad.p[2] THEN Loop(idle)
        ELSE IF res = Ok(<<>>) THEN End(idle) ELSE Item([idle EXCEPT !.p = <<>>], res)

StdinReadLine(ad) ==
    LET idle == Acc(ad, NoVal)
        res  == ad.acc[2]
    IN  IF ad.acc = NoVal \/ ad.acc[1] # "line" THEN Loop(PollRead(idle, 0))
        ELSE IF res = Ok(<<>>) THEN End(idle) ELSE Item([idle EXCEPT !.p = <<>>], res)

(* The blocking call has stored its result.                                *)
StdinDone(ad, a) ==
    Loop(At(Acc(ad, <<IF ad.io = 0 THEN "line" ELSE "read",
                      IF IsErr(a) THEN Error(<<>>) ELSE Ok(a.v)>>), 0))

Stdin(ad, a) ==
    IF a.t # "unpolled" THEN StdinDone(ad, a)
    ELSE IF ad.p[1] = "read" THEN StdinRead(ad) ELSE StdinReadLine(ad)

(* write_all() of p, then flush().                                         *)
Stdout(ad, a) ==
    LET op == IF ad.p = <<>> THEN "flush" ELSE "write"
        idle == Acc(ad, NoVal)
        took == ad.acc[2]
    IN  IF a.t # "unpolled" THEN Loop(At(Acc(ad, <<IF ad.at = 3 THEN "flush" ELSE "write", a>>), 0))
        ELSE IF ad.acc = NoVal \/ ad.acc[1] # op
        THEN Loop(IF op = "flush" THEN PollFlush(idle) ELSE PollWrite(idle, ad.p))
        ELSE IF took.t # "some" \/ (op = "write" /\ took.v = 0) THEN Ready(idle, Error(0))
        ELSE IF op = "flush" THEN Ready(idle, Ok(0))
        ELSE IF took.v > Len(ad.p) THEN Loop(idle)
        ELSE Loop([idle EXCEPT !.p = From(@, took.v + 1)])
Stderr(ad, a) == Stdout(ad, a)

---------------------------------------------------------------------------
(* The methods of ReadExt, BufReadExt and WriteExt and the constructors.    *)

(* The room of a read whose buffer is larger than any chunk of the model.   *)
Room == 2

read          == PollRead(Make("read", 1), Room)
read_vectored == PollRead(Make("read_vectored", 1), Room)
read_exact(n) == LET ad == [MakeAcc("read_exact", <<>>) EXCEPT !.n = n]
                 IN  IF n = 0 THEN At(ad, 0) ELSE PollRead(ad, n)
read_to_end   == PollRead(MakeAcc("read_to_end", <<>>), Room)
read_to_string == PollRead(MakeAcc("read_to_string", <<>>), Room)
bytes         == PollRead(Make("bytes", 1), 1)
chain         == PollRead(Make("read_chain", 1), Room)
take(n)       == [MakeN("read_take", n) EXCEPT !.p = Room, !.io = Min({Room, n}),
                                               !.at = IF n = 0 THEN 0 ELSE 1]
empty         == Make("read_empty", 0)
repeat(byte, size) == [Make("read_repeat", 0) EXCEPT !.p = byte, !.n = size]
sink(b)       == [Make("sink", 0) EXCEPT !.p = b]
with_capacity(n) == [Make("buf_reader", 0) EXCEPT !.n = n, !.acc = <<>>, !.p = <<>>]
BufRead(k, debug) ==
    PollRead(MakeFold(k, <<>>, [bytes |-> <<>>, buf |-> <<>>, debug |-> debug]), Room)
read_until    == BufRead("read_until", FALSE)
split         == BufRead("split", FALSE)
read_line(debug) == BufRead("read_line", debug)
lines(debug)  == BufRead("lines", debug)
write(b)      == PollWrite(Make("write", 2), b)
write_vectored(b) == PollWrite(Make("write_vectored", 2), b)
seek(whence, off) == PollSeek(Make("seek", 4), whence, off)
flush         == Make("flush", 3)
write_all(b)  == LET ad == MakeAcc("write_all", b) IN IF b = <<>> THEN At(ad, 0) ELSE PollWrite(ad, b)
write_fmt(b)  == LET ad == MakeAcc("write_fmt", b) IN IF b = <<>> THEN PollFlush(ad) ELSE PollWrite(ad, b)
copy          == PollRead(MakeFold("copy", Room, <<>>), Room)
buf_writer(n, pieces) == [Make("buf_writer", 0) EXCEPT !.n = n, !.p = pieces,
                             !.acc = [buf |-> <<>>, written |-> 0, direct |-> FALSE]]
stdin         == [Make("stdin", 0) EXCEPT !.p = <<>>, !.acc = NoVal]
stdout(b)     == [Make("stdout", 0) EXCEPT !.p = b, !.acc = NoVal]
stderr(b)     == [Make("stderr", 0) EXCEPT !.p = b, !.acc = NoVal]
=============================================================================
