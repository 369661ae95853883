--------------------------- MODULE SocketAdapters ---------------------------
(***************************************************************************)
(* Futures over blocking jobs and over sockets that are not open yet: the    *)
(* resolution of addresses (src/net/addr.rs), the functions that try one     *)
(* address after another (src/net/tcp/, src/net/udp/), the handle of a       *)
(* blocking job, and the stream of directory entries (src/fs/read_dir.rs).   *)
(*                                                                         *)
(* Input 1 is the job that resolves a name, input 2 an attempt that takes    *)
(* time.  p is the set of addresses for which attempts succeed, io whether   *)
(* the addresses are known ("try") or not ("resolve"), acc the ones not      *)
(* tried yet (before that: the result of a future that is made Ready), n the *)
(* address of last_err.                                                    *)
(***************************************************************************)
EXTENDS Poll

NoAddress  == 0
Unresolved == 9

Attempt(P, addr) == IF addr \in P THEN <<"ok", addr>> ELSE <<"err", addr>>

(* The task of a JoinHandle is over; one that panicked is not modelled.     *)
JoinHandle(ad, a) == Ready(ad, a.v)

(* ToSocketAddrsFuture::poll, Resolving or Ready; then it is Done.          *)
Resolution(ad, a) == IF a.t = "unpolled" THEN ad.acc ELSE a.v

ToSocketAddrsFuture(ad, a) == Ready(ad, Resolution(ad, a))

(* addrs.to_socket_addrs().await?                                          *)
Resolved(ad, a) ==
    LET res == Resolution(ad, a)
    IN  IF res[1] = "err" THEN Ready(ad, res)
        ELSE Loop([ad EXCEPT !.at = 0, !.io = "try", !.acc = res[2]])

(* TcpStream::connect: every attempt is a blocking job.                     *)
TcpConnect(ad, a) ==
    IF ad.io = "resolve" THEN Resolved(ad, a)
    ELSE IF ad.at = 2
    THEN IF a.v[1] = "ok" THEN Ready(ad, a.v) ELSE Loop([ad EXCEPT !.at = 0, !.n = a.v[2]])
    ELSE IF ad.acc = <<>> THEN Ready(ad, <<"err", ad.n>>)
    ELSE Load(Loop([ad EXCEPT !.at = 2, !.acc = Tail(@)]), 2, <<Attempt(ad.p, Head(ad.acc))>>)

(* One attempt after the other, in one poll.                               *)
TryEach(ad, a) ==
    IF ad.io = "resolve" THEN Resolved(ad, a)
    ELSE IF ad.acc = <<>> THEN Ready(ad, <<"err", ad.n>>)
    ELSE IF Head(ad.acc) \in ad.p THEN Ready(ad, Attempt(ad.p, Head(ad.acc)))
    ELSE Loop([ad EXCEPT !.acc = Tail(@), !.n = Head(ad.acc)])
TcpBind(ad, a)    == TryEach(ad, a)
UdpBind(ad, a)    == TryEach(ad, a)
UdpConnect(ad, a) == TryEach(ad, a)

(* Only the first address is sent to; poll_write_with is input 2.           *)
UdpSendTo(ad, a) ==
    IF ad.io = "resolve" THEN Resolved(ad, a)
    ELSE IF ad.at = 2 THEN Ready(ad, a.v)
    ELSE IF ad.acc = <<>> THEN Ready(ad, <<"err", NoAddress>>)
    ELSE Load(Loop(At(ad, 2)), 2, <<Attempt(ad.p, Head(ad.acc))>>)

(* at = 0 is Idle, at = 1 Busy: the job takes the next entry.                *)
ReadDir(ad, a) ==
    IF ad.at = 0 THEN Loop(At(ad, 1))
    ELSE IF a.t = "none" THEN End(At(ad, 0)) ELSE Item(At(ad, 0), a.v)

(* Input 1 is poll_read_with around accept_std(); every poll of Incoming     *)
(* makes a future of accept() anew.  A stream is in the reactor when it is    *)
(* returned.                                                               *)
TcpAccept(ad, a)  == Ready(ad, a.v)
UnixAccept(ad, a) == Ready(ad, a.v)
TcpIncoming(ad, a)  == Item(ad, TcpAccept(ad, a).v)
UnixIncoming(ad, a) == Item(ad, UnixAccept(ad, a).v)

---------------------------------------------------------------------------
(* What ToSocketAddrs makes of the types it is implemented for.             *)

Resolve(at, res) == [Make("to_socket_addrs", at) EXCEPT !.acc = res, !.io = "resolve"]
SocketAddrAddrs(addr)  == Resolve(0, <<"ok", <<addr>>>>)
SocketAddrV4Addrs(addr) == SocketAddrAddrs(addr)
SocketAddrV6Addrs(addr) == SocketAddrAddrs(addr)
Ipv4AddrAddrs(addr)    == SocketAddrV4Addrs(addr)
Ipv6AddrAddrs(addr)    == SocketAddrV6Addrs(addr)
SliceAddrs(addrs)      == Resolve(0, <<"ok", addrs>>)
(* parsed: the address the string is, or NoVal when it is a name.           *)
StrAddrs(parsed)  == IF parsed = NoVal THEN Resolve(1, 0) ELSE Resolve(0, <<"ok", parsed>>)
HostAddrs(parsed) == IF parsed = NoVal THEN Resolve(1, 0) ELSE Resolve(0, <<"ok", parsed>>)

To(k, P, addrs) == [addrs EXCEPT !.k = k, !.p = P]
tcp_connect(P, addrs) == To("tcp_connect", P, addrs)
tcp_bind(P, addrs)    == To("tcp_bind", P, addrs)
udp_bind(P, addrs)    == To("udp_bind", P, addrs)
udp_connect(P, addrs) == To("udp_connect", P, addrs)
udp_send_to(P, addrs) == To("udp_send_to", P, addrs)
job      == Make("job", 1)
read_dir == Make("read_dir", 0)
tcp_accept  == Make("tcp_accept", 1)
unix_accept == Make("unix_accept", 1)
tcp_incoming  == Make("tcp_incoming", 1)
unix_incoming == Make("unix_incoming", 1)
=============================================================================
