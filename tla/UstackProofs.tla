---------------------------- MODULE UstackProofs ----------------------------
(***************************************************************************)
(* The user-level TCP stack: descriptors, ready list and blocking calls,   *)
(* for every number of peers, every length of segment and of the rings,    *)
(* and every number of retransmissions.                                    *)
(***************************************************************************)
EXTENDS UstackServer, SequenceTheorems, FiniteSetTheorems, WellFoundedInduction, TLAPS

-----------------------------------------------------------------------------
(* Types. *)

Flags == {"SYN", "ACK", "PSH", "FIN"}
Data == {d \in Seq(Nat) : Len(d) <= 2 * BUFFER_SIZE}
TcpPackets == [from : Peer, kind : {"tcp"}, flags : SUBSET Flags, seq : Nat, ack : Nat, data : Data]
ArpPackets == [from : Peer, kind : {"arp"}]
UdpPackets == [from : Peer, kind : {"udp"}, data : Data]
Packets == TcpPackets \union ArpPackets \union UdpPackets
Datagrams == [to : Peer, kind : {"udp"}, data : Data]
Fragments == [flags : SUBSET Flags, seqnum : Nat, acknum : Nat, data : Data]
Streams == [peer : Peer \union {NoPeer}, fd : Nat, status : Status, snd_nxt : Nat,
            rcv_nxt : Nat, sndbuf : Seq(Fragments), rcvbuf : Seq(Data)]
Hosts == [st : {"closed", "syn", "open", "fin", "done"}, snd : Nat, una : Nat, rcv : Nat,
          got : Seq(Nat), last : {<<>>} \union TcpPackets, fits : BOOLEAN, resent : Nat]
Works == [at : {"find", "push", "ack"}, i : Nat, fd : Nat, p : TcpPackets,
          todo : {<<>>, <<"PSH">>, <<"FIN">>, <<"PSH", "FIN">>}]
ServerAt == {"accept", "call", "recv", "send", "close", "next", "add", "del",
             "recvfrom", "sendto", "none"}
ServerStates == [at : ServerAt, evs : Seq(Nat), fd : Nat, on : Peer \union {NoPeer}, data : Data]

\* Every variable has its type.
TypeOK ==
  /\ app \in {"serial", "epoll", "udp", "single"} /\ alive \in BOOLEAN
  /\ ringIn \in Seq(Packets)
  /\ arp \in SUBSET Peer /\ ticks \in Nat
  /\ tcb \in Seq(Streams)
  /\ fds \in SUBSET Nat /\ IsFiniteSet(fds)
  /\ DOMAIN items \in SUBSET Nat /\ items \in [DOMAIN items -> BOOLEAN]
  /\ rdlist \in Seq(Nat) /\ rdnum \in Nat
  /\ host \in [rcvbuf : Seq(Datagrams), sndbuf : Seq(Datagrams)]
  /\ pkt \in {Idle} \union Works
  /\ svr \in ServerStates
  /\ cl \in [Peer -> Hosts]

-----------------------------------------------------------------------------
(* The inductive invariant. *)

Closed(i) == tcb[i].status = "LAST_ACK"

\* The table: the listening stream is the last one, a peer has one stream,
\* and streams that are not closed have distinct descriptors, all marked.
TableInv ==
  /\ Len(tcb) >= 1
  /\ tcb[Len(tcb)].peer = NoPeer /\ tcb[Len(tcb)].fd = ListenFd /\ ~Closed(Len(tcb))
  /\ tcb[Len(tcb)].sndbuf = <<>>
  /\ \A i, j \in DOMAIN tcb : tcb[i].peer = tcb[j].peer => i = j
  /\ \A i \in DOMAIN tcb : tcb[i].fd = ListenFd => i = Len(tcb)
  /\ \A i, j \in DOMAIN tcb :
       tcb[i].fd = tcb[j].fd /\ ~Closed(i) /\ ~Closed(j) /\ tcb[i].fd # NoFd => i = j
  /\ \A i \in DOMAIN tcb : tcb[i].fd # NoFd /\ ~Closed(i) => tcb[i].fd \in fds
  /\ \A i \in DOMAIN tcb : Closed(i) => tcb[i].fd # NoFd
  /\ NoFd \notin fds
  /\ IF app = "single" THEN Len(tcb) = 1
     ELSE \A i \in DOMAIN tcb : tcb[i].status = "LISTEN" <=> i = Len(tcb)
  /\ app = "serial" => Len(tcb) <= 2

\* The receive ring of peer c, where the server is at a call for peer on.
Ends(c, status, ring, at, on) ==
  \A k \in DOMAIN ring : ring[k] = <<>> =>
    /\ status = "CLOSE_WAIT"
    /\ \A l \in DOMAIN ring : ring[l] = <<>> => l = k
    /\ ~(at \in {"del", "close"} /\ on = c)

\* The end of the stream is put into a receive ring once, by the FIN, and is
\* read once, by the call after which the server closes the connection.
RingEnds ==
  \A i \in DOMAIN tcb : Ends(tcb[i].peer, tcb[i].status, tcb[i].rcvbuf, svr.at, svr.on)

\* The packet thread works on a stream of the table.  The descriptor it is
\* about to report is the one of that stream, unless it was accepted since.
PktInv ==
  /\ app # "epoll" => pkt.at \in {"idle", "ack"}
  /\ app = "single" => pkt = Idle
  /\ pkt # Idle =>
     /\ pkt.i \in 1 .. Len(tcb) - 1
     /\ tcb[pkt.i].peer = pkt.p.from
     /\ pkt.at = "ack" => pkt.todo # <<>>
     /\ pkt.todo = <<"PSH", "FIN">> => tcb[pkt.i].status = "ESTABLISHED"
     /\ pkt.todo \in {<<"FIN">>, <<"PSH", "FIN">>} => "FIN" \in pkt.p.flags
     /\ pkt.at \in {"find", "push"} =>
        \/ pkt.fd = ListenFd /\ pkt.todo = <<>>
        \/ pkt.fd = NoFd
        \/ pkt.fd = tcb[pkt.i].fd /\ ~Closed(pkt.i)

\* The stream i of the table t is the one that a search for fd finds.
Leads(t, i, fd) == t[i].fd = fd /\ \A j \in DOMAIN t : t[j].fd = fd => i <= j

\* The server reads from, and closes, the stream its descriptor leads to.
SvrInv ==
  /\ svr.at \in {"next", "add", "del"} => app = "epoll"
  /\ svr.at = "call" => app = "serial"
  /\ svr.at \in {"recvfrom", "sendto"} <=> app = "udp"
  /\ svr.at = "sendto" => svr.on \in Peer
  /\ svr.at = "none" <=> app = "single"
  /\ svr.at \in {"call", "recv", "send", "close", "add", "del"} => svr.fd \notin {NoFd, ListenFd}
  /\ app = "serial" /\ svr.at \in {"call", "recv", "send"} =>
       Len(tcb) = 2 /\ tcb[1].fd = svr.fd /\ ~Closed(1) /\ (svr.at = "recv" => tcb[1].peer = svr.on)
  /\ svr.at = "recv" =>
       /\ svr.on \in Peer
       /\ \A i \in DOMAIN tcb : tcb[i].peer = svr.on => Leads(tcb, i, svr.fd)
  /\ svr.at \in {"del", "close"} =>
       /\ svr.on \in Peer
       /\ \E i \in DOMAIN tcb :
            tcb[i].peer = svr.on /\ tcb[i].status = "CLOSE_WAIT" /\ Leads(tcb, i, svr.fd)

\* The ready list, the tree and the events handed over.
ListInv ==
  /\ rdnum = Len(rdlist)
  /\ \A j, k \in DOMAIN rdlist : rdlist[j] = rdlist[k] => j = k
  /\ \A j, k \in DOMAIN svr.evs : svr.evs[j] = svr.evs[k] => j = k
  /\ {fd \in DOMAIN items : items[fd]} = ToSet(rdlist)
  /\ ToSet(svr.evs) \subseteq DOMAIN items
  /\ ListenFd \in DOMAIN items /\ NoFd \notin DOMAIN items
  /\ pkt.at = "push" => pkt.fd \in DOMAIN items /\ ~items[pkt.fd]
  /\ app # "epoll" => svr.evs = <<>>

B(p) == IF p THEN 1 ELSE 0

\* The events on their way for fd: found by the packet thread k, in the ready
\* list, handed to the server.
Pending(k, rd, evs, fd) ==
  B(k.at \in {"find", "push"} /\ k.fd = fd) + B(fd \in ToSet(rd)) + B(fd \in ToSet(evs))

\* The calls of nrecv that the stream s will still see from the server v.
Events(k, rd, v, s) == Pending(k, rd, v.evs, s.fd) + B(v.at = "recv" /\ v.on = s.peer)

\* n calls of nrecv find a fragment, and none goes beyond the end.
Reach(ring, n) == n <= Len(ring) /\ \A k \in DOMAIN ring : ring[k] = <<>> => n <= k

Served(k, rd, v, s) == s.fd # NoFd /\ s.status # "LAST_ACK" => Reach(s.rcvbuf, Events(k, rd, v, s))

\* Every item is the one of an open connection, which has a fragment for
\* every event; no event is left for it once the end of its stream is read.
EpollInv ==
  /\ \A fd \in DOMAIN items \ {ListenFd} : \E i \in DOMAIN tcb : tcb[i].fd = fd /\ ~Closed(i)
  /\ svr.at = "close" => svr.fd \notin DOMAIN items
  /\ svr.at = "add" => \E i \in DOMAIN tcb : tcb[i].fd = svr.fd /\ ~Closed(i)
  /\ svr.at \in {"del", "close"} => Pending(pkt, rdlist, svr.evs, svr.fd) = 0
  /\ \A i \in DOMAIN tcb : i < Len(tcb) => Served(pkt, rdlist, svr, tcb[i])

From(p, c, f) == p.from = c /\ p.kind = "tcp" /\ f \in p.flags
Gone(c) == \A i \in DOMAIN tcb : tcb[i].peer # c

\* The FIN of c was taken from the ring, and what follows from it.
FinTaken(c) ==
  \/ \E i \in DOMAIN tcb : tcb[i].peer = c /\ tcb[i].status \in {"CLOSE_WAIT", "LAST_ACK"}
  \/ pkt # Idle /\ pkt.p.from = c /\ "FIN" \in pkt.p.flags
  \/ svr.at = "recv" /\ svr.on = c /\ Gone(c)

\* A peer connects once: whatever is retransmitted, no SYN of a peer is left
\* when its FIN is taken, so a connection that was freed does not come back.
ConnectsOnce ==
  \A c \in Peer :
    /\ \A k \in DOMAIN ringIn : From(ringIn[k], c, "SYN") =>
         /\ ~FinTaken(c)
         /\ \A j \in DOMAIN ringIn : From(ringIn[j], c, "FIN") => k < j
    /\ cl[c].last # <<>> /\ "SYN" \in cl[c].last.flags =>
         ~FinTaken(c) /\ \A j \in DOMAIN ringIn : ~From(ringIn[j], c, "FIN")
    /\ cl[c].st = "closed" =>
         /\ Gone(c) /\ ~FinTaken(c) /\ cl[c].last = <<>>
         /\ \A j \in DOMAIN ringIn : ~From(ringIn[j], c, "FIN") /\ ~From(ringIn[j], c, "SYN")

\* A segment with the push flag has data, on the wire and kept for Resend.
PushHasData ==
  /\ \A k \in DOMAIN ringIn :
       ringIn[k].kind = "tcp" /\ "PSH" \in ringIn[k].flags => ringIn[k].data # <<>>
  /\ \A c \in Peer : cl[c].last # <<>> =>
       /\ cl[c].last.from = c
       /\ "PSH" \in cl[c].last.flags => cl[c].last.data # <<>>
       /\ "SYN" \in cl[c].last.flags => "FIN" \notin cl[c].last.flags

Unaccepted(t) == {t[i].peer : i \in {j \in DOMAIN t : t[j].fd = NoFd}}
HalfOpen(t) == {t[i].peer : i \in {j \in DOMAIN t : t[j].status = "SYN_RCVD"}}

\* There is a connection to accept for every event of the listening socket,
\* beyond the ones that will cause an event when they are established.
AcceptInv ==
  Cardinality(Unaccepted(tcb)) >=
    Cardinality(HalfOpen(tcb)) + Pending(pkt, rdlist, svr.evs, ListenFd) + B(svr.at = "accept")

StackInv == TypeOK /\ TableInv /\ RingEnds /\ PktInv /\ SvrInv /\ PushHasData

QueueInv == ListInv /\ (app = "epoll" => EpollInv /\ ConnectsOnce /\ AcceptInv)

-----------------------------------------------------------------------------
(* Searching the table. *)

\* The end of the stream is a fragment of length zero.
LEMMA EmptyData == <<>> \in Data
  BY BufferAssumption DEF Data

\* A non-empty set of naturals has a least element, and CHOOSE finds it.
LEMMA NatLeast ==
  ASSUME NEW S, S \subseteq Nat, S # {}
  PROVE  LET m == CHOOSE i \in S : \A j \in S : i <= j
         IN  m \in S /\ \A j \in S : m <= j
<1>1. PICK x \in S : \A y \in S : ~(<<y, x>> \in OpToRel(<, Nat))
  BY NatLessThanWellFounded, WFMin
<1>2. \A y \in Nat : y < x => <<y, x>> \in OpToRel(<, Nat)
  <2>1. ASSUME NEW y \in Nat, y < x PROVE <<y, x>> \in Nat \X Nat
    OBVIOUS
  <2>2. ASSUME NEW y \in Nat, y < x, <<y, x>> \in Nat \X Nat, <<y, x>>[1] = y, <<y, x>>[2] = x
        PROVE  <<y, x>> \in OpToRel(<, Nat)
    BY <2>2, Zenon DEF OpToRel
  <2> QED
    BY <2>1, <2>2
<1>3. \A y \in S : ~(y < x)
  BY <1>1, <1>2, Zenon
<1>4. \A y \in S : x <= y
  BY <1>3
<1> QED
  BY <1>4

\* get_fd_frombitmap returns a descriptor that is not marked.
LEMMA FreshFd ==
  ASSUME NEW S, S \subseteq Nat, IsFiniteSet(S)
  PROVE  /\ get_fd_frombitmap(S) \in Nat
         /\ get_fd_frombitmap(S) >= ListenFd
         /\ get_fd_frombitmap(S) \notin S
<1> DEFINE R == ListenFd .. ListenFd + Cardinality(S)
           free == R \ S
           m == CHOOSE i \in free : \A j \in free : i <= j
<1>1. Cardinality(S) \in Nat
  BY FS_CardinalityType
<1>2. IsFiniteSet(R) /\ Cardinality(R) = Cardinality(S) + 1
  BY <1>1, FS_Interval DEF ListenFd
<1>3. ~(R \subseteq S)
  <2> HIDE DEF R
  <2>1. R \subseteq S => Cardinality(R) <= Cardinality(S)
    BY FS_Subset
  <2> QED
    BY <1>1, <1>2, <2>1
<1>4. free # {} /\ free \subseteq Nat
  BY <1>1, <1>3 DEF ListenFd
<1>5. m \in free /\ \A j \in free : m <= j
  <2> HIDE DEF free
  <2> QED
    BY <1>4, NatLeast
<1> HIDE DEF m
<1>6. m \in R /\ m \notin S /\ m \in Nat /\ m >= ListenFd /\ m <= ListenFd + Cardinality(S)
  BY <1>1, <1>5 DEF ListenFd
<1>7. \A less \in ListenFd .. m - 1 : less \in S
  <2> SUFFICES ASSUME NEW less \in ListenFd .. m - 1, less \notin S
               PROVE  FALSE
    OBVIOUS
  <2>1. less \in R /\ less < m
    BY <1>1, <1>6 DEF ListenFd
  <2> QED
    BY <1>5, <1>6, <2>1 DEF ListenFd
<1>8. get_fd_frombitmap(S) \in R /\ get_fd_frombitmap(S) \notin S
  BY <1>6, <1>7, Zenon DEF get_fd_frombitmap
<1> QED
  BY <1>1, <1>8 DEF ListenFd

\* A walk along the list finds the first stream with the descriptor.
LEMMA HostInfo ==
  ASSUME NEW t \in Seq(Streams), NEW fd
  PROVE  LET i == get_hostinfo_fromfd(t, fd)
         IN  \/ i = 0 /\ \A j \in DOMAIN t : t[j].fd # fd
             \/ i \in DOMAIN t /\ t[i].fd = fd /\ \A j \in DOMAIN t : t[j].fd = fd => i <= j
<1> DEFINE found == {i \in DOMAIN t : t[i].fd = fd}
<1>1. get_hostinfo_fromfd(t, fd) = IF found = {} THEN 0 ELSE CHOOSE i \in found : \A j \in found : i <= j
  BY DEF get_hostinfo_fromfd, First
<1>2. found \subseteq Nat
  OBVIOUS
<1>3. found # {} => LET m == CHOOSE i \in found : \A j \in found : i <= j
                    IN  m \in found /\ \A j \in found : m <= j
  <2> HIDE DEF found
  <2> QED BY <1>2, NatLeast
<1> QED
  BY <1>1, <1>3

\* The connection that naccept takes has no descriptor yet.
LEMMA AcceptTcb ==
  ASSUME NEW t \in Seq(Streams)
  PROVE  LET i == get_accept_tcb(t)
         IN  \/ i = 0 /\ \A j \in DOMAIN t : t[j].fd # NoFd
             \/ i \in DOMAIN t /\ t[i].fd = NoFd
<1> DEFINE found == {i \in DOMAIN t : t[i].fd = NoFd}
<1>1. get_accept_tcb(t) = IF found = {} THEN 0 ELSE CHOOSE i \in found : \A j \in found : i <= j
  BY DEF get_accept_tcb, First
<1>2. found \subseteq Nat
  OBVIOUS
<1>3. found # {} => (CHOOSE i \in found : \A j \in found : i <= j) \in found
  <2> HIDE DEF found
  <2> QED BY <1>2, NatLeast
<1> QED
  BY <1>1, <1>3

\* The stream nrecv sleeps on is the one of its peer, if it still exists.
LEMMA WaitedStream ==
  ASSUME TypeOK
  PROVE  \/ Waited = 0 /\ Gone(svr.on)
         \/ Waited \in DOMAIN tcb /\ tcb[Waited].peer = svr.on
<1> DEFINE found == {i \in DOMAIN tcb : tcb[i].peer = svr.on}
<1>1. Waited = IF found = {} THEN 0 ELSE CHOOSE i \in found : \A j \in found : i <= j
  BY DEF Waited, First
<1>2. found \subseteq Nat
  BY DEF TypeOK
<1>3. found # {} => (CHOOSE i \in found : \A j \in found : i <= j) \in found
  <2> HIDE DEF found
  <2> QED BY <1>2, NatLeast
<1> QED
  BY <1>1, <1>3 DEF Gone

\* ng_tcp_stream_search finds the stream of a peer, or else the listening one.
LEMMA StreamSearch ==
  ASSUME TypeOK, TableInv, app # "single", NEW c \in Peer
  PROVE  LET i == ng_tcp_stream_search(tcb, c)
         IN  \/ i = Len(tcb) /\ i \in DOMAIN tcb /\ tcb[i].status = "LISTEN" /\ Gone(c)
             \/ i \in DOMAIN tcb /\ i < Len(tcb) /\ tcb[i].peer = c /\ tcb[i].status # "LISTEN"
<1> DEFINE exact == {i \in DOMAIN tcb : tcb[i].peer = c}
           listen == {i \in DOMAIN tcb : tcb[i].status = "LISTEN"}
           least(S) == CHOOSE i \in S : \A j \in S : i <= j
<1>1. /\ First(tcb, LAMBDA s : s.peer = c) = IF exact = {} THEN 0 ELSE least(exact)
      /\ First(tcb, LAMBDA s : s.status = "LISTEN") = IF listen = {} THEN 0 ELSE least(listen)
  BY DEF First
<1>2. exact \subseteq Nat /\ listen \subseteq Nat /\ DOMAIN tcb = 1 .. Len(tcb) /\ Len(tcb) \in Nat
  BY DEF TypeOK
<1>3. exact # {} => least(exact) \in exact
  <2> HIDE DEF exact
  <2> QED BY <1>2, NatLeast
<1>4. listen = {Len(tcb)}
  BY <1>2 DEF TableInv
<1>5. least(listen) = Len(tcb)
  <2> least(listen) \in listen
    <3> HIDE DEF listen
    <3>1. listen # {}
      BY <1>4
    <3> QED BY <1>2, <3>1, NatLeast
  <2> QED BY <1>4
<1>6. c # NoPeer
  BY PeerAssumption
<1>7. CASE exact = {}
  <2>1. ng_tcp_stream_search(tcb, c) = Len(tcb)
    <3>1. First(tcb, LAMBDA s : s.peer = c) = 0 /\ First(tcb, LAMBDA s : s.status = "LISTEN") = Len(tcb)
      BY <1>1, <1>4, <1>5, <1>7
    <3> QED
      BY <3>1, Zenon DEF ng_tcp_stream_search
  <2> QED
    BY <1>2, <1>4, <1>7, <2>1 DEF Gone
<1>8. CASE exact # {}
  <2>1. ng_tcp_stream_search(tcb, c) = least(exact)
    <3>1. First(tcb, LAMBDA s : s.peer = c) = least(exact) /\ least(exact) # 0
      <4>1. least(exact) \in 1 .. Len(tcb)
        BY <1>2, <1>3, <1>8
      <4> HIDE DEF least
      <4> QED BY <1>1, <1>2, <1>8, <4>1
    <3> QED
      BY <3>1, Zenon DEF ng_tcp_stream_search
  <2>2. least(exact) \in DOMAIN tcb /\ tcb[least(exact)].peer = c
    BY <1>3, <1>8
  <2> HIDE DEF least
  <2> QED
    BY <1>2, <1>4, <1>6, <2>1, <2>2 DEF TableInv
<1> QED
  BY <1>7, <1>8

-----------------------------------------------------------------------------
(* The wire. *)

Acks == {p \in TcpPackets : p.flags = {"ACK"}}
Outputs == Datagrams \union [to : Peer, kind : {"arp"}] \union [to : Peer, kind : {"tcp"}, seg : Fragments]

\* The ring q is the ring r with packets of S behind it.
Grown(r, q, S) ==
  /\ q \in Seq(Packets) /\ Len(r) <= Len(q)
  /\ \A k \in DOMAIN q : IF k <= Len(r) THEN q[k] = r[k] ELSE q[k] \in S

\* What the main loop puts into the in ring comes behind what is there.
LEMMA RxGrows ==
  ASSUME TypeOK, NEW S \in SUBSET Packets, NEW s \in Seq(S), Rx(s)
  PROVE  Grown(ringIn, ringIn', S)
<1>1. PICK n : n = RING_SIZE - Len(ringIn)
  OBVIOUS
<1>2. n \in Int
  BY <1>1, BoundAssumption DEF TypeOK
<1>3. PICK m : m = IF n < Len(s) THEN n ELSE Len(s)
  OBVIOUS
<1>4. m \in Int /\ m <= Len(s)
  BY <1>2, <1>3
<1>5. PICK u : u = SubSeq(s, 1, m)
  OBVIOUS
<1>6. u \in Seq(S)
  BY <1>4, <1>5
<1>7. ringIn' = ringIn \o u
  BY <1>1, <1>3, <1>5 DEF Rx, FirstOf
<1>8. ringIn \in Seq(Packets) /\ u \in Seq(Packets) /\ \A k \in DOMAIN u : u[k] \in S
  BY <1>6 DEF TypeOK
<1>9. ringIn' \in Seq(Packets) /\ Len(ringIn') = Len(ringIn) + Len(u)
  BY <1>7, <1>8
<1>10. ASSUME NEW k \in DOMAIN ringIn'
       PROVE  IF k <= Len(ringIn) THEN ringIn'[k] = ringIn[k] ELSE ringIn'[k] \in S
  <2>1. k \in 1 .. Len(ringIn) + Len(u) /\ Len(ringIn) \in Nat /\ Len(u) \in Nat
    BY <1>8, <1>9, <1>10
  <2>2. CASE k <= Len(ringIn)
    BY <1>7, <1>8, <2>1, <2>2
  <2>3. CASE ~(k <= Len(ringIn))
    <3>1. k - Len(ringIn) \in 1 .. Len(u)
      BY <2>1, <2>3
    <3>2. ringIn'[k] = u[k - Len(ringIn)]
      BY <1>7, <1>8, <2>1, <2>3
    <3> QED
      BY <1>8, <2>3, <3>1, <3>2
  <2> QED
    BY <2>2, <2>3
<1> QED
  BY <1>8, <1>9, <1>10 DEF Grown

\* A set whose elements come one by one from a finite set is finite.
LEMMA SmallUnion ==
  ASSUME NEW S, IsFiniteSet(S), NEW U, NEW f, \A u \in U : \E x \in S : f[x] = {u}
  PROVE  IsFiniteSet(U)
<1> DEFINE D == {x \in S : \E u \in U : f[x] = {u}}
           g == [x \in D |-> CHOOSE u : f[x] = {u}]
<1>1. IsFiniteSet(D)
  BY FS_Subset
<1>2. \A x \in D : \A u \in U : f[x] = {u} => g[x] = u
  OBVIOUS
<1>3. g \in [D -> U]
  BY <1>2
<1>4. \A u \in U : \E x \in D : g[x] = u
  BY <1>2
<1>5. g \in Surjection(D, U)
  BY <1>3, <1>4 DEF Surjection
<1> QED
  BY <1>1, <1>5, FS_Surjection

\* How a peer takes a segment: it never goes back to "closed", it keeps the
\* segment it would send again, and it answers with a bare acknowledgement.
LEMMA TakesTyped ==
  ASSUME TypeOK, NEW c \in Peer, NEW g \in Fragments
  PROVE  /\ TakesSegment(c, g).peer \in Hosts
         /\ TakesSegment(c, g).peer.last = cl[c].last
         /\ TakesSegment(c, g).peer.st = "closed" => cl[c].st = "closed"
         /\ TakesSegment(c, g).reply \subseteq Acks
         /\ TakesSegment(c, g).reply = {} \/ \E a : TakesSegment(c, g).reply = {a}
<1>1. PICK p : p = cl[c]
  OBVIOUS
<1>2. p \in Hosts
  BY <1>1 DEF TypeOK
<1>3. PICK una : una = IF g.acknum > p.una THEN g.acknum ELSE p.una
  OBVIOUS
<1>4. una \in Nat
  BY <1>2, <1>3 DEF Hosts, Fragments
<1>5. PICK n : n = p.rcv + Len(g.data) + Cardinality(g.flags \intersect {"FIN"})
  OBVIOUS
<1>6. n \in Nat
  <2>1. Cardinality(g.flags \intersect {"FIN"}) \in Nat
    <3>1. IsFiniteSet({"FIN"}) /\ g.flags \intersect {"FIN"} \in SUBSET {"FIN"}
      BY FS_Singleton
    <3>2. IsFiniteSet(g.flags \intersect {"FIN"})
      BY <3>1, FS_Subset
    <3> QED
      BY <3>2, FS_CardinalityType
  <2> QED
    BY <1>2, <1>5, <2>1 DEF Hosts, Fragments, Data
<1>7. p.got \o g.data \in Seq(Nat)
  BY <1>2 DEF Hosts, Fragments, Data
<1> DEFINE a1 == [p EXCEPT !.st = "open", !.rcv = g.seqnum + 1, !.una = una]
           a2 == [p EXCEPT !.got = @ \o g.data, !.una = una, !.rcv = n,
                           !.st = IF "FIN" \in g.flags THEN "done" ELSE @]
           a3 == [p EXCEPT !.una = una]
           after == IF "SYN" \in g.flags THEN IF p.st = "syn" THEN a1 ELSE p
                    ELSE IF g.seqnum = p.rcv /\ p.st # "syn" THEN a2 ELSE a3
           Good(q) == q \in Hosts /\ q.last = p.last /\ (q.st = "closed" => p.st = "closed")
<1>8. Good(a1)
  <2>1. PICK m : m = g.seqnum + 1
    OBVIOUS
  <2>2. m \in Nat
    BY <2>1 DEF Fragments
  <2>3. a1 = [p EXCEPT !.st = "open", !.rcv = m, !.una = una]
    BY <2>1
  <2> HIDE DEF a1
  <2> QED
    BY <1>2, <1>4, <2>2, <2>3 DEF Hosts
<1>9. Good(a2)
  BY <1>2, <1>4, <1>6, <1>7 DEF Hosts
<1>10. Good(a3)
  BY <1>2, <1>4 DEF Hosts
<1>11. Good(after)
  <2> HIDE DEF a1, a2, a3
  <2> QED BY <1>2, <1>8, <1>9, <1>10
<1>12. PICK answer : answer = [from |-> c, kind |-> "tcp", flags |-> {"ACK"}, seq |-> p.snd,
                               ack |-> after.rcv, data |-> <<>>]
  OBVIOUS
<1>13. answer \in Acks
  <2>1. after.rcv \in Nat
    <3> HIDE DEF after
    <3> QED BY <1>11 DEF Hosts
  <2> HIDE DEF after
  <2> QED
    BY <1>2, <1>12, <2>1, EmptyData DEF Acks, TcpPackets, Hosts, Flags
<1>14. TakesSegment(c, g) = [peer |-> after, reply |-> IF g.flags = {"ACK"} THEN {} ELSE {answer}]
  BY <1>1, <1>3, <1>5, <1>12, Zenon DEF TakesSegment
<1> HIDE DEF after
<1> QED
  BY <1>1, <1>11, <1>13, <1>14

\* What any packet of the stack does to its peer.
LEMMA EffectTyped ==
  ASSUME TypeOK, NEW o \in Outputs
  PROVE  /\ Effect(o).peer \in Hosts
         /\ Effect(o).peer.last = cl[o.to].last
         /\ Effect(o).peer.st = "closed" => cl[o.to].st = "closed"
         /\ Effect(o).reply \subseteq Acks \union ArpPackets
         /\ Effect(o).reply = {} \/ \E a : Effect(o).reply = {a}
<1>1. CASE o \in Datagrams
  <2>1. Effect(o) = [peer |-> [cl[o.to] EXCEPT !.got = @ \o o.data], reply |-> {}]
    BY <1>1 DEF Effect, Datagrams
  <2>2. cl[o.to] \in Hosts /\ o.data \in Data
    BY <1>1 DEF TypeOK, Datagrams
  <2>3. PICK d : d = cl[o.to].got \o o.data
    OBVIOUS
  <2>4. d \in Seq(Nat)
    BY <2>2, <2>3 DEF Hosts, Data
  <2>5. PICK q : q = [cl[o.to] EXCEPT !.got = d]
    OBVIOUS
  <2>6. q \in Hosts /\ q.last = cl[o.to].last /\ q.st = cl[o.to].st
    BY <2>2, <2>4, <2>5 DEF Hosts
  <2>7. Effect(o) = [peer |-> q, reply |-> {}]
    BY <2>1, <2>3, <2>5
  <2> QED
    BY <2>6, <2>7
<1>2. CASE o \in [to : Peer, kind : {"arp"}]
  <2>1. Effect(o) = [peer |-> cl[o.to], reply |-> {[from |-> o.to, kind |-> "arp"]}]
    BY <1>2 DEF Effect
  <2>2. PICK a : a = [from |-> o.to, kind |-> "arp"]
    OBVIOUS
  <2>3. a \in ArpPackets /\ cl[o.to] \in Hosts
    BY <1>2, <2>2 DEF ArpPackets, TypeOK
  <2>4. Effect(o).peer = cl[o.to] /\ Effect(o).reply = {a}
    BY <2>1, <2>2
  <2> QED
    BY <2>3, <2>4
<1>3. CASE o \in [to : Peer, kind : {"tcp"}, seg : Fragments]
  <2>1. Effect(o) = TakesSegment(o.to, o.seg)
    BY <1>3 DEF Effect
  <2>2. o.to \in Peer /\ o.seg \in Fragments
    BY <1>3
  <2>3. PICK e : e = TakesSegment(o.to, o.seg)
    OBVIOUS
  <2>4. /\ e.peer \in Hosts /\ e.peer.last = cl[o.to].last
        /\ e.peer.st = "closed" => cl[o.to].st = "closed"
        /\ e.reply \subseteq Acks
        /\ e.reply = {} \/ \E a : e.reply = {a}
    BY <2>2, <2>3, TakesTyped, Zenon
  <2> QED
    BY <2>1, <2>3, <2>4
<1> QED
  BY <1>1, <1>2, <1>3 DEF Outputs

\* Packets that are sent together: the answers come behind what is in the
\* ring, and the peers keep what ConnectsOnce says about them.
LEMMA AnswersTyped ==
  ASSUME TypeOK, NEW out \in SUBSET Outputs, IsFiniteSet(out)
  PROVE  /\ Answers(out) \subseteq Seq(Acks \union ArpPackets)
         /\ Taken(out) \in [Peer -> Hosts]
         /\ \A c \in Peer : /\ Taken(out)[c].last = cl[c].last
                            /\ Taken(out)[c].st = "closed" => cl[c].st = "closed"
<1> DEFINE f == [o \in out |-> Effect(o).reply]
           U == UNION {f[o] : o \in out}
<1>1. U = UNION {Effect(o).reply : o \in out}
  OBVIOUS
<1>2. \A o \in out : f[o] \subseteq Acks \union ArpPackets /\ (f[o] = {} \/ \E y : f[o] = {y})
  BY EffectTyped
<1>3. IsFiniteSet(U)
  <2> HIDE DEF f
  <2>1. \A u \in U : \E o \in out : f[o] = {u}
    BY <1>2
  <2> HIDE DEF U
  <2> QED BY <2>1, SmallUnion
<1>4. U \subseteq Acks \union ArpPackets
  BY <1>2
<1>5. Answers(out) \subseteq Seq(Acks \union ArpPackets)
  <2> HIDE DEF U
  <2>1. Cardinality(U) \in Nat
    BY <1>3, FS_CardinalityType
  <2>2. Answers(out) = SetToSeqs(U)
    BY <1>1 DEF Answers
  <2>3. \A s \in SetToSeqs(U) : s \in [1 .. Cardinality(U) -> U]
    BY DEF SetToSeqs
  <2>4. ASSUME NEW s \in SetToSeqs(U) PROVE s \in Seq(Acks \union ArpPackets)
    BY <1>4, <2>1, <2>3
  <2> QED
    BY <2>2, <2>4
<1>6. ASSUME NEW c \in Peer
      PROVE  /\ Taken(out)[c] \in Hosts
             /\ Taken(out)[c].last = cl[c].last
             /\ Taken(out)[c].st = "closed" => cl[c].st = "closed"
  <2> DEFINE to == {o \in out : o.to = c}
             o1 == CHOOSE o \in to : TRUE
  <2>1. Taken(out)[c] = IF to = {} THEN cl[c] ELSE Effect(o1).peer
    BY DEF Taken
  <2>2. cl[c] \in Hosts
    BY DEF TypeOK
  <2>3. to # {} => o1 \in Outputs /\ o1.to = c
    OBVIOUS
  <2> HIDE DEF o1, to
  <2> QED
    BY <2>1, <2>2, <2>3, EffectTyped
<1>7. Taken(out) = [c \in Peer |-> Taken(out)[c]]
  BY DEF Taken
<1>8. Taken(out) \in [Peer -> Hosts]
  BY <1>6, <1>7
<1> QED
  BY <1>5, <1>6, <1>8

-----------------------------------------------------------------------------
(* The table after a call. *)

\* The table u is t but for the stream i, which keeps its peer.
At(t, u, i, fd, status, rcvbuf) ==
  /\ u \in Seq(Streams) /\ Len(u) = Len(t)
  /\ \A j \in DOMAIN t : j # i => u[j] = t[j]
  /\ u[i].peer = t[i].peer /\ u[i].fd = fd /\ u[i].status = status /\ u[i].rcvbuf = rcvbuf

\* A stream written back to its place.
LEMMA AtIntro ==
  ASSUME NEW t \in Seq(Streams), NEW i \in DOMAIN t, NEW s \in Streams, s.peer = t[i].peer
  PROVE  At(t, [t EXCEPT ![i] = s], i, s.fd, s.status, s.rcvbuf)
<1>1. [t EXCEPT ![i] = s] \in Seq(Streams) /\ Len([t EXCEPT ![i] = s]) = Len(t)
  OBVIOUS
<1>2. \A j \in DOMAIN t : j # i => [t EXCEPT ![i] = s][j] = t[j]
  OBVIOUS
<1>3. [t EXCEPT ![i] = s][i] = s
  OBVIOUS
<1> QED
  BY <1>1, <1>2, <1>3 DEF At

\* Two changes of one stream are one change.
LEMMA AtTwice ==
  ASSUME NEW t \in Seq(Streams), NEW i \in DOMAIN t, NEW t1, NEW u,
         NEW f1, NEW s1, NEW r1, NEW f2, NEW s2, NEW r2,
         At(t, t1, i, f1, s1, r1), At(t1, u, i, f2, s2, r2)
  PROVE  At(t, u, i, f2, s2, r2)
<1>1. DOMAIN t1 = DOMAIN t
  BY DEF At
<1> QED
  BY <1>1 DEF At

\* Advancing the status.
LEMMA AtStatus ==
  ASSUME NEW t \in Seq(Streams), NEW i \in DOMAIN t, NEW x \in Status
  PROVE  At(t, [t EXCEPT ![i].status = x], i, t[i].fd, x, t[i].rcvbuf)
<1>1. PICK s : s = [t[i] EXCEPT !.status = x]
  OBVIOUS
<1>2. t[i] \in Streams
  OBVIOUS
<1>3. s \in Streams /\ s.peer = t[i].peer /\ s.fd = t[i].fd /\ s.status = x /\ s.rcvbuf = t[i].rcvbuf
  BY <1>1, <1>2 DEF Streams
<1>4. [t EXCEPT ![i].status = x] = [t EXCEPT ![i] = s]
  BY <1>1
<1> QED
  BY <1>3, <1>4, AtIntro

\* naccept gives the stream its descriptor.
LEMMA AtFd ==
  ASSUME NEW t \in Seq(Streams), NEW i \in DOMAIN t, NEW x \in Nat
  PROVE  At(t, [t EXCEPT ![i].fd = x], i, x, t[i].status, t[i].rcvbuf)
<1>1. PICK s : s = [t[i] EXCEPT !.fd = x]
  OBVIOUS
<1>2. t[i] \in Streams
  OBVIOUS
<1>3. s \in Streams /\ s.peer = t[i].peer /\ s.fd = x /\ s.status = t[i].status /\ s.rcvbuf = t[i].rcvbuf
  BY <1>1, <1>2 DEF Streams
<1>4. [t EXCEPT ![i].fd = x] = [t EXCEPT ![i] = s]
  BY <1>1
<1> QED
  BY <1>3, <1>4, AtIntro

\* nrecv leaves another ring.
LEMMA AtRing ==
  ASSUME NEW t \in Seq(Streams), NEW i \in DOMAIN t, NEW x \in Seq(Data)
  PROVE  At(t, [t EXCEPT ![i].rcvbuf = x], i, t[i].fd, t[i].status, x)
<1>1. PICK s : s = [t[i] EXCEPT !.rcvbuf = x]
  OBVIOUS
<1>2. t[i] \in Streams
  OBVIOUS
<1>3. s \in Streams /\ s.peer = t[i].peer /\ s.fd = t[i].fd /\ s.status = t[i].status /\ s.rcvbuf = x
  BY <1>1, <1>2 DEF Streams
<1>4. [t EXCEPT ![i].rcvbuf = x] = [t EXCEPT ![i] = s]
  BY <1>1
<1> QED
  BY <1>3, <1>4, AtIntro

\* The packet thread appends a fragment.
LEMMA AtEnqueue ==
  ASSUME NEW t \in Seq(Streams), NEW i \in DOMAIN t, NEW d \in Data
  PROVE  At(t, ng_tcp_enqueue_recvbuffer(t, i, d), i, t[i].fd, t[i].status, Append(t[i].rcvbuf, d))
<1>1. t[i].rcvbuf \in Seq(Data)
  <2>1. t[i] \in Streams
    OBVIOUS
  <2> QED
    BY <2>1 DEF Streams
<1>2. PICK x : x = Append(t[i].rcvbuf, d)
  OBVIOUS
<1>3. x \in Seq(Data)
  BY <1>1, <1>2
<1>4. ng_tcp_enqueue_recvbuffer(t, i, d) = [t EXCEPT ![i].rcvbuf = x]
  BY <1>2 DEF ng_tcp_enqueue_recvbuffer
<1>5. At(t, [t EXCEPT ![i].rcvbuf = x], i, t[i].fd, t[i].status, x)
  BY <1>3, AtRing
<1> QED
  BY <1>2, <1>4, <1>5, Zenon

\* A FIN changes the status and appends the end of the stream.
LEMMA AtFin ==
  ASSUME NEW t \in Seq(Streams), NEW i \in DOMAIN t
  PROVE  At(t, ng_tcp_enqueue_recvbuffer([t EXCEPT ![i].status = "CLOSE_WAIT"], i, <<>>), i,
            t[i].fd, "CLOSE_WAIT", Append(t[i].rcvbuf, <<>>))
<1>1. PICK t1 : t1 = [t EXCEPT ![i].status = "CLOSE_WAIT"]
  OBVIOUS
<1>2. At(t, t1, i, t[i].fd, "CLOSE_WAIT", t[i].rcvbuf)
  BY <1>1, AtStatus DEF Status
<1>3. t1 \in Seq(Streams) /\ i \in DOMAIN t1 /\ <<>> \in Data
  BY <1>2, EmptyData DEF At
<1>4. At(t1, ng_tcp_enqueue_recvbuffer(t1, i, <<>>), i, t1[i].fd, t1[i].status, Append(t1[i].rcvbuf, <<>>))
  BY <1>3, AtEnqueue
<1>5. t1[i].fd = t[i].fd /\ t1[i].status = "CLOSE_WAIT" /\ t1[i].rcvbuf = t[i].rcvbuf
  BY <1>2 DEF At
<1>6. At(t1, ng_tcp_enqueue_recvbuffer(t1, i, <<>>), i, t[i].fd, "CLOSE_WAIT", Append(t[i].rcvbuf, <<>>))
  BY <1>4, <1>5
<1> QED
  BY <1>1, <1>2, <1>6, AtTwice

\* A fragment for the peer: nothing but the send ring and the numbers change.
LEMMA AtSend ==
  ASSUME NEW t \in Seq(Streams), NEW i \in DOMAIN t, NEW flags \in SUBSET Flags, NEW d \in Data,
         NEW n \in Nat, NEW m \in Nat
  PROVE  LET g == Fragment(flags, n, m, d)
         IN  At(t, [t EXCEPT ![i].sndbuf = Append(@, g)], i, t[i].fd, t[i].status, t[i].rcvbuf)
<1>1. PICK g : g = Fragment(flags, n, m, d)
  OBVIOUS
<1>2. g \in Fragments
  BY <1>1 DEF Fragment, Fragments
<1>3. t[i] \in Streams
  OBVIOUS
<1>4. PICK x : x = Append(t[i].sndbuf, g)
  OBVIOUS
<1>5. x \in Seq(Fragments)
  BY <1>2, <1>3, <1>4 DEF Streams
<1>6. PICK s : s = [t[i] EXCEPT !.sndbuf = x]
  OBVIOUS
<1>7. s \in Streams /\ s.peer = t[i].peer /\ s.fd = t[i].fd /\ s.status = t[i].status /\ s.rcvbuf = t[i].rcvbuf
  BY <1>3, <1>5, <1>6 DEF Streams
<1>8. [t EXCEPT ![i].sndbuf = Append(@, g)] = [t EXCEPT ![i] = s]
  BY <1>4, <1>6
<1> QED
  BY <1>1, <1>7, <1>8, AtIntro

\* The numbers move and an acknowledgement is queued.
LEMMA AtAcknowledge ==
  ASSUME NEW t \in Seq(Streams), NEW i \in DOMAIN t, NEW n \in Nat, NEW p \in TcpPackets
  PROVE  At(t, Acknowledge(t, i, n, p), i, t[i].fd, t[i].status, t[i].rcvbuf)
<1>1. PICK t1 : t1 = [t EXCEPT ![i].rcv_nxt = @ + n, ![i].snd_nxt = p.ack]
  OBVIOUS
<1>2. At(t, t1, i, t[i].fd, t[i].status, t[i].rcvbuf)
  <2>1. t[i] \in Streams
    OBVIOUS
  <2>2. PICK x, y : x = t[i].rcv_nxt + n /\ y = p.ack
    OBVIOUS
  <2>3. x \in Nat /\ y \in Nat
    <3>1. t[i].rcv_nxt \in Nat
      BY <2>1 DEF Streams
    <3>2. p.ack \in Nat
      BY DEF TcpPackets
    <3> QED
      BY <2>2, <3>1, <3>2
  <2>4. PICK s : s = [t[i] EXCEPT !.rcv_nxt = x, !.snd_nxt = y]
    OBVIOUS
  <2>5. s \in Streams /\ s.peer = t[i].peer /\ s.fd = t[i].fd /\ s.status = t[i].status /\ s.rcvbuf = t[i].rcvbuf
    BY <2>1, <2>3, <2>4 DEF Streams
  <2>6. t1 = [t EXCEPT ![i] = s]
    BY <1>1, <2>2, <2>4
  <2> QED
    BY <2>5, <2>6, AtIntro
<1>3. t1 \in Seq(Streams) /\ i \in DOMAIN t1
  BY <1>2 DEF At
<1>4. t1[i] \in Streams
  BY <1>3
<1>5. t1[i].snd_nxt \in Nat /\ t1[i].rcv_nxt \in Nat /\ {"ACK"} \in SUBSET Flags /\ <<>> \in Data
  <2>1. t1[i].snd_nxt \in Nat /\ t1[i].rcv_nxt \in Nat
    BY <1>4 DEF Streams
  <2> QED
    BY <2>1, EmptyData DEF Flags
<1>6. At(t1, ng_tcp_send_ackpkt(t1, i), i, t1[i].fd, t1[i].status, t1[i].rcvbuf)
  BY <1>3, <1>5, AtSend DEF ng_tcp_send_ackpkt
<1>7. t1[i].fd = t[i].fd /\ t1[i].status = t[i].status /\ t1[i].rcvbuf = t[i].rcvbuf
  BY <1>2 DEF At
<1>8. Acknowledge(t, i, n, p) = ng_tcp_send_ackpkt(t1, i)
  BY <1>1 DEF Acknowledge
<1>9. At(t1, ng_tcp_send_ackpkt(t1, i), i, t[i].fd, t[i].status, t[i].rcvbuf)
  BY <1>6, <1>7
<1> QED
  BY <1>2, <1>8, <1>9, AtTwice

\* nsend queues the data.
LEMMA AtNsend ==
  ASSUME NEW t \in Seq(Streams), NEW i \in DOMAIN t, NEW d \in Data
  PROVE  At(t, nsend(t, i, d), i, t[i].fd, t[i].status, t[i].rcvbuf)
<1>1. t[i].snd_nxt \in Nat /\ t[i].rcv_nxt \in Nat /\ {"ACK", "PSH"} \in SUBSET Flags
  <2>1. t[i] \in Streams
    OBVIOUS
  <2>2. t[i].snd_nxt \in Nat /\ t[i].rcv_nxt \in Nat
    BY <2>1 DEF Streams
  <2> QED
    BY <2>2 DEF Flags
<1> QED
  BY <1>1, AtSend DEF nsend

\* nclose queues a FIN and advances the status.
LEMMA AtNclose ==
  ASSUME NEW t \in Seq(Streams), NEW i \in DOMAIN t
  PROVE  At(t, nclose(t, i), i, t[i].fd, "LAST_ACK", t[i].rcvbuf)
<1>1. t[i].snd_nxt \in Nat /\ t[i].rcv_nxt \in Nat /\ {"FIN", "ACK"} \in SUBSET Flags /\ <<>> \in Data
  <2>1. t[i] \in Streams
    OBVIOUS
  <2>2. t[i].snd_nxt \in Nat /\ t[i].rcv_nxt \in Nat
    BY <2>1 DEF Streams
  <2> QED
    BY <2>2, EmptyData DEF Flags
<1>2. PICK g : g = Fragment({"FIN", "ACK"}, t[i].snd_nxt, t[i].rcv_nxt, <<>>)
  OBVIOUS
<1>3. PICK t1 : t1 = [t EXCEPT ![i].sndbuf = Append(@, g)]
  OBVIOUS
<1>4. At(t, t1, i, t[i].fd, t[i].status, t[i].rcvbuf)
  BY <1>1, <1>2, <1>3, AtSend
<1>5. t1 \in Seq(Streams) /\ i \in DOMAIN t1 /\ t1[i].fd = t[i].fd /\ t1[i].rcvbuf = t[i].rcvbuf
  BY <1>4 DEF At
<1>6. At(t1, [t1 EXCEPT ![i].status = "LAST_ACK"], i, t1[i].fd, "LAST_ACK", t1[i].rcvbuf)
  BY <1>5, AtStatus DEF Status
<1>7. nclose(t, i) = [t1 EXCEPT ![i].status = "LAST_ACK"]
  BY <1>2, <1>3 DEF nclose
<1>8. At(t1, nclose(t, i), i, t[i].fd, "LAST_ACK", t[i].rcvbuf)
  BY <1>5, <1>6, <1>7
<1> QED
  BY <1>4, <1>8, AtTwice

\* A change that only queues something for peers.
Alike(t, u) ==
  /\ u \in Seq(Streams) /\ Len(u) = Len(t)
  /\ \A j \in DOMAIN t : /\ u[j].peer = t[j].peer /\ u[j].fd = t[j].fd
                         /\ u[j].status = t[j].status /\ u[j].rcvbuf = t[j].rcvbuf
  /\ u[Len(t)].sndbuf = t[Len(t)].sndbuf

\* The new connection s at the head of the table.
Pushed(t, u, s) ==
  /\ u \in Seq(Streams) /\ Len(u) = Len(t) + 1 /\ u[1] = s
  /\ \A j \in DOMAIN t : u[j + 1] = t[j]
  /\ \A k \in DOMAIN u : k = 1 \/ (k - 1 \in DOMAIN t /\ u[k] = t[k - 1])

\* The stream i taken out of the table.
Removed(t, u, i) ==
  /\ u \in Seq(Streams) /\ Len(u) = Len(t) - 1
  /\ \A k \in DOMAIN u : u[k] = t[IF k < i THEN k ELSE k + 1]

\* A stream written back with its descriptor, status and ring is like before:
\* only numbers and send ring differ (Acknowledge, nsend).
LEMMA AtAlike ==
  ASSUME NEW t \in Seq(Streams), NEW i \in DOMAIN t, i < Len(t), NEW u,
         At(t, u, i, t[i].fd, t[i].status, t[i].rcvbuf)
  PROVE  Alike(t, u)
<1>1. Len(t) \in DOMAIN t /\ Len(t) # i
  OBVIOUS
<1>2. u[Len(t)] = t[Len(t)]
  BY <1>1 DEF At
<1>3. u \in Seq(Streams) /\ Len(u) = Len(t)
  BY DEF At
<1>4. ASSUME NEW j \in DOMAIN t
      PROVE  /\ u[j].peer = t[j].peer /\ u[j].fd = t[j].fd
             /\ u[j].status = t[j].status /\ u[j].rcvbuf = t[j].rcvbuf
  BY DEF At
<1> QED
  BY <1>2, <1>3, <1>4 DEF Alike

\* TAILQ_INSERT_HEAD of a new connection.
LEMMA PushedIntro ==
  ASSUME NEW t \in Seq(Streams), NEW s \in Streams
  PROVE  Pushed(t, <<s>> \o t, s)
<1>1. PICK u : u = <<s>> \o t
  OBVIOUS
<1>2. u \in Seq(Streams) /\ Len(u) = Len(t) + 1 /\ u[1] = s
  BY <1>1
<1>3. \A j \in DOMAIN t : u[j + 1] = t[j]
  BY <1>1
<1>4. ASSUME NEW k \in DOMAIN u, k # 1
      PROVE  k - 1 \in DOMAIN t /\ u[k] = t[k - 1]
  BY <1>1, <1>2, <1>4
<1> QED
  BY <1>1, <1>2, <1>3, <1>4 DEF Pushed

\* TAILQ_REMOVE of a connection.
LEMMA RemovedIntro ==
  ASSUME NEW t \in Seq(Streams), NEW i \in DOMAIN t
  PROVE  Removed(t, RemoveAt(t, i), i)
<1>1. PICK a, b : a = SubSeq(t, 1, i - 1) /\ b = SubSeq(t, i + 1, Len(t))
  OBVIOUS
<1>2. i \in 1 .. Len(t) /\ Len(t) \in Nat
  OBVIOUS
<1>3. a \in Seq(Streams) /\ Len(a) = i - 1 /\ \A k \in 1 .. i - 1 : a[k] = t[k]
  BY <1>1, <1>2
<1>4. b \in Seq(Streams) /\ Len(b) = Len(t) - i /\ \A k \in 1 .. Len(t) - i : b[k] = t[k + i]
  <2>1. b \in Seq(Streams)
    BY <1>1, <1>2
  <2>2. Len(b) = Len(t) - i
    BY <1>1, <1>2
  <2>3. ASSUME NEW k \in 1 .. Len(t) - i PROVE b[k] = t[k + i]
    BY <1>1, <1>2
  <2> QED
    BY <2>1, <2>2, <2>3
<1>5. PICK u : u = a \o b
  OBVIOUS
<1>6. u \in Seq(Streams) /\ Len(u) = Len(t) - 1
  BY <1>2, <1>3, <1>4, <1>5
<1>7. ASSUME NEW k \in DOMAIN u PROVE u[k] = t[IF k < i THEN k ELSE k + 1]
  <2>1. k \in 1 .. Len(t) - 1
    BY <1>6, <1>7
  <2>2. CASE k < i
    BY <1>2, <1>3, <1>4, <1>5, <2>1, <2>2
  <2>3. CASE ~(k < i)
    <3>1. k - (i - 1) \in 1 .. Len(t) - i
      BY <1>2, <2>1, <2>3
    <3>2. u[k] = b[k - (i - 1)]
      BY <1>2, <1>3, <1>4, <1>5, <2>1, <2>3
    <3>3. b[k - (i - 1)] = t[(k - (i - 1)) + i]
      BY <1>4, <3>1
    <3>4. (k - (i - 1)) + i = k + 1
      BY <1>2, <2>1
    <3> QED
      BY <2>3, <3>2, <3>3, <3>4
  <2> QED
    BY <2>2, <2>3
<1> QED
  BY <1>1, <1>5, <1>6, <1>7 DEF Removed, RemoveAt

-----------------------------------------------------------------------------
(* What each step of the packet thread does to ring and table. *)

\* The packet at the head of the in ring.
LEMMA HeadPacket ==
  ASSUME TypeOK, ringIn # <<>>
  PROVE  /\ Head(ringIn) = ringIn[1] /\ 1 \in DOMAIN ringIn /\ Head(ringIn) \in Packets
         /\ Head(ringIn).from \in Peer
         /\ Head(ringIn).kind = "tcp" => Head(ringIn) \in TcpPackets
         /\ Head(ringIn).kind = "udp" => Head(ringIn) \in UdpPackets
         /\ Tail(ringIn) \in Seq(Packets) /\ Len(Tail(ringIn)) = Len(ringIn) - 1
         /\ \A k \in DOMAIN Tail(ringIn) : Tail(ringIn)[k] = ringIn[k + 1] /\ k + 1 \in DOMAIN ringIn
<1>1. ringIn \in Seq(Packets)
  BY DEF TypeOK
<1>2. Head(ringIn) = ringIn[1] /\ 1 \in DOMAIN ringIn /\ Head(ringIn) \in Packets
  BY <1>1
<1>3. Tail(ringIn) \in Seq(Packets) /\ Len(Tail(ringIn)) = Len(ringIn) - 1
  BY <1>1
<1>4. \A k \in DOMAIN Tail(ringIn) : Tail(ringIn)[k] = ringIn[k + 1] /\ k + 1 \in DOMAIN ringIn
  BY <1>1, <1>3
<1>5. \A p \in Packets : /\ p.from \in Peer
                         /\ p.kind = "tcp" => p \in TcpPackets
                         /\ p.kind = "udp" => p \in UdpPackets
  BY DEF Packets, TcpPackets, ArpPackets, UdpPackets
<1> QED
  BY <1>2, <1>3, <1>4, <1>5

\* A TCP packet belongs to a stream of its peer or to the listening one.
LEMMA Arrival ==
  ASSUME TypeOK, TableInv, NEW status, Arrives(status)
  PROVE  LET p == Head(ringIn)
             i == ng_tcp_stream_search(tcb, p.from)
         IN  /\ alive /\ app # "single" /\ pkt = Idle /\ p \in TcpPackets /\ ringIn # <<>>
             /\ ringIn' = Tail(ringIn)
             /\ i \in DOMAIN tcb /\ tcb[i].status = status
             /\ status = "LISTEN" => Gone(p.from) /\ i = Len(tcb)
             /\ status # "LISTEN" => i < Len(tcb) /\ tcb[i].peer = p.from
<1>1. Reads("tcp") /\ tcb[ng_tcp_stream_search(tcb, Head(ringIn).from)].status = status
  BY DEF Arrives
<1>2. /\ alive /\ app # "single" /\ pkt = Idle /\ ringIn # <<>> /\ Head(ringIn).kind = "tcp"
      /\ ringIn' = Tail(ringIn)
  BY <1>1 DEF Reads
<1>3. Head(ringIn) \in TcpPackets /\ Head(ringIn).from \in Peer
  BY <1>2, HeadPacket
<1> QED
  BY <1>1, <1>2, <1>3, StreamSearch

\* A SYN adds a connection; tcp-orig adds no second one.
LEMMA ListeningStep ==
  ASSUME TypeOK, TableInv, Listening
  PROVE  LET p == Head(ringIn)
         IN  \/ tcb' = tcb
             \/ \E s \in Streams :
                  /\ s.peer = p.from /\ s.fd = NoFd /\ s.status = "SYN_RCVD" /\ s.rcvbuf = <<>>
                  /\ Pushed(tcb, tcb', s) /\ "SYN" \in p.flags /\ Gone(p.from)
                  /\ app = "serial" => Len(tcb) <= 1
<1>1. PICK p : p = Head(ringIn)
  OBVIOUS
<1>2. p \in TcpPackets /\ Gone(p.from)
  BY <1>1, Arrival DEF Listening
<1>3. PICK n, m : n = p.seq + 1 /\ m = ng_tcp_stream_create(p.from).snd_nxt
  OBVIOUS
<1>4. n \in Nat /\ m = 0 /\ p.from \in Peer
  <2>1. p.seq \in Nat /\ p.from \in Peer
    BY <1>2 DEF TcpPackets
  <2> QED
    BY <1>3, <2>1 DEF ng_tcp_stream_create, Stream
<1>5. PICK g : g = Fragment({"SYN", "ACK"}, m, n, <<>>)
  OBVIOUS
<1>6. <<g>> \in Seq(Fragments)
  <2>1. g \in Fragments
    BY <1>4, <1>5, EmptyData DEF Fragment, Fragments, Flags
  <2> QED
    BY <2>1
<1>7. PICK s : s = [ng_tcp_stream_create(p.from) EXCEPT !.rcv_nxt = n, !.sndbuf = <<g>>, !.status = "SYN_RCVD"]
  OBVIOUS
<1>8. ng_tcp_stream_create(p.from) = [peer |-> p.from, fd |-> NoFd, status |-> "LISTEN", snd_nxt |-> 0,
                                      rcv_nxt |-> 0, sndbuf |-> <<>>, rcvbuf |-> <<>>]
  BY DEF ng_tcp_stream_create, Stream
<1>9. s = [peer |-> p.from, fd |-> NoFd, status |-> "SYN_RCVD", snd_nxt |-> 0,
           rcv_nxt |-> n, sndbuf |-> <<g>>, rcvbuf |-> <<>>]
  <2>1. PICK ring, none : ring = <<g>> /\ none = <<>>
    OBVIOUS
  <2>2. s = [[peer |-> p.from, fd |-> NoFd, status |-> "LISTEN", snd_nxt |-> 0, rcv_nxt |-> 0,
              sndbuf |-> none, rcvbuf |-> none] EXCEPT !.rcv_nxt = n, !.sndbuf = ring, !.status = "SYN_RCVD"]
    BY <1>7, <1>8, <2>1, Zenon
  <2>3. s = [peer |-> p.from, fd |-> NoFd, status |-> "SYN_RCVD", snd_nxt |-> 0,
             rcv_nxt |-> n, sndbuf |-> ring, rcvbuf |-> none]
    BY <2>2
  <2> QED
    BY <2>1, <2>3, Zenon
<1>10. s \in Streams /\ s.peer = p.from /\ s.fd = NoFd /\ s.status = "SYN_RCVD" /\ s.rcvbuf = <<>>
  <2>1. <<>> \in Seq(Data)
    OBVIOUS
  <2> QED
    BY <1>4, <1>6, <1>9, <2>1 DEF Streams, Status, NoFd
<1>11. ng_tcp_handle_listen(tcb, p) = IF "SYN" \in p.flags THEN <<s>> \o tcb ELSE tcb
  BY <1>3, <1>5, <1>7 DEF ng_tcp_handle_listen
<1>12. tcb \in Seq(Streams)
  BY DEF TypeOK
<1>13. Pushed(tcb, <<s>> \o tcb, s)
  BY <1>10, <1>12, PushedIntro
<1>14. CASE app = "serial" /\ ng_tcp_handle_listen(tcb, p) # tcb /\ Len(tcb) > 1
  BY <1>1, <1>14 DEF Listening
<1>15. CASE ~(app = "serial" /\ ng_tcp_handle_listen(tcb, p) # tcb /\ Len(tcb) > 1)
  <2>1. tcb' = ng_tcp_handle_listen(tcb, p)
    BY <1>1, <1>15 DEF Listening
  <2>2. CASE "SYN" \in p.flags /\ <<s>> \o tcb # tcb
    <3>1. tcb' = <<s>> \o tcb /\ ng_tcp_handle_listen(tcb, p) # tcb
      BY <1>11, <2>1, <2>2
    <3>2. app = "serial" => Len(tcb) <= 1
      BY <1>12, <1>15, <3>1
    <3> QED
      BY <1>1, <1>2, <1>10, <1>13, <2>2, <3>1, <3>2
  <2>3. CASE ~("SYN" \in p.flags /\ <<s>> \o tcb # tcb)
    BY <1>11, <2>1, <2>3
  <2> QED
    BY <2>2, <2>3
<1> QED
  BY <1>14, <1>15

\* The third segment of the handshake establishes the connection and, in the
\* event-driven program, makes the listening socket readable.
LEMMA SynReceivedStep ==
  ASSUME TypeOK, TableInv, SynReceived
  PROVE  LET p == Head(ringIn)
             i == ng_tcp_stream_search(tcb, p.from)
         IN  \/ tcb' = tcb /\ pkt' = Idle
             \/ /\ At(tcb, tcb', i, tcb[i].fd, "ESTABLISHED", tcb[i].rcvbuf)
                /\ pkt' = IF app = "epoll"
                          THEN [at |-> "find", i |-> i, fd |-> ListenFd, p |-> p, todo |-> <<>>]
                          ELSE Idle
<1>1. PICK p, i : p = Head(ringIn) /\ i = ng_tcp_stream_search(tcb, p.from)
  OBVIOUS
<1>2. i \in DOMAIN tcb /\ tcb \in Seq(Streams)
  BY <1>1, Arrival DEF SynReceived, TypeOK
<1>3. At(tcb, [tcb EXCEPT ![i].status = "ESTABLISHED"], i, tcb[i].fd, "ESTABLISHED", tcb[i].rcvbuf)
  BY <1>2, AtStatus DEF Status
<1>4. /\ tcb' = IF "ACK" \in p.flags THEN [tcb EXCEPT ![i].status = "ESTABLISHED"] ELSE tcb
      /\ pkt' = IF app = "epoll" /\ "ACK" \in p.flags
                THEN [at |-> "find", i |-> i, fd |-> ListenFd, p |-> p, todo |-> <<>>] ELSE Idle
  BY <1>1, Zenon DEF SynReceived, ng_tcp_handle_syn_rcvd
<1>5. CASE "ACK" \in p.flags
  BY <1>1, <1>3, <1>4, <1>5, Zenon
<1>6. CASE "ACK" \notin p.flags
  BY <1>1, <1>4, <1>6, Zenon
<1> QED
  BY <1>5, <1>6

\* The flags of an established connection, in the order they are acted on.
LEMMA TodoCases ==
  ASSUME NEW p
  PROVE  /\ "PSH" \in p.flags /\ "FIN" \in p.flags => Todo(p) = <<"PSH", "FIN">>
         /\ "PSH" \in p.flags /\ "FIN" \notin p.flags => Todo(p) = <<"PSH">>
         /\ "PSH" \notin p.flags /\ "FIN" \in p.flags => Todo(p) = <<"FIN">>
         /\ "PSH" \notin p.flags /\ "FIN" \notin p.flags => Todo(p) = <<>>
<1>1. <<"PSH">> \o <<"FIN">> = <<"PSH", "FIN">>
  <2>1. PICK a, b, v : a = <<"PSH">> /\ b = <<"FIN">> /\ v = <<"PSH", "FIN">>
    OBVIOUS
  <2>2. a \in Seq({"PSH", "FIN"}) /\ b \in Seq({"PSH", "FIN"}) /\ Len(a) = 1 /\ Len(b) = 1 /\ a[1] = "PSH" /\ b[1] = "FIN"
    <3>1. a \in Seq({"PSH", "FIN"}) /\ b \in Seq({"PSH", "FIN"})
      BY <2>1
    <3>2. Len(a) = 1 /\ Len(b) = 1
      BY <2>1
    <3>3. a[1] = "PSH" /\ b[1] = "FIN"
      BY <2>1
    <3> QED
      BY <3>1, <3>2, <3>3
  <2>3. v \in Seq({"PSH", "FIN"}) /\ Len(v) = 2 /\ v[1] = "PSH" /\ v[2] = "FIN"
    <3>1. v \in Seq({"PSH", "FIN"})
      BY <2>1
    <3>2. Len(v) = 2
      BY <2>1
    <3>3. v[1] = "PSH" /\ v[2] = "FIN"
      BY <2>1
    <3> QED
      BY <3>1, <3>2, <3>3
  <2>4. PICK u : u = a \o b
    OBVIOUS
  <2>5. u \in Seq({"PSH", "FIN"}) /\ Len(u) = 2 /\ u[1] = "PSH" /\ u[2] = "FIN"
    <3>1. PICK S : S = {"PSH", "FIN"}
      OBVIOUS
    <3>2. a \in Seq(S) /\ b \in Seq(S)
      BY <2>2, <3>1
    <3>3. /\ u \in Seq(S) /\ Len(u) = Len(a) + Len(b)
          /\ \A k \in 1 .. Len(a) + Len(b) : u[k] = IF k <= Len(a) THEN a[k] ELSE b[k - Len(a)]
      BY <2>4, <3>2, ConcatProperties
    <3>4. Len(u) = 2 /\ u[1] = a[1] /\ u[2] = b[1]
      BY <2>2, <3>3
    <3> QED
      BY <2>2, <3>1, <3>3, <3>4
  <2>6. \A k \in 1 .. 2 : u[k] = v[k]
    BY <2>3, <2>5
  <2>7. u = v
    BY <2>3, <2>5, <2>6, SeqEqual
  <2> QED
    BY <2>1, <2>4, <2>7, Zenon
<1>2. <<"PSH">> \in Seq({"PSH"}) /\ <<"FIN">> \in Seq({"FIN"}) /\ <<>> \in Seq({"FIN"})
  OBVIOUS
<1>3. <<"PSH">> \o <<>> = <<"PSH">> /\ <<>> \o <<"FIN">> = <<"FIN">> /\ <<>> \o <<>> = <<>>
  BY <1>2, ConcatEmptySeq
<1> QED
  BY <1>1, <1>3, Zenon DEF Todo

\* A fragment of data, or the end of the stream, is put into the ring.
LEMMA EstablishedStep ==
  ASSUME TypeOK, TableInv, Established
  PROVE  LET p == Head(ringIn)
             i == ng_tcp_stream_search(tcb, p.from)
             next == IF app = "epoll" THEN "find" ELSE "ack"
         IN  \/ tcb' = tcb /\ pkt' = pkt
             \/ /\ "PSH" \in p.flags
                /\ At(tcb, tcb', i, tcb[i].fd, "ESTABLISHED", Append(tcb[i].rcvbuf, p.data))
                /\ \E todo \in {<<"PSH">>, <<"PSH", "FIN">>} :
                     /\ todo = <<"PSH", "FIN">> => "FIN" \in p.flags
                     /\ pkt' = [at |-> next, i |-> i, fd |-> tcb[i].fd, p |-> p, todo |-> todo]
             \/ /\ "FIN" \in p.flags
                /\ At(tcb, tcb', i, tcb[i].fd, "CLOSE_WAIT", Append(tcb[i].rcvbuf, <<>>))
                /\ pkt' = [at |-> next, i |-> i, fd |-> tcb[i].fd, p |-> p, todo |-> <<"FIN">>]
<1>1. PICK p, i : p = Head(ringIn) /\ i = ng_tcp_stream_search(tcb, p.from)
  OBVIOUS
<1>2. i \in DOMAIN tcb /\ tcb \in Seq(Streams) /\ tcb[i].status = "ESTABLISHED" /\ p \in TcpPackets
  BY <1>1, Arrival DEF Established, TypeOK
<1>3. p.data \in Data
  BY <1>2 DEF TcpPackets
<1>4. At(tcb, ng_tcp_enqueue_recvbuffer(tcb, i, p.data), i, tcb[i].fd, "ESTABLISHED",
         Append(tcb[i].rcvbuf, p.data))
  BY <1>2, <1>3, AtEnqueue
<1>5. At(tcb, ng_tcp_enqueue_recvbuffer([tcb EXCEPT ![i].status = "CLOSE_WAIT"], i, <<>>), i,
         tcb[i].fd, "CLOSE_WAIT", Append(tcb[i].rcvbuf, <<>>))
  BY <1>2, AtFin
<1>6. IF Todo(p) = <<>> THEN UNCHANGED <<tcb, pkt>> ELSE Deliver(i, p, Todo(p))
  BY <1>1, Zenon DEF Established
<1>7. ASSUME NEW todo, Todo(p) = todo, todo # <<>>
      PROVE  /\ tcb' = ng_tcp_enqueue_recvbuffer(
                         IF Head(todo) = "FIN" THEN [tcb EXCEPT ![i].status = "CLOSE_WAIT"] ELSE tcb,
                         i, IF Head(todo) = "PSH" THEN p.data ELSE <<>>)
             /\ pkt' = [at |-> IF app = "epoll" THEN "find" ELSE "ack",
                        i |-> i, fd |-> tcb[i].fd, p |-> p, todo |-> todo]
  BY <1>6, <1>7, Zenon DEF Deliver
<1>8. ASSUME NEW todo \in {<<"PSH">>, <<"PSH", "FIN">>}
      PROVE  Head(todo) = "PSH" /\ Head(todo) # "FIN" /\ todo # <<>>
  OBVIOUS
<1>9. Head(<<"FIN">>) = "FIN" /\ Head(<<"FIN">>) # "PSH" /\ <<"FIN">> # <<>>
  OBVIOUS
<1>10. CASE "PSH" \in p.flags
  <2>1. PICK todo \in {<<"PSH">>, <<"PSH", "FIN">>} :
             Todo(p) = todo /\ (todo = <<"PSH", "FIN">> => "FIN" \in p.flags)
    <3>1. CASE "FIN" \in p.flags
      BY <1>10, <3>1, TodoCases
    <3>2. CASE "FIN" \notin p.flags
      <4>1. Todo(p) = <<"PSH">> /\ <<"PSH">> # <<"PSH", "FIN">>
        BY <1>10, <3>2, TodoCases
      <4> QED
        BY <4>1
    <3> QED
      BY <3>1, <3>2
  <2>2. tcb' = ng_tcp_enqueue_recvbuffer(tcb, i, p.data)
    BY <1>7, <1>8, <2>1, Zenon
  <2>3. pkt' = [at |-> IF app = "epoll" THEN "find" ELSE "ack",
                i |-> i, fd |-> tcb[i].fd, p |-> p, todo |-> todo]
    BY <1>7, <1>8, <2>1, Zenon
  <2> QED
    BY <1>1, <1>4, <1>10, <2>1, <2>2, <2>3, Zenon
<1>11. CASE "PSH" \notin p.flags /\ "FIN" \in p.flags
  <2>1. Todo(p) = <<"FIN">>
    BY <1>11, TodoCases
  <2>2. tcb' = ng_tcp_enqueue_recvbuffer([tcb EXCEPT ![i].status = "CLOSE_WAIT"], i, <<>>)
    BY <1>7, <1>9, <2>1, Zenon
  <2>3. pkt' = [at |-> IF app = "epoll" THEN "find" ELSE "ack",
                i |-> i, fd |-> tcb[i].fd, p |-> p, todo |-> <<"FIN">>]
    BY <1>7, <1>9, <2>1, Zenon
  <2> QED
    BY <1>1, <1>5, <1>11, <2>2, <2>3, Zenon
<1>12. CASE "PSH" \notin p.flags /\ "FIN" \notin p.flags
  BY <1>1, <1>6, <1>12, TodoCases, Zenon
<1> QED
  BY <1>10, <1>11, <1>12

\* The numbers move; of a segment with data and FIN, the FIN comes next.
LEMMA AcknowledgesStep ==
  ASSUME TypeOK, TableInv, PktInv, Acknowledges
  PROVE  /\ pkt.at = "ack" /\ pkt # Idle
         /\ \/ pkt' = Idle /\ Alike(tcb, tcb')
            \/ /\ pkt.todo = <<"PSH", "FIN">>
               /\ At(tcb, tcb', pkt.i, tcb[pkt.i].fd, "CLOSE_WAIT", Append(tcb[pkt.i].rcvbuf, <<>>))
               /\ pkt' = [pkt EXCEPT !.at = IF app = "epoll" THEN "find" ELSE "ack",
                                     !.fd = tcb[pkt.i].fd, !.todo = <<"FIN">>]
<1>1. pkt.at = "ack"
  BY DEF Acknowledges
<1>2. pkt # Idle
  BY <1>1 DEF Idle
<1>3. pkt \in Works
  BY <1>2 DEF TypeOK
<1>4. PICK i, p, todo : i = pkt.i /\ p = pkt.p /\ todo = pkt.todo
  OBVIOUS
<1>5. /\ i \in DOMAIN tcb /\ i < Len(tcb) /\ tcb \in Seq(Streams) /\ p \in TcpPackets
      /\ todo \in {<<"PSH">>, <<"FIN">>, <<"PSH", "FIN">>}
  <2>1. pkt.i \in 1 .. Len(tcb) - 1 /\ pkt.todo # <<>>
    BY <1>1, <1>2 DEF PktInv
  <2>2. tcb \in Seq(Streams)
    BY DEF TypeOK
  <2>3. p \in TcpPackets /\ todo \in {<<>>, <<"PSH">>, <<"FIN">>, <<"PSH", "FIN">>}
    BY <1>3, <1>4 DEF Works
  <2>4. i \in DOMAIN tcb /\ i < Len(tcb)
    BY <1>4, <2>1, <2>2
  <2> QED
    BY <1>4, <2>1, <2>2, <2>3, <2>4
<1>6. PICK n : n = IF Head(todo) = "PSH" THEN Len(p.data) ELSE 1
  OBVIOUS
<1>7. n \in Nat
  <2>1. p.data \in Data
    BY <1>5 DEF TcpPackets
  <2>2. Len(p.data) \in Nat
    BY <2>1 DEF Data
  <2> QED
    BY <1>6, <2>2
<1>8. PICK t : t = Acknowledge(tcb, i, n, p)
  OBVIOUS
<1>9. At(tcb, t, i, tcb[i].fd, tcb[i].status, tcb[i].rcvbuf)
  BY <1>5, <1>7, <1>8, AtAcknowledge
<1>10. IF Tail(todo) = <<>>
       THEN tcb' = t /\ pkt' = Idle
       ELSE /\ tcb' = ng_tcp_enqueue_recvbuffer([t EXCEPT ![i].status = "CLOSE_WAIT"], i, <<>>)
            /\ pkt' = [pkt EXCEPT !.at = IF app = "epoll" THEN "find" ELSE "ack",
                                  !.fd = tcb[i].fd, !.todo = Tail(todo)]
  BY <1>4, <1>6, <1>8 DEF Acknowledges
<1>11. CASE Tail(todo) = <<>>
  <2>1. Alike(tcb, t)
    BY <1>5, <1>9, AtAlike
  <2> QED
    BY <1>1, <1>2, <1>10, <1>11, <2>1, Zenon
<1>12. CASE Tail(todo) # <<>>
  <2>1. todo = <<"PSH", "FIN">> /\ Tail(todo) = <<"FIN">>
    <3>1. Tail(<<"PSH">>) = <<>> /\ Tail(<<"FIN">>) = <<>>
      OBVIOUS
    <3>2. Tail(<<"PSH", "FIN">>) = <<"FIN">>
      OBVIOUS
    <3> QED
      BY <1>5, <1>12, <3>1, <3>2, Zenon
  <2>2. t \in Seq(Streams) /\ i \in DOMAIN t /\ t[i].fd = tcb[i].fd /\ t[i].rcvbuf = tcb[i].rcvbuf
    BY <1>5, <1>9 DEF At
  <2>3. At(t, tcb', i, t[i].fd, "CLOSE_WAIT", Append(t[i].rcvbuf, <<>>))
    BY <1>10, <1>12, <2>2, AtFin
  <2>4. At(t, tcb', i, tcb[i].fd, "CLOSE_WAIT", Append(tcb[i].rcvbuf, <<>>))
    BY <2>2, <2>3
  <2>5. At(tcb, tcb', i, tcb[i].fd, "CLOSE_WAIT", Append(tcb[i].rcvbuf, <<>>))
    BY <1>5, <1>9, <2>4, AtTwice
  <2>6. pkt' = [pkt EXCEPT !.at = IF app = "epoll" THEN "find" ELSE "ack",
                           !.fd = tcb[i].fd, !.todo = <<"FIN">>]
    BY <1>10, <1>12, <2>1, Zenon
  <2> QED
    BY <1>1, <1>2, <1>4, <2>1, <2>5, <2>6, Zenon
<1> QED
  BY <1>11, <1>12

\* The last acknowledgement frees the stream.
LEMMA LastAckStep ==
  ASSUME TypeOK, TableInv, LastAck
  PROVE  LET i == ng_tcp_stream_search(tcb, Head(ringIn).from)
         IN  tcb' = tcb \/ Removed(tcb, tcb', i)
<1>1. PICK p, i : p = Head(ringIn) /\ i = ng_tcp_stream_search(tcb, p.from)
  OBVIOUS
<1>2. i \in DOMAIN tcb /\ tcb \in Seq(Streams)
  BY <1>1, Arrival DEF LastAck, TypeOK
<1>3. tcb' = IF "ACK" \in p.flags THEN RemoveAt(tcb, i) ELSE tcb
  BY <1>1, Zenon DEF LastAck, ng_tcp_handle_last_ack
<1> QED
  BY <1>1, <1>2, <1>3, RemovedIntro

\* A pass of the senders changes send rings only.
LEMMA SendPassStep ==
  ASSUME TypeOK, TableInv, SendPass
  PROVE  /\ Alike(tcb, tcb')
         /\ Grown(ringIn, ringIn', Acks \union ArpPackets)
         /\ cl' \in [Peer -> Hosts]
         /\ \A c \in Peer : cl'[c].last = cl[c].last /\ (cl'[c].st = "closed" => cl[c].st = "closed")
         /\ host' \in [rcvbuf : Seq(Datagrams), sndbuf : Seq(Datagrams)]
<1>1. tcb \in Seq(Streams) /\ DOMAIN tcb = 1 .. Len(tcb) /\ Len(tcb) \in Nat /\ arp \in SUBSET Peer
  BY DEF TypeOK
<1>2. host \in [rcvbuf : Seq(Datagrams), sndbuf : Seq(Datagrams)]
  BY DEF TypeOK
<1> DEFINE ready == {i \in DOMAIN tcb : tcb[i].sndbuf # <<>>}
           packet(i) == IF tcb[i].peer \in arp
                        THEN [to |-> tcb[i].peer, kind |-> "tcp", seg |-> Head(tcb[i].sndbuf)]
                        ELSE [to |-> tcb[i].peer, kind |-> "arp"]
           f == [i \in ready |-> {packet(i)}]
<1>3. \A i \in DOMAIN tcb : tcb[i] \in Streams /\ tcb[i].sndbuf \in Seq(Fragments)
  <2>1. \A i \in DOMAIN tcb : tcb[i] \in Streams
    BY <1>1
  <2> QED
    BY <2>1 DEF Streams
<1>4. ASSUME NEW i \in ready PROVE packet(i) \in Outputs
  <2>1. i # Len(tcb)
    BY <1>4 DEF TableInv
  <2>2. tcb[i].peer \in Peer
    <3>1. tcb[i].peer # NoPeer
      BY <1>1, <2>1 DEF TableInv
    <3> QED
      BY <1>3, <3>1 DEF Streams
  <2>3. Head(tcb[i].sndbuf) \in Fragments
    BY <1>3
  <2>4. [to |-> tcb[i].peer, kind |-> "arp"] \in Outputs
    BY <2>2 DEF Outputs
  <2>5. [to |-> tcb[i].peer, kind |-> "tcp", seg |-> Head(tcb[i].sndbuf)] \in Outputs
    BY <2>2, <2>3 DEF Outputs
  <2> QED
    BY <2>4, <2>5
<1>5. Outgoing(tcb, arp) = {packet(i) : i \in ready}
  BY DEF Outgoing
<1>6. IsFiniteSet(Outgoing(tcb, arp)) /\ Outgoing(tcb, arp) \subseteq Outputs
  <2>1. IsFiniteSet(ready)
    <3>1. IsFiniteSet(DOMAIN tcb)
      BY <1>1, FS_Interval
    <3> QED
      BY <3>1, FS_Subset
  <2>2. \A u \in Outgoing(tcb, arp) : \E i \in ready : f[i] = {u}
    BY <1>5
  <2>3. Outgoing(tcb, arp) \subseteq Outputs
    BY <1>4, <1>5
  <2>4. PICK U : U = Outgoing(tcb, arp)
    OBVIOUS
  <2> HIDE DEF f, ready
  <2>5. \A u \in U : \E i \in ready : f[i] = {u}
    BY <2>2, <2>4
  <2>6. IsFiniteSet(U)
    BY <2>1, <2>5, SmallUnion
  <2> QED
    BY <2>3, <2>4, <2>6
<1>7. udp_out \in SUBSET Outputs /\ IsFiniteSet(udp_out)
  <2>1. host.sndbuf # <<>> => Head(host.sndbuf) \in Datagrams
    BY <1>2
  <2>2. IsFiniteSet({}) /\ IsFiniteSet({Head(host.sndbuf)})
    BY FS_EmptySet, FS_Singleton
  <2> QED
    BY <2>1, <2>2 DEF udp_out, Outputs
<1>8. PICK out : out = udp_out \union Outgoing(tcb, arp)
  OBVIOUS
<1>9. out \in SUBSET Outputs /\ IsFiniteSet(out)
  BY <1>6, <1>7, <1>8, FS_Union
<1>10. Tx(out)
  BY <1>8 DEF SendPass
<1>11. PICK s \in Answers(out) : Rx(s)
  BY <1>10 DEF Tx
<1>12. Grown(ringIn, ringIn', Acks \union ArpPackets)
  <2>1. Acks \union ArpPackets \in SUBSET Packets
    BY DEF Acks, Packets
  <2>2. s \in Seq(Acks \union ArpPackets)
    BY <1>9, <1>11, AnswersTyped
  <2> QED
    BY <1>11, <2>1, <2>2, RxGrows
<1>13. cl' = Taken(out)
  BY <1>10 DEF Tx
<1>14. /\ cl' \in [Peer -> Hosts]
       /\ \A c \in Peer : cl'[c].last = cl[c].last /\ (cl'[c].st = "closed" => cl[c].st = "closed")
  BY <1>9, <1>13, AnswersTyped
<1>15. host' \in [rcvbuf : Seq(Datagrams), sndbuf : Seq(Datagrams)]
  <2>1. PICK r : r = IF host.sndbuf = <<>> THEN host.sndbuf ELSE Tail(host.sndbuf)
    OBVIOUS
  <2>2. r \in Seq(Datagrams)
    BY <1>2, <2>1
  <2>3. host' = [host EXCEPT !.sndbuf = r]
    BY <2>1 DEF SendPass
  <2> QED
    BY <1>2, <2>2, <2>3
<1>16. Alike(tcb, tcb')
  <2> DEFINE ring(i) == IF tcb[i].peer \in arp THEN Tail(tcb[i].sndbuf)
                        ELSE Append(Tail(tcb[i].sndbuf), Head(tcb[i].sndbuf))
             stream(i) == IF tcb[i].sndbuf = <<>> THEN tcb[i] ELSE [tcb[i] EXCEPT !.sndbuf = ring(i)]
  <2>1. tcb' = [i \in DOMAIN tcb |-> stream(i)]
    BY DEF SendPass, ng_tcp_out
  <2>2. ASSUME NEW i \in DOMAIN tcb
        PROVE  /\ stream(i) \in Streams /\ stream(i).peer = tcb[i].peer /\ stream(i).fd = tcb[i].fd
               /\ stream(i).status = tcb[i].status /\ stream(i).rcvbuf = tcb[i].rcvbuf
    <3>1. CASE tcb[i].sndbuf = <<>>
      BY <1>3, <3>1
    <3>2. CASE tcb[i].sndbuf # <<>>
      <4>1. ring(i) \in Seq(Fragments)
        BY <1>3, <3>2
      <4>2. stream(i) = [tcb[i] EXCEPT !.sndbuf = ring(i)]
        BY <3>2
      <4> HIDE DEF ring, stream
      <4> QED
        BY <1>3, <4>1, <4>2 DEF Streams
    <3> QED
      BY <3>1, <3>2
  <2>3. stream(Len(tcb)).sndbuf = tcb[Len(tcb)].sndbuf
    BY DEF TableInv
  <2> HIDE DEF stream
  <2>4. tcb' \in Seq(Streams) /\ Len(tcb') = Len(tcb)
    BY <1>1, <2>1, <2>2
  <2>5. Len(tcb) \in DOMAIN tcb
    BY <1>1 DEF TableInv
  <2> QED
    BY <2>1, <2>2, <2>3, <2>4, <2>5 DEF Alike
<1> QED
  BY <1>12, <1>14, <1>15, <1>16

-----------------------------------------------------------------------------
(* What each call of the server does to the table. *)

\* The ring r after nrecv took from the ring s: the head is gone and, if it
\* was too long for the buffer, its rest is at the back.
TakenFrom(s, r) ==
  /\ r \in Seq(Data) /\ Len(r) \in {Len(s) - 1, Len(s)}
  /\ \A k \in DOMAIN r : \/ k < Len(s) /\ r[k] = s[k + 1]
                         \/ k = Len(s) /\ r[k] # <<>>

\* nrecv returns nothing just if it met the end of the stream.
LEMMA NrecvResult ==
  ASSUME NEW s \in Seq(Data), s # <<>>
  PROVE  /\ TakenFrom(s, nrecv(s).ring)
         /\ nrecv(s).data \in Data
         /\ nrecv(s).data = <<>> <=> s[1] = <<>>
<1>1. PICK f : f = Head(s)
  OBVIOUS
<1>2. f \in Data /\ f = s[1] /\ f \in Seq(Nat) /\ Len(f) \in Nat
  BY <1>1 DEF Data
<1>3. PICK b : b = BUFFER_SIZE
  OBVIOUS
<1>4. b \in Nat /\ b >= 1 /\ Len(f) <= 2 * b
  BY <1>2, <1>3, BufferAssumption DEF Data
<1>5. PICK rest, buf : rest = SubSeq(f, b + 1, Len(f)) /\ buf = SubSeq(f, 1, b)
  OBVIOUS
<1>6. Tail(s) \in Seq(Data) /\ Len(Tail(s)) = Len(s) - 1 /\ \A k \in 1 .. Len(s) - 1 : Tail(s)[k] = s[k + 1]
  OBVIOUS
<1>7. CASE Len(f) > b
  <2>1. rest \in Seq(Nat) /\ Len(rest) = Len(f) - b
    BY <1>2, <1>4, <1>5, <1>7
  <2>2. buf \in Seq(Nat) /\ Len(buf) = b
    BY <1>2, <1>4, <1>5, <1>7
  <2>3. rest # <<>> /\ Len(rest) \in 1 .. b /\ rest \in Data
    <3>1. Len(rest) \in 1 .. b
      BY <1>2, <1>4, <1>7, <2>1
    <3>2. rest \in Data
      BY <1>3, <1>4, <2>1, <3>1 DEF Data
    <3>3. rest # <<>>
      BY <2>1, <3>1
    <3> QED
      BY <3>1, <3>2, <3>3
  <2>4. PICK d : d = SubSeq(buf, 1, Len(rest))
    OBVIOUS
  <2>5. PICK r : r = Append(Tail(s), rest)
    OBVIOUS
  <2>6. nrecv(s) = [ring |-> r, data |-> d]
    BY <1>1, <1>3, <1>5, <1>7, <2>4, <2>5, Zenon DEF nrecv
  <2>7. d \in Seq(Nat) /\ Len(d) = Len(rest)
    BY <1>4, <2>2, <2>3, <2>4
  <2>8. d \in Data /\ d # <<>>
    BY <1>3, <1>4, <2>3, <2>7 DEF Data
  <2>9. TakenFrom(s, r)
    <3>1. r \in Seq(Data) /\ Len(r) = Len(s)
      BY <1>6, <2>3, <2>5
    <3>2. \A k \in 1 .. Len(s) - 1 : r[k] = s[k + 1]
      BY <1>6, <2>3, <2>5
    <3>3. r[Len(s)] = rest
      BY <1>6, <2>3, <2>5
    <3> QED
      BY <2>3, <3>1, <3>2, <3>3 DEF TakenFrom
  <2>10. f # <<>>
    BY <1>2, <1>4, <1>7
  <2> QED
    BY <1>2, <2>6, <2>8, <2>9, <2>10
<1>8. CASE ~(Len(f) > b)
  <2>1. nrecv(s) = [ring |-> Tail(s), data |-> f]
    BY <1>1, <1>3, <1>8, Zenon DEF nrecv
  <2>2. TakenFrom(s, Tail(s))
    <3>1. DOMAIN Tail(s) = 1 .. Len(s) - 1 /\ Len(s) \in Nat
      BY <1>6
    <3>2. \A k \in DOMAIN Tail(s) : k < Len(s)
      BY <3>1
    <3> QED
      BY <1>6, <3>1, <3>2 DEF TakenFrom
  <2> QED
    BY <1>2, <2>1, <2>2
<1> QED
  BY <1>7, <1>8

\* naccept gives a free descriptor to a connection that has none.
LEMMA NacceptStep ==
  ASSUME TypeOK, TableInv, naccept
  PROVE  LET i == get_accept_tcb(tcb)
             fd == get_fd_frombitmap(fds)
         IN  /\ i \in DOMAIN tcb /\ i < Len(tcb) /\ tcb[i].fd = NoFd /\ svr.at = "accept"
             /\ fd \in Nat /\ fd \notin fds /\ fd # NoFd
             /\ At(tcb, tcb', i, fd, tcb[i].status, tcb[i].rcvbuf)
             /\ fds' = fds \union {fd} /\ IsFiniteSet(fds')
             /\ svr' = [svr EXCEPT !.at = IF app = "epoll" THEN "add" ELSE "call", !.fd = fd]
<1>1. PICK i, fd : i = get_accept_tcb(tcb) /\ fd = get_fd_frombitmap(fds)
  OBVIOUS
<1>2. tcb \in Seq(Streams) /\ fds \subseteq Nat /\ IsFiniteSet(fds) /\ svr \in ServerStates
  BY DEF TypeOK
<1>3. /\ i # 0 /\ svr.at = "accept"
      /\ tcb' = [tcb EXCEPT ![i].fd = fd] /\ fds' = fds \union {fd}
      /\ svr' = IF app = "epoll" THEN [svr EXCEPT !.at = "add", !.fd = fd]
                ELSE [svr EXCEPT !.at = "call", !.fd = fd]
  BY <1>1, Zenon DEF naccept
<1>4. i \in DOMAIN tcb /\ tcb[i].fd = NoFd
  BY <1>1, <1>2, <1>3, AcceptTcb
<1>5. fd \in Nat /\ fd >= ListenFd /\ fd \notin fds
  BY <1>1, <1>2, FreshFd
<1>6. i < Len(tcb)
  BY <1>2, <1>4 DEF TableInv, NoFd, ListenFd
<1>7. At(tcb, tcb', i, fd, tcb[i].status, tcb[i].rcvbuf)
  BY <1>2, <1>3, <1>4, <1>5, AtFd
<1>8. fd # NoFd
  BY <1>5 DEF NoFd, ListenFd
<1>9. IsFiniteSet(fds')
  BY <1>2, <1>3, FS_AddElement
<1>10. svr' = [svr EXCEPT !.at = IF app = "epoll" THEN "add" ELSE "call", !.fd = fd]
  BY <1>3
<1> QED
  BY <1>1, <1>3, <1>4, <1>5, <1>6, <1>7, <1>8, <1>9, <1>10

\* nrecv takes from the ring of the stream it waits on.
LEMMA ReceiveStep ==
  ASSUME TypeOK, TableInv, SvrInv, ReceiveFragment
  PROVE  LET r == nrecv(tcb[Waited].rcvbuf)
         IN  /\ Waited \in DOMAIN tcb /\ Waited < Len(tcb) /\ tcb[Waited].peer = svr.on /\ svr.at = "recv"
             /\ tcb[Waited].rcvbuf \in Seq(Data) /\ tcb[Waited].rcvbuf # <<>>
             /\ TakenFrom(tcb[Waited].rcvbuf, r.ring) /\ r.data \in Data
             /\ r.data = <<>> <=> tcb[Waited].rcvbuf[1] = <<>>
             /\ At(tcb, tcb', Waited, tcb[Waited].fd, tcb[Waited].status, r.ring)
             /\ svr' = [svr EXCEPT !.data = r.data,
                          !.at = IF r.data # <<>> THEN "send"
                                 ELSE IF app = "epoll" THEN "del" ELSE "close"]
<1>1. PICK w : w = Waited
  OBVIOUS
<1>2. tcb \in Seq(Streams)
  BY DEF TypeOK
<1>3. PICK r : r = nrecv(tcb[w].rcvbuf)
  OBVIOUS
<1>4. /\ w # 0 /\ svr.at = "recv" /\ tcb[w].rcvbuf # <<>>
      /\ tcb' = [tcb EXCEPT ![w].rcvbuf = r.ring]
      /\ svr' = [svr EXCEPT !.data = r.data,
                          !.at = IF r.data # <<>> THEN "send"
                                 ELSE IF app = "epoll" THEN "del" ELSE "close"]
  BY <1>1, <1>3, Zenon DEF ReceiveFragment
<1>5. w \in DOMAIN tcb /\ tcb[w].peer = svr.on
  BY <1>1, <1>4, WaitedStream
<1>6. svr.on \in Peer /\ w < Len(tcb)
  <2>1. svr.on \in Peer
    BY <1>4 DEF SvrInv
  <2>2. w # Len(tcb)
    BY <1>5, <2>1, PeerAssumption DEF TableInv
  <2> QED
    BY <1>2, <1>5, <2>1, <2>2
<1>7. tcb[w].rcvbuf \in Seq(Data)
  <2>1. tcb[w] \in Streams
    BY <1>2, <1>5
  <2> QED
    BY <2>1 DEF Streams
<1>8. TakenFrom(tcb[w].rcvbuf, r.ring) /\ r.data \in Data /\ (r.data = <<>> <=> tcb[w].rcvbuf[1] = <<>>)
  BY <1>3, <1>4, <1>7, NrecvResult
<1>9. At(tcb, tcb', w, tcb[w].fd, tcb[w].status, r.ring)
  <2>1. r.ring \in Seq(Data)
    BY <1>8 DEF TakenFrom
  <2> QED
    BY <1>2, <1>4, <1>5, <2>1, AtRing
<1> QED
  BY <1>1, <1>3, <1>4, <1>5, <1>6, <1>7, <1>8, <1>9

\* nsend queues the echo on the stream the descriptor leads to, if any.
LEMMA EchoStep ==
  ASSUME TypeOK, TableInv, SvrInv, Echo
  PROVE  /\ svr.at = "send"
         /\ tcb' = tcb \/ Alike(tcb, tcb')
         /\ svr' = [svr EXCEPT !.at = IF app = "epoll" THEN "next" ELSE "call", !.data = <<>>]
<1>1. PICK i : i = get_hostinfo_fromfd(tcb, svr.fd)
  OBVIOUS
<1>2. tcb \in Seq(Streams) /\ svr \in ServerStates
  BY DEF TypeOK
<1>3. /\ svr.at = "send" /\ tcb' = IF i = 0 THEN tcb ELSE nsend(tcb, i, svr.data)
      /\ svr' = [svr EXCEPT !.at = IF app = "epoll" THEN "next" ELSE "call", !.data = <<>>]
  BY <1>1, Zenon DEF Echo
<1>4. CASE i # 0
  <2>1. i \in DOMAIN tcb /\ tcb[i].fd = svr.fd
    BY <1>1, <1>2, <1>4, HostInfo
  <2>2. svr.fd # ListenFd /\ svr.data \in Data
    BY <1>2, <1>3 DEF SvrInv, ServerStates
  <2>3. i < Len(tcb)
    BY <1>2, <2>1, <2>2 DEF TableInv
  <2>4. At(tcb, tcb', i, tcb[i].fd, tcb[i].status, tcb[i].rcvbuf)
    BY <1>2, <1>3, <1>4, <2>1, <2>2, AtNsend
  <2> QED
    BY <1>2, <1>3, <2>1, <2>3, <2>4, AtAlike
<1> QED
  BY <1>3, <1>4

\* nclose closes the stream the descriptor leads to: the one that was read.
LEMMA CloseStep ==
  ASSUME TypeOK, TableInv, SvrInv, Close
  PROVE  \E i \in DOMAIN tcb :
           /\ svr.at = "close" /\ i < Len(tcb)
           /\ tcb[i].peer = svr.on /\ tcb[i].fd = svr.fd /\ tcb[i].status = "CLOSE_WAIT"
           /\ At(tcb, tcb', i, tcb[i].fd, "LAST_ACK", tcb[i].rcvbuf)
           /\ fds' = fds \ {svr.fd}
           /\ svr' = [svr EXCEPT !.at = IF app = "epoll" THEN "next" ELSE "accept"]
<1>1. PICK i : i = get_hostinfo_fromfd(tcb, svr.fd)
  OBVIOUS
<1>2. tcb \in Seq(Streams) /\ DOMAIN tcb = 1 .. Len(tcb) /\ Len(tcb) \in Nat
  BY DEF TypeOK
<1>3. /\ svr.at = "close" /\ tcb' = IF i = 0 THEN tcb ELSE nclose(tcb, i)
      /\ fds' = IF i = 0 THEN fds ELSE fds \ {svr.fd}
      /\ svr' = [svr EXCEPT !.at = IF app = "epoll" THEN "next" ELSE "accept"]
  BY <1>1, Zenon DEF Close
<1>4. PICK j \in DOMAIN tcb : tcb[j].peer = svr.on /\ tcb[j].status = "CLOSE_WAIT" /\ Leads(tcb, j, svr.fd)
  BY <1>3 DEF SvrInv
<1>5. i \in DOMAIN tcb /\ tcb[i].fd = svr.fd /\ \A k \in DOMAIN tcb : tcb[k].fd = svr.fd => i <= k
  BY <1>1, <1>2, <1>4, HostInfo DEF Leads
<1>6. i = j /\ i # 0
  BY <1>2, <1>4, <1>5 DEF Leads
<1>7. i < Len(tcb)
  <2>1. svr.fd # ListenFd
    BY <1>3 DEF SvrInv
  <2> QED
    BY <1>2, <1>5, <2>1 DEF TableInv
<1>8. At(tcb, tcb', i, tcb[i].fd, "LAST_ACK", tcb[i].rcvbuf)
  BY <1>2, <1>3, <1>5, <1>6, AtNclose
<1> QED
  BY <1>3, <1>4, <1>5, <1>6, <1>7, <1>8

-----------------------------------------------------------------------------
(* What the peers send. *)

\* The peer c becomes h, the others stay.
ClAt(c, h) ==
  /\ cl' \in [Peer -> Hosts] /\ h \in Hosts /\ cl'[c] = h
  /\ \A d \in Peer : d # c => cl'[d] = cl[d]

\* The peer c puts p, a segment it has built or kept, on the wire.
Sends(c, p, h) ==
  /\ p \in TcpPackets /\ p.from = c /\ Grown(ringIn, ringIn', {p}) /\ ClAt(c, h)
  /\ "PSH" \in p.flags => p.data # <<>>

\* What a peer that puts one segment on the wire does to its own state and to
\* the in ring.
LEMMA SendsIntro ==
  ASSUME TypeOK, NEW c \in Peer, NEW p \in TcpPackets, p.from = c, Rx(<<p>>),
         "PSH" \in p.flags => p.data # <<>>, NEW h \in Hosts, cl' = [cl EXCEPT ![c] = h]
  PROVE  Sends(c, p, h)
<1>1. {p} \in SUBSET Packets /\ <<p>> \in Seq({p})
  BY DEF Packets
<1>2. Grown(ringIn, ringIn', {p})
  BY <1>1, RxGrows
<1>3. cl \in [Peer -> Hosts]
  BY DEF TypeOK
<1>4. ClAt(c, h)
  BY <1>3 DEF ClAt
<1> QED
  BY <1>2, <1>4 DEF Sends

\* A SYN: the peer was closed and is not any more.
LEMMA ConnectStep ==
  ASSUME TypeOK, NEW c \in Peer, Connect(c)
  PROVE  \E p, h : /\ Sends(c, p, h) /\ cl[c].st = "closed" /\ h.st = "syn" /\ h.last = p
                   /\ "FIN" \notin p.flags
<1>1. PICK p : p = Packet(c, {"SYN"}, <<>>)
  OBVIOUS
<1>2. cl[c] \in Hosts
  BY DEF TypeOK
<1>3. cl[c].snd \in Nat /\ cl[c].rcv \in Nat
  BY <1>2 DEF Hosts
<1>4. p = [from |-> c, kind |-> "tcp", flags |-> {"SYN"}, seq |-> cl[c].snd, ack |-> cl[c].rcv, data |-> <<>>]
  BY <1>1 DEF Packet
<1>5. p \in TcpPackets /\ p.from = c /\ p.flags = {"SYN"}
  BY <1>3, <1>4, EmptyData DEF TcpPackets, Flags
<1>6. PICK h : h = [cl[c] EXCEPT !.st = "syn", !.snd = 1, !.last = p]
  OBVIOUS
<1>7. h \in Hosts /\ h.st = "syn" /\ h.last = p
  BY <1>2, <1>5, <1>6 DEF Hosts
<1>8. cl[c].st = "closed" /\ Rx(<<p>>) /\ cl' = [cl EXCEPT ![c].st = "syn", ![c].snd = 1, ![c].last = p]
  BY <1>1, Zenon DEF Connect
<1>9. cl' = [cl EXCEPT ![c] = h]
  <2>1. cl \in [Peer -> Hosts]
    BY DEF TypeOK
  <2> QED
    BY <1>6, <1>8, <2>1
<1>10. Sends(c, p, h)
  <2>1. "PSH" \notin p.flags
    BY <1>5
  <2> QED
    BY <1>5, <1>7, <1>8, <1>9, <2>1, SendsIntro
<1> QED
  BY <1>5, <1>7, <1>8, <1>10

\* A data segment or a FIN, or both in one.
LEMMA SegmentStep ==
  ASSUME TypeOK, NEW c \in Peer, NEW n \in Length \union {0}, NEW flags \in {{}, {"FIN"}},
         SendSegment(c, n, flags)
  PROVE  \E p, h : Sends(c, p, h) /\ h.st # "closed" /\ h.last = p /\ "SYN" \notin p.flags
<1>1. PICK fl : fl = flags \union (IF n > 0 THEN {"ACK", "PSH"} ELSE {"ACK"})
  OBVIOUS
<1>2. PICK u : u = Units(c, n)
  OBVIOUS
<1>3. PICK p : p = Packet(c, fl, u)
  OBVIOUS
<1>4. cl[c] \in Hosts
  BY DEF TypeOK
<1>5. cl[c].snd \in Nat /\ cl[c].rcv \in Nat
  BY <1>4 DEF Hosts
<1>6. n \in Nat /\ n <= 2 * BUFFER_SIZE
  BY LengthAssumption, BufferAssumption
<1>7. u \in Data /\ Len(u) = n
  <2>1. u = [k \in 1 .. n |-> cl[c].snd + k - 1]
    BY <1>2 DEF Units
  <2>2. \A k \in 1 .. n : cl[c].snd + k - 1 \in Nat
    BY <1>5, <1>6
  <2>3. u \in [1 .. n -> Nat]
    BY <2>1, <2>2
  <2>4. u \in Seq(Nat) /\ Len(u) = n
    BY <1>6, <2>3
  <2> QED
    BY <1>6, <2>4 DEF Data
<1>8. fl \subseteq Flags /\ "SYN" \notin fl /\ ("PSH" \in fl => n > 0)
  BY <1>1 DEF Flags
<1>9. p = [from |-> c, kind |-> "tcp", flags |-> fl, seq |-> cl[c].snd, ack |-> cl[c].rcv, data |-> u]
  BY <1>3 DEF Packet
<1>10. p \in TcpPackets /\ p.from = c /\ p.flags = fl /\ p.data = u
  BY <1>5, <1>7, <1>8, <1>9 DEF TcpPackets
<1>11. PICK m, st, fits : /\ m = cl[c].snd + n + Cardinality(flags)
                          /\ st = IF flags = {} THEN cl[c].st ELSE "fin"
                          /\ fits = (cl[c].fits /\ n <= BUFFER_SIZE)
  OBVIOUS
<1>12. /\ cl[c].st = "open" /\ Rx(<<p>>)
       /\ cl' = [cl EXCEPT ![c].snd = @ + n + Cardinality(flags), ![c].last = p,
                          ![c].fits = @ /\ n <= BUFFER_SIZE,
                          ![c].st = IF flags = {} THEN @ ELSE "fin"]
  BY <1>1, <1>2, <1>3, Zenon DEF SendSegment
<1>13. m \in Nat /\ st \in {"open", "fin"} /\ fits \in BOOLEAN
  <2>1. Cardinality(flags) \in Nat
    <3>1. Cardinality({}) = 0 /\ Cardinality({"FIN"}) = 1
      BY FS_EmptySet, FS_Singleton
    <3> QED
      BY <3>1
  <2>2. m \in Nat
    BY <1>5, <1>6, <1>11, <2>1
  <2>3. fits \in BOOLEAN
    BY <1>11, Zenon
  <2> QED
    BY <1>11, <1>12, <2>2, <2>3
<1>14. PICK h : h = [cl[c] EXCEPT !.snd = m, !.last = p, !.fits = fits, !.st = st]
  OBVIOUS
<1>15. h \in Hosts /\ h.st = st /\ h.last = p
  BY <1>4, <1>10, <1>13, <1>14 DEF Hosts
<1>16. cl' = [cl EXCEPT ![c] = h]
  <2>1. cl \in [Peer -> Hosts]
    BY DEF TypeOK
  <2>2. cl' = [cl EXCEPT ![c].snd = m, ![c].last = p, ![c].fits = fits, ![c].st = st]
    BY <1>4, <1>11, <1>12, <2>1 DEF Hosts
  <2> QED
    BY <1>14, <2>1, <2>2
<1>17. Sends(c, p, h)
  <2>1. "PSH" \in p.flags => p.data # <<>>
    BY <1>6, <1>7, <1>8, <1>10
  <2> QED
    BY <1>10, <1>12, <1>15, <1>16, <2>1, SendsIntro
<1> QED
  BY <1>8, <1>10, <1>13, <1>15, <1>17

\* A retransmission of the segment kept.
LEMMA ResendStep ==
  ASSUME TypeOK, PushHasData, NEW c \in Peer, Resend(c)
  PROVE  \E p, h : /\ Sends(c, p, h) /\ cl[c].last # <<>> /\ p = cl[c].last
                   /\ h.st = cl[c].st /\ h.last = cl[c].last
<1>1. PICK p, m : p = cl[c].last /\ m = cl[c].resent + 1
  OBVIOUS
<1>2. cl[c] \in Hosts
  BY DEF TypeOK
<1>3. cl[c].last # <<>> /\ Rx(<<p>>) /\ cl' = [cl EXCEPT ![c].resent = @ + 1]
  BY <1>1, Zenon DEF Resend
<1>4. p \in TcpPackets /\ m \in Nat
  BY <1>1, <1>2, <1>3 DEF Hosts
<1>5. PICK h : h = [cl[c] EXCEPT !.resent = m]
  OBVIOUS
<1>6. h \in Hosts /\ h.st = cl[c].st /\ h.last = cl[c].last
  BY <1>2, <1>4, <1>5 DEF Hosts
<1>7. cl' = [cl EXCEPT ![c] = h]
  <2>1. cl \in [Peer -> Hosts]
    BY DEF TypeOK
  <2> QED
    BY <1>1, <1>3, <1>5, <2>1
<1>8. p.from = c /\ ("PSH" \in p.flags => p.data # <<>>)
  BY <1>1, <1>3 DEF PushHasData
<1>9. Sends(c, p, h)
  BY <1>3, <1>4, <1>6, <1>7, <1>8, SendsIntro
<1> QED
  BY <1>1, <1>3, <1>6, <1>9

\* A datagram.
LEMMA DatagramStep ==
  ASSUME TypeOK, NEW c \in Peer, NEW n \in Length, SendDatagram(c, n)
  PROVE  \E p, h : /\ p \in UdpPackets /\ Grown(ringIn, ringIn', {p}) /\ ClAt(c, h)
                  /\ h.last = cl[c].last /\ app # "epoll"
<1>1. PICK u : u = [k \in 1 .. n |-> cl[c].snd + k]
  OBVIOUS
<1>2. PICK p : p = [from |-> c, kind |-> "udp", data |-> u]
  OBVIOUS
<1>3. cl[c] \in Hosts
  BY DEF TypeOK
<1>4. cl[c].snd \in Nat
  BY <1>3 DEF Hosts
<1>5. n \in Nat /\ n <= 2 * BUFFER_SIZE
  BY LengthAssumption, BufferAssumption
<1>6. u \in Data
  <2>1. \A k \in 1 .. n : cl[c].snd + k \in Nat
    BY <1>4, <1>5
  <2>2. u \in [1 .. n -> Nat]
    BY <1>1, <2>1
  <2>3. u \in Seq(Nat) /\ Len(u) = n
    BY <1>5, <2>2
  <2> QED
    BY <1>5, <2>3 DEF Data
<1>7. p \in UdpPackets
  BY <1>2, <1>6 DEF UdpPackets
<1>8. PICK m, fits : m = cl[c].snd + n /\ fits = (cl[c].fits /\ n <= BUFFER_SIZE)
  OBVIOUS
<1>9. m \in Nat /\ fits \in BOOLEAN
  <2>1. fits \in BOOLEAN
    BY <1>8, Zenon
  <2> QED
    BY <1>4, <1>5, <1>8, <2>1
<1>10. /\ app \in {"udp", "single"} /\ Rx(<<p>>)
       /\ cl' = [cl EXCEPT ![c].snd = @ + n, ![c].fits = @ /\ n <= BUFFER_SIZE]
  BY <1>1, <1>2, Zenon DEF SendDatagram
<1>11. PICK h : h = [cl[c] EXCEPT !.snd = m, !.fits = fits]
  OBVIOUS
<1>12. h \in Hosts /\ h.last = cl[c].last
  BY <1>3, <1>9, <1>11 DEF Hosts
<1>13. cl' = [cl EXCEPT ![c] = h]
  <2>1. cl \in [Peer -> Hosts]
    BY DEF TypeOK
  <2>2. cl' = [cl EXCEPT ![c].snd = m, ![c].fits = fits]
    BY <1>3, <1>8, <1>10, <2>1 DEF Hosts
  <2> QED
    BY <1>11, <2>1, <2>2
<1>14. ClAt(c, h)
  <2>1. cl \in [Peer -> Hosts]
    BY DEF TypeOK
  <2> QED
    BY <1>12, <1>13, <2>1 DEF ClAt
<1>15. Grown(ringIn, ringIn', {p})
  <2>1. {p} \in SUBSET Packets /\ <<p>> \in Seq({p})
    BY <1>7 DEF Packets
  <2> QED
    BY <1>10, <2>1, RxGrows
<1> QED
  BY <1>7, <1>10, <1>12, <1>14, <1>15

\* The answers to the timer's ARP requests.
LEMMA TimerStep ==
  ASSUME TypeOK, arp_request_timer_cb
  PROVE  /\ Grown(ringIn, ringIn', Acks \union ArpPackets) /\ cl' \in [Peer -> Hosts]
         /\ \A c \in Peer : cl'[c].last = cl[c].last
<1> DEFINE request(c) == [to |-> c, kind |-> "arp"]
<1>1. PICK out : out = {request(c) : c \in Peer}
  OBVIOUS
<1>2. out \in SUBSET Outputs
  BY <1>1 DEF Outputs
<1>3. IsFiniteSet(out)
  <2> DEFINE f == [c \in Peer |-> {request(c)}]
  <2>1. \A u \in out : \E c \in Peer : f[c] = {u}
    BY <1>1
  <2> HIDE DEF f
  <2> QED
    BY <2>1, PeerAssumption, SmallUnion
<1>4. Tx(out)
  BY <1>1 DEF arp_request_timer_cb
<1>5. PICK s \in Answers(out) : Rx(s)
  BY <1>4 DEF Tx
<1>6. Acks \union ArpPackets \in SUBSET Packets /\ s \in Seq(Acks \union ArpPackets)
  <2>1. s \in Seq(Acks \union ArpPackets)
    BY <1>2, <1>3, <1>5, AnswersTyped
  <2> QED
    BY <2>1 DEF Acks, Packets
<1>7. Grown(ringIn, ringIn', Acks \union ArpPackets)
  BY <1>5, <1>6, RxGrows
<1>8. cl' = Taken(out)
  BY <1>4 DEF Tx
<1> QED
  BY <1>2, <1>3, <1>7, <1>8, AnswersTyped

\* The single loop answers one packet with at most one.
LEMMA SingleStep ==
  ASSUME TypeOK, TableInv, SingleLoop
  PROVE  /\ ringIn' \in Seq(Packets)
         /\ \A k \in DOMAIN ringIn' : ringIn'[k] \in Acks \union ArpPackets \/ \E j \in DOMAIN ringIn : ringIn'[k] = ringIn[j]
         /\ cl' \in [Peer -> Hosts] /\ \A c \in Peer : cl'[c].last = cl[c].last
         /\ tcb' \in Seq(Streams) /\ Len(tcb') = 1 /\ Len(tcb) = 1
         /\ tcb'[1].peer = tcb[1].peer /\ tcb'[1].fd = tcb[1].fd /\ tcb'[1].sndbuf = tcb[1].sndbuf
         /\ tcb'[1].rcvbuf = tcb[1].rcvbuf
         /\ tcb'[1].status = tcb[1].status \/ tcb'[1].status \in {"SYN_RCVD", "ESTABLISHED"}
         /\ tcb[1].status = "CLOSE_WAIT" => tcb'[1].status = "CLOSE_WAIT"
<1>1. PICK p : p = Head(ringIn)
  OBVIOUS
<1>2. PICK out : out = SingleAnswer(p)
  OBVIOUS
<1>3. ringIn # <<>> /\ app = "single"
  BY DEF SingleLoop
<1>4. /\ p \in Packets /\ p.from \in Peer /\ (p.kind = "tcp" => p \in TcpPackets) /\ (p.kind = "udp" => p \in UdpPackets)
      /\ Tail(ringIn) \in Seq(Packets)
      /\ \A k \in DOMAIN Tail(ringIn) : \E j \in DOMAIN ringIn : Tail(ringIn)[k] = ringIn[j]
  BY <1>1, <1>3, HeadPacket
<1>5. out \in SUBSET Outputs /\ IsFiniteSet(out)
  <2>1. CASE p.kind = "udp"
    <3>1. out = {[to |-> p.from, kind |-> "udp", data |-> p.data]}
      BY <1>2, <2>1 DEF SingleAnswer
    <3>2. [to |-> p.from, kind |-> "udp", data |-> p.data] \in Outputs
      BY <1>4, <2>1 DEF Outputs, Datagrams, UdpPackets
    <3> QED
      BY <3>1, <3>2, FS_Singleton
  <2>2. CASE p.kind = "tcp" /\ "SYN" \in p.flags /\ tcb[1].status = "LISTEN"
    <3>1. PICK m : m = p.seq + 1
      OBVIOUS
    <3>2. PICK g : g = Fragment({"SYN", "ACK"}, 0, m, <<>>)
      OBVIOUS
    <3>3. out = {[to |-> p.from, kind |-> "tcp", seg |-> g]}
      BY <1>2, <2>2, <3>1, <3>2 DEF SingleAnswer
    <3>4. m \in Nat
      BY <1>4, <2>2, <3>1 DEF TcpPackets
    <3>5. g \in Fragments
      BY <3>2, <3>4, EmptyData DEF Fragment, Fragments, Flags
    <3>6. [to |-> p.from, kind |-> "tcp", seg |-> g] \in Outputs
      BY <1>4, <3>5 DEF Outputs
    <3> QED
      BY <3>3, <3>6, FS_Singleton
  <2>3. CASE ~(p.kind = "udp") /\ ~(p.kind = "tcp" /\ "SYN" \in p.flags /\ tcb[1].status = "LISTEN")
    <3>1. out = {}
      BY <1>2, <2>3, Zenon DEF SingleAnswer
    <3> QED
      BY <3>1, FS_EmptySet
  <2> QED
    BY <2>1, <2>2, <2>3
<1>6. PICK s \in Answers(out) : ringIn' = Tail(ringIn) \o s
  BY <1>1, <1>2 DEF SingleLoop
<1>7. s \in Seq(Acks \union ArpPackets) /\ \A k \in DOMAIN s : s[k] \in Acks \union ArpPackets
  <2>1. s \in Seq(Acks \union ArpPackets)
    BY <1>5, <1>6, AnswersTyped
  <2> QED
    BY <2>1
<1>8. PICK t : t = Tail(ringIn)
  OBVIOUS
<1>9. t \in Seq(Packets) /\ s \in Seq(Packets)
  BY <1>4, <1>7, <1>8 DEF Acks, Packets
<1>10. ringIn' \in Seq(Packets)
  BY <1>6, <1>8, <1>9
<1>11. ASSUME NEW k \in DOMAIN ringIn'
       PROVE  (\E j \in DOMAIN t : ringIn'[k] = t[j]) \/ (\E j \in DOMAIN s : ringIn'[k] = s[j])
  <2>1. /\ Len(ringIn') = Len(t) + Len(s)
        /\ \A l \in 1 .. Len(t) + Len(s) : ringIn'[l] = IF l <= Len(t) THEN t[l] ELSE s[l - Len(t)]
    BY <1>6, <1>8, <1>9, ConcatProperties
  <2>2. k \in 1 .. Len(t) + Len(s) /\ Len(t) \in Nat /\ Len(s) \in Nat
    BY <1>9, <1>10, <1>11, <2>1
  <2>3. CASE k <= Len(t)
    <3>1. k \in DOMAIN t /\ ringIn'[k] = t[k]
      BY <1>9, <2>1, <2>2, <2>3
    <3> QED
      BY <3>1
  <2>4. CASE ~(k <= Len(t))
    <3>1. k - Len(t) \in DOMAIN s /\ ringIn'[k] = s[k - Len(t)]
      BY <1>9, <2>1, <2>2, <2>4
    <3> QED
      BY <3>1
  <2> QED
    BY <2>3, <2>4
<1>12. \A k \in DOMAIN ringIn' : ringIn'[k] \in Acks \union ArpPackets \/ \E j \in DOMAIN ringIn : ringIn'[k] = ringIn[j]
  BY <1>4, <1>7, <1>8, <1>11
<1>13. cl' = Taken(out)
  BY <1>1, <1>2 DEF SingleLoop
<1>14. cl' \in [Peer -> Hosts] /\ \A c \in Peer : cl'[c].last = cl[c].last
  BY <1>5, <1>13, AnswersTyped
<1>15. tcb \in Seq(Streams) /\ Len(tcb) = 1 /\ 1 \in DOMAIN tcb
  <2>1. tcb \in Seq(Streams)
    BY DEF TypeOK
  <2> QED
    BY <1>3, <2>1 DEF TableInv
<1>16. tcb[1] \in Streams
  BY <1>15
<1>17. PICK x : x = SingleStatus(p)
  OBVIOUS
<1>18. /\ x \in Status /\ (x = tcb[1].status \/ x \in {"SYN_RCVD", "ESTABLISHED"})
       /\ tcb[1].status = "CLOSE_WAIT" => x = "CLOSE_WAIT"
  <2>1. tcb[1].status \in Status
    BY <1>16 DEF Streams
  <2> QED
    BY <1>17, <2>1 DEF SingleStatus, Status
<1>19. tcb' = IF p.kind = "tcp" THEN [tcb EXCEPT ![1].status = x] ELSE tcb
  BY <1>1, <1>17 DEF SingleLoop
<1>20. PICK w : w = [tcb[1] EXCEPT !.status = x]
  OBVIOUS
<1>21. /\ w \in Streams /\ w.peer = tcb[1].peer /\ w.fd = tcb[1].fd /\ w.sndbuf = tcb[1].sndbuf
       /\ w.rcvbuf = tcb[1].rcvbuf /\ w.status = x
  BY <1>16, <1>18, <1>20 DEF Streams
<1>22. CASE p.kind = "tcp"
  <2>1. tcb' = [tcb EXCEPT ![1] = w]
    BY <1>19, <1>20, <1>22
  <2>2. tcb' \in Seq(Streams) /\ Len(tcb') = 1 /\ tcb'[1] = w
    <3>1. At(tcb, tcb', 1, w.fd, w.status, w.rcvbuf)
      BY <1>15, <1>21, <2>1, AtIntro
    <3>2. tcb'[1] = w
      BY <1>15, <2>1
    <3> QED
      BY <1>15, <3>1, <3>2 DEF At
  <2> QED
    BY <1>10, <1>12, <1>14, <1>15, <1>18, <1>21, <2>2
<1>23. CASE p.kind # "tcp"
  <2>1. tcb' = tcb
    BY <1>19, <1>23
  <2> QED
    BY <1>10, <1>12, <1>14, <1>15, <2>1
<1> QED
  BY <1>22, <1>23

-----------------------------------------------------------------------------
(* Type correctness. *)

\* A step of a peer or of the main loop.
LEMMA TypePeers ==
  ASSUME TypeOK, PushHasData, PeerStep \/ arp_request_timer_cb
  PROVE  TypeOK'
<1>1. ASSUME Grown(ringIn, ringIn', Packets), cl' \in [Peer -> Hosts], ticks' \in Nat,
             UNCHANGED <<app, alive, arp, tcb, fds, epoll, host, pkt, svr>>
      PROVE  TypeOK'
  BY <1>1 DEF TypeOK, Grown, epoll
<1>2. ASSUME NEW S \in SUBSET Packets, Grown(ringIn, ringIn', S)
      PROVE  Grown(ringIn, ringIn', Packets)
  BY <1>2 DEF Grown
<1>3. ASSUME NEW c \in Peer, NEW p, NEW h, Sends(c, p, h), UNCHANGED PeerOnly
      PROVE  TypeOK'
  <2>1. Grown(ringIn, ringIn', {p}) /\ {p} \in SUBSET Packets /\ cl' \in [Peer -> Hosts]
    BY <1>3 DEF Sends, ClAt, Packets
  <2>2. Grown(ringIn, ringIn', Packets)
    BY <1>2, <2>1
  <2> QED
    BY <1>1, <1>3, <2>1, <2>2 DEF PeerOnly, TypeOK
<1>4. CASE arp_request_timer_cb
  <2>1. Grown(ringIn, ringIn', Packets) /\ cl' \in [Peer -> Hosts]
    <3>1. Acks \union ArpPackets \in SUBSET Packets
      BY DEF Acks, Packets
    <3> QED
      BY <1>2, <1>4, <3>1, TimerStep
  <2>2. ticks' \in Nat
    BY <1>4 DEF arp_request_timer_cb, TypeOK
  <2> QED
    BY <1>1, <1>4, <2>1, <2>2 DEF arp_request_timer_cb
<1>5. ASSUME NEW c \in Peer, Connect(c) PROVE TypeOK'
  BY <1>3, <1>5, ConnectStep DEF Connect
<1>6. ASSUME NEW c \in Peer, Resend(c) PROVE TypeOK'
  BY <1>3, <1>6, ResendStep DEF Resend
<1>7. ASSUME NEW c \in Peer, NEW n \in Length \union {0}, NEW flags \in {{}, {"FIN"}}, SendSegment(c, n, flags)
      PROVE  TypeOK'
  BY <1>3, <1>7, SegmentStep DEF SendSegment
<1>8. ASSUME NEW c \in Peer, NEW n \in Length, SendDatagram(c, n) PROVE TypeOK'
  <2>1. PICK p, h : p \in UdpPackets /\ Grown(ringIn, ringIn', {p}) /\ ClAt(c, h)
    BY <1>8, DatagramStep
  <2>2. UNCHANGED PeerOnly
    BY <1>8 DEF SendDatagram
  <2>3. Grown(ringIn, ringIn', Packets) /\ cl' \in [Peer -> Hosts]
    BY <1>2, <2>1 DEF ClAt, Packets
  <2> QED
    BY <1>1, <2>2, <2>3 DEF PeerOnly, TypeOK
<1> QED
  BY <1>4, <1>5, <1>6, <1>7, <1>8 DEF PeerStep

\* A packet is taken from the ring.
LEMMA TypeReads ==
  ASSUME TypeOK, TableInv, ArpReply \/ udp_process \/ Listening \/ SynReceived \/ Established
                           \/ ng_tcp_handle_close_wait \/ LastAck
  PROVE  TypeOK'
<1>1. ASSUME NEW kind, Reads(kind)
      PROVE  ringIn' \in Seq(Packets) /\ Learns(Head(ringIn)) \in SUBSET Peer
  <2>1. ringIn # <<>> /\ ringIn' = Tail(ringIn)
    BY <1>1 DEF Reads
  <2>2. Head(ringIn).from \in Peer /\ ringIn' \in Seq(Packets)
    BY <2>1, HeadPacket
  <2> QED
    BY <2>2 DEF Learns, TypeOK
<1>2. CASE ArpReply
  <2>1. ringIn' \in Seq(Packets) /\ arp' \in SUBSET Peer
    BY <1>1, <1>2 DEF ArpReply
  <2> QED
    BY <1>2, <2>1 DEF ArpReply, TypeOK, epoll
<1>3. CASE udp_process
  <2>1. ringIn' \in Seq(Packets) /\ arp' \in SUBSET Peer
    BY <1>1, <1>3 DEF udp_process
  <2>2. Head(ringIn) \in UdpPackets
    BY <1>3, HeadPacket DEF udp_process, Reads
  <2>3. PICK d : d = [to |-> Head(ringIn).from, kind |-> "udp", data |-> Head(ringIn).data]
    OBVIOUS
  <2>4. d \in Datagrams
    BY <2>2, <2>3 DEF Datagrams, UdpPackets
  <2>5. host' = [host EXCEPT !.rcvbuf = Append(@, d)]
    BY <1>3, <2>3 DEF udp_process
  <2>6. host \in [rcvbuf : Seq(Datagrams), sndbuf : Seq(Datagrams)]
    BY DEF TypeOK
  <2>7. PICK q : q = Append(host.rcvbuf, d)
    OBVIOUS
  <2>8. q \in Seq(Datagrams)
    BY <2>4, <2>6, <2>7
  <2>9. host' \in [rcvbuf : Seq(Datagrams), sndbuf : Seq(Datagrams)]
    BY <2>5, <2>6, <2>7, <2>8
  <2> QED
    BY <1>3, <2>1, <2>9 DEF udp_process, TypeOK, epoll
<1>4. ASSUME NEW status, Arrives(status), alive' \in BOOLEAN, tcb' \in Seq(Streams), pkt' \in {Idle} \union Works
      PROVE  TypeOK'
  <2>1. ringIn' \in Seq(Packets) /\ arp' \in SUBSET Peer
    BY <1>1, <1>4 DEF Arrives
  <2>2. UNCHANGED <<app, ticks, fds, epoll, host, svr, cl>>
    BY <1>4 DEF Arrives
  <2> QED
    BY <1>4, <2>1, <2>2 DEF TypeOK, epoll
<1>5. CASE Listening
  <2>1. tcb' \in Seq(Streams)
    BY <1>5, ListeningStep DEF Pushed, TypeOK
  <2>2. Arrives("LISTEN") /\ pkt' = pkt /\ alive' \in BOOLEAN
    BY <1>5 DEF Listening, TypeOK
  <2> QED
    BY <1>4, <2>1, <2>2 DEF TypeOK
<1>6. ASSUME NEW status, status # "LISTEN", Arrives(status)
      PROVE  /\ ng_tcp_stream_search(tcb, Head(ringIn).from) \in Nat
             /\ tcb[ng_tcp_stream_search(tcb, Head(ringIn).from)].fd \in Nat
             /\ Head(ringIn) \in TcpPackets
  <2>1. PICK i : i = ng_tcp_stream_search(tcb, Head(ringIn).from)
    OBVIOUS
  <2>2. i \in DOMAIN tcb /\ Head(ringIn) \in TcpPackets /\ tcb \in Seq(Streams)
    BY <1>6, <2>1, Arrival DEF TypeOK
  <2>3. tcb[i] \in Streams /\ i \in Nat
    BY <2>2
  <2> QED
    BY <2>1, <2>2, <2>3 DEF Streams
<1>7. CASE SynReceived
  <2>1. Arrives("SYN_RCVD") /\ alive' = alive
    BY <1>7 DEF SynReceived
  <2>2. tcb' \in Seq(Streams)
    BY <1>7, SynReceivedStep DEF At, TypeOK
  <2>3. pkt' \in {Idle} \union Works
    <3>1. PICK p, i : p = Head(ringIn) /\ i = ng_tcp_stream_search(tcb, p.from)
      OBVIOUS
    <3>2. i \in Nat /\ p \in TcpPackets
      BY <1>6, <2>1, <3>1
    <3>3. \/ pkt' = Idle
          \/ pkt' = [at |-> "find", i |-> i, fd |-> ListenFd, p |-> p, todo |-> <<>>]
      BY <1>7, <3>1, SynReceivedStep
    <3>4. [at |-> "find", i |-> i, fd |-> ListenFd, p |-> p, todo |-> <<>>] \in Works
      BY <3>2 DEF Works, ListenFd
    <3> QED
      BY <3>3, <3>4
  <2> QED
    BY <1>4, <2>1, <2>2, <2>3 DEF TypeOK
<1>8. CASE Established
  <2>1. Arrives("ESTABLISHED") /\ alive' = alive
    BY <1>8 DEF Established
  <2>2. tcb' \in Seq(Streams)
    BY <1>8, EstablishedStep DEF At, TypeOK
  <2>3. pkt' \in {Idle} \union Works
    <3>1. PICK p, i : p = Head(ringIn) /\ i = ng_tcp_stream_search(tcb, p.from)
      OBVIOUS
    <3>2. i \in Nat /\ p \in TcpPackets /\ tcb[i].fd \in Nat
      BY <1>6, <2>1, <3>1
    <3>3. \/ pkt' = pkt
          \/ \E at \in {"find", "ack"} : \E todo \in {<<"PSH">>, <<"PSH", "FIN">>, <<"FIN">>} :
               pkt' = [at |-> at, i |-> i, fd |-> tcb[i].fd, p |-> p, todo |-> todo]
      <4>1. PICK at \in {"find", "ack"} : at = IF app = "epoll" THEN "find" ELSE "ack"
        OBVIOUS
      <4> QED
        BY <1>8, <3>1, <4>1, EstablishedStep
    <3>4. ASSUME NEW at \in {"find", "ack"}, NEW todo \in {<<"PSH">>, <<"PSH", "FIN">>, <<"FIN">>}
          PROVE  [at |-> at, i |-> i, fd |-> tcb[i].fd, p |-> p, todo |-> todo] \in Works
      BY <3>2, <3>4 DEF Works
    <3>5. pkt \in {Idle} \union Works
      BY DEF TypeOK
    <3> QED
      BY <3>3, <3>4, <3>5
  <2> QED
    BY <1>4, <2>1, <2>2, <2>3 DEF TypeOK
<1>9. CASE ng_tcp_handle_close_wait
  BY <1>4, <1>9 DEF ng_tcp_handle_close_wait, TypeOK
<1>10. CASE LastAck
  <2>1. tcb' \in Seq(Streams)
    BY <1>10, LastAckStep DEF Removed, TypeOK
  <2> QED
    BY <1>4, <1>10, <2>1 DEF LastAck, TypeOK
<1> QED
  BY <1>2, <1>3, <1>5, <1>7, <1>8, <1>9, <1>10

\* The other steps of the packet thread, and the single loop.
LEMMA TypePacket ==
  ASSUME TypeOK, TableInv, PktInv, Acknowledges \/ SendPass \/ FindItem \/ PushItem \/ SingleLoop
  PROVE  TypeOK'
<1>1. CASE Acknowledges
  <2>1. tcb' \in Seq(Streams)
    BY <1>1, AcknowledgesStep DEF At, Alike
  <2>2. pkt # Idle /\ pkt \in Works
    BY <1>1, AcknowledgesStep DEF TypeOK
  <2>3. tcb[pkt.i].fd \in Nat
    <3>1. pkt.i \in DOMAIN tcb /\ tcb \in Seq(Streams)
      BY <2>2 DEF PktInv, TypeOK
    <3>2. tcb[pkt.i] \in Streams
      BY <3>1
    <3> QED
      BY <3>2 DEF Streams
  <2>4. pkt' \in {Idle} \union Works
    <3>1. PICK at \in {"find", "ack"} : at = IF app = "epoll" THEN "find" ELSE "ack"
      OBVIOUS
    <3>2. pkt' = Idle \/ pkt' = [pkt EXCEPT !.at = at, !.fd = tcb[pkt.i].fd, !.todo = <<"FIN">>]
      BY <1>1, <3>1, AcknowledgesStep
    <3>3. PICK fd : fd = tcb[pkt.i].fd
      OBVIOUS
    <3>4. [pkt EXCEPT !.at = at, !.fd = fd, !.todo = <<"FIN">>] \in Works
      BY <2>2, <2>3, <3>1, <3>3 DEF Works
    <3> QED
      BY <3>2, <3>3, <3>4
  <2> QED
    BY <1>1, <2>1, <2>4 DEF Acknowledges, TypeOK, epoll
<1>2. CASE SendPass
  <2>1. /\ tcb' \in Seq(Streams) /\ ringIn' \in Seq(Packets) /\ cl' \in [Peer -> Hosts]
        /\ host' \in [rcvbuf : Seq(Datagrams), sndbuf : Seq(Datagrams)]
    BY <1>2, SendPassStep DEF Alike, Grown
  <2> QED
    BY <1>2, <2>1 DEF SendPass, TypeOK, epoll
<1>3. ASSUME pkt.at \in {"find", "push"}, NEW at \in {"push", "ack"}
      PROVE  [pkt EXCEPT !.at = at] \in Works
  <2>1. pkt \in Works
    BY <1>3 DEF TypeOK, Idle
  <2> QED
    BY <1>3, <2>1 DEF Works
<1>4. CASE FindItem
  <2>1. pkt' \in {Idle} \union Works
    <3>1. pkt' = Idle \/ pkt' = [pkt EXCEPT !.at = "push"] \/ pkt' = [pkt EXCEPT !.at = "ack"]
      BY <1>4 DEF FindItem, After
    <3> QED
      BY <1>3, <1>4, <3>1 DEF FindItem
  <2> QED
    BY <1>4, <2>1 DEF FindItem, TypeOK, stack, epoll
<1>5. CASE PushItem
  <2>1. pkt' \in {Idle} \union Works
    <3>1. pkt' = Idle \/ pkt' = [pkt EXCEPT !.at = "ack"]
      BY <1>5 DEF PushItem, After
    <3> QED
      BY <1>3, <1>5, <3>1 DEF PushItem
  <2>2. pkt \in Works /\ pkt.fd \in Nat
    BY <1>5 DEF PushItem, TypeOK, Idle, Works
  <2>3. DOMAIN items' \in SUBSET Nat /\ items' \in [DOMAIN items' -> BOOLEAN]
    <3>1. items' = [fd \in DOMAIN items |-> items[fd] \/ fd = pkt.fd]
      BY <1>5 DEF PushItem
    <3> QED
      BY <3>1, Zenon DEF TypeOK
  <2>4. rdlist' \in Seq(Nat) /\ rdnum' \in Nat
    BY <1>5, <2>2 DEF PushItem, TypeOK
  <2> QED
    BY <1>5, <2>1, <2>3, <2>4 DEF PushItem, TypeOK, stack
<1>6. CASE SingleLoop
  <2>1. ringIn' \in Seq(Packets) /\ cl' \in [Peer -> Hosts] /\ tcb' \in Seq(Streams)
    BY <1>6, SingleStep
  <2> QED
    BY <1>6, <2>1 DEF SingleLoop, TypeOK, epoll
<1> QED
  BY <1>1, <1>2, <1>4, <1>5, <1>6

\* The server's steps.
LEMMA TypeServer ==
  ASSUME TypeOK, TableInv, PktInv, SvrInv, ListInv, ServerThread
  PROVE  TypeOK'
<1>1. svr \in ServerStates /\ tcb \in Seq(Streams)
  BY DEF TypeOK
<1>2. ASSUME NEW i \in DOMAIN tcb PROVE tcb[i].peer \in Peer \union {NoPeer}
  <2>1. tcb[i] \in Streams
    BY <1>1, <1>2
  <2> QED
    BY <2>1 DEF Streams
<1>3. CASE nepoll_wait
  <2>1. svr' \in ServerStates
    BY <1>1, <1>3 DEF nepoll_wait, ServerStates, TypeOK
  <2>2. rdlist' \in Seq(Nat) /\ rdnum' \in Nat
    BY <1>3 DEF nepoll_wait, ListInv, TypeOK
  <2>3. DOMAIN items' \in SUBSET Nat /\ items' \in [DOMAIN items' -> BOOLEAN]
    <3>1. items' = [fd \in DOMAIN items |-> items[fd] /\ ~Contains(rdlist, fd)]
      BY <1>3 DEF nepoll_wait
    <3> QED
      BY <3>1, Zenon DEF TypeOK
  <2> QED
    BY <1>3, <2>1, <2>2, <2>3 DEF nepoll_wait, TypeOK, stack
<1>4. CASE NextEvent
  <2>1. PICK fd, i : fd = Head(svr.evs) /\ i = get_hostinfo_fromfd(tcb, fd)
    OBVIOUS
  <2>2. svr.evs \in Seq(Nat) /\ svr.evs # <<>>
    BY <1>1, <1>4 DEF NextEvent, ServerStates
  <2>3. PICK rest : rest = Tail(svr.evs)
    OBVIOUS
  <2>4. fd \in Nat /\ rest \in Seq(Nat)
    BY <2>1, <2>2, <2>3
  <2>5. svr' = IF fd = ListenFd THEN [svr EXCEPT !.at = "accept", !.evs = rest]
               ELSE IF i = 0 THEN [svr EXCEPT !.at = "del", !.evs = rest, !.fd = fd]
               ELSE [svr EXCEPT !.at = "recv", !.evs = rest, !.fd = fd, !.on = tcb[i].peer]
    BY <1>4, <2>1, <2>3 DEF NextEvent
  <2>6. i # 0 => tcb[i].peer \in Peer \union {NoPeer}
    BY <1>1, <1>2, <2>1, HostInfo
  <2>7. svr' \in ServerStates
    BY <1>1, <2>4, <2>5, <2>6 DEF ServerStates, ServerAt
  <2> QED
    BY <1>4, <2>7 DEF NextEvent, TypeOK, stack, epoll
<1>5. CASE CtlAdd
  <2>1. svr' \in ServerStates
    BY <1>1, <1>5 DEF CtlAdd, ServerStates, ServerAt
  <2>2. DOMAIN items' \in SUBSET Nat /\ items' \in [DOMAIN items' -> BOOLEAN]
    <3>1. svr.fd \in Nat
      BY <1>1 DEF ServerStates
    <3>2. items' = [fd \in DOMAIN items \union {svr.fd} |-> fd \in DOMAIN items /\ items[fd]]
      BY <1>5 DEF CtlAdd
    <3>3. DOMAIN items' = DOMAIN items \union {svr.fd}
      BY <3>2
    <3>4. items' \in [DOMAIN items' -> BOOLEAN]
      BY <3>2, <3>3, Zenon
    <3> QED
      BY <3>1, <3>3, <3>4 DEF TypeOK
  <2> QED
    BY <1>5, <2>1, <2>2 DEF CtlAdd, TypeOK, stack
<1>6. CASE CtlDel
  <2>1. svr' \in ServerStates
    BY <1>1, <1>6 DEF CtlDel, ServerStates, ServerAt
  <2>2. DOMAIN items' \in SUBSET Nat /\ items' \in [DOMAIN items' -> BOOLEAN] /\ alive' \in BOOLEAN
    BY <1>6 DEF CtlDel, TypeOK
  <2> QED
    BY <1>6, <2>1, <2>2 DEF CtlDel, TypeOK
<1>7. CASE naccept
  <2>1. PICK at \in {"add", "call"} : at = IF app = "epoll" THEN "add" ELSE "call"
    OBVIOUS
  <2>2. PICK fd : fd = get_fd_frombitmap(fds)
    OBVIOUS
  <2>3. /\ fd \in Nat /\ tcb' \in Seq(Streams) /\ fds' = fds \union {fd} /\ IsFiniteSet(fds')
        /\ svr' = [svr EXCEPT !.at = at, !.fd = fd]
    BY <1>7, <2>1, <2>2, NacceptStep DEF At
  <2>4. svr' \in ServerStates
    BY <1>1, <2>3 DEF ServerStates, ServerAt
  <2> QED
    BY <1>7, <2>3, <2>4 DEF naccept, TypeOK, epoll
<1>8. CASE CallRecv
  <2>1. PICK i : i = get_hostinfo_fromfd(tcb, svr.fd)
    OBVIOUS
  <2>2. 1 \in DOMAIN tcb /\ tcb[1].fd = svr.fd
    BY <1>1, <1>8 DEF CallRecv, SvrInv
  <2>3. i \in DOMAIN tcb
    BY <1>1, <2>1, <2>2, HostInfo
  <2>4. svr' = [svr EXCEPT !.at = "recv", !.on = tcb[i].peer]
    BY <1>8, <2>1 DEF CallRecv
  <2>5. svr' \in ServerStates
    BY <1>1, <1>2, <2>3, <2>4 DEF ServerStates, ServerAt
  <2> QED
    BY <1>8, <2>5 DEF CallRecv, TypeOK, stack, epoll
<1>9. CASE ReceiveFragment
  <2>1. PICK d : d = nrecv(tcb[Waited].rcvbuf).data
    OBVIOUS
  <2>2. PICK at \in {"send", "del", "close"} :
            at = IF d # <<>> THEN "send" ELSE IF app = "epoll" THEN "del" ELSE "close"
    OBVIOUS
  <2>3. d \in Data /\ tcb' \in Seq(Streams) /\ svr' = [svr EXCEPT !.data = d, !.at = at]
    BY <1>9, <2>1, <2>2, ReceiveStep DEF At
  <2>4. svr' \in ServerStates
    BY <1>1, <2>3 DEF ServerStates, ServerAt
  <2> QED
    BY <1>9, <2>3, <2>4 DEF ReceiveFragment, TypeOK, epoll
<1>10. CASE Echo
  <2>1. PICK at \in {"next", "call"} : at = IF app = "epoll" THEN "next" ELSE "call"
    OBVIOUS
  <2>2. tcb' \in Seq(Streams) /\ svr' = [svr EXCEPT !.at = at, !.data = <<>>]
    BY <1>1, <1>10, <2>1, EchoStep DEF Alike
  <2>3. svr' \in ServerStates
    BY <1>1, <2>2, EmptyData DEF ServerStates, ServerAt
  <2> QED
    BY <1>10, <2>2, <2>3 DEF Echo, TypeOK, epoll
<1>11. CASE Close
  <2>1. PICK at \in {"next", "accept"} : at = IF app = "epoll" THEN "next" ELSE "accept"
    OBVIOUS
  <2>2. tcb' \in Seq(Streams) /\ svr' = [svr EXCEPT !.at = at] /\ fds' = fds \ {svr.fd}
    BY <1>1, <1>11, <2>1, CloseStep DEF At
  <2>3. svr' \in ServerStates
    BY <1>1, <2>2 DEF ServerStates, ServerAt
  <2>4. IsFiniteSet(fds')
    BY <2>2, FS_RemoveElement DEF TypeOK
  <2> QED
    BY <1>11, <2>2, <2>3, <2>4 DEF Close, TypeOK, epoll
<1>12. host \in [rcvbuf : Seq(Datagrams), sndbuf : Seq(Datagrams)]
  BY DEF TypeOK
<1>13. CASE nrecvfrom
  <2>1. PICK ol : ol = Head(host.rcvbuf)
    OBVIOUS
  <2>2. ol \in Datagrams /\ host.rcvbuf # <<>>
    BY <1>12, <1>13, <2>1 DEF nrecvfrom
  <2>3. ol.data \in Data /\ ol.to \in Peer
    BY <2>2 DEF Datagrams
  <2>4. PICK rest, buf, n : /\ rest = SubSeq(ol.data, BUFFER_SIZE + 1, Len(ol.data))
                            /\ n = IF BUFFER_SIZE < Len(ol.data) THEN BUFFER_SIZE ELSE Len(ol.data)
                            /\ buf = SubSeq(ol.data, 1, n)
    OBVIOUS
  <2>5. rest \in Data
    <3>1. ol.data \in Seq(Nat) /\ Len(ol.data) <= 2 * BUFFER_SIZE /\ BUFFER_SIZE \in Nat
      BY <2>3, BufferAssumption DEF Data
    <3>2. rest \in Seq(Nat)
      BY <2>4, <3>1
    <3>3. Len(rest) <= Len(ol.data)
      BY <2>4, <3>1
    <3> QED
      BY <3>1, <3>2, <3>3 DEF Data
  <2>6. buf \in Data
    <3>1. ol.data \in Seq(Nat) /\ Len(ol.data) <= 2 * BUFFER_SIZE /\ BUFFER_SIZE \in Nat
      BY <2>3, BufferAssumption DEF Data
    <3>2. n \in Nat /\ n <= Len(ol.data)
      BY <2>4, <3>1
    <3>3. PICK d : d = ol.data
      OBVIOUS
    <3>4. d \in Seq(Nat) /\ n \in Nat /\ n <= Len(d) /\ buf = SubSeq(d, 1, n)
      BY <2>4, <3>1, <3>2, <3>3
    <3>5. buf \in Seq(Nat) /\ Len(buf) = n
      BY <3>4
    <3> QED
      BY <3>1, <3>2, <3>5 DEF Data
  <2>7. PICK o2 : o2 = [ol EXCEPT !.data = rest]
    OBVIOUS
  <2>8. o2 \in Datagrams
    BY <2>2, <2>5, <2>7 DEF Datagrams
  <2>9. PICK q : q = IF rest = <<>> THEN Tail(host.rcvbuf) ELSE Append(Tail(host.rcvbuf), o2)
    OBVIOUS
  <2>10. q \in Seq(Datagrams)
    BY <1>12, <2>2, <2>8, <2>9
  <2>11. host' = [host EXCEPT !.rcvbuf = q]
    BY <1>13, <2>1, <2>4, <2>7, <2>9, Zenon DEF nrecvfrom
  <2>12. svr' = [svr EXCEPT !.at = "sendto", !.on = ol.to, !.data = buf]
    BY <1>13, <2>1, <2>4, Zenon DEF nrecvfrom, FirstOf
  <2>13. svr' \in ServerStates
    BY <1>1, <2>3, <2>6, <2>12 DEF ServerStates, ServerAt
  <2>14. host' \in [rcvbuf : Seq(Datagrams), sndbuf : Seq(Datagrams)]
    BY <1>12, <2>10, <2>11
  <2> QED
    BY <1>13, <2>13, <2>14 DEF nrecvfrom, TypeOK, stack, epoll
<1>14. CASE nsendto
  <2>1. svr.data \in Data /\ svr.on \in Peer
    BY <1>1, <1>14 DEF nsendto, SvrInv, ServerStates
  <2>2. PICK d : d = [to |-> svr.on, kind |-> "udp", data |-> svr.data]
    OBVIOUS
  <2>3. d \in Datagrams
    BY <2>1, <2>2 DEF Datagrams
  <2>4. PICK q : q = Append(host.sndbuf, d)
    OBVIOUS
  <2>5. q \in Seq(Datagrams)
    BY <1>12, <2>3, <2>4
  <2>6. host' = [host EXCEPT !.sndbuf = q]
    BY <1>14, <2>2, <2>4 DEF nsendto
  <2>7. host' \in [rcvbuf : Seq(Datagrams), sndbuf : Seq(Datagrams)]
    BY <1>12, <2>5, <2>6
  <2>8. svr' \in ServerStates
    BY <1>1, <1>14, EmptyData DEF nsendto, ServerStates, ServerAt
  <2> QED
    BY <1>14, <2>7, <2>8 DEF nsendto, TypeOK, stack, epoll
<1> QED
  BY <1>3, <1>4, <1>5, <1>6, <1>7, <1>8, <1>9, <1>10, <1>11, <1>13, <1>14 DEF ServerThread

-----------------------------------------------------------------------------
(* TableInv is preserved. *)

\* Peers, descriptors and statuses stay.
SameShape(t, u) ==
  /\ u \in Seq(Streams) /\ Len(u) = Len(t) /\ DOMAIN u = DOMAIN t
  /\ \A j \in DOMAIN t : u[j].peer = t[j].peer /\ u[j].fd = t[j].fd /\ u[j].status = t[j].status
  /\ u[Len(t)].sndbuf = t[Len(t)].sndbuf

\* A table whose streams differ only in numbers and send rings has the same
\* peers, descriptors and statuses.
LEMMA ShapeAlike ==
  ASSUME NEW t \in Seq(Streams), NEW u, u = t \/ Alike(t, u)
  PROVE  SameShape(t, u) /\ \A j \in DOMAIN t : u[j].rcvbuf = t[j].rcvbuf
<1>1. DOMAIN u = DOMAIN t
  BY DEF Alike
<1> QED
  BY <1>1 DEF Alike, SameShape

\* So has a table in which one receive ring was read (nrecv).
LEMMA ShapeAt ==
  ASSUME NEW t \in Seq(Streams), NEW u, NEW i \in DOMAIN t, i < Len(t), NEW r,
         At(t, u, i, t[i].fd, t[i].status, r)
  PROVE  SameShape(t, u)
<1>1. DOMAIN u = DOMAIN t /\ Len(t) \in DOMAIN t /\ Len(t) # i
  BY DEF At
<1>2. u[Len(t)] = t[Len(t)]
  BY <1>1 DEF At
<1> QED
  BY <1>1, <1>2 DEF At, SameShape

\* The facts about the table that TableInv' is about.
LEMMA TableShape ==
  ASSUME TypeOK, TableInv, SameShape(tcb, tcb'), fds' = fds, app' = app
  PROVE  TableInv'
<1>1. /\ Len(tcb') = Len(tcb) /\ DOMAIN tcb' = DOMAIN tcb /\ Len(tcb) \in DOMAIN tcb
      /\ tcb'[Len(tcb)].sndbuf = tcb[Len(tcb)].sndbuf
      /\ \A j \in DOMAIN tcb : tcb'[j].peer = tcb[j].peer /\ tcb'[j].fd = tcb[j].fd /\ tcb'[j].status = tcb[j].status
  BY DEF SameShape, TableInv, TypeOK
<1> QED
  BY <1>1 DEF TableInv, Closed

\* The status of a connection advances, short of LAST_ACK.
LEMMA TableStatus ==
  ASSUME TypeOK, TableInv, NEW i \in DOMAIN tcb, i < Len(tcb), NEW st \in {"ESTABLISHED", "CLOSE_WAIT"}, NEW r,
         At(tcb, tcb', i, tcb[i].fd, st, r), ~Closed(i), fds' = fds, app' = app
  PROVE  TableInv'
<1>1. tcb \in Seq(Streams) /\ Len(tcb) \in Nat /\ DOMAIN tcb = 1 .. Len(tcb)
  BY DEF TypeOK
<1>2. /\ Len(tcb') = Len(tcb) /\ DOMAIN tcb' = DOMAIN tcb /\ Len(tcb) \in DOMAIN tcb
      /\ tcb'[Len(tcb)] = tcb[Len(tcb)]
      /\ \A j \in DOMAIN tcb : tcb'[j].peer = tcb[j].peer /\ tcb'[j].fd = tcb[j].fd
      /\ \A j \in DOMAIN tcb : j # i => tcb'[j].status = tcb[j].status
      /\ tcb'[i].status = st
  BY <1>1 DEF At
<1>3. \A j \in DOMAIN tcb : Closed(j)' <=> Closed(j)
  BY <1>2 DEF Closed
<1>4. \A j \in DOMAIN tcb : tcb'[j].status = "LISTEN" <=> (j # i /\ tcb[j].status = "LISTEN")
  BY <1>2
<1>5. app # "single"
  BY <1>1 DEF TableInv
<1>6. \A j \in DOMAIN tcb' : tcb'[j].status = "LISTEN" <=> j = Len(tcb')
  BY <1>1, <1>2, <1>4, <1>5 DEF TableInv
<1> QED
  BY <1>2, <1>3, <1>5, <1>6 DEF TableInv

\* A new connection is put at the head; it has no descriptor.
LEMMA TablePushed ==
  ASSUME TypeOK, TableInv, NEW s, Pushed(tcb, tcb', s), s.peer \in Peer, Gone(s.peer), s.fd = NoFd,
         s.status = "SYN_RCVD", app # "single", app = "serial" => Len(tcb) <= 1, fds' = fds, app' = app
  PROVE  TableInv'
<1>1. PICK n : n = Len(tcb)
  OBVIOUS
<1>2. n \in Nat /\ n >= 1 /\ DOMAIN tcb = 1 .. n /\ tcb' \in Seq(Streams)
  BY <1>1 DEF TypeOK, TableInv, Pushed
<1>3. Len(tcb') = n + 1 /\ DOMAIN tcb' = 1 .. n + 1
  BY <1>1, <1>2 DEF Pushed
<1>4. tcb'[1] = s /\ \A k \in 1 .. n + 1 : k # 1 => k - 1 \in 1 .. n /\ tcb'[k] = tcb[k - 1]
  BY <1>2, <1>3 DEF Pushed
<1>5. tcb'[n + 1] = tcb[n]
  BY <1>2, <1>4
<1>6. s.peer # NoPeer /\ NoFd # ListenFd
  BY PeerAssumption DEF NoFd, ListenFd
<1>7. /\ tcb[n].peer = NoPeer /\ tcb[n].fd = ListenFd /\ tcb[n].status # "LAST_ACK" /\ tcb[n].sndbuf = <<>>
      /\ \A i, j \in 1 .. n : tcb[i].peer = tcb[j].peer => i = j
      /\ \A i \in 1 .. n : tcb[i].fd = ListenFd => i = n
      /\ \A i, j \in 1 .. n :
           /\ tcb[i].fd = tcb[j].fd /\ tcb[i].status # "LAST_ACK" /\ tcb[j].status # "LAST_ACK" /\ tcb[i].fd # NoFd
           => i = j
      /\ \A i \in 1 .. n : tcb[i].fd # NoFd /\ tcb[i].status # "LAST_ACK" => tcb[i].fd \in fds
      /\ \A i \in 1 .. n : tcb[i].status = "LAST_ACK" => tcb[i].fd # NoFd
      /\ \A i \in 1 .. n : tcb[i].status = "LISTEN" <=> i = n
      /\ \A i \in 1 .. n : tcb[i].peer # s.peer
  BY <1>1, <1>2 DEF TableInv, Closed, Gone
<1>8. \A i, j \in 1 .. n + 1 : tcb'[i].peer = tcb'[j].peer => i = j
  BY <1>2, <1>4, <1>7
<1>9. \A i \in 1 .. n + 1 : tcb'[i].fd = ListenFd => i = n + 1
  BY <1>2, <1>4, <1>6, <1>7
<1>10. \A i, j \in 1 .. n + 1 :
         tcb'[i].fd = tcb'[j].fd /\ tcb'[i].status # "LAST_ACK" /\ tcb'[j].status # "LAST_ACK" /\ tcb'[i].fd # NoFd
         => i = j
  BY <1>2, <1>4, <1>7
<1>11. \A i \in 1 .. n + 1 : tcb'[i].fd # NoFd /\ tcb'[i].status # "LAST_ACK" => tcb'[i].fd \in fds
  BY <1>2, <1>4, <1>7
<1>12. \A i \in 1 .. n + 1 : tcb'[i].status = "LAST_ACK" => tcb'[i].fd # NoFd
  BY <1>2, <1>4, <1>7
<1>13. \A i \in 1 .. n + 1 : tcb'[i].status = "LISTEN" <=> i = n + 1
  BY <1>2, <1>4, <1>7
<1>14. NoFd \notin fds /\ (app = "serial" => n + 1 <= 2)
  BY <1>1, <1>2 DEF TableInv
<1> QED
  BY <1>2, <1>3, <1>5, <1>7, <1>8, <1>9, <1>10, <1>11, <1>12, <1>13, <1>14 DEF TableInv, Closed

\* A stream is taken out.
LEMMA TableRemoved ==
  ASSUME TypeOK, TableInv, NEW i \in DOMAIN tcb, i < Len(tcb), Removed(tcb, tcb', i),
         app # "single", fds' = fds, app' = app
  PROVE  TableInv'
<1>1. PICK n : n = Len(tcb)
  OBVIOUS
<1>2. n \in Nat /\ n >= 1 /\ DOMAIN tcb = 1 .. n /\ tcb' \in Seq(Streams) /\ i \in 1 .. n - 1
  BY <1>1 DEF TypeOK, TableInv, Removed
<1>3. Len(tcb') = n - 1 /\ DOMAIN tcb' = 1 .. n - 1
  BY <1>1, <1>2 DEF Removed
<1>4. PICK m : m = [k \in 1 .. n - 1 |-> IF k < i THEN k ELSE k + 1]
  OBVIOUS
<1>5. \A k \in 1 .. n - 1 : m[k] \in 1 .. n /\ tcb'[k] = tcb[m[k]] /\ (m[k] = n <=> k = n - 1)
  BY <1>2, <1>3, <1>4 DEF Removed
<1>6. \A j, k \in 1 .. n - 1 : m[j] = m[k] => j = k
  BY <1>2, <1>4
<1>7. /\ tcb[n].peer = NoPeer /\ tcb[n].fd = ListenFd /\ tcb[n].status # "LAST_ACK" /\ tcb[n].sndbuf = <<>>
      /\ \A k, j \in 1 .. n : tcb[k].peer = tcb[j].peer => k = j
      /\ \A k \in 1 .. n : tcb[k].fd = ListenFd => k = n
      /\ \A k, j \in 1 .. n :
           /\ tcb[k].fd = tcb[j].fd /\ tcb[k].status # "LAST_ACK" /\ tcb[j].status # "LAST_ACK" /\ tcb[k].fd # NoFd
           => k = j
      /\ \A k \in 1 .. n : tcb[k].fd # NoFd /\ tcb[k].status # "LAST_ACK" => tcb[k].fd \in fds
      /\ \A k \in 1 .. n : tcb[k].status = "LAST_ACK" => tcb[k].fd # NoFd
      /\ \A k \in 1 .. n : tcb[k].status = "LISTEN" <=> k = n
  BY <1>1, <1>2 DEF TableInv, Closed
<1>8. tcb'[n - 1] = tcb[n] /\ n - 1 >= 1
  BY <1>2, <1>5
<1>9. \A k, j \in 1 .. n - 1 : tcb'[k].peer = tcb'[j].peer => k = j
  BY <1>5, <1>6, <1>7
<1>10. \A k \in 1 .. n - 1 : tcb'[k].fd = ListenFd => k = n - 1
  BY <1>5, <1>7
<1>11. \A k, j \in 1 .. n - 1 :
         tcb'[k].fd = tcb'[j].fd /\ tcb'[k].status # "LAST_ACK" /\ tcb'[j].status # "LAST_ACK" /\ tcb'[k].fd # NoFd
         => k = j
  <2> SUFFICES ASSUME NEW k \in 1 .. n - 1, NEW j \in 1 .. n - 1, tcb'[k].fd = tcb'[j].fd,
                      tcb'[k].status # "LAST_ACK", tcb'[j].status # "LAST_ACK", tcb'[k].fd # NoFd
               PROVE  m[k] = m[j]
    BY <1>6
  <2>1. m[k] \in 1 .. n /\ m[j] \in 1 .. n /\ tcb'[k] = tcb[m[k]] /\ tcb'[j] = tcb[m[j]]
    BY <1>5
  <2> QED
    BY <1>7, <2>1
<1>12. \A k \in 1 .. n - 1 : tcb'[k].fd # NoFd /\ tcb'[k].status # "LAST_ACK" => tcb'[k].fd \in fds
  BY <1>5, <1>7
<1>13. \A k \in 1 .. n - 1 : tcb'[k].status = "LAST_ACK" => tcb'[k].fd # NoFd
  BY <1>5, <1>7
<1>14. \A k \in 1 .. n - 1 : tcb'[k].status = "LISTEN" <=> k = n - 1
  BY <1>5, <1>7
<1>15. NoFd \notin fds /\ (app = "serial" => n - 1 <= 2)
  BY <1>1, <1>2 DEF TableInv
<1> QED
  BY <1>2, <1>3, <1>7, <1>8, <1>9, <1>10, <1>11, <1>12, <1>13, <1>14, <1>15 DEF TableInv, Closed

\* naccept gives a descriptor that no open stream has.
LEMMA TableAccepted ==
  ASSUME TypeOK, TableInv, naccept
  PROVE  TableInv'
<1>1. PICK i, fd : i = get_accept_tcb(tcb) /\ fd = get_fd_frombitmap(fds)
  OBVIOUS
<1>2. /\ i \in DOMAIN tcb /\ i < Len(tcb) /\ tcb[i].fd = NoFd /\ fd \notin fds /\ fd # NoFd
      /\ At(tcb, tcb', i, fd, tcb[i].status, tcb[i].rcvbuf) /\ fds' = fds \union {fd}
  BY <1>1, NacceptStep
<1>3. tcb \in Seq(Streams) /\ Len(tcb) \in Nat /\ DOMAIN tcb = 1 .. Len(tcb)
  BY DEF TypeOK
<1>4. /\ Len(tcb') = Len(tcb) /\ DOMAIN tcb' = DOMAIN tcb /\ Len(tcb) \in DOMAIN tcb
      /\ tcb'[Len(tcb)] = tcb[Len(tcb)]
      /\ \A j \in DOMAIN tcb : tcb'[j].peer = tcb[j].peer /\ tcb'[j].status = tcb[j].status
      /\ \A j \in DOMAIN tcb : j # i => tcb'[j].fd = tcb[j].fd
      /\ tcb'[i].fd = fd
  BY <1>2, <1>3 DEF At
<1>5. ListenFd \in fds
  BY <1>3, <1>4 DEF TableInv, NoFd, ListenFd
<1>6. \A j \in DOMAIN tcb : Closed(j)' <=> Closed(j)
  BY <1>4 DEF Closed
<1>7. app' = app
  BY DEF naccept
<1>8. \A j \in DOMAIN tcb : tcb'[j].fd = ListenFd => j = Len(tcb)
  BY <1>2, <1>4, <1>5 DEF TableInv
<1>9. \A j, k \in DOMAIN tcb :
        tcb'[j].fd = tcb'[k].fd /\ ~Closed(j) /\ ~Closed(k) /\ tcb'[j].fd # NoFd => j = k
  <2> SUFFICES ASSUME NEW j \in DOMAIN tcb, NEW k \in DOMAIN tcb,
                      tcb'[j].fd = tcb'[k].fd, ~Closed(j), ~Closed(k), tcb'[j].fd # NoFd
               PROVE  j = k
    OBVIOUS
  <2>1. CASE j = i /\ k # i
    BY <1>2, <1>4, <2>1 DEF TableInv
  <2>2. CASE j # i /\ k = i
    BY <1>2, <1>4, <2>2 DEF TableInv
  <2>3. CASE j # i /\ k # i
    BY <1>4, <2>3 DEF TableInv
  <2> QED
    BY <2>1, <2>2, <2>3
<1>10. \A j \in DOMAIN tcb : tcb'[j].fd # NoFd /\ ~Closed(j) => tcb'[j].fd \in fds'
  BY <1>2, <1>4 DEF TableInv
<1>11. \A j \in DOMAIN tcb : Closed(j) => tcb'[j].fd # NoFd
  BY <1>2, <1>4 DEF TableInv
<1>12. NoFd \notin fds'
  BY <1>2 DEF TableInv
<1> QED
  BY <1>4, <1>6, <1>7, <1>8, <1>9, <1>10, <1>11, <1>12 DEF TableInv

\* nclose frees the descriptor of the only open stream that has it.
LEMMA TableClosed ==
  ASSUME TypeOK, TableInv, SvrInv, Close
  PROVE  TableInv'
<1>1. PICK i \in DOMAIN tcb :
         /\ i < Len(tcb) /\ tcb[i].fd = svr.fd /\ tcb[i].status = "CLOSE_WAIT" /\ svr.at = "close"
         /\ At(tcb, tcb', i, tcb[i].fd, "LAST_ACK", tcb[i].rcvbuf) /\ fds' = fds \ {svr.fd}
  BY CloseStep
<1>2. tcb \in Seq(Streams) /\ Len(tcb) \in Nat /\ DOMAIN tcb = 1 .. Len(tcb)
  BY DEF TypeOK
<1>3. /\ Len(tcb') = Len(tcb) /\ DOMAIN tcb' = DOMAIN tcb /\ Len(tcb) \in DOMAIN tcb
      /\ tcb'[Len(tcb)] = tcb[Len(tcb)]
      /\ \A j \in DOMAIN tcb : tcb'[j].peer = tcb[j].peer /\ tcb'[j].fd = tcb[j].fd
      /\ \A j \in DOMAIN tcb : j # i => tcb'[j].status = tcb[j].status
      /\ tcb'[i].status = "LAST_ACK"
  BY <1>1, <1>2 DEF At
<1>4. app' = app /\ svr.fd # NoFd
  BY <1>1 DEF Close, SvrInv
<1>5. \A j \in DOMAIN tcb : Closed(j)' <=> Closed(j) \/ j = i
  BY <1>3 DEF Closed
<1>6. \A j \in DOMAIN tcb : tcb[j].fd # NoFd /\ ~Closed(j) /\ j # i => tcb[j].fd \in fds'
  BY <1>1, <1>4 DEF TableInv, Closed
<1>7. app # "single"
  BY <1>1, <1>2 DEF TableInv
<1>8. \A j \in DOMAIN tcb : tcb'[j].status = "LISTEN" <=> j = Len(tcb)
  BY <1>1, <1>2, <1>3, <1>7 DEF TableInv
<1>9. NoFd \notin fds'
  BY <1>1 DEF TableInv
<1>10. \A j \in DOMAIN tcb : Closed(j)' => tcb'[j].fd # NoFd
  BY <1>1, <1>3, <1>4, <1>5 DEF TableInv
<1>11. ~Closed(Len(tcb))'
  BY <1>1, <1>2, <1>3, <1>5 DEF TableInv
<1> QED
  BY <1>3, <1>4, <1>5, <1>6, <1>7, <1>8, <1>9, <1>10, <1>11 DEF TableInv

\* The status of the single loop.
LEMMA TableSingle ==
  ASSUME TypeOK, TableInv, SingleLoop
  PROVE  TableInv'
<1>1. /\ tcb' \in Seq(Streams) /\ Len(tcb') = 1 /\ Len(tcb) = 1
      /\ tcb'[1].peer = tcb[1].peer /\ tcb'[1].fd = tcb[1].fd /\ tcb'[1].sndbuf = tcb[1].sndbuf
      /\ tcb'[1].status = tcb[1].status \/ tcb'[1].status \in {"SYN_RCVD", "ESTABLISHED"}
  BY SingleStep
<1>2. DOMAIN tcb' = {1} /\ DOMAIN tcb = {1}
  BY <1>1 DEF TypeOK
<1>3. app' = app /\ fds' = fds /\ app = "single"
  BY DEF SingleLoop
<1> QED
  BY <1>1, <1>2, <1>3 DEF TableInv, Closed


\* What a peer or the ARP timer does reaches the in ring and the peers only.
LEMMA PeersKeep ==
  ASSUME PeerStep \/ arp_request_timer_cb
  PROVE  UNCHANGED <<app, alive, arp, tcb, fds, items, rdlist, rdnum, host, pkt, svr>>
<1>1. ASSUME UNCHANGED PeerOnly
      PROVE  UNCHANGED <<app, alive, arp, tcb, fds, items, rdlist, rdnum, host, pkt, svr>>
  BY <1>1 DEF PeerOnly, epoll
<1>2. CASE PeerStep
  <2>1. PICK c \in Peer : \/ Connect(c) \/ Resend(c) \/ SendSegment(c, 0, {"FIN"})
                         \/ \E n \in Length : \/ SendSegment(c, n, {}) \/ SendSegment(c, n, {"FIN"})
                                              \/ SendDatagram(c, n)
    BY <1>2 DEF PeerStep
  <2> QED
    BY <1>1, <2>1 DEF Connect, Resend, SendSegment, SendDatagram
<1>3. CASE arp_request_timer_cb
  BY <1>3 DEF arp_request_timer_cb, epoll
<1> QED
  BY <1>2, <1>3

\* Every step keeps the table as TableInv says.
LEMMA TableStep ==
  ASSUME TypeOK, TableInv, PktInv, SvrInv, Next
  PROVE  TableInv'
<1>1. tcb \in Seq(Streams) /\ Len(tcb) \in Nat /\ DOMAIN tcb = 1 .. Len(tcb)
  BY DEF TypeOK
<1>2. ASSUME tcb' = tcb, fds' = fds, app' = app
      PROVE  TableInv'
  BY <1>1, <1>2, ShapeAlike, TableShape
<1>3. CASE PeerStep \/ arp_request_timer_cb
  BY <1>2, <1>3, PeersKeep
<1>4. CASE ArpReply \/ udp_process \/ ng_tcp_handle_close_wait \/ FindItem \/ PushItem
  BY <1>2, <1>4 DEF ArpReply, udp_process, ng_tcp_handle_close_wait, Arrives, FindItem, PushItem, stack
<1>5. CASE nepoll_wait \/ NextEvent \/ CtlAdd \/ CtlDel \/ CallRecv \/ nrecvfrom \/ nsendto
  BY <1>2, <1>5 DEF nepoll_wait, NextEvent, CtlAdd, CtlDel, CallRecv, nrecvfrom, nsendto, stack
<1>6. CASE Listening
  <2>1. fds' = fds /\ app' = app /\ Arrives("LISTEN")
    BY <1>6 DEF Listening, Arrives
  <2>2. app # "single" /\ Head(ringIn) \in TcpPackets
    BY <2>1, Arrival
  <2>3. Head(ringIn).from \in Peer
    BY <2>2 DEF TcpPackets
  <2>4. CASE tcb' = tcb
    BY <1>2, <2>1, <2>4
  <2>5. CASE tcb' # tcb
    <3>1. PICK s \in Streams :
            /\ s.peer = Head(ringIn).from /\ s.fd = NoFd /\ s.status = "SYN_RCVD"
            /\ Pushed(tcb, tcb', s) /\ Gone(Head(ringIn).from)
            /\ app = "serial" => Len(tcb) <= 1
      BY <1>6, <2>5, ListeningStep
    <3> QED
      BY <2>1, <2>2, <2>3, <3>1, TablePushed
  <2> QED
    BY <2>4, <2>5
<1>7. CASE SynReceived
  <2>1. fds' = fds /\ app' = app /\ Arrives("SYN_RCVD")
    BY <1>7 DEF SynReceived, Arrives
  <2>2. PICK i : i = ng_tcp_stream_search(tcb, Head(ringIn).from)
    OBVIOUS
  <2>3. i \in DOMAIN tcb /\ i < Len(tcb) /\ tcb[i].status = "SYN_RCVD"
    BY <2>1, <2>2, Arrival
  <2>4. tcb' = tcb \/ At(tcb, tcb', i, tcb[i].fd, "ESTABLISHED", tcb[i].rcvbuf)
    BY <1>7, <2>2, SynReceivedStep
  <2> QED
    BY <1>2, <2>1, <2>3, <2>4, TableStatus DEF Closed
<1>8. CASE Established
  <2>1. fds' = fds /\ app' = app /\ Arrives("ESTABLISHED")
    BY <1>8 DEF Established, Arrives
  <2>2. PICK i : i = ng_tcp_stream_search(tcb, Head(ringIn).from)
    OBVIOUS
  <2>3. i \in DOMAIN tcb /\ i < Len(tcb) /\ tcb[i].status = "ESTABLISHED"
    BY <2>1, <2>2, Arrival
  <2>4. \/ tcb' = tcb
        \/ \E st \in {"ESTABLISHED", "CLOSE_WAIT"} : \E r : At(tcb, tcb', i, tcb[i].fd, st, r)
    BY <1>8, <2>2, EstablishedStep
  <2> QED
    BY <1>2, <2>1, <2>3, <2>4, TableStatus DEF Closed
<1>9. CASE Acknowledges
  <2>1. fds' = fds /\ app' = app
    BY <1>9 DEF Acknowledges
  <2>2. CASE Alike(tcb, tcb')
    BY <1>1, <2>1, <2>2, ShapeAlike, TableShape
  <2>3. CASE ~Alike(tcb, tcb')
    <3>1. /\ pkt # Idle /\ pkt.todo = <<"PSH", "FIN">>
          /\ At(tcb, tcb', pkt.i, tcb[pkt.i].fd, "CLOSE_WAIT", Append(tcb[pkt.i].rcvbuf, <<>>))
      BY <1>9, <2>3, AcknowledgesStep
    <3>2. pkt.i \in DOMAIN tcb /\ pkt.i < Len(tcb) /\ tcb[pkt.i].status = "ESTABLISHED"
      BY <1>1, <3>1 DEF PktInv
    <3>3. PICK i, r : i = pkt.i /\ r = Append(tcb[pkt.i].rcvbuf, <<>>)
      OBVIOUS
    <3>4. i \in DOMAIN tcb /\ i < Len(tcb) /\ ~Closed(i) /\ At(tcb, tcb', i, tcb[i].fd, "CLOSE_WAIT", r)
      BY <3>1, <3>2, <3>3 DEF Closed
    <3> QED
      BY <2>1, <3>4, TableStatus
  <2> QED
    BY <2>2, <2>3
<1>10. CASE LastAck
  <2>1. fds' = fds /\ app' = app /\ Arrives("LAST_ACK")
    BY <1>10 DEF LastAck, Arrives
  <2>2. PICK i : i = ng_tcp_stream_search(tcb, Head(ringIn).from)
    OBVIOUS
  <2>3. i \in DOMAIN tcb /\ i < Len(tcb) /\ app # "single"
    BY <2>1, <2>2, Arrival
  <2>4. tcb' = tcb \/ Removed(tcb, tcb', i)
    BY <1>10, <2>2, LastAckStep
  <2> QED
    BY <1>2, <2>1, <2>3, <2>4, TableRemoved
<1>11. CASE SendPass
  <2>1. fds' = fds /\ app' = app
    BY <1>11 DEF SendPass
  <2> QED
    BY <1>1, <1>11, <2>1, SendPassStep, ShapeAlike, TableShape
<1>12. CASE SingleLoop
  BY <1>12, TableSingle
<1>13. CASE naccept
  BY <1>13, TableAccepted
<1>14. CASE ReceiveFragment
  <2>1. fds' = fds /\ app' = app
    BY <1>14 DEF ReceiveFragment
  <2>2. PICK i : i = Waited
    OBVIOUS
  <2>3. i \in DOMAIN tcb /\ i < Len(tcb) /\ \E r : At(tcb, tcb', i, tcb[i].fd, tcb[i].status, r)
    BY <1>14, <2>2, ReceiveStep
  <2> QED
    BY <1>1, <2>1, <2>3, ShapeAt, TableShape
<1>15. CASE Echo
  <2>1. fds' = fds /\ app' = app
    BY <1>15 DEF Echo
  <2> QED
    BY <1>1, <1>15, <2>1, EchoStep, ShapeAlike, TableShape
<1>16. CASE Close
  BY <1>16, TableClosed
<1> QED
  BY <1>3, <1>4, <1>5, <1>6, <1>7, <1>8, <1>9, <1>10, <1>11, <1>12, <1>13, <1>14, <1>15, <1>16
     DEF Next, PacketThread, ServerThread

-----------------------------------------------------------------------------
(* PushHasData is preserved. *)

\* A packet of the ring is one that was there or one that was put behind.
LEMMA GrownFrom ==
  ASSUME NEW r \in Seq(Packets), NEW q, NEW S, Grown(r, q, S)
  PROVE  \A k \in DOMAIN q : q[k] \in S \/ \E j \in DOMAIN r : q[k] = r[j]
<1> SUFFICES ASSUME NEW k \in DOMAIN q, q[k] \notin S
             PROVE  k \in DOMAIN r /\ q[k] = r[k]
  OBVIOUS
<1>1. q \in Seq(Packets) /\ k \in Nat /\ k >= 1
  BY DEF Grown
<1> QED
  BY <1>1 DEF Grown

\* Only SendSegment sets the push flag, and then there is data; the answers
\* of a peer are bare acknowledgements.
LEMMA PushStep ==
  ASSUME TypeOK, TableInv, SvrInv, PushHasData, Next
  PROVE  PushHasData'
<1> DEFINE Plain(p) == p.kind = "tcp" /\ "PSH" \in p.flags => p.data # <<>>
           Kept(c) == cl'[c].last # <<>> =>
                        /\ cl'[c].last.from = c
                        /\ "PSH" \in cl'[c].last.flags => cl'[c].last.data # <<>>
                        /\ "SYN" \in cl'[c].last.flags => "FIN" \notin cl'[c].last.flags
<1>1. ringIn \in Seq(Packets) /\ \A k \in DOMAIN ringIn : Plain(ringIn[k])
  BY DEF TypeOK, PushHasData
<1>2. \A p \in Acks \union ArpPackets \union UdpPackets : Plain(p)
  <2>1. \A p \in Acks : Plain(p)
    BY DEF Acks
  <2>2. \A p \in ArpPackets \union UdpPackets : p.kind # "tcp"
    BY DEF ArpPackets, UdpPackets
  <2> QED
    BY <2>1, <2>2
<1>3. \A c \in Peer : cl'[c].last = cl[c].last => Kept(c)
  BY DEF PushHasData
<1>4. ASSUME \A c \in Peer : cl'[c].last = cl[c].last,
             \A k \in DOMAIN ringIn' : \/ ringIn'[k] \in Acks \union ArpPackets \union UdpPackets
                                       \/ \E j \in DOMAIN ringIn : ringIn'[k] = ringIn[j]
      PROVE  PushHasData'
  <2>1. \A k \in DOMAIN ringIn' : Plain(ringIn'[k])
    BY <1>1, <1>2, <1>4
  <2>2. \A c \in Peer : Kept(c)
    BY <1>3, <1>4
  <2> QED
    BY <2>1, <2>2 DEF PushHasData
<1>5. ASSUME NEW c \in Peer, NEW p, NEW h, Sends(c, p, h),
             h.last = cl[c].last \/ (h.last = p /\ ("SYN" \notin p.flags \/ "FIN" \notin p.flags))
      PROVE  PushHasData'
  <2>1. Plain(p) /\ p.from = c /\ cl'[c] = h /\ \A d \in Peer : d # c => cl'[d] = cl[d]
    BY <1>5 DEF Sends, ClAt
  <2>2. \A k \in DOMAIN ringIn' : ringIn'[k] = p \/ \E j \in DOMAIN ringIn : ringIn'[k] = ringIn[j]
    BY <1>1, <1>5, GrownFrom DEF Sends
  <2>3. \A k \in DOMAIN ringIn' : Plain(ringIn'[k])
    BY <1>1, <2>1, <2>2
  <2>4. "PSH" \in p.flags => p.data # <<>>
    BY <1>5 DEF Sends
  <2>5. Kept(c)
    <3>1. CASE h.last = cl[c].last
      BY <1>3, <2>1, <3>1
    <3>2. CASE h.last = p /\ ("SYN" \notin p.flags \/ "FIN" \notin p.flags)
      BY <2>1, <2>4, <3>2
    <3> QED
      BY <1>5, <3>1, <3>2
  <2>6. \A d \in Peer : Kept(d)
    BY <1>3, <2>1, <2>5
  <2> QED
    BY <2>3, <2>6 DEF PushHasData
<1>6. CASE PeerStep
  <2>1. PICK c \in Peer : \/ Connect(c) \/ Resend(c) \/ SendSegment(c, 0, {"FIN"})
                         \/ \E n \in Length : \/ SendSegment(c, n, {}) \/ SendSegment(c, n, {"FIN"})
                                              \/ SendDatagram(c, n)
    BY <1>6 DEF PeerStep
  <2>2. CASE Connect(c)
    BY <1>5, <2>2, ConnectStep
  <2>3. CASE Resend(c)
    BY <1>5, <2>3, ResendStep
  <2>4. ASSUME NEW n \in Length \union {0}, NEW flags \in {{}, {"FIN"}}, SendSegment(c, n, flags)
        PROVE  PushHasData'
    BY <1>5, <2>4, SegmentStep
  <2>5. ASSUME NEW n \in Length, SendDatagram(c, n)
        PROVE  PushHasData'
    <3>1. PICK p, h : p \in UdpPackets /\ Grown(ringIn, ringIn', {p}) /\ ClAt(c, h) /\ h.last = cl[c].last
      BY <2>5, DatagramStep
    <3>2. \A k \in DOMAIN ringIn' : ringIn'[k] = p \/ \E j \in DOMAIN ringIn : ringIn'[k] = ringIn[j]
      BY <1>1, <3>1, GrownFrom
    <3> QED
      BY <1>4, <3>1, <3>2 DEF ClAt
  <2> QED
    BY <2>1, <2>2, <2>3, <2>4, <2>5
<1>7. CASE arp_request_timer_cb
  <2>1. Grown(ringIn, ringIn', Acks \union ArpPackets) /\ \A c \in Peer : cl'[c].last = cl[c].last
    BY <1>7, TimerStep
  <2> QED
    BY <1>1, <1>4, <2>1, GrownFrom
<1>8. CASE SendPass
  <2>1. Grown(ringIn, ringIn', Acks \union ArpPackets) /\ \A c \in Peer : cl'[c].last = cl[c].last
    BY <1>8, SendPassStep
  <2> QED
    BY <1>1, <1>4, <2>1, GrownFrom
<1>9. CASE SingleLoop
  <2>1. /\ \A k \in DOMAIN ringIn' : \/ ringIn'[k] \in Acks \union ArpPackets
                                     \/ \E j \in DOMAIN ringIn : ringIn'[k] = ringIn[j]
        /\ \A c \in Peer : cl'[c].last = cl[c].last
    BY <1>9, SingleStep
  <2> QED
    BY <1>4, <2>1
<1>10. ASSUME cl' = cl, ringIn # <<>>, ringIn' = Tail(ringIn)
       PROVE  PushHasData'
  <2>1. \A k \in DOMAIN ringIn' : \E j \in DOMAIN ringIn : ringIn'[k] = ringIn[j]
    BY <1>10, HeadPacket
  <2> QED
    BY <1>4, <1>10, <2>1
<1>11. CASE ArpReply \/ udp_process \/ Listening \/ SynReceived \/ Established \/ ng_tcp_handle_close_wait \/ LastAck
  BY <1>10, <1>11 DEF ArpReply, udp_process, Listening, SynReceived, Established, ng_tcp_handle_close_wait, LastAck,
                      Arrives, Reads
<1>12. ASSUME cl' = cl, ringIn' = ringIn
       PROVE  PushHasData'
  BY <1>12 DEF PushHasData
<1>13. CASE Acknowledges \/ FindItem \/ PushItem
  BY <1>12, <1>13 DEF Acknowledges, FindItem, PushItem, stack
<1>14. CASE nepoll_wait \/ NextEvent \/ CtlAdd \/ CtlDel \/ naccept
  BY <1>12, <1>14 DEF nepoll_wait, NextEvent, CtlAdd, CtlDel, naccept, stack
<1>15. CASE CallRecv \/ ReceiveFragment \/ Echo \/ Close \/ nrecvfrom \/ nsendto
  BY <1>12, <1>15 DEF CallRecv, ReceiveFragment, Echo, Close, nrecvfrom, nsendto, stack
<1> QED
  BY <1>6, <1>7, <1>8, <1>9, <1>11, <1>13, <1>14, <1>15 DEF Next, PacketThread, ServerThread

-----------------------------------------------------------------------------
(* RingEnds is preserved. *)

\* An event leads the server to the listening socket or to the stream that
\* its descriptor finds: nrecv is never called on a freed connection.
LEMMA NextEventStep ==
  ASSUME TypeOK, TableInv, SvrInv, QueueInv, NextEvent
  PROVE  LET fd == Head(svr.evs)
         IN  /\ app = "epoll" /\ svr.at = "next" /\ svr.evs # <<>> /\ fd = svr.evs[1] /\ fd # NoFd
             /\ fd \in DOMAIN items
             /\ \/ fd = ListenFd /\ svr' = [svr EXCEPT !.at = "accept", !.evs = Tail(@)]
                \/ /\ fd # ListenFd
                   /\ \E i \in DOMAIN tcb :
                        /\ i < Len(tcb) /\ tcb[i].peer \in Peer /\ Leads(tcb, i, fd)
                        /\ svr' = [svr EXCEPT !.at = "recv", !.evs = Tail(@), !.fd = fd, !.on = tcb[i].peer]
<1>1. PICK fd : fd = Head(svr.evs)
  OBVIOUS
<1>2. svr.at = "next" /\ svr.evs # <<>> /\ app = "epoll"
  BY DEF NextEvent, SvrInv
<1>3. svr.evs \in Seq(Nat)
  BY DEF TypeOK, ServerStates
<1>4. fd = svr.evs[1] /\ 1 \in DOMAIN svr.evs
  BY <1>1, <1>2, <1>3
<1>5. fd \in DOMAIN items /\ fd # NoFd
  BY <1>4 DEF QueueInv, ListInv, ToSet
<1>6. CASE fd = ListenFd
  BY <1>1, <1>2, <1>4, <1>5, <1>6 DEF NextEvent
<1>7. CASE fd # ListenFd
  <2>1. PICK j \in DOMAIN tcb : tcb[j].fd = fd
    BY <1>2, <1>5, <1>7 DEF QueueInv, EpollInv
  <2>2. PICK i : i = get_hostinfo_fromfd(tcb, fd)
    OBVIOUS
  <2>3. tcb \in Seq(Streams) /\ DOMAIN tcb = 1 .. Len(tcb) /\ Len(tcb) \in Nat
    BY DEF TypeOK
  <2>4. i \in DOMAIN tcb /\ tcb[i].fd = fd /\ \A k \in DOMAIN tcb : tcb[k].fd = fd => i <= k
    BY <2>1, <2>2, <2>3, HostInfo
  <2>5. i < Len(tcb)
    BY <1>7, <2>3, <2>4 DEF TableInv
  <2>6. tcb[i].peer \in Peer
    <3>1. tcb[i] \in Streams
      BY <2>3, <2>4
    <3>2. tcb[i].peer \in Peer \union {NoPeer} /\ Len(tcb) \in DOMAIN tcb /\ tcb[Len(tcb)].peer = NoPeer
      BY <2>3, <3>1 DEF Streams, TableInv
    <3>3. tcb[i].peer # NoPeer
      BY <2>3, <2>4, <2>5, <3>2 DEF TableInv
    <3> QED
      BY <3>2, <3>3
  <2>7. svr' = [svr EXCEPT !.at = "recv", !.evs = Tail(@), !.fd = fd, !.on = tcb[i].peer]
    BY <1>1, <1>7, <2>2, <2>3, <2>4 DEF NextEvent
  <2> QED
    BY <1>1, <1>2, <1>4, <1>5, <1>7, <2>4, <2>5, <2>6, <2>7 DEF Leads
<1> QED
  BY <1>6, <1>7

\* A fragment with data behind the others.
LEMMA EndsData ==
  ASSUME NEW c, NEW status, NEW r \in Seq(Data), NEW at, NEW on, NEW d \in Data, d # <<>>,
         Ends(c, status, r, at, on)
  PROVE  Ends(c, status, Append(r, d), at, on)
<1>1. PICK q : q = Append(r, d)
  OBVIOUS
<1>2. \A k \in DOMAIN q : q[k] = <<>> => k \in DOMAIN r /\ r[k] = <<>>
  BY <1>1
<1> QED
  BY <1>1, <1>2 DEF Ends

\* The end of the stream behind the others, when it was not there before.
LEMMA EndsFin ==
  ASSUME NEW c, NEW status, status # "CLOSE_WAIT", NEW r \in Seq(Data), NEW at, NEW on,
         Ends(c, status, r, at, on), ~(at \in {"del", "close"} /\ on = c)
  PROVE  Ends(c, "CLOSE_WAIT", Append(r, <<>>), at, on)
<1>1. PICK q : q = Append(r, <<>>)
  OBVIOUS
<1>2. \A k \in DOMAIN r : r[k] # <<>>
  BY DEF Ends
<1>3. \A k \in DOMAIN q : q[k] = <<>> => k = Len(r) + 1
  BY <1>1, <1>2
<1> QED
  BY <1>1, <1>3 DEF Ends

\* nrecv takes the first fragment; if that was the end, none is left.
LEMMA EndsTaken ==
  ASSUME NEW c, NEW status, NEW s \in Seq(Data), s # <<>>, NEW r, TakenFrom(s, r), NEW at, NEW on, NEW next,
         Ends(c, status, s, at, on), next \in {"del", "close"} => s[1] = <<>>
  PROVE  Ends(c, status, r, next, on)
<1>1. \A k \in DOMAIN r : r[k] = <<>> => k + 1 \in DOMAIN s /\ s[k + 1] = <<>> /\ k \in Nat /\ k >= 1
  BY DEF TakenFrom
<1>2. 1 \in DOMAIN s
  OBVIOUS
<1>3. \A k \in DOMAIN r : r[k] = <<>> => s[1] # <<>>
  BY <1>1, <1>2 DEF Ends
<1>4. \A k, l \in DOMAIN r : r[k] = <<>> /\ r[l] = <<>> => k = l
  <2> SUFFICES ASSUME NEW k \in DOMAIN r, NEW l \in DOMAIN r, r[k] = <<>>, r[l] = <<>>
               PROVE  k = l
    OBVIOUS
  <2>1. PICK k1, l1 : k1 = k + 1 /\ l1 = l + 1
    OBVIOUS
  <2>2. k1 \in DOMAIN s /\ l1 \in DOMAIN s /\ s[k1] = <<>> /\ s[l1] = <<>> /\ k \in Nat /\ l \in Nat
    BY <1>1, <2>1
  <2>3. k1 = l1
    BY <2>2 DEF Ends
  <2> QED
    BY <2>1, <2>2, <2>3
<1>5. \A k \in DOMAIN r : r[k] = <<>> => status = "CLOSE_WAIT"
  BY <1>1 DEF Ends
<1> QED
  BY <1>3, <1>4, <1>5 DEF Ends

\* Every step keeps the ends of the receive rings as RingEnds says.
LEMMA RingStep ==
  ASSUME TypeOK, TableInv, RingEnds, PktInv, SvrInv, PushHasData, QueueInv, Next
  PROVE  RingEnds'
<1>1. tcb \in Seq(Streams) /\ Len(tcb) \in Nat /\ DOMAIN tcb = 1 .. Len(tcb)
  BY DEF TypeOK
<1>2. \A i \in DOMAIN tcb : tcb[i].rcvbuf \in Seq(Data)
  <2>1. \A i \in DOMAIN tcb : tcb[i] \in Streams
    BY <1>1
  <2> QED
    BY <2>1 DEF Streams
<1> DEFINE Calm == svr'.at \in {"del", "close"} => svr.at \in {"del", "close"} /\ svr'.on = svr.on
           EndAt(i) == Ends(tcb'[i].peer, tcb'[i].status, tcb'[i].rcvbuf, svr'.at, svr'.on)
<1>3. ASSUME Calm, NEW i \in DOMAIN tcb, NEW j \in DOMAIN tcb', tcb'[j].peer = tcb[i].peer,
             tcb'[j].status = tcb[i].status \/ tcb[i].status # "CLOSE_WAIT", tcb'[j].rcvbuf = tcb[i].rcvbuf
      PROVE  EndAt(j)
  BY <1>3 DEF RingEnds, Ends
<1>4. ASSUME Calm, tcb' = tcb \/ Alike(tcb, tcb')
      PROVE  RingEnds'
  <2>1. SameShape(tcb, tcb') /\ \A j \in DOMAIN tcb : tcb'[j].rcvbuf = tcb[j].rcvbuf
    BY <1>1, <1>4, ShapeAlike
  <2>2. \A i \in DOMAIN tcb' : EndAt(i)
    BY <1>3, <1>4, <2>1 DEF SameShape
  <2> QED
    BY <2>2 DEF RingEnds
<1>5. ASSUME Calm, NEW i \in DOMAIN tcb, NEW fd, NEW st, NEW r, At(tcb, tcb', i, fd, st, r),
             Ends(tcb[i].peer, st, r, svr'.at, svr'.on)
      PROVE  RingEnds'
  <2>1. DOMAIN tcb' = DOMAIN tcb /\ EndAt(i) /\ \A j \in DOMAIN tcb : j # i => tcb'[j] = tcb[j]
    BY <1>5 DEF At
  <2>2. \A j \in DOMAIN tcb : j # i => EndAt(j)
    BY <1>3, <1>5, <2>1
  <2> QED
    BY <2>1, <2>2 DEF RingEnds
<1>6. CASE PeerStep \/ arp_request_timer_cb
  BY <1>4, <1>6, PeersKeep
<1>7. CASE ArpReply \/ udp_process \/ ng_tcp_handle_close_wait \/ FindItem \/ PushItem
  BY <1>4, <1>7 DEF ArpReply, udp_process, ng_tcp_handle_close_wait, Arrives, FindItem, PushItem, stack
<1>8. CASE Listening
  <2>1. svr' = svr
    BY <1>8 DEF Listening, Arrives
  <2>2. CASE tcb' = tcb
    BY <1>4, <2>1, <2>2
  <2>3. CASE tcb' # tcb
    <3>1. PICK s \in Streams : s.rcvbuf = <<>> /\ Pushed(tcb, tcb', s)
      BY <1>8, <2>3, ListeningStep
    <3>2. DOMAIN <<>> = {}
      OBVIOUS
    <3>3. Ends(s.peer, s.status, s.rcvbuf, svr'.at, svr'.on)
      BY <3>1, <3>2 DEF Ends
    <3>4. \A k \in DOMAIN tcb' : EndAt(k)
      <4> SUFFICES ASSUME NEW k \in DOMAIN tcb' PROVE EndAt(k)
        OBVIOUS
      <4>1. CASE k = 1
        BY <3>1, <3>3, <4>1 DEF Pushed
      <4>2. CASE k # 1
        <5>1. PICK j \in DOMAIN tcb : tcb'[k] = tcb[j]
          BY <3>1, <4>2 DEF Pushed
        <5> QED
          BY <1>3, <2>1, <5>1
      <4> QED
        BY <4>1, <4>2
    <3> QED
      BY <3>4 DEF RingEnds
  <2> QED
    BY <2>2, <2>3
<1>9. CASE SynReceived
  <2>1. svr' = svr /\ Arrives("SYN_RCVD")
    BY <1>9 DEF SynReceived, Arrives
  <2>2. PICK i : i = ng_tcp_stream_search(tcb, Head(ringIn).from)
    OBVIOUS
  <2>3. i \in DOMAIN tcb /\ tcb[i].status = "SYN_RCVD"
    BY <2>1, <2>2, Arrival
  <2>4. tcb' = tcb \/ At(tcb, tcb', i, tcb[i].fd, "ESTABLISHED", tcb[i].rcvbuf)
    BY <1>9, <2>2, SynReceivedStep
  <2>5. Ends(tcb[i].peer, "ESTABLISHED", tcb[i].rcvbuf, svr'.at, svr'.on)
    BY <2>1, <2>3 DEF RingEnds, Ends
  <2> QED
    BY <1>4, <1>5, <2>1, <2>3, <2>4, <2>5
<1>10. \A i \in DOMAIN tcb : tcb[i].status # "CLOSE_WAIT" => ~(svr.at \in {"del", "close"} /\ svr.on = tcb[i].peer)
  BY DEF SvrInv, TableInv
<1>11. ASSUME NEW i \in DOMAIN tcb, tcb[i].status = "ESTABLISHED", svr' = svr, NEW fd,
              At(tcb, tcb', i, fd, "CLOSE_WAIT", Append(tcb[i].rcvbuf, <<>>))
       PROVE  RingEnds'
  <2>1. Ends(tcb[i].peer, tcb[i].status, tcb[i].rcvbuf, svr.at, svr.on)
    BY <1>11 DEF RingEnds
  <2>2. Ends(tcb[i].peer, "CLOSE_WAIT", Append(tcb[i].rcvbuf, <<>>), svr'.at, svr'.on)
    BY <1>2, <1>10, <1>11, <2>1, EndsFin
  <2> QED
    BY <1>5, <1>11, <2>2
<1>12. CASE Established
  <2>1. svr' = svr /\ Arrives("ESTABLISHED")
    BY <1>12 DEF Established, Arrives
  <2>2. PICK p, i : p = Head(ringIn) /\ i = ng_tcp_stream_search(tcb, p.from)
    OBVIOUS
  <2>3. i \in DOMAIN tcb /\ tcb[i].status = "ESTABLISHED" /\ p \in TcpPackets /\ ringIn # <<>>
    BY <2>1, <2>2, Arrival
  <2>4. "PSH" \in p.flags => p.data # <<>>
    <3>1. p = ringIn[1] /\ 1 \in DOMAIN ringIn /\ p.kind = "tcp"
      BY <2>2, <2>3, HeadPacket DEF TcpPackets
    <3> QED
      BY <3>1 DEF PushHasData
  <2>5. CASE tcb' = tcb
    BY <1>4, <2>1, <2>5
  <2>6. CASE "PSH" \in p.flags /\ At(tcb, tcb', i, tcb[i].fd, "ESTABLISHED", Append(tcb[i].rcvbuf, p.data))
    <3>1. p.data \in Data /\ p.data # <<>>
      BY <2>3, <2>4, <2>6 DEF TcpPackets
    <3>2. Ends(tcb[i].peer, tcb[i].status, tcb[i].rcvbuf, svr.at, svr.on)
      BY <2>3 DEF RingEnds
    <3>3. Ends(tcb[i].peer, "ESTABLISHED", Append(tcb[i].rcvbuf, p.data), svr'.at, svr'.on)
      BY <1>2, <2>1, <2>3, <3>1, <3>2, EndsData
    <3> QED
      BY <1>5, <2>1, <2>3, <2>6, <3>3
  <2>7. CASE At(tcb, tcb', i, tcb[i].fd, "CLOSE_WAIT", Append(tcb[i].rcvbuf, <<>>))
    BY <1>11, <2>1, <2>3, <2>7
  <2> QED
    BY <1>12, <2>2, <2>5, <2>6, <2>7, EstablishedStep
<1>13. CASE Acknowledges
  <2>1. svr' = svr
    BY <1>13 DEF Acknowledges
  <2>2. CASE Alike(tcb, tcb')
    BY <1>4, <2>1, <2>2
  <2>3. CASE ~Alike(tcb, tcb')
    <3>1. /\ pkt # Idle /\ pkt.todo = <<"PSH", "FIN">>
          /\ At(tcb, tcb', pkt.i, tcb[pkt.i].fd, "CLOSE_WAIT", Append(tcb[pkt.i].rcvbuf, <<>>))
      BY <1>13, <2>3, AcknowledgesStep
    <3>2. pkt.i \in DOMAIN tcb /\ tcb[pkt.i].status = "ESTABLISHED"
      BY <1>1, <3>1 DEF PktInv
    <3>3. PICK i : i = pkt.i
      OBVIOUS
    <3> QED
      BY <1>11, <2>1, <3>1, <3>2, <3>3
  <2> QED
    BY <2>2, <2>3
<1>14. CASE LastAck
  <2>1. svr' = svr /\ Arrives("LAST_ACK")
    BY <1>14 DEF LastAck, Arrives
  <2>2. PICK i : i = ng_tcp_stream_search(tcb, Head(ringIn).from)
    OBVIOUS
  <2>3. i \in DOMAIN tcb
    BY <2>1, <2>2, Arrival
  <2>4. tcb' = tcb \/ Removed(tcb, tcb', i)
    BY <1>14, <2>2, LastAckStep
  <2>5. CASE Removed(tcb, tcb', i)
    <3>1. \A k \in DOMAIN tcb' : \E j \in DOMAIN tcb : tcb'[k] = tcb[j]
      <4> SUFFICES ASSUME NEW k \in DOMAIN tcb' PROVE \E j \in DOMAIN tcb : tcb'[k] = tcb[j]
        OBVIOUS
      <4>1. PICK j : j = IF k < i THEN k ELSE k + 1
        OBVIOUS
      <4>2. k \in 1 .. Len(tcb) - 1
        BY <1>1, <2>5 DEF Removed
      <4>3. j \in DOMAIN tcb
        BY <1>1, <2>3, <4>1, <4>2
      <4> QED
        BY <2>5, <4>1, <4>3 DEF Removed
    <3>2. \A k \in DOMAIN tcb' : EndAt(k)
      BY <1>3, <2>1, <3>1
    <3> QED
      BY <3>2 DEF RingEnds
  <2> QED
    BY <1>4, <2>1, <2>4, <2>5
<1>15. CASE SendPass
  <2>1. svr' = svr
    BY <1>15 DEF SendPass
  <2> QED
    BY <1>4, <1>15, <2>1, SendPassStep
<1>16. CASE SingleLoop
  <2>1. svr' = svr /\ app = "single"
    BY <1>16 DEF SingleLoop
  <2>2. /\ tcb' \in Seq(Streams) /\ Len(tcb') = 1 /\ Len(tcb) = 1 /\ tcb'[1].peer = tcb[1].peer
        /\ tcb'[1].rcvbuf = tcb[1].rcvbuf
        /\ tcb'[1].status = tcb[1].status \/ tcb[1].status # "CLOSE_WAIT"
    BY <1>16, SingleStep
  <2>3. DOMAIN tcb' = {1} /\ DOMAIN tcb = {1}
    BY <1>1, <2>2
  <2>4. EndAt(1)
    BY <1>3, <2>1, <2>2, <2>3
  <2> QED
    BY <2>3, <2>4 DEF RingEnds
<1>17. svr \in ServerStates
  BY DEF TypeOK
<1>18. CASE nepoll_wait \/ CtlAdd \/ CtlDel \/ CallRecv \/ nrecvfrom \/ nsendto
  <2>1. tcb' = tcb
    BY <1>18 DEF nepoll_wait, CtlAdd, CtlDel, CallRecv, nrecvfrom, nsendto, stack
  <2>2. Calm
    BY <1>17, <1>18 DEF nepoll_wait, CtlAdd, CtlDel, CallRecv, nrecvfrom, nsendto, ServerStates
  <2> QED
    BY <1>4, <2>1, <2>2
<1>19. CASE NextEvent
  <2>1. tcb' = tcb
    BY <1>19 DEF NextEvent, stack
  <2>2. Calm
    BY <1>17, <1>19, NextEventStep DEF ServerStates
  <2> QED
    BY <1>4, <2>1, <2>2
<1>20. CASE naccept
  <2>1. PICK i, fd : i = get_accept_tcb(tcb) /\ fd = get_fd_frombitmap(fds)
    OBVIOUS
  <2>2. /\ i \in DOMAIN tcb /\ At(tcb, tcb', i, fd, tcb[i].status, tcb[i].rcvbuf)
        /\ svr' = [svr EXCEPT !.at = IF app = "epoll" THEN "add" ELSE "call", !.fd = fd]
    BY <1>20, <2>1, NacceptStep
  <2>3. svr'.at \notin {"del", "close"}
    BY <1>17, <2>2 DEF ServerStates
  <2>4. Ends(tcb[i].peer, tcb[i].status, tcb[i].rcvbuf, svr'.at, svr'.on)
    BY <2>2, <2>3 DEF RingEnds, Ends
  <2> QED
    BY <1>5, <2>2, <2>3, <2>4
<1>21. CASE ReceiveFragment
  <2>1. PICK i, r : i = Waited /\ r = nrecv(tcb[Waited].rcvbuf)
    OBVIOUS
  <2>2. /\ i \in DOMAIN tcb /\ tcb[i].peer = svr.on /\ svr.at = "recv"
        /\ tcb[i].rcvbuf \in Seq(Data) /\ tcb[i].rcvbuf # <<>>
        /\ TakenFrom(tcb[i].rcvbuf, r.ring) /\ (r.data = <<>> <=> tcb[i].rcvbuf[1] = <<>>)
        /\ At(tcb, tcb', i, tcb[i].fd, tcb[i].status, r.ring)
        /\ svr' = [svr EXCEPT !.data = r.data,
                     !.at = IF r.data # <<>> THEN "send"
                            ELSE IF app = "epoll" THEN "del" ELSE "close"]
    BY <1>21, <2>1, ReceiveStep
  <2>3. svr'.on = svr.on /\ (svr'.at \in {"del", "close"} => tcb[i].rcvbuf[1] = <<>>)
    BY <1>17, <2>2 DEF ServerStates
  <2>4. Ends(tcb[i].peer, tcb[i].status, tcb[i].rcvbuf, svr.at, svr.on)
    BY <2>2 DEF RingEnds
  <2>5. Ends(tcb[i].peer, tcb[i].status, r.ring, svr'.at, svr'.on)
    BY <2>2, <2>3, <2>4, EndsTaken
  <2>6. DOMAIN tcb' = DOMAIN tcb /\ EndAt(i) /\ \A j \in DOMAIN tcb : j # i => tcb'[j] = tcb[j]
    BY <2>2, <2>5 DEF At
  <2>7. \A j \in DOMAIN tcb : j # i => EndAt(j)
    <3> SUFFICES ASSUME NEW j \in DOMAIN tcb, j # i PROVE EndAt(j)
      OBVIOUS
    <3>1. tcb[j].peer # svr.on /\ tcb'[j] = tcb[j]
      BY <2>2, <2>6 DEF TableInv
    <3> QED
      BY <2>3, <3>1 DEF RingEnds, Ends
  <2> QED
    BY <2>6, <2>7 DEF RingEnds
<1>22. CASE Echo
  <2>1. Calm
    BY <1>17, <1>22, EchoStep DEF ServerStates
  <2> QED
    BY <1>4, <1>22, <2>1, EchoStep
<1>23. CASE Close
  <2>1. PICK i \in DOMAIN tcb :
           /\ svr.at = "close" /\ tcb[i].peer = svr.on
           /\ At(tcb, tcb', i, tcb[i].fd, "LAST_ACK", tcb[i].rcvbuf)
           /\ svr' = [svr EXCEPT !.at = IF app = "epoll" THEN "next" ELSE "accept"]
    BY <1>23, CloseStep
  <2>2. svr'.at \notin {"del", "close"}
    BY <1>17, <2>1 DEF ServerStates
  <2>3. Ends(tcb[i].peer, "LAST_ACK", tcb[i].rcvbuf, svr'.at, svr'.on)
    BY <2>1 DEF RingEnds, Ends
  <2> QED
    BY <1>5, <2>1, <2>2, <2>3
<1> QED
  BY <1>6, <1>7, <1>8, <1>9, <1>12, <1>13, <1>14, <1>15, <1>16, <1>18, <1>19, <1>20, <1>21, <1>22, <1>23
     DEF Next, PacketThread, ServerThread

-----------------------------------------------------------------------------
(* PktInv is preserved. *)

\* Every step leaves the packet thread at a stream of the table.
LEMMA PktStep ==
  ASSUME TypeOK, TableInv, PktInv, SvrInv, QueueInv, Next
  PROVE  PktInv'
<1>1. tcb \in Seq(Streams) /\ Len(tcb) \in Nat /\ DOMAIN tcb = 1 .. Len(tcb)
  BY DEF TypeOK
<1>2. ASSUME pkt' = Idle, app' = app
      PROVE  PktInv'
  BY <1>2 DEF PktInv, Idle
<1>3. ASSUME pkt' = pkt, app' = app, Len(tcb') = Len(tcb), pkt # Idle =>
               /\ tcb'[pkt.i].peer = tcb[pkt.i].peer
               /\ tcb[pkt.i].status = "ESTABLISHED" => tcb'[pkt.i].status = "ESTABLISHED"
               /\ pkt.at \in {"find", "push"} /\ pkt.fd = tcb[pkt.i].fd /\ ~Closed(pkt.i) =>
                    pkt.fd = NoFd \/ (pkt.fd = tcb'[pkt.i].fd /\ tcb'[pkt.i].status # "LAST_ACK")
      PROVE  PktInv'
  BY <1>3 DEF PktInv, Closed
<1>4. ASSUME pkt' = pkt, app' = app, tcb' = tcb \/ Alike(tcb, tcb')
      PROVE  PktInv'
  <2>1. SameShape(tcb, tcb')
    BY <1>1, <1>4, ShapeAlike
  <2>2. pkt # Idle => pkt.i \in DOMAIN tcb
    BY <1>1 DEF PktInv
  <2>3. Len(tcb') = Len(tcb) /\ \A j \in DOMAIN tcb : /\ tcb'[j].peer = tcb[j].peer /\ tcb'[j].fd = tcb[j].fd
                                                       /\ tcb'[j].status = tcb[j].status
    BY <2>1 DEF SameShape
  <2> QED
    BY <1>3, <1>4, <2>2, <2>3 DEF Closed
<1>5. CASE PeerStep \/ arp_request_timer_cb
  BY <1>4, <1>5, PeersKeep
<1>6. CASE ArpReply \/ udp_process \/ ng_tcp_handle_close_wait \/ LastAck \/ Listening
  BY <1>2, <1>6 DEF ArpReply, udp_process, ng_tcp_handle_close_wait, LastAck, Listening, Arrives, Reads
<1>7. CASE SynReceived
  <2>1. app' = app /\ Arrives("SYN_RCVD")
    BY <1>7 DEF SynReceived, Arrives
  <2>2. PICK p, i : p = Head(ringIn) /\ i = ng_tcp_stream_search(tcb, p.from)
    OBVIOUS
  <2>3. i \in DOMAIN tcb /\ i < Len(tcb) /\ tcb[i].peer = p.from
    BY <2>1, <2>2, Arrival
  <2>4. \/ pkt' = Idle
        \/ /\ At(tcb, tcb', i, tcb[i].fd, "ESTABLISHED", tcb[i].rcvbuf) /\ app = "epoll"
           /\ pkt' = [at |-> "find", i |-> i, fd |-> ListenFd, p |-> p, todo |-> <<>>]
    BY <1>7, <2>2, SynReceivedStep
  <2>5. CASE pkt' # Idle
    <3>1. Len(tcb') = Len(tcb) /\ tcb'[i].peer = p.from /\ app' = "epoll"
      BY <2>1, <2>3, <2>4, <2>5 DEF At
    <3>2. /\ pkt'.at = "find" /\ pkt'.i = i /\ pkt'.fd = ListenFd /\ pkt'.p = p /\ pkt'.todo = <<>>
      BY <2>4, <2>5
    <3>3. <<>> # <<"PSH", "FIN">> /\ <<>> # <<"FIN">>
      OBVIOUS
    <3> QED
      BY <1>1, <2>3, <3>1, <3>2, <3>3 DEF PktInv
  <2> QED
    BY <1>2, <2>1, <2>5
<1>8. \A x \in {<<"PSH">>, <<"FIN">>, <<"PSH", "FIN">>} : x # <<>>
  OBVIOUS
<1>9. <<"PSH">> # <<"PSH", "FIN">> /\ <<"FIN">> # <<"PSH", "FIN">> /\ <<"PSH">> # <<"FIN">>
  <2>1. <<"PSH">>[1] # <<"FIN">>[1] /\ Len(<<"PSH">>) = 1 /\ Len(<<"FIN">>) = 1 /\ Len(<<"PSH", "FIN">>) = 2
    OBVIOUS
  <2> QED
    BY <2>1
<1>10. ASSUME NEW i \in DOMAIN tcb, i < Len(tcb), NEW p, tcb[i].peer = p.from, NEW st, NEW r, st # "LAST_ACK",
              At(tcb, tcb', i, tcb[i].fd, st, r), app' = app, app # "single",
              NEW todo \in {<<"PSH">>, <<"FIN">>, <<"PSH", "FIN">>},
              todo # <<"PSH">> => "FIN" \in p.flags, todo = <<"PSH", "FIN">> => st = "ESTABLISHED",
              pkt'.at = IF app = "epoll" THEN "find" ELSE "ack",
              pkt'.i = i, pkt'.fd = tcb[i].fd, pkt'.p = p, pkt'.todo = todo
       PROVE  PktInv'
  <2>1. Len(tcb') = Len(tcb) /\ tcb'[i].peer = p.from /\ tcb'[i].fd = tcb[i].fd /\ tcb'[i].status = st
    BY <1>10 DEF At
  <2>2. todo # <<>> /\ (todo \in {<<"FIN">>, <<"PSH", "FIN">>} => "FIN" \in p.flags)
    BY <1>8, <1>9, <1>10
  <2>3. i \in 1 .. Len(tcb') - 1
    BY <1>1, <1>10, <2>1
  <2>4. pkt'.at \in {"idle", "ack"} \/ app' = "epoll"
    BY <1>10
  <2>5. pkt'.at \in {"find", "push"} => pkt'.fd = tcb'[i].fd /\ tcb'[i].status # "LAST_ACK"
    BY <1>10, <2>1
  <2>6. todo = <<"PSH", "FIN">> => tcb'[i].status = "ESTABLISHED"
    BY <1>10, <2>1
  <2>7. /\ app' # "single" /\ pkt'.i = i /\ pkt'.p = p /\ pkt'.todo = todo
    BY <1>10
  <2> QED
    BY <2>1, <2>2, <2>3, <2>4, <2>5, <2>6, <2>7 DEF PktInv, Closed
<1>11. CASE Established
  <2>1. app' = app /\ Arrives("ESTABLISHED")
    BY <1>11 DEF Established, Arrives
  <2>2. PICK p, i : p = Head(ringIn) /\ i = ng_tcp_stream_search(tcb, p.from)
    OBVIOUS
  <2>3. i \in DOMAIN tcb /\ i < Len(tcb) /\ tcb[i].peer = p.from /\ app # "single"
    BY <2>1, <2>2, Arrival
  <2>4. CASE tcb' = tcb /\ pkt' = pkt
    BY <1>4, <2>1, <2>4
  <2>5. CASE ~(tcb' = tcb /\ pkt' = pkt)
    <3>1. PICK todo \in {<<"PSH">>, <<"FIN">>, <<"PSH", "FIN">>} :
            /\ todo # <<"PSH">> => "FIN" \in p.flags
            /\ \E st \in {"ESTABLISHED", "CLOSE_WAIT"} : \E r :
                 At(tcb, tcb', i, tcb[i].fd, st, r) /\ (todo = <<"PSH", "FIN">> => st = "ESTABLISHED")
            /\ pkt' = [at |-> IF app = "epoll" THEN "find" ELSE "ack", i |-> i, fd |-> tcb[i].fd, p |-> p, todo |-> todo]
      BY <1>9, <1>11, <2>2, <2>5, EstablishedStep
    <3>2. PICK st, r :
                 /\ st \in {"ESTABLISHED", "CLOSE_WAIT"}
                 /\ At(tcb, tcb', i, tcb[i].fd, st, r) /\ (todo = <<"PSH", "FIN">> => st = "ESTABLISHED")
      BY <3>1
    <3>3. /\ pkt'.at = IF app = "epoll" THEN "find" ELSE "ack"
          /\ pkt'.i = i /\ pkt'.fd = tcb[i].fd /\ pkt'.p = p /\ pkt'.todo = todo
      BY <3>1
    <3>4. todo # <<"PSH">> => "FIN" \in p.flags
      BY <3>1
    <3> QED
      BY <1>10, <2>1, <2>3, <3>2, <3>3, <3>4
  <2> QED
    BY <2>4, <2>5
<1>12. CASE Acknowledges
  <2>1. app' = app /\ pkt # Idle
    BY <1>12, AcknowledgesStep DEF Acknowledges
  <2>2. CASE pkt' = Idle
    BY <1>2, <2>1, <2>2
  <2>3. CASE pkt' # Idle
    <3>1. PICK i : i = pkt.i
      OBVIOUS
    <3>2. /\ pkt.todo = <<"PSH", "FIN">>
          /\ At(tcb, tcb', i, tcb[i].fd, "CLOSE_WAIT", Append(tcb[i].rcvbuf, <<>>))
          /\ pkt' = [pkt EXCEPT !.at = IF app = "epoll" THEN "find" ELSE "ack",
                                !.fd = tcb[i].fd, !.todo = <<"FIN">>]
      BY <1>12, <2>3, <3>1, AcknowledgesStep
    <3>3. pkt \in Works
      BY <2>1 DEF TypeOK
    <3>4. i \in DOMAIN tcb /\ i < Len(tcb) /\ tcb[i].peer = pkt.p.from /\ app # "single" /\ "FIN" \in pkt.p.flags
      BY <1>1, <2>1, <3>1, <3>2 DEF PktInv
    <3>5. /\ pkt'.at = IF app = "epoll" THEN "find" ELSE "ack"
          /\ pkt'.i = i /\ pkt'.fd = tcb[i].fd /\ pkt'.p = pkt.p /\ pkt'.todo = <<"FIN">>
      BY <3>1, <3>2, <3>3 DEF Works
    <3>6. PICK p, r : p = pkt.p /\ r = Append(tcb[i].rcvbuf, <<>>)
      OBVIOUS
    <3> QED
      BY <1>9, <1>10, <2>1, <3>2, <3>4, <3>5, <3>6
  <2> QED
    BY <2>2, <2>3
<1>13. CASE SendPass
  <2>1. pkt' = pkt /\ app' = app
    BY <1>13 DEF SendPass
  <2> QED
    BY <1>4, <1>13, <2>1, SendPassStep
<1>14. CASE SingleLoop
  <2>1. pkt' = pkt /\ app' = app /\ app = "single"
    BY <1>14 DEF SingleLoop
  <2> QED
    BY <1>2, <2>1 DEF PktInv
<1>15. ASSUME pkt.at \in {"find", "push"}, app' = app, tcb' = tcb, NEW at \in {"push", "ack"},
              at = "ack" => pkt.todo # <<>>, at = "push" => app = "epoll", pkt' = [pkt EXCEPT !.at = at]
       PROVE  PktInv'
  <2>1. pkt # Idle /\ pkt \in Works
    BY <1>15 DEF TypeOK, Idle
  <2>2. pkt'.at = at /\ pkt'.i = pkt.i /\ pkt'.fd = pkt.fd /\ pkt'.p = pkt.p /\ pkt'.todo = pkt.todo
    BY <1>15, <2>1 DEF Works
  <2> QED
    BY <1>15, <2>1, <2>2 DEF PktInv, Closed
<1>16. CASE FindItem
  <2>1. pkt.at = "find" /\ app' = app /\ tcb' = tcb
    BY <1>16 DEF FindItem, stack
  <2>2. app = "epoll"
    BY <2>1 DEF PktInv
  <2>3. \/ pkt' = Idle
        \/ pkt' = [pkt EXCEPT !.at = "push"]
        \/ pkt' = [pkt EXCEPT !.at = "ack"] /\ pkt.todo # <<>>
    BY <1>16 DEF FindItem, After
  <2> QED
    BY <1>2, <1>15, <2>1, <2>2, <2>3
<1>17. CASE PushItem
  <2>1. pkt.at = "push" /\ app' = app /\ tcb' = tcb
    BY <1>17 DEF PushItem, stack
  <2>2. pkt' = Idle \/ (pkt' = [pkt EXCEPT !.at = "ack"] /\ pkt.todo # <<>>)
    BY <1>17 DEF PushItem, After
  <2> QED
    BY <1>2, <1>15, <2>1, <2>2
<1>18. CASE nepoll_wait \/ NextEvent \/ CtlAdd \/ CtlDel \/ CallRecv \/ nrecvfrom \/ nsendto
  BY <1>4, <1>18 DEF nepoll_wait, NextEvent, CtlAdd, CtlDel, CallRecv, nrecvfrom, nsendto, stack
<1>19. pkt # Idle => pkt.i \in DOMAIN tcb
  BY <1>1 DEF PktInv
<1>20. CASE naccept
  <2>1. pkt' = pkt /\ app' = app
    BY <1>20 DEF naccept
  <2>2. PICK i, fd : i = get_accept_tcb(tcb) /\ fd = get_fd_frombitmap(fds)
    OBVIOUS
  <2>3. i \in DOMAIN tcb /\ At(tcb, tcb', i, fd, tcb[i].status, tcb[i].rcvbuf) /\ tcb[i].fd = NoFd
    BY <1>20, <2>2, NacceptStep
  <2>4. CASE pkt # Idle /\ pkt.i = i
    BY <1>3, <2>1, <2>3, <2>4 DEF At
  <2>5. CASE ~(pkt # Idle /\ pkt.i = i)
    <3>1. Len(tcb') = Len(tcb) /\ (pkt # Idle => tcb'[pkt.i] = tcb[pkt.i])
      BY <1>19, <2>3, <2>5 DEF At
    <3> QED
      BY <1>3, <2>1, <3>1 DEF Closed
  <2> QED
    BY <2>4, <2>5
<1>21. CASE ReceiveFragment
  <2>1. pkt' = pkt /\ app' = app
    BY <1>21 DEF ReceiveFragment
  <2>2. PICK i : i = Waited
    OBVIOUS
  <2>3. i \in DOMAIN tcb /\ i < Len(tcb) /\ \E r : At(tcb, tcb', i, tcb[i].fd, tcb[i].status, r)
    BY <1>21, <2>2, ReceiveStep
  <2>4. SameShape(tcb, tcb')
    BY <1>1, <2>3, ShapeAt
  <2>5. Len(tcb') = Len(tcb) /\ \A j \in DOMAIN tcb : /\ tcb'[j].peer = tcb[j].peer /\ tcb'[j].fd = tcb[j].fd
                                                       /\ tcb'[j].status = tcb[j].status
    BY <2>4 DEF SameShape
  <2> QED
    BY <1>3, <1>19, <2>1, <2>5 DEF Closed
<1>22. CASE Echo
  <2>1. pkt' = pkt /\ app' = app
    BY <1>22 DEF Echo
  <2> QED
    BY <1>4, <1>22, <2>1, EchoStep
<1>23. CASE Close
  <2>1. pkt' = pkt /\ app' = app
    BY <1>23 DEF Close
  <2>2. PICK i \in DOMAIN tcb :
           /\ svr.at = "close" /\ tcb[i].fd = svr.fd /\ tcb[i].status = "CLOSE_WAIT"
           /\ At(tcb, tcb', i, tcb[i].fd, "LAST_ACK", tcb[i].rcvbuf)
    BY <1>23, CloseStep
  <2>3. pkt.at \in {"find", "push"} => pkt.fd # svr.fd
    <3> SUFFICES ASSUME pkt.at \in {"find", "push"}, pkt.fd = svr.fd PROVE FALSE
      OBVIOUS
    <3>1. app = "epoll"
      BY DEF PktInv
    <3>2. Pending(pkt, rdlist, svr.evs, svr.fd) = 0
      BY <2>2, <3>1 DEF QueueInv, EpollInv
    <3>3. \A x : B(x) \in {0, 1}
      BY DEF B
    <3>4. B(pkt.at \in {"find", "push"} /\ pkt.fd = svr.fd) = 1
      BY DEF B
    <3> QED
      BY <3>2, <3>3, <3>4 DEF Pending
  <2>4. CASE pkt # Idle /\ pkt.i = i
    <3>1. Len(tcb') = Len(tcb) /\ tcb'[pkt.i].peer = tcb[pkt.i].peer
      BY <2>2, <2>4 DEF At
    <3> QED
      BY <1>3, <2>1, <2>2, <2>3, <2>4, <3>1
  <2>5. CASE ~(pkt # Idle /\ pkt.i = i)
    <3>1. Len(tcb') = Len(tcb) /\ (pkt # Idle => tcb'[pkt.i] = tcb[pkt.i])
      BY <1>19, <2>2, <2>5 DEF At
    <3> QED
      BY <1>3, <2>1, <3>1 DEF Closed
  <2> QED
    BY <2>4, <2>5
<1> QED
  BY <1>5, <1>6, <1>7, <1>11, <1>12, <1>13, <1>14, <1>16, <1>17, <1>18, <1>20, <1>21, <1>22, <1>23
     DEF Next, PacketThread, ServerThread

-----------------------------------------------------------------------------
(* SvrInv is preserved. *)

\* The packet thread advances statuses: what the server holds stays valid.
LEMMA SvrKept ==
  ASSUME TypeOK, SvrInv, svr' = svr, app' = app, Len(tcb') = Len(tcb), DOMAIN tcb' = DOMAIN tcb,
         \A j \in DOMAIN tcb :
           /\ tcb'[j].peer = tcb[j].peer /\ tcb'[j].fd = tcb[j].fd
           /\ tcb'[j].status = "LAST_ACK" => tcb[j].status = "LAST_ACK"
           /\ tcb[j].status = "CLOSE_WAIT" => tcb'[j].status = "CLOSE_WAIT"
  PROVE  SvrInv'
<1>1. \A j \in DOMAIN tcb : \A fd : Leads(tcb, j, fd) => Leads(tcb', j, fd)
  BY DEF Leads
<1>2. app = "serial" /\ svr.at \in {"call", "recv", "send"} =>
        Len(tcb') = 2 /\ tcb'[1].fd = svr.fd /\ ~Closed(1)' /\ (svr.at = "recv" => tcb'[1].peer = svr.on)
  <2> SUFFICES ASSUME app = "serial" /\ svr.at \in {"call", "recv", "send"}
               PROVE  Len(tcb') = 2 /\ tcb'[1].fd = svr.fd /\ ~Closed(1)' /\ (svr.at = "recv" => tcb'[1].peer = svr.on)
    OBVIOUS
  <2>1. Len(tcb) = 2 /\ tcb[1].fd = svr.fd /\ ~Closed(1) /\ (svr.at = "recv" => tcb[1].peer = svr.on)
    BY DEF SvrInv
  <2>2. 1 \in DOMAIN tcb
    BY <2>1 DEF TypeOK
  <2> QED
    BY <2>1, <2>2 DEF Closed
<1>3. svr.at = "recv" => \A i \in DOMAIN tcb' : tcb'[i].peer = svr.on => Leads(tcb', i, svr.fd)
  BY <1>1 DEF SvrInv
<1>4. svr.at \in {"del", "close"} =>
        \E i \in DOMAIN tcb' : tcb'[i].peer = svr.on /\ tcb'[i].status = "CLOSE_WAIT" /\ Leads(tcb', i, svr.fd)
  BY <1>1 DEF SvrInv
<1> QED
  BY <1>2, <1>3, <1>4 DEF SvrInv

\* A new connection has no descriptor, and its peer is not one the server
\* still waits for: in the event-driven server no peer connects twice.
LEMMA SvrListening ==
  ASSUME TypeOK, TableInv, SvrInv, QueueInv, Listening
  PROVE  SvrInv'
<1>1. svr' = svr /\ app' = app /\ Arrives("LISTEN")
  BY DEF Listening, Arrives
<1>2. PICK p : p = Head(ringIn)
  OBVIOUS
<1>3. p \in TcpPackets /\ app # "single" /\ ringIn # <<>>
  BY <1>1, <1>2, Arrival
<1>4. CASE tcb' = tcb
  BY <1>1, <1>4, SvrKept
<1>5. CASE tcb' # tcb
  <2>1. PICK s \in Streams :
          /\ s.peer = p.from /\ s.fd = NoFd /\ Pushed(tcb, tcb', s) /\ "SYN" \in p.flags /\ Gone(p.from)
          /\ app = "serial" => Len(tcb) <= 1
    BY <1>2, <1>5, ListeningStep
  <2>2. svr.at \in {"call", "recv", "send"} => app # "serial"
    <3> SUFFICES ASSUME svr.at \in {"call", "recv", "send"}, app = "serial" PROVE FALSE
      OBVIOUS
    <3>1. Len(tcb) = 2
      BY DEF SvrInv
    <3> QED
      BY <2>1, <3>1
  <2>3. svr.at = "recv" => s.peer # svr.on
    <3> SUFFICES ASSUME svr.at = "recv", p.from = svr.on PROVE FALSE
      BY <2>1
    <3>1. app = "epoll"
      BY <1>3, <2>2 DEF SvrInv, TypeOK
    <3>2. FinTaken(p.from)
      BY <2>1 DEF FinTaken
    <3>3. p = ringIn[1] /\ 1 \in DOMAIN ringIn /\ p.kind = "tcp" /\ p.from \in Peer
      BY <1>2, <1>3, HeadPacket DEF TcpPackets
    <3>4. From(ringIn[1], p.from, "SYN")
      BY <2>1, <3>3 DEF From
    <3> QED
      BY <3>1, <3>2, <3>3, <3>4 DEF QueueInv, ConnectsOnce
  <2>4. PICK n : n = Len(tcb)
    OBVIOUS
  <2>5. n \in Nat /\ DOMAIN tcb = 1 .. n /\ DOMAIN tcb' = 1 .. n + 1
    BY <2>1, <2>4 DEF TypeOK, Pushed
  <2>6. /\ tcb'[1] = s /\ \A k \in 1 .. n + 1 : k # 1 => k - 1 \in 1 .. n /\ tcb'[k] = tcb[k - 1]
        /\ \A j \in 1 .. n : tcb'[j + 1] = tcb[j]
    BY <2>1, <2>5 DEF Pushed
  <2>7. ASSUME NEW j \in 1 .. n, NEW fd, fd # NoFd, Leads(tcb, j, fd)
        PROVE  Leads(tcb', j + 1, fd)
    <3>1. tcb'[j + 1].fd = fd
      BY <2>6, <2>7 DEF Leads
    <3>2. ASSUME NEW k \in 1 .. n + 1, tcb'[k].fd = fd PROVE j + 1 <= k
      <4>1. k # 1
        BY <2>1, <2>6, <2>7, <3>2
      <4>2. k - 1 \in 1 .. n /\ tcb[k - 1].fd = fd
        BY <2>6, <3>2, <4>1
      <4>3. j <= k - 1
        BY <2>5, <2>7, <4>2 DEF Leads
      <4> QED
        BY <2>5, <3>2, <4>3
    <3> QED
      BY <2>5, <3>1, <3>2 DEF Leads
  <2>8. svr.at \in {"recv", "del", "close"} => svr.fd # NoFd
    BY DEF SvrInv
  <2>9. svr.at = "recv" => \A k \in DOMAIN tcb' : tcb'[k].peer = svr.on => Leads(tcb', k, svr.fd)
    <3> SUFFICES ASSUME svr.at = "recv", NEW k \in 1 .. n + 1, tcb'[k].peer = svr.on
                 PROVE  Leads(tcb', k, svr.fd)
      BY <2>5
    <3>1. k # 1
      BY <2>3, <2>6
    <3>2. PICK j : j = k - 1
      OBVIOUS
    <3>3. j \in 1 .. n /\ tcb[j].peer = svr.on /\ k = j + 1
      BY <2>5, <2>6, <3>1, <3>2
    <3>4. Leads(tcb, j, svr.fd)
      BY <2>5, <3>3 DEF SvrInv
    <3> QED
      BY <2>7, <2>8, <3>3, <3>4
  <2>10. svr.at \in {"del", "close"} =>
           \E k \in DOMAIN tcb' : tcb'[k].peer = svr.on /\ tcb'[k].status = "CLOSE_WAIT" /\ Leads(tcb', k, svr.fd)
    <3> SUFFICES ASSUME svr.at \in {"del", "close"}
                 PROVE  \E k \in 1 .. n + 1 : tcb'[k].peer = svr.on /\ tcb'[k].status = "CLOSE_WAIT" /\ Leads(tcb', k, svr.fd)
      BY <2>5
    <3>1. PICK j \in 1 .. n : tcb[j].peer = svr.on /\ tcb[j].status = "CLOSE_WAIT" /\ Leads(tcb, j, svr.fd)
      BY <2>5 DEF SvrInv
    <3>2. j + 1 \in 1 .. n + 1 /\ tcb'[j + 1] = tcb[j] /\ Leads(tcb', j + 1, svr.fd)
      BY <2>5, <2>6, <2>7, <2>8, <3>1
    <3> QED
      BY <3>1, <3>2
  <2> QED
    BY <1>1, <2>2, <2>9, <2>10 DEF SvrInv
<1> QED
  BY <1>4, <1>5

\* Only a closed connection is freed: it is not the one the server is about
\* to close, and the one it waits on may be gone but not another.
LEMMA SvrLastAck ==
  ASSUME TypeOK, TableInv, SvrInv, LastAck
  PROVE  SvrInv'
<1>1. svr' = svr /\ app' = app /\ Arrives("LAST_ACK")
  BY DEF LastAck, Arrives
<1>2. PICK i : i = ng_tcp_stream_search(tcb, Head(ringIn).from)
  OBVIOUS
<1>3. i \in DOMAIN tcb /\ i < Len(tcb) /\ tcb[i].status = "LAST_ACK"
  BY <1>1, <1>2, Arrival
<1>4. CASE tcb' = tcb
  BY <1>1, <1>4, SvrKept
<1>5. CASE Removed(tcb, tcb', i)
  <2>1. PICK n : n = Len(tcb)
    OBVIOUS
  <2>2. n \in Nat /\ DOMAIN tcb = 1 .. n /\ DOMAIN tcb' = 1 .. n - 1 /\ i \in 1 .. n - 1
    BY <1>3, <1>5, <2>1 DEF TypeOK, Removed
  <2>3. PICK m : m = [k \in 1 .. n - 1 |-> IF k < i THEN k ELSE k + 1]
    OBVIOUS
  <2>4. \A k \in 1 .. n - 1 : m[k] \in 1 .. n /\ tcb'[k] = tcb[m[k]] /\ m[k] # i
    <3>1. \A k \in 1 .. n - 1 : m[k] \in 1 .. n /\ m[k] # i
      BY <2>2, <2>3
    <3>2. \A k \in 1 .. n - 1 : tcb'[k] = tcb[m[k]]
      BY <1>5, <2>2, <2>3 DEF Removed
    <3> QED
      BY <3>1, <3>2
  <2>5. \A j, k \in 1 .. n - 1 : m[j] <= m[k] => j <= k
    BY <2>2, <2>3
  <2>6. \A j \in 1 .. n : j # i => \E k \in 1 .. n - 1 : m[k] = j
    <3> SUFFICES ASSUME NEW j \in 1 .. n, j # i PROVE \E k \in 1 .. n - 1 : m[k] = j
      OBVIOUS
    <3>1. CASE j < i
      BY <2>2, <2>3, <3>1
    <3>2. CASE j > i
      <4>1. j - 1 \in 1 .. n - 1 /\ m[j - 1] = j
        BY <2>2, <2>3, <3>2
      <4> QED
        BY <4>1
    <3> QED
      BY <2>2, <3>1, <3>2
  <2>7. ASSUME NEW k \in 1 .. n - 1, NEW fd, Leads(tcb, m[k], fd)
        PROVE  Leads(tcb', k, fd)
    BY <2>2, <2>4, <2>5, <2>7 DEF Leads
  <2>8. app = "serial" => svr.at \notin {"call", "recv", "send"}
    <3> SUFFICES ASSUME app = "serial", svr.at \in {"call", "recv", "send"} PROVE FALSE
      OBVIOUS
    <3>1. n = 2 /\ ~Closed(1)
      BY <2>1 DEF SvrInv
    <3> QED
      BY <1>3, <2>2, <3>1 DEF Closed
  <2>9. svr.at = "recv" => \A k \in DOMAIN tcb' : tcb'[k].peer = svr.on => Leads(tcb', k, svr.fd)
    BY <2>2, <2>4, <2>7 DEF SvrInv
  <2>10. svr.at \in {"del", "close"} =>
           \E k \in DOMAIN tcb' : tcb'[k].peer = svr.on /\ tcb'[k].status = "CLOSE_WAIT" /\ Leads(tcb', k, svr.fd)
    <3> SUFFICES ASSUME svr.at \in {"del", "close"}
                 PROVE  \E k \in 1 .. n - 1 : tcb'[k].peer = svr.on /\ tcb'[k].status = "CLOSE_WAIT" /\ Leads(tcb', k, svr.fd)
      BY <2>2
    <3>1. PICK j \in 1 .. n : tcb[j].peer = svr.on /\ tcb[j].status = "CLOSE_WAIT" /\ Leads(tcb, j, svr.fd)
      BY <2>2 DEF SvrInv
    <3>2. PICK k \in 1 .. n - 1 : m[k] = j
      BY <1>3, <2>6, <3>1
    <3> QED
      BY <2>4, <2>7, <3>1, <3>2
  <2> QED
    BY <1>1, <2>8, <2>9, <2>10 DEF SvrInv
<1> QED
  BY <1>2, <1>4, <1>5, LastAckStep

\* A step of the server leaves it at a call that its descriptor allows.
LEMMA SvrServer ==
  ASSUME TypeOK, TableInv, RingEnds, SvrInv, QueueInv, ServerThread
  PROVE  SvrInv'
<1>1. svr \in ServerStates /\ app' = app
  BY DEF TypeOK, ServerThread, nepoll_wait, NextEvent, CtlAdd, CtlDel, naccept, CallRecv, ReceiveFragment, Echo,
         Close, nrecvfrom, nsendto, stack
<1>2. tcb \in Seq(Streams) /\ Len(tcb) \in Nat /\ DOMAIN tcb = 1 .. Len(tcb)
  BY DEF TypeOK
<1>3. CASE nepoll_wait
  <2>1. svr'.at = "next" /\ svr.at = "next"
    BY <1>1, <1>3 DEF nepoll_wait, ServerStates
  <2> QED
    BY <1>1, <2>1 DEF SvrInv
<1>4. CASE NextEvent
  <2>1. tcb' = tcb
    BY <1>4 DEF NextEvent, stack
  <2>2. PICK fd : fd = Head(svr.evs)
    OBVIOUS
  <2>3. svr.at = "next" /\ app = "epoll" /\ fd # NoFd
    BY <1>4, <2>2, NextEventStep
  <2>4. CASE fd = ListenFd
    <3>1. svr'.at = "accept"
      BY <1>1, <1>4, <2>2, <2>4, NextEventStep DEF ServerStates
    <3> QED
      BY <1>1, <2>3, <3>1 DEF SvrInv
  <2>5. CASE fd # ListenFd
    <3>1. PICK i \in DOMAIN tcb :
            /\ tcb[i].peer \in Peer /\ Leads(tcb, i, fd)
            /\ svr' = [svr EXCEPT !.at = "recv", !.evs = Tail(@), !.fd = fd, !.on = tcb[i].peer]
      BY <1>4, <2>2, <2>5, NextEventStep
    <3>2. svr'.at = "recv" /\ svr'.fd = fd /\ svr'.on = tcb[i].peer
      BY <1>1, <3>1 DEF ServerStates
    <3>3. \A j \in DOMAIN tcb : tcb[j].peer = tcb[i].peer => Leads(tcb, j, fd)
      BY <3>1 DEF TableInv
    <3>4. \A j \in DOMAIN tcb : Leads(tcb, j, fd) => Leads(tcb', j, fd)
      BY <2>1 DEF Leads
    <3> QED
      BY <1>1, <2>1, <2>3, <2>5, <3>1, <3>2, <3>3, <3>4 DEF SvrInv
  <2> QED
    BY <2>4, <2>5
<1>5. CASE CtlAdd
  <2>1. svr'.at = "next" /\ svr.at = "add"
    BY <1>1, <1>5 DEF CtlAdd, ServerStates
  <2> QED
    BY <1>1, <2>1 DEF SvrInv
<1>6. CASE CtlDel
  <2>1. svr'.at = "close" /\ svr.at = "del" /\ svr'.fd = svr.fd /\ svr'.on = svr.on /\ tcb' = tcb
    BY <1>1, <1>6 DEF CtlDel, ServerStates
  <2>2. \A j \in DOMAIN tcb : Leads(tcb, j, svr.fd) => Leads(tcb', j, svr.fd)
    BY <2>1 DEF Leads
  <2> QED
    BY <1>1, <2>1, <2>2 DEF SvrInv
<1>7. CASE naccept
  <2>1. PICK i, fd : i = get_accept_tcb(tcb) /\ fd = get_fd_frombitmap(fds)
    OBVIOUS
  <2>2. /\ i \in DOMAIN tcb /\ i < Len(tcb) /\ tcb[i].fd = NoFd /\ svr.at = "accept"
        /\ fd \notin fds /\ fd # NoFd
        /\ At(tcb, tcb', i, fd, tcb[i].status, tcb[i].rcvbuf)
        /\ svr' = [svr EXCEPT !.at = IF app = "epoll" THEN "add" ELSE "call", !.fd = fd]
    BY <1>7, <2>1, NacceptStep
  <2>3. fd # ListenFd
    <3>1. Len(tcb) \in DOMAIN tcb
      BY <1>2 DEF TableInv
    <3> QED
      BY <2>2, <3>1 DEF TableInv, NoFd, ListenFd
  <2>4. svr'.at = (IF app = "epoll" THEN "add" ELSE "call") /\ svr'.fd = fd
    BY <1>1, <2>2 DEF ServerStates
  <2>5. app \in {"serial", "epoll"}
    BY <2>2 DEF SvrInv, TypeOK
  <2>6. app = "serial" => Len(tcb') = 2 /\ tcb'[1].fd = fd /\ ~Closed(1)'
    <3> SUFFICES ASSUME app = "serial" PROVE Len(tcb') = 2 /\ tcb'[1].fd = fd /\ ~Closed(1)'
      OBVIOUS
    <3>1. Len(tcb) <= 2
      BY DEF TableInv
    <3>2. Len(tcb) = 2 /\ i = 1
      BY <1>2, <2>2, <3>1
    <3>3. tcb[1].status # "LAST_ACK"
      BY <2>2, <3>2 DEF TableInv, Closed
    <3> QED
      BY <2>2, <3>2, <3>3 DEF At, Closed
  <2> QED
    BY <1>1, <2>2, <2>3, <2>4, <2>5, <2>6 DEF SvrInv
<1>8. CASE CallRecv
  <2>1. svr.at = "call" /\ app = "serial" /\ tcb' = tcb
    BY <1>8 DEF CallRecv, SvrInv, stack
  <2>2. Len(tcb) = 2 /\ tcb[1].fd = svr.fd /\ ~Closed(1) /\ svr.fd \notin {NoFd, ListenFd}
    BY <2>1 DEF SvrInv
  <2>3. PICK i : i = get_hostinfo_fromfd(tcb, svr.fd)
    OBVIOUS
  <2>4. 1 \in DOMAIN tcb /\ DOMAIN tcb = {1, 2}
    BY <1>2, <2>2
  <2>5. i \in DOMAIN tcb /\ i <= 1 /\ \A j \in DOMAIN tcb : tcb[j].fd = svr.fd => i <= j
    BY <1>2, <2>2, <2>3, <2>4, HostInfo
  <2>6. i = 1
    BY <2>4, <2>5
  <2>7. svr'.at = "recv" /\ svr'.fd = svr.fd /\ svr'.on = tcb[1].peer
    BY <1>1, <1>8, <2>3, <2>6 DEF CallRecv, ServerStates
  <2>8. tcb[1].peer \in Peer
    <3>1. tcb[1] \in Streams
      BY <1>2, <2>4
    <3>2. tcb[1].peer \in Peer \union {NoPeer}
      BY <3>1 DEF Streams
    <3>3. tcb[1].peer # NoPeer
      BY <2>2, <2>4 DEF TableInv
    <3> QED
      BY <3>2, <3>3
  <2>9. \A j \in DOMAIN tcb : tcb[j].peer = tcb[1].peer => j = 1
    BY <2>4 DEF TableInv
  <2>10. Leads(tcb', 1, svr.fd)
    BY <2>1, <2>2, <2>5, <2>6 DEF Leads
  <2>11. \A j \in DOMAIN tcb' : tcb'[j].peer = svr'.on => Leads(tcb', j, svr'.fd)
    BY <2>1, <2>7, <2>9, <2>10
  <2>12. ~Closed(1)'
    BY <2>1, <2>2 DEF Closed
  <2> QED
    BY <1>1, <2>1, <2>2, <2>7, <2>8, <2>11, <2>12 DEF SvrInv
<1>9. CASE ReceiveFragment
  <2>1. PICK i, r : i = Waited /\ r = nrecv(tcb[Waited].rcvbuf)
    OBVIOUS
  <2>2. /\ i \in DOMAIN tcb /\ i < Len(tcb) /\ tcb[i].peer = svr.on /\ svr.at = "recv"
        /\ tcb[i].rcvbuf \in Seq(Data) /\ tcb[i].rcvbuf # <<>>
        /\ r.data = <<>> <=> tcb[i].rcvbuf[1] = <<>>
        /\ At(tcb, tcb', i, tcb[i].fd, tcb[i].status, r.ring)
        /\ svr' = [svr EXCEPT !.data = r.data,
                     !.at = IF r.data # <<>> THEN "send"
                            ELSE IF app = "epoll" THEN "del" ELSE "close"]
    BY <1>9, <2>1, ReceiveStep
  <2>3. /\ svr'.fd = svr.fd /\ svr'.on = svr.on
        /\ svr'.at = IF r.data # <<>> THEN "send" ELSE IF app = "epoll" THEN "del" ELSE "close"
    BY <1>1, <2>2 DEF ServerStates
  <2>4. SameShape(tcb, tcb')
    BY <1>2, <2>2, ShapeAt
  <2>5. \A j \in DOMAIN tcb : \A fd : Leads(tcb, j, fd) => Leads(tcb', j, fd)
    BY <2>4 DEF Leads, SameShape
  <2>6. app \in {"serial", "epoll"} /\ svr.fd \notin {NoFd, ListenFd} /\ svr.on \in Peer
    BY <2>2 DEF SvrInv, TypeOK
  <2>7. r.data = <<>> => \E k \in DOMAIN tcb' :
           tcb'[k].peer = svr.on /\ tcb'[k].status = "CLOSE_WAIT" /\ Leads(tcb', k, svr.fd)
    <3> SUFFICES ASSUME r.data = <<>>
                 PROVE  i \in DOMAIN tcb' /\ tcb'[i].peer = svr.on /\ tcb'[i].status = "CLOSE_WAIT" /\ Leads(tcb', i, svr.fd)
      OBVIOUS
    <3>1. 1 \in DOMAIN tcb[i].rcvbuf /\ tcb[i].rcvbuf[1] = <<>>
      BY <2>2
    <3>2. tcb[i].status = "CLOSE_WAIT"
      BY <2>2, <3>1 DEF RingEnds, Ends
    <3>3. Leads(tcb, i, svr.fd)
      BY <2>2 DEF SvrInv
    <3> QED
      BY <2>2, <2>4, <2>5, <3>2, <3>3 DEF SameShape
  <2>8. app = "serial" => Len(tcb') = 2 /\ tcb'[1].fd = svr.fd /\ ~Closed(1)'
    <3> SUFFICES ASSUME app = "serial" PROVE Len(tcb') = 2 /\ tcb'[1].fd = svr.fd /\ ~Closed(1)'
      OBVIOUS
    <3>1. Len(tcb) = 2 /\ tcb[1].fd = svr.fd /\ ~Closed(1)
      BY <2>2 DEF SvrInv
    <3>2. 1 \in DOMAIN tcb
      BY <1>2, <3>1
    <3> QED
      BY <2>4, <3>1, <3>2 DEF SameShape, Closed
  <2> QED
    BY <1>1, <2>3, <2>6, <2>7, <2>8 DEF SvrInv
<1>10. CASE Echo
  <2>1. svr.at = "send" /\ (tcb' = tcb \/ Alike(tcb, tcb'))
    BY <1>10, EchoStep
  <2>2. svr'.at = (IF app = "epoll" THEN "next" ELSE "call") /\ svr'.fd = svr.fd
    BY <1>1, <1>10, EchoStep DEF ServerStates
  <2>3. app \in {"serial", "epoll"} /\ svr.fd \notin {NoFd, ListenFd}
    BY <2>1 DEF SvrInv, TypeOK
  <2>4. app = "serial" => Len(tcb') = 2 /\ tcb'[1].fd = svr.fd /\ ~Closed(1)'
    <3> SUFFICES ASSUME app = "serial" PROVE Len(tcb') = 2 /\ tcb'[1].fd = svr.fd /\ ~Closed(1)'
      OBVIOUS
    <3>1. Len(tcb) = 2 /\ tcb[1].fd = svr.fd /\ ~Closed(1)
      BY <2>1 DEF SvrInv
    <3>2. 1 \in DOMAIN tcb /\ SameShape(tcb, tcb')
      BY <1>2, <2>1, <3>1, ShapeAlike
    <3> QED
      BY <3>1, <3>2 DEF SameShape, Closed
  <2> QED
    BY <1>1, <2>2, <2>3, <2>4 DEF SvrInv
<1>11. CASE Close
  <2>1. svr.at = "close"
    BY <1>11 DEF Close
  <2>2. svr'.at = IF app = "epoll" THEN "next" ELSE "accept"
    BY <1>1, <1>11 DEF Close, ServerStates
  <2> QED
    BY <1>1, <2>1, <2>2 DEF SvrInv
<1>12. CASE nrecvfrom
  <2>1. svr.at = "recvfrom" /\ host.rcvbuf # <<>>
    BY <1>12 DEF nrecvfrom
  <2>2. svr'.at = "sendto" /\ svr'.on = Head(host.rcvbuf).to
    BY <1>1, <1>12 DEF nrecvfrom, ServerStates
  <2>3. Head(host.rcvbuf).to \in Peer
    <3>1. host.rcvbuf \in Seq(Datagrams)
      BY DEF TypeOK
    <3>2. Head(host.rcvbuf) \in Datagrams
      BY <2>1, <3>1
    <3> QED
      BY <3>2 DEF Datagrams
  <2> QED
    BY <1>1, <2>1, <2>2, <2>3 DEF SvrInv
<1>13. CASE nsendto
  <2>1. svr.at = "sendto" /\ svr'.at = "recvfrom"
    BY <1>1, <1>13 DEF nsendto, ServerStates
  <2> QED
    BY <1>1, <2>1 DEF SvrInv
<1> QED
  BY <1>3, <1>4, <1>5, <1>6, <1>7, <1>8, <1>9, <1>10, <1>11, <1>12, <1>13 DEF ServerThread

\* Every step keeps the server where SvrInv says.
LEMMA SvrStep ==
  ASSUME TypeOK, TableInv, RingEnds, PktInv, SvrInv, QueueInv, Next
  PROVE  SvrInv'
<1>1. tcb \in Seq(Streams) /\ Len(tcb) \in Nat /\ DOMAIN tcb = 1 .. Len(tcb)
  BY DEF TypeOK
<1>2. ASSUME svr' = svr, app' = app, tcb' = tcb \/ Alike(tcb, tcb')
      PROVE  SvrInv'
  <2>1. SameShape(tcb, tcb')
    BY <1>1, <1>2, ShapeAlike
  <2>2. /\ Len(tcb') = Len(tcb) /\ DOMAIN tcb' = DOMAIN tcb
        /\ \A j \in DOMAIN tcb : tcb'[j].peer = tcb[j].peer /\ tcb'[j].fd = tcb[j].fd /\ tcb'[j].status = tcb[j].status
    BY <2>1 DEF SameShape
  <2> QED
    BY <1>2, <2>2, SvrKept
<1>3. ASSUME svr' = svr, app' = app, NEW i \in DOMAIN tcb, tcb[i].status # "CLOSE_WAIT",
             NEW st \in {"ESTABLISHED", "CLOSE_WAIT"}, NEW r, At(tcb, tcb', i, tcb[i].fd, st, r)
      PROVE  SvrInv'
  <2>1. /\ Len(tcb') = Len(tcb) /\ DOMAIN tcb' = DOMAIN tcb
        /\ \A j \in DOMAIN tcb : j # i => tcb'[j] = tcb[j]
        /\ tcb'[i].peer = tcb[i].peer /\ tcb'[i].fd = tcb[i].fd /\ tcb'[i].status = st
    BY <1>1, <1>3 DEF At
  <2>2. \A j \in DOMAIN tcb :
           /\ tcb'[j].peer = tcb[j].peer /\ tcb'[j].fd = tcb[j].fd
           /\ tcb'[j].status = "LAST_ACK" => tcb[j].status = "LAST_ACK"
           /\ tcb[j].status = "CLOSE_WAIT" => tcb'[j].status = "CLOSE_WAIT"
    BY <1>3, <2>1
  <2> QED
    BY <1>3, <2>1, <2>2, SvrKept
<1>4. CASE PeerStep \/ arp_request_timer_cb
  BY <1>2, <1>4, PeersKeep
<1>5. CASE ArpReply \/ udp_process \/ ng_tcp_handle_close_wait \/ FindItem \/ PushItem
  BY <1>2, <1>5 DEF ArpReply, udp_process, ng_tcp_handle_close_wait, Arrives, FindItem, PushItem, stack
<1>6. CASE SynReceived
  <2>1. svr' = svr /\ app' = app /\ Arrives("SYN_RCVD")
    BY <1>6 DEF SynReceived, Arrives
  <2>2. PICK i : i = ng_tcp_stream_search(tcb, Head(ringIn).from)
    OBVIOUS
  <2>3. i \in DOMAIN tcb /\ tcb[i].status = "SYN_RCVD"
    BY <2>1, <2>2, Arrival
  <2>4. tcb' = tcb \/ At(tcb, tcb', i, tcb[i].fd, "ESTABLISHED", tcb[i].rcvbuf)
    BY <1>6, <2>2, SynReceivedStep
  <2> QED
    BY <1>2, <1>3, <2>1, <2>3, <2>4
<1>7. CASE Established
  <2>1. svr' = svr /\ app' = app /\ Arrives("ESTABLISHED")
    BY <1>7 DEF Established, Arrives
  <2>2. PICK i : i = ng_tcp_stream_search(tcb, Head(ringIn).from)
    OBVIOUS
  <2>3. i \in DOMAIN tcb /\ tcb[i].status = "ESTABLISHED"
    BY <2>1, <2>2, Arrival
  <2>4. tcb' = tcb \/ \E st \in {"ESTABLISHED", "CLOSE_WAIT"} : \E r : At(tcb, tcb', i, tcb[i].fd, st, r)
    BY <1>7, <2>2, EstablishedStep
  <2> QED
    BY <1>2, <1>3, <2>1, <2>3, <2>4
<1>8. CASE Acknowledges
  <2>1. svr' = svr /\ app' = app
    BY <1>8 DEF Acknowledges
  <2>2. CASE Alike(tcb, tcb')
    BY <1>2, <2>1, <2>2
  <2>3. CASE ~Alike(tcb, tcb')
    <3>1. PICK i, r : i = pkt.i /\ r = Append(tcb[pkt.i].rcvbuf, <<>>)
      OBVIOUS
    <3>2. pkt # Idle /\ pkt.todo = <<"PSH", "FIN">> /\ At(tcb, tcb', i, tcb[i].fd, "CLOSE_WAIT", r)
      BY <1>8, <2>3, <3>1, AcknowledgesStep
    <3>3. i \in DOMAIN tcb /\ tcb[i].status = "ESTABLISHED"
      BY <1>1, <3>1, <3>2 DEF PktInv
    <3> QED
      BY <1>3, <2>1, <3>2, <3>3
  <2> QED
    BY <2>2, <2>3
<1>9. CASE SendPass
  <2>1. svr' = svr /\ app' = app
    BY <1>9 DEF SendPass
  <2> QED
    BY <1>2, <1>9, <2>1, SendPassStep
<1>10. CASE SingleLoop
  <2>1. svr' = svr /\ app' = app /\ app = "single"
    BY <1>10 DEF SingleLoop
  <2>2. svr.at = "none"
    BY <2>1 DEF SvrInv
  <2> QED
    BY <2>1, <2>2 DEF SvrInv
<1> QED
  BY <1>4, <1>5, <1>6, <1>7, <1>8, <1>9, <1>10, SvrListening, SvrLastAck, SvrServer
     DEF Next, PacketThread

-----------------------------------------------------------------------------
(* ListInv is preserved. *)

\* Counting events.
LEMMA CountTyped ==
  ASSUME NEW k, NEW rd, NEW evs, NEW fd
  PROVE  /\ Pending(k, rd, evs, fd) \in Nat
         /\ Pending(k, rd, evs, fd) = 0 <=> /\ ~(k.at \in {"find", "push"} /\ k.fd = fd)
                                            /\ fd \notin ToSet(rd) /\ fd \notin ToSet(evs)
<1>1. \A x : B(x) \in {0, 1} /\ (B(x) = 0 <=> ~x)
  BY DEF B
<1>2. PICK x, y, z : /\ x = B(k.at \in {"find", "push"} /\ k.fd = fd)
                     /\ y = B(fd \in ToSet(rd)) /\ z = B(fd \in ToSet(evs))
  OBVIOUS
<1>3. x \in {0, 1} /\ y \in {0, 1} /\ z \in {0, 1} /\ Pending(k, rd, evs, fd) = x + y + z
  BY <1>1, <1>2 DEF Pending
<1>4. /\ x = 0 <=> ~(k.at \in {"find", "push"} /\ k.fd = fd)
      /\ y = 0 <=> fd \notin ToSet(rd)
      /\ z = 0 <=> fd \notin ToSet(evs)
  BY <1>2 DEF B
<1>5. x + y + z \in Nat /\ (x + y + z = 0 <=> x = 0 /\ y = 0 /\ z = 0)
  BY <1>3
<1> QED
  BY <1>3, <1>4, <1>5

\* A push behind the lookup: the item found unready is still there, so the
\* list gets it once; nepoll_wait empties list and flags together; CtlDel
\* frees an item only when no event for it is left.
LEMMA ListStep ==
  ASSUME TypeOK, TableInv, PktInv, SvrInv, QueueInv, Next
  PROVE  ListInv'
<1>1. ListInv /\ (app = "epoll" => EpollInv)
  BY DEF QueueInv
<1>2. rdlist \in Seq(Nat) /\ svr \in ServerStates /\ svr.evs \in Seq(Nat) /\ DOMAIN rdlist = 1 .. Len(rdlist)
  BY DEF TypeOK, ServerStates
<1>3. ASSUME items' = items, rdlist' = rdlist, rdnum' = rdnum, svr'.evs = svr.evs, app' = app,
             pkt'.at = "push" => pkt' = pkt
      PROVE  ListInv'
  BY <1>1, <1>3 DEF ListInv
<1>4. CASE PeerStep \/ arp_request_timer_cb
  BY <1>3, <1>4, PeersKeep
<1>5. CASE ArpReply \/ udp_process \/ ng_tcp_handle_close_wait \/ LastAck \/ Listening \/ SendPass \/ SingleLoop
  BY <1>3, <1>5 DEF ArpReply, udp_process, ng_tcp_handle_close_wait, LastAck, Listening, SendPass, SingleLoop,
                    Arrives, epoll
<1>6. CASE SynReceived
  <2>1. items' = items /\ rdlist' = rdlist /\ rdnum' = rdnum /\ svr' = svr /\ app' = app
    BY <1>6 DEF SynReceived, Arrives, epoll
  <2>2. pkt'.at # "push"
    BY <1>6, SynReceivedStep DEF Idle
  <2> QED
    BY <1>3, <2>1, <2>2
<1>7. CASE Established
  <2>1. items' = items /\ rdlist' = rdlist /\ rdnum' = rdnum /\ svr' = svr /\ app' = app
    BY <1>7 DEF Established, Arrives, epoll
  <2>2. pkt' = pkt \/ pkt'.at # "push"
    BY <1>7, EstablishedStep
  <2> QED
    BY <1>3, <2>1, <2>2
<1>8. CASE Acknowledges
  <2>1. items' = items /\ rdlist' = rdlist /\ rdnum' = rdnum /\ svr' = svr /\ app' = app
    BY <1>8 DEF Acknowledges, epoll
  <2>2. pkt \in Works
    BY <1>8, AcknowledgesStep DEF TypeOK
  <2>3. PICK at, f, todo : at = (IF app = "epoll" THEN "find" ELSE "ack") /\ f = tcb[pkt.i].fd /\ todo = <<"FIN">>
    OBVIOUS
  <2>4. (pkt' = Idle \/ pkt' = [pkt EXCEPT !.at = at, !.fd = f, !.todo = todo]) /\ at # "push"
    BY <1>8, <2>3, AcknowledgesStep
  <2>5. pkt'.at # "push"
    <3>1. CASE pkt' = Idle
      BY <3>1 DEF Idle
    <3>2. CASE pkt' = [pkt EXCEPT !.at = at, !.fd = f, !.todo = todo]
      <4>1. pkt'.at = at
        BY <2>2, <3>2 DEF Works
      <4> QED
        BY <2>4, <4>1
    <3> QED
      BY <2>4, <3>1, <3>2
  <2> QED
    BY <1>3, <2>1, <2>5
<1>9. CASE FindItem
  <2>1. items' = items /\ rdlist' = rdlist /\ rdnum' = rdnum /\ svr' = svr /\ app' = app /\ pkt.at = "find"
    BY <1>9 DEF FindItem, stack, epoll
  <2>2. pkt \in Works
    BY <2>1 DEF TypeOK, Idle
  <2>3. pkt'.at = "push" => pkt'.fd \in DOMAIN items /\ ~items[pkt'.fd]
    BY <1>9, <2>2 DEF FindItem, After, Idle, Works
  <2> QED
    BY <1>1, <2>1, <2>3 DEF ListInv
<1>10. CASE PushItem
  <2>1. /\ items' = [fd \in DOMAIN items |-> items[fd] \/ fd = pkt.fd] /\ rdlist' = <<pkt.fd>> \o rdlist
        /\ rdnum' = rdnum + 1 /\ svr' = svr /\ app' = app /\ pkt.at = "push"
    BY <1>10 DEF PushItem, stack
  <2>2. pkt \in Works
    BY <2>1 DEF TypeOK, Idle
  <2>3. pkt'.at # "push"
    BY <1>10, <2>2 DEF PushItem, After, Idle, Works
  <2>4. PICK f : f = pkt.fd
    OBVIOUS
  <2>5. f \in Nat
    BY <2>2, <2>4 DEF Works
  <2>6. f \in DOMAIN items /\ ~items[f]
    BY <1>1, <2>1, <2>4 DEF ListInv
  <2>7. \A j \in DOMAIN rdlist : rdlist[j] # f
    BY <1>1, <2>6 DEF ListInv, ToSet
  <2>8. /\ Len(rdlist') = Len(rdlist) + 1 /\ rdlist'[1] = f
        /\ \A j \in 1 .. Len(rdlist) : rdlist'[j + 1] = rdlist[j]
        /\ \A k \in 1 .. Len(rdlist) + 1 : k # 1 => rdlist'[k] = rdlist[k - 1] /\ k - 1 \in 1 .. Len(rdlist)
        /\ DOMAIN rdlist' = 1 .. Len(rdlist) + 1
    <3>1. <<f>> \in Seq(Nat) /\ Len(<<f>>) = 1 /\ <<f>>[1] = f
      BY <2>5
    <3>2. /\ rdlist' \in Seq(Nat) /\ Len(rdlist') = 1 + Len(rdlist)
          /\ \A k \in 1 .. 1 + Len(rdlist) : rdlist'[k] = IF k <= 1 THEN <<f>>[k] ELSE rdlist[k - 1]
      BY <1>2, <2>1, <2>4, <3>1, ConcatProperties
    <3>3. PICK n : n = Len(rdlist)
      OBVIOUS
    <3>4. n \in Nat /\ \A k \in 1 .. 1 + n : rdlist'[k] = IF k <= 1 THEN f ELSE rdlist[k - 1]
      BY <1>2, <3>1, <3>2, <3>3
    <3>5. /\ rdlist'[1] = f
          /\ \A j \in 1 .. n : rdlist'[j + 1] = rdlist[j]
          /\ \A k \in 1 .. n + 1 : k # 1 => rdlist'[k] = rdlist[k - 1] /\ k - 1 \in 1 .. n
      BY <3>4
    <3>6. Len(rdlist') = n + 1 /\ DOMAIN rdlist' = 1 .. n + 1
      BY <3>2, <3>3, <3>4
    <3> QED
      BY <3>3, <3>5, <3>6
  <2>9. \A j, k \in DOMAIN rdlist' : rdlist'[j] = rdlist'[k] => j = k
    <3> SUFFICES ASSUME NEW j \in DOMAIN rdlist', NEW k \in DOMAIN rdlist', rdlist'[j] = rdlist'[k]
                 PROVE  j = k
      OBVIOUS
    <3>1. \A l \in DOMAIN rdlist' : l # 1 => rdlist'[l] # f
      <4> SUFFICES ASSUME NEW l \in DOMAIN rdlist', l # 1 PROVE rdlist'[l] # f
        OBVIOUS
      <4>1. rdlist'[l] = rdlist[l - 1] /\ l - 1 \in DOMAIN rdlist
        BY <1>2, <2>8
      <4> QED
        BY <2>7, <4>1
    <3>2. CASE j = 1 /\ k # 1
      BY <2>8, <3>1, <3>2
    <3>3. CASE j # 1 /\ k = 1
      BY <2>8, <3>1, <3>3
    <3>4. CASE j # 1 /\ k # 1
      <4>1. PICK j1, k1 : j1 = j - 1 /\ k1 = k - 1
        OBVIOUS
      <4>2. j1 \in DOMAIN rdlist /\ k1 \in DOMAIN rdlist /\ rdlist[j1] = rdlist[k1]
        BY <1>2, <2>8, <3>4, <4>1
      <4>3. j1 = k1
        BY <1>1, <4>2 DEF ListInv
      <4> QED
        BY <2>8, <4>1, <4>3
    <3> QED
      BY <3>2, <3>3, <3>4
  <2>10. \A x : x \in ToSet(rdlist') <=> x = f \/ x \in ToSet(rdlist)
    <3>1. 1 \in DOMAIN rdlist' /\ \A j \in DOMAIN rdlist : j + 1 \in DOMAIN rdlist'
      BY <1>2, <2>8
    <3>2. ASSUME NEW x, x \in ToSet(rdlist') PROVE x = f \/ x \in ToSet(rdlist)
      <4>1. PICK k \in DOMAIN rdlist' : x = rdlist'[k]
        BY <3>2 DEF ToSet
      <4>2. CASE k = 1
        BY <2>8, <4>1, <4>2
      <4>3. CASE k # 1
        BY <1>2, <2>8, <4>1, <4>3 DEF ToSet
      <4> QED
        BY <4>2, <4>3
    <3>3. ASSUME NEW x, x = f \/ x \in ToSet(rdlist) PROVE x \in ToSet(rdlist')
      BY <1>2, <2>8, <3>1, <3>3 DEF ToSet
    <3> QED
      BY <3>2, <3>3
  <2>11. DOMAIN items' = DOMAIN items /\ \A x \in DOMAIN items : items'[x] <=> items[x] \/ x = f
    BY <2>1, <2>4
  <2>12. \A x : x \in ToSet(rdlist) <=> x \in DOMAIN items /\ items[x]
    BY <1>1 DEF ListInv
  <2>13. {fd \in DOMAIN items' : items'[fd]} = ToSet(rdlist')
    BY <2>6, <2>10, <2>11, <2>12
  <2>14. rdnum' = Len(rdlist')
    BY <1>1, <2>1, <2>8 DEF ListInv
  <2> QED
    BY <1>1, <2>1, <2>3, <2>9, <2>11, <2>13, <2>14 DEF ListInv
<1>11. CASE nepoll_wait
  <2>1. /\ items' = [fd \in DOMAIN items |-> items[fd] /\ ~Contains(rdlist, fd)] /\ rdlist' = <<>>
        /\ rdnum' = rdnum - Len(rdlist) /\ app' = app /\ pkt' = pkt /\ app = "epoll"
    BY <1>11 DEF nepoll_wait, stack
  <2>2. svr'.evs = rdlist
    BY <1>2, <1>11 DEF nepoll_wait, ServerStates
  <2>3. \A fd \in DOMAIN items : ~items'[fd]
    <3>1. \A fd \in DOMAIN items : items[fd] => fd \in ToSet(rdlist)
      BY <1>1 DEF ListInv
    <3>2. \A fd \in ToSet(rdlist) : Contains(rdlist, fd)
      BY <1>2 DEF ToSet, Contains
    <3> QED
      BY <2>1, <3>1, <3>2
  <2>4. DOMAIN items' = DOMAIN items /\ DOMAIN rdlist' = {} /\ Len(rdlist') = 0
    BY <2>1
  <2>5. rdnum' = 0
    BY <1>1, <1>2, <2>1 DEF ListInv
  <2>6. ToSet(rdlist) \subseteq DOMAIN items
    BY <1>1 DEF ListInv
  <2>7. {fd \in DOMAIN items' : items'[fd]} = ToSet(rdlist')
    BY <2>3, <2>4 DEF ToSet
  <2> QED
    BY <1>1, <2>1, <2>2, <2>3, <2>4, <2>5, <2>6, <2>7 DEF ListInv
<1>12. CASE NextEvent
  <2>1. items' = items /\ rdlist' = rdlist /\ rdnum' = rdnum /\ app' = app /\ pkt' = pkt /\ app = "epoll" /\ svr.evs # <<>>
    BY <1>12 DEF NextEvent, stack, epoll, SvrInv
  <2>2. svr'.evs = Tail(svr.evs)
    BY <1>2, <1>12 DEF NextEvent, ServerStates
  <2>3. PICK e : e = svr.evs
    OBVIOUS
  <2>4. /\ DOMAIN Tail(e) = 1 .. Len(e) - 1 /\ \A k \in 1 .. Len(e) - 1 : Tail(e)[k] = e[k + 1]
        /\ Len(e) \in Nat /\ DOMAIN e = 1 .. Len(e)
    BY <1>2, <2>1, <2>3
  <2>5. \A j, k \in DOMAIN Tail(e) : Tail(e)[j] = Tail(e)[k] => j = k
    <3> SUFFICES ASSUME NEW j \in DOMAIN Tail(e), NEW k \in DOMAIN Tail(e), Tail(e)[j] = Tail(e)[k]
                 PROVE  j = k
      OBVIOUS
    <3>1. PICK j1, k1 : j1 = j + 1 /\ k1 = k + 1
      OBVIOUS
    <3>2. j1 \in DOMAIN e /\ k1 \in DOMAIN e /\ e[j1] = e[k1]
      BY <2>4, <3>1
    <3>3. j1 = k1
      BY <1>1, <2>3, <3>2 DEF ListInv
    <3> QED
      BY <2>4, <3>1, <3>3
  <2>6. ToSet(Tail(e)) \subseteq ToSet(e)
    <3> SUFFICES ASSUME NEW k \in DOMAIN Tail(e) PROVE \E j \in DOMAIN e : Tail(e)[k] = e[j]
      BY DEF ToSet
    <3>1. k + 1 \in DOMAIN e /\ Tail(e)[k] = e[k + 1]
      BY <2>4
    <3> QED
      BY <3>1
  <2>7. ToSet(svr'.evs) \subseteq DOMAIN items
    BY <1>1, <2>2, <2>3, <2>6 DEF ListInv
  <2> QED
    BY <1>1, <2>1, <2>2, <2>3, <2>5, <2>7 DEF ListInv
<1>13. CASE CtlAdd
  <2>1. /\ items' = [fd \in DOMAIN items \union {svr.fd} |-> fd \in DOMAIN items /\ items[fd]]
        /\ rdlist' = rdlist /\ rdnum' = rdnum /\ app' = app /\ pkt' = pkt /\ svr.at = "add"
    BY <1>13 DEF CtlAdd, stack
  <2>2. svr'.evs = svr.evs /\ svr.fd # NoFd
    BY <1>2, <1>13, <2>1 DEF CtlAdd, ServerStates, SvrInv
  <2>3. /\ DOMAIN items' = DOMAIN items \union {svr.fd}
        /\ \A x \in DOMAIN items' : items'[x] <=> x \in DOMAIN items /\ items[x]
    BY <2>1
  <2>4. {fd \in DOMAIN items' : items'[fd]} = {fd \in DOMAIN items : items[fd]}
    BY <2>3
  <2>5. pkt'.at = "push" => pkt'.fd \in DOMAIN items' /\ ~items'[pkt'.fd]
    BY <1>1, <2>1, <2>3 DEF ListInv
  <2> QED
    BY <1>1, <2>1, <2>2, <2>3, <2>4, <2>5 DEF ListInv
<1>14. CASE CtlDel
  <2>1. /\ items' = [fd \in DOMAIN items \ {svr.fd} |-> items[fd]]
        /\ rdlist' = rdlist /\ rdnum' = rdnum /\ app' = app /\ pkt' = pkt /\ svr.at = "del"
    BY <1>14 DEF CtlDel
  <2>2. svr'.evs = svr.evs /\ svr.fd # ListenFd /\ app = "epoll"
    BY <1>2, <1>14, <2>1 DEF CtlDel, ServerStates, SvrInv
  <2>3. Pending(pkt, rdlist, svr.evs, svr.fd) = 0
    BY <1>1, <2>1, <2>2 DEF EpollInv
  <2>4. ~(pkt.at = "push" /\ pkt.fd = svr.fd) /\ svr.fd \notin ToSet(rdlist) /\ svr.fd \notin ToSet(svr.evs)
    BY <2>3, CountTyped
  <2>5. DOMAIN items' = DOMAIN items \ {svr.fd} /\ \A x \in DOMAIN items' : items'[x] = items[x]
    BY <2>1
  <2>6. {fd \in DOMAIN items : items[fd]} = ToSet(rdlist)
    BY <1>1 DEF ListInv
  <2>7. {fd \in DOMAIN items' : items'[fd]} = ToSet(rdlist')
    BY <2>1, <2>4, <2>5, <2>6
  <2>8. ToSet(svr'.evs) \subseteq DOMAIN items'
    BY <1>1, <2>2, <2>4, <2>5 DEF ListInv
  <2>9. pkt'.at = "push" => pkt'.fd \in DOMAIN items' /\ ~items'[pkt'.fd]
    BY <1>1, <2>1, <2>4, <2>5 DEF ListInv
  <2> QED
    BY <1>1, <2>1, <2>2, <2>5, <2>7, <2>8, <2>9 DEF ListInv
<1>15. CASE naccept \/ CallRecv \/ ReceiveFragment \/ Echo \/ Close \/ nrecvfrom \/ nsendto
  <2>1. items' = items /\ rdlist' = rdlist /\ rdnum' = rdnum /\ app' = app /\ pkt' = pkt
    BY <1>15 DEF naccept, CallRecv, ReceiveFragment, Echo, Close, nrecvfrom, nsendto, stack, epoll
  <2>2. svr'.evs = svr.evs
    BY <1>2, <1>15 DEF naccept, CallRecv, ReceiveFragment, Echo, Close, nrecvfrom, nsendto, ServerStates
  <2> QED
    BY <1>3, <2>1, <2>2
<1> QED
  BY <1>4, <1>5, <1>6, <1>7, <1>8, <1>9, <1>10, <1>11, <1>12, <1>13, <1>14, <1>15 DEF Next, PacketThread, ServerThread

-----------------------------------------------------------------------------
(* Counting the events of a stream. *)

\* One term of the sum for each place an event can be in.
LEMMA PendingSum ==
  ASSUME NEW k, NEW rd, NEW evs, NEW fd
  PROVE  \E x, y, z \in {0, 1} :
           /\ Pending(k, rd, evs, fd) = x + y + z
           /\ x = 1 <=> k.at \in {"find", "push"} /\ k.fd = fd
           /\ y = 1 <=> fd \in ToSet(rd)
           /\ z = 1 <=> fd \in ToSet(evs)
<1>1. PICK x, y, z : /\ x = B(k.at \in {"find", "push"} /\ k.fd = fd)
                     /\ y = B(fd \in ToSet(rd)) /\ z = B(fd \in ToSet(evs))
  OBVIOUS
<1>2. Pending(k, rd, evs, fd) = x + y + z
  BY <1>1 DEF Pending
<1>3. /\ x \in {0, 1} /\ y \in {0, 1} /\ z \in {0, 1}
      /\ x = 1 <=> k.at \in {"find", "push"} /\ k.fd = fd
      /\ y = 1 <=> fd \in ToSet(rd)
      /\ z = 1 <=> fd \in ToSet(evs)
  BY <1>1 DEF B
<1> QED
  BY <1>2, <1>3

\* An event that leaves its place is not counted again.
LEMMA PendingLess ==
  ASSUME NEW k, NEW rd, NEW evs, NEW fd, NEW k2, NEW rd2, NEW evs2,
         k2.at \in {"find", "push"} /\ k2.fd = fd => k.at \in {"find", "push"} /\ k.fd = fd,
         fd \in ToSet(rd2) => fd \in ToSet(rd), fd \in ToSet(evs2) => fd \in ToSet(evs)
  PROVE  Pending(k2, rd2, evs2, fd) <= Pending(k, rd, evs, fd)
<1>1. PICK x, y, z \in {0, 1} :
        /\ Pending(k, rd, evs, fd) = x + y + z
        /\ x = 1 <=> k.at \in {"find", "push"} /\ k.fd = fd
        /\ y = 1 <=> fd \in ToSet(rd)
        /\ z = 1 <=> fd \in ToSet(evs)
  BY PendingSum
<1>2. PICK x2, y2, z2 \in {0, 1} :
        /\ Pending(k2, rd2, evs2, fd) = x2 + y2 + z2
        /\ x2 = 1 <=> k2.at \in {"find", "push"} /\ k2.fd = fd
        /\ y2 = 1 <=> fd \in ToSet(rd2)
        /\ z2 = 1 <=> fd \in ToSet(evs2)
  BY PendingSum
<1>3. (x2 = 1 => x = 1) /\ (y2 = 1 => y = 1) /\ (z2 = 1 => z = 1)
  BY <1>1, <1>2
<1>4. x2 + y2 + z2 <= x + y + z
  BY <1>3
<1> QED
  BY <1>1, <1>2, <1>4

\* The packet thread adds at most one event.
LEMMA PendingMore ==
  ASSUME NEW k, NEW rd, NEW evs, NEW fd, NEW k2
  PROVE  Pending(k2, rd, evs, fd) <= Pending(k, rd, evs, fd) + 1
<1>1. PICK x, y, z \in {0, 1} :
        /\ Pending(k, rd, evs, fd) = x + y + z
        /\ y = 1 <=> fd \in ToSet(rd)
        /\ z = 1 <=> fd \in ToSet(evs)
  BY PendingSum
<1>2. PICK x2, y2, z2 \in {0, 1} :
        /\ Pending(k2, rd, evs, fd) = x2 + y2 + z2
        /\ y2 = 1 <=> fd \in ToSet(rd)
        /\ z2 = 1 <=> fd \in ToSet(evs)
  BY PendingSum
<1>3. y2 = y /\ z2 = z
  BY <1>1, <1>2
<1>4. x2 + y2 + z2 <= x + y + z + 1
  BY <1>3
<1> QED
  BY <1>1, <1>2, <1>4

\* A found event goes from the packet thread to the head of the ready list.
LEMMA PendingPush ==
  ASSUME NEW k, NEW rd, NEW rd2, NEW evs, NEW fd, NEW k2, k.at = "push",
         k2.at \notin {"find", "push"},
         fd \in ToSet(rd2) => fd = k.fd \/ fd \in ToSet(rd)
  PROVE  Pending(k2, rd2, evs, fd) <= Pending(k, rd, evs, fd)
<1>1. PICK x, y, z \in {0, 1} :
        /\ Pending(k, rd, evs, fd) = x + y + z
        /\ x = 1 <=> k.at \in {"find", "push"} /\ k.fd = fd
        /\ y = 1 <=> fd \in ToSet(rd)
        /\ z = 1 <=> fd \in ToSet(evs)
  BY PendingSum
<1>2. PICK x2, y2, z2 \in {0, 1} :
        /\ Pending(k2, rd2, evs, fd) = x2 + y2 + z2
        /\ x2 = 1 <=> k2.at \in {"find", "push"} /\ k2.fd = fd
        /\ y2 = 1 <=> fd \in ToSet(rd2)
        /\ z2 = 1 <=> fd \in ToSet(evs)
  BY PendingSum
<1>3. x2 = 0 /\ z2 = z /\ (y2 = 1 => x = 1 \/ y = 1)
  BY <1>1, <1>2
<1>4. x2 + y2 + z2 <= x + y + z
  BY <1>3
<1> QED
  BY <1>1, <1>2, <1>4

\* All events go from the ready list to the server.
LEMMA PendingWait ==
  ASSUME NEW k, NEW rd, NEW fd
  PROVE  Pending(k, <<>>, rd, fd) <= Pending(k, rd, <<>>, fd)
<1>1. PICK x, y, z \in {0, 1} :
        /\ Pending(k, rd, <<>>, fd) = x + y + z
        /\ x = 1 <=> k.at \in {"find", "push"} /\ k.fd = fd
        /\ y = 1 <=> fd \in ToSet(rd)
  BY PendingSum
<1>2. PICK x2, y2, z2 \in {0, 1} :
        /\ Pending(k, <<>>, rd, fd) = x2 + y2 + z2
        /\ x2 = 1 <=> k.at \in {"find", "push"} /\ k.fd = fd
        /\ y2 = 1 <=> fd \in ToSet(<<>>)
        /\ z2 = 1 <=> fd \in ToSet(rd)
  BY PendingSum
<1>3. fd \notin ToSet(<<>>)
  BY DEF ToSet
<1>4. x2 = x /\ z2 = y /\ y2 = 0
  BY <1>1, <1>2, <1>3
<1>5. x2 + y2 + z2 <= x + y + z
  BY <1>4
<1> QED
  BY <1>1, <1>2, <1>5

\* The server takes the first event; there is no second one for the same item.
LEMMA PendingTake ==
  ASSUME NEW k, NEW rd, NEW evs \in Seq(Nat), evs # <<>>, \A j, l \in DOMAIN evs : evs[j] = evs[l] => j = l
  PROVE  /\ Pending(k, rd, Tail(evs), evs[1]) + 1 = Pending(k, rd, evs, evs[1])
         /\ \A fd : Pending(k, rd, Tail(evs), fd) <= Pending(k, rd, evs, fd)
<1>1. PICK t, fd : t = Tail(evs) /\ fd = evs[1]
  OBVIOUS
<1>2. /\ DOMAIN t = 1 .. Len(evs) - 1 /\ \A j \in 1 .. Len(evs) - 1 : t[j] = evs[j + 1]
      /\ Len(evs) \in Nat /\ Len(evs) >= 1 /\ DOMAIN evs = 1 .. Len(evs)
  BY <1>1
<1>3. \A j \in DOMAIN t : j + 1 \in DOMAIN evs /\ j + 1 # 1 /\ t[j] = evs[j + 1]
  BY <1>2
<1>4. 1 \in DOMAIN evs
  BY <1>2
<1>5. fd \notin ToSet(t) /\ fd \in ToSet(evs) /\ \A f : f \in ToSet(t) => f \in ToSet(evs)
  BY <1>1, <1>3, <1>4 DEF ToSet
<1>6. PICK x, y, z \in {0, 1} :
        /\ Pending(k, rd, evs, fd) = x + y + z
        /\ x = 1 <=> k.at \in {"find", "push"} /\ k.fd = fd
        /\ y = 1 <=> fd \in ToSet(rd)
        /\ z = 1 <=> fd \in ToSet(evs)
  BY PendingSum
<1>7. PICK x2, y2, z2 \in {0, 1} :
        /\ Pending(k, rd, t, fd) = x2 + y2 + z2
        /\ x2 = 1 <=> k.at \in {"find", "push"} /\ k.fd = fd
        /\ y2 = 1 <=> fd \in ToSet(rd)
        /\ z2 = 1 <=> fd \in ToSet(t)
  BY PendingSum
<1>8. x2 = x /\ y2 = y /\ z2 = 0 /\ z = 1
  BY <1>5, <1>6, <1>7
<1>9. x2 + y2 + z2 + 1 = x + y + z
  BY <1>8
<1>10. \A f : Pending(k, rd, t, f) <= Pending(k, rd, evs, f)
  BY <1>5, PendingLess
<1> QED
  BY <1>1, <1>6, <1>7, <1>9, <1>10

\* The call of nrecv the server is in counts with the events.
LEMMA EventsSum ==
  ASSUME NEW k, NEW rd, NEW v, NEW s
  PROVE  /\ Events(k, rd, v, s) \in Nat
         /\ v.at = "recv" /\ v.on = s.peer => Events(k, rd, v, s) = Pending(k, rd, v.evs, s.fd) + 1
         /\ ~(v.at = "recv" /\ v.on = s.peer) => Events(k, rd, v, s) = Pending(k, rd, v.evs, s.fd)
<1>1. PICK n : n = Pending(k, rd, v.evs, s.fd)
  OBVIOUS
<1>2. n \in Nat
  BY <1>1, CountTyped
<1>3. CASE v.at = "recv" /\ v.on = s.peer
  BY <1>1, <1>2, <1>3 DEF Events, B
<1>4. CASE ~(v.at = "recv" /\ v.on = s.peer)
  <2>1. Events(k, rd, v, s) = n + 0
    BY <1>1, <1>4 DEF Events, B
  <2> QED
    BY <1>1, <1>2, <1>4, <2>1
<1> QED
  BY <1>3, <1>4

\* Fewer calls find their fragments too.
LEMMA ReachLess ==
  ASSUME NEW r \in Seq(Data), NEW n \in Nat, NEW m \in Nat, m <= n, Reach(r, n)
  PROVE  Reach(r, m)
  BY DEF Reach

\* A fragment behind a ring without an end allows one more call.
LEMMA ReachMore ==
  ASSUME NEW r \in Seq(Data), NEW n \in Nat, NEW m \in Nat, m <= n + 1, Reach(r, n), NEW d \in Data,
         \A k \in DOMAIN r : r[k] # <<>>
  PROVE  Reach(Append(r, d), m)
<1>1. PICK q : q = Append(r, d)
  OBVIOUS
<1>2. Len(q) = Len(r) + 1 /\ Len(r) \in Nat /\ DOMAIN q = 1 .. Len(r) + 1
  BY <1>1
<1>3. \A k \in DOMAIN q : q[k] = <<>> => k = Len(r) + 1
  BY <1>1, <1>2
<1>4. n <= Len(r)
  BY DEF Reach
<1> QED
  BY <1>1, <1>2, <1>3, <1>4 DEF Reach

\* After a call of nrecv one call less is to come.
LEMMA ReachTaken ==
  ASSUME NEW s \in Seq(Data), s # <<>>, NEW r, TakenFrom(s, r), NEW n \in Nat, NEW m \in Nat, n = m + 1, Reach(s, n)
  PROVE  Reach(r, m)
<1>1. Len(r) \in Nat /\ Len(s) \in Nat /\ Len(r) >= Len(s) - 1 /\ n <= Len(s)
  BY DEF TakenFrom, Reach
<1>2. ASSUME NEW k \in DOMAIN r, r[k] = <<>> PROVE m <= k
  <2>1. k \in Nat /\ k >= 1 /\ k < Len(s) /\ s[k + 1] = <<>>
    BY <1>2 DEF TakenFrom
  <2>2. k + 1 \in DOMAIN s
    BY <1>1, <2>1
  <2>3. n <= k + 1
    BY <2>1, <2>2 DEF Reach
  <2> QED
    BY <2>1, <2>3
<1> QED
  BY <1>1, <1>2 DEF Reach

\* A stream that keeps its ring and gets no new event is still served.
LEMMA ServedLess ==
  ASSUME NEW k, NEW rd, NEW v, NEW s, NEW k2, NEW rd2, NEW v2, NEW s2, s.rcvbuf \in Seq(Data),
         Served(k, rd, v, s), s2.rcvbuf = s.rcvbuf, s2.fd = s.fd,
         s2.status # "LAST_ACK" => s.status # "LAST_ACK",
         s2.fd # NoFd /\ s2.status # "LAST_ACK" => Events(k2, rd2, v2, s2) <= Events(k, rd, v, s)
  PROVE  Served(k2, rd2, v2, s2)
<1> SUFFICES ASSUME s2.fd # NoFd, s2.status # "LAST_ACK"
             PROVE  Reach(s2.rcvbuf, Events(k2, rd2, v2, s2))
  BY DEF Served
<1>1. Reach(s.rcvbuf, Events(k, rd, v, s))
  BY DEF Served
<1> QED
  BY <1>1, EventsSum, ReachLess

\* The item goes to the head of the ready list, the others stay in it.
LEMMA PushedList ==
  ASSUME NEW f \in Nat, NEW rd \in Seq(Nat), NEW rd2, rd2 = <<f>> \o rd
  PROVE  \A fd : fd \in ToSet(rd2) => fd = f \/ fd \in ToSet(rd)
<1>1. <<f>> \in Seq(Nat) /\ Len(<<f>>) = 1 /\ <<f>>[1] = f
  OBVIOUS
<1>2. /\ rd2 \in Seq(Nat) /\ Len(rd2) = 1 + Len(rd) /\ Len(rd) \in Nat
      /\ \A k \in 1 .. 1 + Len(rd) : rd2[k] = IF k <= 1 THEN <<f>>[k] ELSE rd[k - 1]
  BY <1>1, ConcatProperties
<1>3. \A k \in DOMAIN rd2 : rd2[k] = f \/ (k - 1 \in DOMAIN rd /\ rd2[k] = rd[k - 1])
  BY <1>1, <1>2
<1> QED
  BY <1>3 DEF ToSet

-----------------------------------------------------------------------------
(* EpollInv is preserved. *)

\* The open connections are still there, under their descriptors.
Carries(t, u) ==
  \A i \in DOMAIN t : t[i].fd # NoFd /\ t[i].status # "LAST_ACK" =>
    \E j \in DOMAIN u : u[j].fd = t[i].fd /\ u[j].status # "LAST_ACK"

\* The tree and the call the server is in keep; the events are as given.
LEMMA EpollFrom ==
  ASSUME SvrInv, ListInv, EpollInv, DOMAIN items' = DOMAIN items, Carries(tcb, tcb'),
         svr' = svr \/ svr'.at \notin {"add", "del", "close"},
         svr'.at \in {"del", "close"} => Pending(pkt', rdlist', svr'.evs, svr'.fd) = 0,
         \A j \in DOMAIN tcb' : j < Len(tcb') => Served(pkt', rdlist', svr', tcb'[j])
  PROVE  EpollInv'
<1>1. \A fd \in DOMAIN items \ {ListenFd} : \E j \in DOMAIN tcb' : tcb'[j].fd = fd /\ tcb'[j].status # "LAST_ACK"
  BY DEF EpollInv, Closed, Carries, ListInv
<1>2. svr'.at = "close" => svr'.fd \notin DOMAIN items
  BY DEF EpollInv
<1>3. svr'.at = "add" => \E j \in DOMAIN tcb' : tcb'[j].fd = svr'.fd /\ tcb'[j].status # "LAST_ACK"
  BY DEF EpollInv, SvrInv, Closed, Carries
<1> QED
  BY <1>1, <1>2, <1>3 DEF EpollInv, Closed

\* Nothing is delivered, and no event is counted that was not before.
LEMMA EpollQuiet ==
  ASSUME TypeOK, SvrInv, ListInv, EpollInv, DOMAIN items' = DOMAIN items, tcb' = tcb \/ Alike(tcb, tcb'),
         svr' = svr \/ svr'.at \notin {"add", "del", "close", "recv"},
         \A fd : Pending(pkt', rdlist', svr'.evs, fd) <= Pending(pkt, rdlist, svr.evs, fd)
  PROVE  EpollInv'
<1>1. tcb \in Seq(Streams) /\ \A j \in DOMAIN tcb : tcb[j].rcvbuf \in Seq(Data)
  <2>1. tcb \in Seq(Streams)
    BY DEF TypeOK
  <2>2. \A j \in DOMAIN tcb : tcb[j] \in Streams
    BY <2>1
  <2> QED
    BY <2>1, <2>2 DEF Streams
<1>2. /\ Len(tcb') = Len(tcb) /\ DOMAIN tcb' = DOMAIN tcb
      /\ \A j \in DOMAIN tcb : /\ tcb'[j].peer = tcb[j].peer /\ tcb'[j].fd = tcb[j].fd
                               /\ tcb'[j].status = tcb[j].status /\ tcb'[j].rcvbuf = tcb[j].rcvbuf
  BY <1>1, ShapeAlike DEF SameShape
<1>3. Carries(tcb, tcb')
  BY <1>2 DEF Carries
<1>4. ASSUME NEW j \in DOMAIN tcb, j < Len(tcb) PROVE Served(pkt', rdlist', svr', tcb'[j])
  <2>1. Served(pkt, rdlist, svr, tcb[j])
    BY <1>4 DEF EpollInv
  <2>2. PICK n, n2 : n = Pending(pkt, rdlist, svr.evs, tcb[j].fd) /\ n2 = Pending(pkt', rdlist', svr'.evs, tcb[j].fd)
    OBVIOUS
  <2>3. n \in Nat /\ n2 \in Nat /\ n2 <= n
    BY <2>2, CountTyped
  <2>4. PICK s, s2 : s = tcb[j] /\ s2 = tcb'[j]
    OBVIOUS
  <2>5. s2.peer = s.peer /\ s2.fd = s.fd /\ s2.status = s.status /\ s2.rcvbuf = s.rcvbuf /\ s.rcvbuf \in Seq(Data)
    BY <1>1, <1>2, <2>4
  <2>6. Events(pkt', rdlist', svr', s2) <= Events(pkt, rdlist, svr, s)
    <3>1. CASE svr'.at = "recv" /\ svr'.on = s.peer
      <4>1. svr.at = "recv" /\ svr.on = s.peer
        BY <3>1
      <4>2. Events(pkt', rdlist', svr', s2) = n2 + 1 /\ Events(pkt, rdlist, svr, s) = n + 1
        BY <2>2, <2>4, <2>5, <3>1, <4>1, EventsSum
      <4> QED
        BY <2>3, <4>2
    <3>2. CASE ~(svr'.at = "recv" /\ svr'.on = s.peer)
      <4>1. Events(pkt', rdlist', svr', s2) = n2
        BY <2>2, <2>4, <2>5, <3>2, EventsSum
      <4>2. Events(pkt, rdlist, svr, s) = n + 1 \/ Events(pkt, rdlist, svr, s) = n
        BY <2>2, <2>4, EventsSum
      <4> QED
        BY <2>3, <4>1, <4>2
    <3> QED
      BY <3>1, <3>2
  <2> QED
    BY <2>1, <2>4, <2>5, <2>6, ServedLess
<1>5. svr'.at \in {"del", "close"} => Pending(pkt', rdlist', svr'.evs, svr'.fd) = 0
  <2> SUFFICES ASSUME svr'.at \in {"del", "close"} PROVE Pending(pkt', rdlist', svr'.evs, svr'.fd) = 0
    OBVIOUS
  <2>1. svr' = svr
    OBVIOUS
  <2>2. Pending(pkt, rdlist, svr.evs, svr.fd) = 0
    BY <2>1 DEF EpollInv
  <2>3. Pending(pkt', rdlist', svr'.evs, svr.fd) \in Nat
    BY CountTyped
  <2>4. Pending(pkt', rdlist', svr'.evs, svr.fd) <= 0
    BY <2>2
  <2> QED
    BY <2>1, <2>3, <2>4
<1> QED
  BY <1>2, <1>3, <1>4, <1>5, EpollFrom

\* A fragment is enqueued and an event for its stream is on its way.
LEMMA EpollDeliver ==
  ASSUME TypeOK, TableInv, RingEnds, SvrInv, ListInv, EpollInv,
         NEW i \in DOMAIN tcb, i < Len(tcb), tcb[i].status = "ESTABLISHED",
         NEW st \in {"ESTABLISHED", "CLOSE_WAIT"}, NEW d \in Data,
         At(tcb, tcb', i, tcb[i].fd, st, Append(tcb[i].rcvbuf, d)),
         pkt.at \notin {"find", "push"}, pkt'.fd = tcb[i].fd,
         items' = items, rdlist' = rdlist, svr' = svr
  PROVE  EpollInv'
<1>1. tcb \in Seq(Streams) /\ \A j \in DOMAIN tcb : tcb[j].rcvbuf \in Seq(Data)
  <2>1. tcb \in Seq(Streams)
    BY DEF TypeOK
  <2>2. \A j \in DOMAIN tcb : tcb[j] \in Streams
    BY <2>1
  <2> QED
    BY <2>1, <2>2 DEF Streams
<1>2. /\ Len(tcb') = Len(tcb) /\ DOMAIN tcb' = DOMAIN tcb
      /\ \A j \in DOMAIN tcb : j # i => tcb'[j] = tcb[j]
      /\ tcb'[i].peer = tcb[i].peer /\ tcb'[i].fd = tcb[i].fd /\ tcb'[i].status = st
      /\ tcb'[i].rcvbuf = Append(tcb[i].rcvbuf, d)
  BY <1>1 DEF At
<1>3. Carries(tcb, tcb')
  <2>1. \A j \in DOMAIN tcb : tcb'[j].fd = tcb[j].fd /\ (tcb'[j].status = "LAST_ACK" => tcb[j].status = "LAST_ACK")
    BY <1>2
  <2> QED
    BY <1>2, <2>1 DEF Carries
<1>4. \A fd : fd # tcb[i].fd => Pending(pkt', rdlist', svr'.evs, fd) <= Pending(pkt, rdlist, svr.evs, fd)
  BY PendingLess
<1>5. ASSUME NEW j \in DOMAIN tcb, j < Len(tcb), j # i PROVE Served(pkt', rdlist', svr', tcb'[j])
  <2>1. PICK s : s = tcb[j]
    OBVIOUS
  <2>2. Served(pkt, rdlist, svr, s) /\ tcb'[j] = s /\ s.rcvbuf \in Seq(Data)
    BY <1>1, <1>2, <1>5, <2>1 DEF EpollInv
  <2>3. ASSUME s.fd # NoFd, s.status # "LAST_ACK"
        PROVE  Events(pkt', rdlist', svr', s) <= Events(pkt, rdlist, svr, s)
    <3>1. s.fd # tcb[i].fd
      BY <1>5, <2>1, <2>3 DEF TableInv, Closed
    <3>2. PICK n, n2 : n = Pending(pkt, rdlist, svr.evs, s.fd) /\ n2 = Pending(pkt', rdlist', svr'.evs, s.fd)
      OBVIOUS
    <3>3. n \in Nat /\ n2 \in Nat /\ n2 <= n
      BY <1>4, <3>1, <3>2, CountTyped
    <3>4. \/ Events(pkt', rdlist', svr', s) = n2 + 1 /\ Events(pkt, rdlist, svr, s) = n + 1
          \/ Events(pkt', rdlist', svr', s) = n2 /\ Events(pkt, rdlist, svr, s) = n
      BY <3>2, EventsSum
    <3> QED
      BY <3>3, <3>4
  <2> QED
    BY <2>2, <2>3, ServedLess
<1>6. Served(pkt', rdlist', svr', tcb'[i])
  <2>1. PICK s, s2 : s = tcb[i] /\ s2 = tcb'[i]
    OBVIOUS
  <2>2. Served(pkt, rdlist, svr, s) /\ s2.rcvbuf = Append(s.rcvbuf, d) /\ s2.peer = s.peer /\ s2.fd = s.fd
    BY <1>2, <2>1 DEF EpollInv
  <2>3. s.rcvbuf \in Seq(Data) /\ \A k \in DOMAIN s.rcvbuf : s.rcvbuf[k] # <<>>
    BY <1>1, <2>1 DEF RingEnds, Ends
  <2> SUFFICES ASSUME s.fd # NoFd PROVE Reach(s2.rcvbuf, Events(pkt', rdlist', svr', s2))
    BY <2>1, <2>2 DEF Served
  <2>4. Reach(s.rcvbuf, Events(pkt, rdlist, svr, s))
    BY <2>1, <2>2 DEF Served
  <2>5. PICK n, n2 : n = Pending(pkt, rdlist, svr.evs, s.fd) /\ n2 = Pending(pkt', rdlist', svr'.evs, s.fd)
    OBVIOUS
  <2>6. n \in Nat /\ n2 \in Nat /\ n2 <= n + 1
    BY <2>5, CountTyped, PendingMore
  <2>7. \/ Events(pkt', rdlist', svr', s2) = n2 + 1 /\ Events(pkt, rdlist, svr, s) = n + 1
        \/ Events(pkt', rdlist', svr', s2) = n2 /\ Events(pkt, rdlist, svr, s) = n
    BY <2>2, <2>5, EventsSum
  <2>8. PICK m, m2 : m = Events(pkt, rdlist, svr, s) /\ m2 = Events(pkt', rdlist', svr', s2)
    OBVIOUS
  <2>9. m \in Nat /\ m2 \in Nat /\ m2 <= m + 1
    BY <2>6, <2>7, <2>8
  <2> QED
    BY <2>2, <2>3, <2>4, <2>8, <2>9, ReachMore
<1>7. svr'.at \in {"del", "close"} => Pending(pkt', rdlist', svr'.evs, svr'.fd) = 0
  <2> SUFFICES ASSUME svr.at \in {"del", "close"} PROVE Pending(pkt', rdlist', svr'.evs, svr.fd) = 0
    OBVIOUS
  <2>1. PICK j \in DOMAIN tcb : tcb[j].status = "CLOSE_WAIT" /\ tcb[j].fd = svr.fd
    BY DEF SvrInv, Leads
  <2>2. svr.fd # NoFd
    BY DEF SvrInv
  <2>3. svr.fd # tcb[i].fd
    BY <2>1, <2>2 DEF TableInv, Closed
  <2>4. Pending(pkt, rdlist, svr.evs, svr.fd) = 0
    BY DEF EpollInv
  <2>5. Pending(pkt', rdlist', svr'.evs, svr.fd) \in Nat
    BY CountTyped
  <2>6. Pending(pkt', rdlist', svr'.evs, svr.fd) <= 0
    BY <1>4, <2>3, <2>4
  <2> QED
    BY <2>5, <2>6
<1> QED
  BY <1>2, <1>3, <1>5, <1>6, <1>7, EpollFrom

\* A connection is opened, established or freed: the open ones with a
\* descriptor are the ones there were.
LEMMA EpollTable ==
  ASSUME TypeOK, TableInv, SvrInv, ListInv, EpollInv, Carries(tcb, tcb'), items' = items, rdlist' = rdlist, svr' = svr,
         pkt'.at \in {"find", "push"} => pkt'.fd = ListenFd,
         \A j \in DOMAIN tcb' : j < Len(tcb') =>
           \/ tcb'[j].fd = NoFd
           \/ \E i \in DOMAIN tcb : /\ i < Len(tcb) /\ tcb'[j].peer = tcb[i].peer /\ tcb'[j].fd = tcb[i].fd
                                    /\ tcb'[j].rcvbuf = tcb[i].rcvbuf
                                    /\ tcb'[j].status # "LAST_ACK" => tcb[i].status # "LAST_ACK"
  PROVE  EpollInv'
<1>1. tcb \in Seq(Streams) /\ \A j \in DOMAIN tcb : tcb[j].rcvbuf \in Seq(Data)
  <2>1. tcb \in Seq(Streams)
    BY DEF TypeOK
  <2>2. \A j \in DOMAIN tcb : tcb[j] \in Streams
    BY <2>1
  <2> QED
    BY <2>1, <2>2 DEF Streams
<1>2. \A fd : fd # ListenFd => Pending(pkt', rdlist', svr'.evs, fd) <= Pending(pkt, rdlist, svr.evs, fd)
  BY PendingLess
<1>3. ASSUME NEW j \in DOMAIN tcb', j < Len(tcb') PROVE Served(pkt', rdlist', svr', tcb'[j])
  <2>1. CASE tcb'[j].fd = NoFd
    BY <2>1 DEF Served
  <2>2. CASE tcb'[j].fd # NoFd
    <3>1. PICK i \in DOMAIN tcb :
            /\ i < Len(tcb) /\ tcb'[j].peer = tcb[i].peer /\ tcb'[j].fd = tcb[i].fd /\ tcb'[j].rcvbuf = tcb[i].rcvbuf
            /\ tcb'[j].status # "LAST_ACK" => tcb[i].status # "LAST_ACK"
      BY <1>3, <2>2
    <3>2. PICK s, s2 : s = tcb[i] /\ s2 = tcb'[j]
      OBVIOUS
    <3>3. Served(pkt, rdlist, svr, s) /\ s.rcvbuf \in Seq(Data) /\ s.fd # ListenFd
      BY <1>1, <3>1, <3>2 DEF EpollInv, TableInv
    <3>4. PICK n, n2 : n = Pending(pkt, rdlist, svr.evs, s.fd) /\ n2 = Pending(pkt', rdlist', svr'.evs, s.fd)
      OBVIOUS
    <3>5. n \in Nat /\ n2 \in Nat /\ n2 <= n
      BY <1>2, <3>3, <3>4, CountTyped
    <3>6. \/ Events(pkt', rdlist', svr', s2) = n2 + 1 /\ Events(pkt, rdlist, svr, s) = n + 1
          \/ Events(pkt', rdlist', svr', s2) = n2 /\ Events(pkt, rdlist, svr, s) = n
      BY <3>1, <3>2, <3>4, EventsSum
    <3>7. Events(pkt', rdlist', svr', s2) <= Events(pkt, rdlist, svr, s)
      BY <3>5, <3>6
    <3> QED
      BY <3>1, <3>2, <3>3, <3>7, ServedLess
  <2> QED
    BY <2>1, <2>2
<1>4. svr'.at \in {"del", "close"} => Pending(pkt', rdlist', svr'.evs, svr'.fd) = 0
  <2> SUFFICES ASSUME svr.at \in {"del", "close"} PROVE Pending(pkt', rdlist', svr'.evs, svr.fd) = 0
    OBVIOUS
  <2>1. svr.fd # ListenFd
    BY DEF SvrInv
  <2>2. Pending(pkt, rdlist, svr.evs, svr.fd) = 0
    BY DEF EpollInv
  <2>3. Pending(pkt', rdlist', svr'.evs, svr.fd) \in Nat
    BY CountTyped
  <2>4. Pending(pkt', rdlist', svr'.evs, svr.fd) <= 0
    BY <1>2, <2>1, <2>2
  <2> QED
    BY <2>3, <2>4
<1> QED
  BY <1>3, <1>4, EpollFrom

\* The packet thread's part: what it delivers, it reports.
LEMMA EpollPacket ==
  ASSUME TypeOK, TableInv, RingEnds, PktInv, SvrInv, QueueInv, app = "epoll", PacketThread
  PROVE  EpollInv'
<1>1. tcb \in Seq(Streams) /\ Len(tcb) \in Nat /\ DOMAIN tcb = 1 .. Len(tcb) /\ ListInv /\ EpollInv
  BY DEF TypeOK, QueueInv
<1>2. ASSUME items' = items, rdlist' = rdlist, svr' = svr, tcb' = tcb \/ Alike(tcb, tcb'),
             pkt' = pkt \/ pkt'.at \notin {"find", "push"}
      PROVE  EpollInv'
  <2>1. \A fd : Pending(pkt', rdlist', svr'.evs, fd) <= Pending(pkt, rdlist, svr.evs, fd)
    BY <1>2, PendingLess
  <2> QED
    BY <1>1, <1>2, <2>1, EpollQuiet
<1>3. Idle.at \notin {"find", "push"}
  BY DEF Idle
<1>4. CASE ArpReply \/ udp_process \/ ng_tcp_handle_close_wait
  BY <1>2, <1>4 DEF ArpReply, udp_process, ng_tcp_handle_close_wait, Arrives, epoll
<1>5. CASE SendPass
  <2>1. items' = items /\ rdlist' = rdlist /\ svr' = svr /\ pkt' = pkt
    BY <1>5 DEF SendPass, epoll
  <2> QED
    BY <1>2, <1>5, <2>1, SendPassStep
<1>6. CASE Listening
  <2>1. items' = items /\ rdlist' = rdlist /\ svr' = svr /\ pkt' = Idle
    BY <1>6 DEF Listening, Arrives, Reads, epoll
  <2>2. CASE tcb' = tcb
    BY <1>2, <1>3, <2>1, <2>2
  <2>3. CASE tcb' # tcb
    <3>1. PICK s \in Streams : s.fd = NoFd /\ Pushed(tcb, tcb', s)
      BY <1>6, <2>3, ListeningStep
    <3>2. PICK n : n = Len(tcb)
      OBVIOUS
    <3>3. /\ n \in Nat /\ DOMAIN tcb = 1 .. n /\ DOMAIN tcb' = 1 .. n + 1 /\ Len(tcb') = n + 1 /\ tcb'[1] = s
          /\ \A k \in 1 .. n + 1 : k # 1 => k - 1 \in 1 .. n /\ tcb'[k] = tcb[k - 1]
          /\ \A j \in 1 .. n : tcb'[j + 1] = tcb[j]
      BY <1>1, <3>1, <3>2 DEF Pushed
    <3>4. Carries(tcb, tcb')
      <4> SUFFICES ASSUME NEW i \in 1 .. n, tcb[i].status # "LAST_ACK"
                   PROVE  \E j \in 1 .. n + 1 : tcb'[j].fd = tcb[i].fd /\ tcb'[j].status # "LAST_ACK"
        BY <3>3 DEF Carries
      <4>1. i + 1 \in 1 .. n + 1 /\ tcb'[i + 1] = tcb[i]
        BY <3>3
      <4> QED
        BY <4>1
    <3>5. ASSUME NEW j \in DOMAIN tcb', j < Len(tcb'), tcb'[j].fd # NoFd
          PROVE  \E i \in DOMAIN tcb : i < Len(tcb) /\ tcb'[j] = tcb[i]
      <4>1. j \in 1 .. n /\ j # 1
        BY <3>1, <3>3, <3>5
      <4>2. j - 1 \in 1 .. n /\ j - 1 < n /\ tcb'[j] = tcb[j - 1]
        BY <3>3, <4>1
      <4> QED
        BY <3>2, <3>3, <4>2
    <3> QED
      BY <1>1, <1>3, <2>1, <3>4, <3>5, EpollTable
  <2> QED
    BY <2>2, <2>3
<1>7. CASE SynReceived
  <2>1. items' = items /\ rdlist' = rdlist /\ svr' = svr /\ Arrives("SYN_RCVD")
    BY <1>7 DEF SynReceived, Arrives, epoll
  <2>2. PICK i, p : p = Head(ringIn) /\ i = ng_tcp_stream_search(tcb, p.from)
    OBVIOUS
  <2>3. i \in DOMAIN tcb /\ i < Len(tcb) /\ tcb[i].status = "SYN_RCVD"
    BY <2>1, <2>2, Arrival
  <2>4. CASE tcb' = tcb /\ pkt' = Idle
    BY <1>2, <1>3, <2>1, <2>4
  <2>5. CASE ~(tcb' = tcb /\ pkt' = Idle)
    <3>1. /\ At(tcb, tcb', i, tcb[i].fd, "ESTABLISHED", tcb[i].rcvbuf)
          /\ pkt' = [at |-> "find", i |-> i, fd |-> ListenFd, p |-> p, todo |-> <<>>]
      BY <1>7, <2>2, <2>5, SynReceivedStep
    <3>2. /\ Len(tcb') = Len(tcb) /\ DOMAIN tcb' = DOMAIN tcb
          /\ \A j \in DOMAIN tcb : j # i => tcb'[j] = tcb[j]
          /\ tcb'[i].peer = tcb[i].peer /\ tcb'[i].fd = tcb[i].fd /\ tcb'[i].status = "ESTABLISHED"
          /\ tcb'[i].rcvbuf = tcb[i].rcvbuf /\ pkt'.fd = ListenFd
      BY <1>1, <3>1 DEF At
    <3>3. \A j \in DOMAIN tcb : /\ tcb'[j].peer = tcb[j].peer /\ tcb'[j].fd = tcb[j].fd /\ tcb'[j].rcvbuf = tcb[j].rcvbuf
                                /\ tcb'[j].status = "LAST_ACK" <=> tcb[j].status = "LAST_ACK"
      BY <2>3, <3>2
    <3>4. Carries(tcb, tcb')
      BY <3>2, <3>3 DEF Carries
    <3> QED
      BY <1>1, <2>1, <3>2, <3>3, <3>4, EpollTable
  <2> QED
    BY <2>4, <2>5
<1>8. CASE Established
  <2>1. items' = items /\ rdlist' = rdlist /\ svr' = svr /\ Arrives("ESTABLISHED")
    BY <1>8 DEF Established, Arrives, epoll
  <2>2. PICK i, p : p = Head(ringIn) /\ i = ng_tcp_stream_search(tcb, p.from)
    OBVIOUS
  <2>3. i \in DOMAIN tcb /\ i < Len(tcb) /\ tcb[i].status = "ESTABLISHED" /\ pkt = Idle /\ p \in TcpPackets
    BY <2>1, <2>2, Arrival
  <2>4. CASE tcb' = tcb /\ pkt' = pkt
    BY <1>2, <2>1, <2>4
  <2>5. CASE ~(tcb' = tcb /\ pkt' = pkt)
    <3>1. PICK st \in {"ESTABLISHED", "CLOSE_WAIT"}, d \in {p.data, <<>>} :
            At(tcb, tcb', i, tcb[i].fd, st, Append(tcb[i].rcvbuf, d)) /\ pkt'.fd = tcb[i].fd
      BY <1>8, <2>2, <2>5, EstablishedStep
    <3>2. d \in Data
      BY <2>3, <3>1, EmptyData DEF TcpPackets
    <3> QED
      BY <1>1, <1>3, <2>1, <2>3, <3>1, <3>2, EpollDeliver
  <2> QED
    BY <2>4, <2>5
<1>9. CASE Acknowledges
  <2>1. items' = items /\ rdlist' = rdlist /\ svr' = svr /\ pkt.at = "ack"
    BY <1>9 DEF Acknowledges, epoll
  <2>2. CASE pkt' = Idle /\ Alike(tcb, tcb')
    BY <1>2, <1>3, <2>1, <2>2
  <2>3. CASE ~(pkt' = Idle /\ Alike(tcb, tcb'))
    <3>1. PICK i : i = pkt.i
      OBVIOUS
    <3>2. /\ pkt # Idle /\ pkt.todo = <<"PSH", "FIN">>
          /\ At(tcb, tcb', i, tcb[i].fd, "CLOSE_WAIT", Append(tcb[i].rcvbuf, <<>>))
          /\ pkt' = [pkt EXCEPT !.at = IF app = "epoll" THEN "find" ELSE "ack", !.fd = tcb[i].fd, !.todo = <<"FIN">>]
      BY <1>9, <2>3, <3>1, AcknowledgesStep
    <3>3. pkt \in Works
      BY <3>2 DEF TypeOK
    <3>4. i \in DOMAIN tcb /\ i < Len(tcb) /\ tcb[i].status = "ESTABLISHED"
      BY <1>1, <3>1, <3>2 DEF PktInv
    <3>5. pkt'.fd = tcb[i].fd
      BY <3>2, <3>3 DEF Works
    <3> QED
      BY <1>1, <2>1, <3>2, <3>4, <3>5, EmptyData, EpollDeliver
  <2> QED
    BY <2>2, <2>3
<1>10. CASE LastAck
  <2>1. items' = items /\ rdlist' = rdlist /\ svr' = svr /\ pkt' = Idle /\ Arrives("LAST_ACK")
    BY <1>10 DEF LastAck, Arrives, Reads, epoll
  <2>2. PICK i : i = ng_tcp_stream_search(tcb, Head(ringIn).from)
    OBVIOUS
  <2>3. i \in DOMAIN tcb /\ i < Len(tcb) /\ tcb[i].status = "LAST_ACK"
    BY <2>1, <2>2, Arrival
  <2>4. CASE tcb' = tcb
    BY <1>2, <1>3, <2>1, <2>4
  <2>5. CASE Removed(tcb, tcb', i)
    <3>1. PICK n : n = Len(tcb)
      OBVIOUS
    <3>2. n \in Nat /\ DOMAIN tcb = 1 .. n /\ Len(tcb') = n - 1 /\ DOMAIN tcb' = 1 .. n - 1 /\ i \in 1 .. n - 1
      BY <1>1, <2>3, <2>5, <3>1 DEF Removed
    <3>3. PICK m : m = [k \in 1 .. n - 1 |-> IF k < i THEN k ELSE k + 1]
      OBVIOUS
    <3>4. \A k \in 1 .. n - 1 : tcb'[k] = tcb[m[k]]
      BY <2>5, <3>2, <3>3 DEF Removed
    <3>5. \A k \in 1 .. n - 1 : m[k] \in 1 .. n /\ (k < n - 1 => m[k] < n)
      BY <3>2, <3>3
    <3>6. ASSUME NEW j \in 1 .. n, j # i PROVE \E k \in 1 .. n - 1 : m[k] = j
      <4>1. CASE j < i
        BY <3>2, <3>3, <4>1
      <4>2. CASE j > i
        <5>1. j - 1 \in 1 .. n - 1 /\ m[j - 1] = j
          BY <3>2, <3>3, <4>2
        <5> QED
          BY <5>1
      <4> QED
        BY <3>2, <3>6, <4>1, <4>2
    <3>7. Carries(tcb, tcb')
      <4> SUFFICES ASSUME NEW j \in 1 .. n, tcb[j].status # "LAST_ACK"
                   PROVE  \E k \in 1 .. n - 1 : tcb'[k].fd = tcb[j].fd /\ tcb'[k].status # "LAST_ACK"
        BY <3>2 DEF Carries
      <4>1. PICK k \in 1 .. n - 1 : m[k] = j
        BY <2>3, <3>6
      <4> QED
        BY <3>4, <4>1
    <3>8. \A j \in DOMAIN tcb' : j < Len(tcb') => \E k \in DOMAIN tcb : k < Len(tcb) /\ tcb'[j] = tcb[k]
      BY <3>1, <3>2, <3>4, <3>5
    <3> QED
      BY <1>1, <1>3, <2>1, <3>7, <3>8, EpollTable
  <2> QED
    BY <1>10, <2>2, <2>4, <2>5, LastAckStep
<1>11. CASE FindItem
  <2>1. items' = items /\ rdlist' = rdlist /\ svr' = svr /\ tcb' = tcb /\ pkt.at = "find"
    BY <1>11 DEF FindItem, stack, epoll
  <2>2. pkt \in Works
    BY <2>1 DEF TypeOK, Idle
  <2>3. pkt' = Idle \/ \E at : pkt' = [pkt EXCEPT !.at = at]
    BY <1>11 DEF FindItem
  <2>4. pkt'.at \in {"find", "push"} => pkt'.fd = pkt.fd
    <3>1. CASE pkt' = Idle
      BY <1>3, <3>1
    <3>2. CASE \E at : pkt' = [pkt EXCEPT !.at = at]
      BY <2>2, <3>2 DEF Works
    <3> QED
      BY <2>3, <3>1, <3>2
  <2>5. \A fd : Pending(pkt', rdlist', svr'.evs, fd) <= Pending(pkt, rdlist, svr.evs, fd)
    BY <2>1, <2>4, PendingLess
  <2> QED
    BY <1>1, <2>1, <2>5, EpollQuiet
<1>12. CASE PushItem
  <2>1. /\ items' = [fd \in DOMAIN items |-> items[fd] \/ fd = pkt.fd] /\ rdlist' = <<pkt.fd>> \o rdlist
        /\ svr' = svr /\ tcb' = tcb /\ pkt.at = "push"
    BY <1>12 DEF PushItem, stack
  <2>2. pkt \in Works /\ rdlist \in Seq(Nat)
    BY <2>1 DEF TypeOK, Idle
  <2>3. pkt'.at \notin {"find", "push"}
    BY <1>12, <2>2 DEF PushItem, After, Idle, Works
  <2>4. \A fd : fd \in ToSet(rdlist') => fd = pkt.fd \/ fd \in ToSet(rdlist)
    <3>1. pkt.fd \in Nat
      BY <2>2 DEF Works
    <3> QED
      BY <2>1, <2>2, <3>1, PushedList
  <2>5. \A fd : Pending(pkt', rdlist', svr'.evs, fd) <= Pending(pkt, rdlist, svr.evs, fd)
    BY <2>1, <2>3, <2>4, PendingPush
  <2>6. DOMAIN items' = DOMAIN items
    BY <2>1
  <2> QED
    BY <1>1, <2>1, <2>5, <2>6, EpollQuiet
<1> QED
  BY <1>4, <1>5, <1>6, <1>7, <1>8, <1>9, <1>10, <1>11, <1>12 DEF PacketThread

\* The server's part: it reads once for an event, and takes the item out of
\* the tree when it has read the end of the stream.
LEMMA EpollServer ==
  ASSUME TypeOK, TableInv, RingEnds, PktInv, SvrInv, QueueInv, app = "epoll", ServerThread
  PROVE  EpollInv'
<1>1. tcb \in Seq(Streams) /\ Len(tcb) \in Nat /\ DOMAIN tcb = 1 .. Len(tcb) /\ ListInv /\ EpollInv /\ svr \in ServerStates
  BY DEF TypeOK, QueueInv
<1>2. \A j \in DOMAIN tcb : tcb[j].rcvbuf \in Seq(Data)
  <2>1. \A j \in DOMAIN tcb : tcb[j] \in Streams
    BY <1>1
  <2> QED
    BY <2>1 DEF Streams
<1>3. CASE nepoll_wait
  <2>1. /\ items' = [fd \in DOMAIN items |-> items[fd] /\ ~Contains(rdlist, fd)]
        /\ rdlist' = <<>> /\ tcb' = tcb /\ pkt' = pkt /\ svr.evs = <<>> /\ svr.at = "next"
    BY <1>3 DEF nepoll_wait, stack
  <2>2. svr'.evs = rdlist /\ svr'.at = "next"
    BY <1>1, <1>3 DEF nepoll_wait, ServerStates
  <2>3. \A fd : Pending(pkt', rdlist', svr'.evs, fd) <= Pending(pkt, rdlist, svr.evs, fd)
    BY <2>1, <2>2, PendingWait
  <2>4. DOMAIN items' = DOMAIN items
    BY <2>1
  <2> QED
    BY <1>1, <2>1, <2>2, <2>3, <2>4, EpollQuiet
<1>4. CASE NextEvent
  <2>1. items' = items /\ rdlist' = rdlist /\ tcb' = tcb /\ pkt' = pkt
    BY <1>4 DEF NextEvent, stack, epoll
  <2>2. PICK fd : fd = Head(svr.evs)
    OBVIOUS
  <2>3. svr.at = "next" /\ svr.evs # <<>> /\ fd = svr.evs[1] /\ svr.evs \in Seq(Nat)
    BY <1>1, <1>4, <2>2, NextEventStep DEF ServerStates
  <2>4. svr'.evs = Tail(svr.evs)
    BY <1>1, <1>4 DEF NextEvent, ServerStates
  <2>5. /\ Pending(pkt, rdlist, svr'.evs, fd) + 1 = Pending(pkt, rdlist, svr.evs, fd)
        /\ \A f : Pending(pkt, rdlist, svr'.evs, f) <= Pending(pkt, rdlist, svr.evs, f)
    BY <1>1, <2>3, <2>4, PendingTake DEF ListInv
  <2>6. CASE fd = ListenFd
    <3>1. svr'.at = "accept"
      BY <1>1, <1>4, <2>2, <2>6, NextEventStep DEF ServerStates
    <3> QED
      BY <1>1, <2>1, <2>5, <3>1, EpollQuiet
  <2>7. CASE fd # ListenFd
    <3>1. PICK i \in DOMAIN tcb :
            /\ i < Len(tcb) /\ Leads(tcb, i, fd)
            /\ svr' = [svr EXCEPT !.at = "recv", !.evs = Tail(@), !.fd = fd, !.on = tcb[i].peer]
      BY <1>4, <2>2, <2>7, NextEventStep
    <3>2. svr'.at = "recv" /\ svr'.on = tcb[i].peer
      BY <1>1, <3>1 DEF ServerStates
    <3>3. ASSUME NEW j \in DOMAIN tcb, j < Len(tcb) PROVE Served(pkt', rdlist', svr', tcb'[j])
      <4>1. PICK s : s = tcb[j]
        OBVIOUS
      <4>2. Served(pkt, rdlist, svr, s) /\ s.rcvbuf \in Seq(Data)
        BY <1>1, <1>2, <3>3, <4>1 DEF EpollInv
      <4>3. PICK n, n2 : n = Pending(pkt, rdlist, svr.evs, s.fd) /\ n2 = Pending(pkt, rdlist, svr'.evs, s.fd)
        OBVIOUS
      <4>4. n \in Nat /\ n2 \in Nat /\ n2 <= n /\ (s.fd = fd => n2 + 1 = n)
        BY <2>5, <4>3, CountTyped
      <4>5. Events(pkt, rdlist, svr, s) = n
        BY <2>3, <4>3, EventsSum
      <4>6. Events(pkt', rdlist', svr', s) <= n
        <5>1. CASE svr'.on = s.peer
          <6>1. s.fd = fd
            BY <3>1, <3>2, <3>3, <4>1, <5>1 DEF TableInv, Leads
          <6>2. Events(pkt', rdlist', svr', s) = n2 + 1
            BY <2>1, <3>2, <4>3, <5>1, EventsSum
          <6> QED
            BY <4>4, <6>1, <6>2
        <5>2. CASE svr'.on # s.peer
          <6>1. Events(pkt', rdlist', svr', s) = n2
            BY <2>1, <4>3, <5>2, EventsSum
          <6> QED
            BY <4>4, <6>1
        <5> QED
          BY <5>1, <5>2
      <4> QED
        BY <2>1, <4>1, <4>2, <4>5, <4>6, ServedLess
    <3>4. Carries(tcb, tcb')
      BY <2>1 DEF Carries
    <3> QED
      BY <1>1, <2>1, <3>2, <3>3, <3>4, EpollFrom
  <2> QED
    BY <2>6, <2>7
<1>5. CASE CtlAdd \/ CtlDel
  <2>1. rdlist' = rdlist /\ tcb' = tcb /\ pkt' = pkt
    BY <1>5 DEF CtlAdd, CtlDel, stack
  <2>2. /\ svr'.evs = svr.evs /\ svr'.fd = svr.fd
        /\ CtlAdd => svr.at = "add" /\ svr'.at = "next"
        /\ CtlDel => svr.at = "del" /\ svr'.at = "close"
    BY <1>1, <1>5 DEF CtlAdd, CtlDel, ServerStates
  <2>3. ASSUME NEW j \in DOMAIN tcb, j < Len(tcb) PROVE Served(pkt', rdlist', svr', tcb'[j])
    <3>1. PICK s : s = tcb[j]
      OBVIOUS
    <3>2. Served(pkt, rdlist, svr, s) /\ s.rcvbuf \in Seq(Data)
      BY <1>1, <1>2, <2>3, <3>1 DEF EpollInv
    <3>3. PICK n : n = Pending(pkt, rdlist, svr.evs, s.fd)
      OBVIOUS
    <3>4. Events(pkt, rdlist, svr, s) = n /\ Events(pkt', rdlist', svr', s) = n /\ n \in Nat
      BY <1>5, <2>1, <2>2, <3>3, EventsSum
    <3>5. Events(pkt', rdlist', svr', s) <= Events(pkt, rdlist, svr, s)
      BY <3>4
    <3> QED
      BY <2>1, <3>1, <3>2, <3>5, ServedLess
  <2>4. CASE CtlAdd
    <3>1. DOMAIN items' = DOMAIN items \union {svr.fd}
      BY <2>4 DEF CtlAdd
    <3>2. \E i \in DOMAIN tcb : tcb[i].fd = svr.fd /\ ~Closed(i)
      BY <1>1, <2>2, <2>4 DEF EpollInv
    <3>3. \A fd \in DOMAIN items' \ {ListenFd} : \E i \in DOMAIN tcb' : tcb'[i].fd = fd /\ tcb'[i].status # "LAST_ACK"
      BY <1>1, <2>1, <3>1, <3>2 DEF EpollInv, Closed
    <3> QED
      BY <2>1, <2>2, <2>3, <2>4, <3>3 DEF EpollInv, Closed
  <2>5. CASE CtlDel
    <3>1. DOMAIN items' = DOMAIN items \ {svr.fd}
      BY <2>5 DEF CtlDel
    <3>2. \A fd \in DOMAIN items' \ {ListenFd} : \E i \in DOMAIN tcb' : tcb'[i].fd = fd /\ tcb'[i].status # "LAST_ACK"
      BY <1>1, <2>1, <3>1 DEF EpollInv, Closed
    <3>3. Pending(pkt', rdlist', svr'.evs, svr'.fd) = 0
      BY <1>1, <2>1, <2>2, <2>5 DEF EpollInv
    <3> QED
      BY <2>1, <2>2, <2>3, <2>5, <3>1, <3>2, <3>3 DEF EpollInv, Closed
  <2> QED
    BY <1>5, <2>4, <2>5
<1>6. CASE naccept
  <2>1. rdlist' = rdlist /\ items' = items /\ pkt' = pkt
    BY <1>6 DEF naccept, epoll
  <2>2. PICK i, fd : i = get_accept_tcb(tcb) /\ fd = get_fd_frombitmap(fds)
    OBVIOUS
  <2>3. /\ i \in DOMAIN tcb /\ i < Len(tcb) /\ tcb[i].fd = NoFd /\ svr.at = "accept"
        /\ fd \notin fds /\ fd # NoFd
        /\ At(tcb, tcb', i, fd, tcb[i].status, tcb[i].rcvbuf)
        /\ svr' = [svr EXCEPT !.at = "add", !.fd = fd]
    BY <1>6, <2>2, NacceptStep
  <2>4. svr'.at = "add" /\ svr'.fd = fd /\ svr'.evs = svr.evs
    BY <1>1, <2>3 DEF ServerStates
  <2>5. /\ Len(tcb') = Len(tcb) /\ DOMAIN tcb' = DOMAIN tcb
        /\ \A j \in DOMAIN tcb : j # i => tcb'[j] = tcb[j]
        /\ tcb'[i].peer = tcb[i].peer /\ tcb'[i].fd = fd /\ tcb'[i].status = tcb[i].status
        /\ tcb'[i].rcvbuf = tcb[i].rcvbuf
    BY <1>1, <2>3 DEF At
  <2>6. ListenFd \in fds
    <3>1. Len(tcb) \in DOMAIN tcb
      BY <1>1 DEF TableInv
    <3> QED
      BY <3>1 DEF TableInv, NoFd, ListenFd
  <2>7. DOMAIN items \subseteq fds
    BY <1>1, <2>6 DEF EpollInv, ListInv, TableInv
  <2>8. fd \notin ToSet(rdlist) /\ fd \notin ToSet(svr.evs)
    <3>1. ToSet(rdlist) \subseteq DOMAIN items
      BY <1>1 DEF ListInv
    <3> QED
      BY <1>1, <2>3, <2>7, <3>1 DEF ListInv
  <2>9. ~(pkt.at \in {"find", "push"} /\ pkt.fd = fd)
    <3> SUFFICES ASSUME pkt.at \in {"find", "push"} PROVE pkt.fd # fd
      OBVIOUS
    <3>1. pkt # Idle
      BY DEF Idle
    <3>2. pkt.i \in DOMAIN tcb
      BY <1>1, <3>1 DEF PktInv
    <3>3. pkt.fd = ListenFd \/ pkt.fd = NoFd \/ (pkt.fd = tcb[pkt.i].fd /\ ~Closed(pkt.i))
      BY <3>1 DEF PktInv
    <3> QED
      BY <2>3, <2>6, <3>2, <3>3 DEF TableInv
  <2>10. Pending(pkt', rdlist', svr'.evs, fd) = 0
    BY <2>1, <2>4, <2>8, <2>9, CountTyped
  <2>11. tcb[i].status # "LAST_ACK"
    BY <2>3 DEF TableInv, Closed
  <2>12. ASSUME NEW j \in DOMAIN tcb, j < Len(tcb), j # i PROVE Served(pkt', rdlist', svr', tcb'[j])
    <3>1. PICK s : s = tcb[j]
      OBVIOUS
    <3>2. Served(pkt, rdlist, svr, s) /\ s.rcvbuf \in Seq(Data) /\ tcb'[j] = s
      BY <1>1, <1>2, <2>5, <2>12, <3>1 DEF EpollInv
    <3>3. PICK n : n = Pending(pkt, rdlist, svr.evs, s.fd)
      OBVIOUS
    <3>4. Events(pkt, rdlist, svr, s) = n /\ Events(pkt', rdlist', svr', s) = n /\ n \in Nat
      <4>1. svr.at # "recv" /\ svr'.at # "recv" /\ svr'.evs = svr.evs /\ pkt' = pkt /\ rdlist' = rdlist
        BY <2>1, <2>3, <2>4
      <4>2. Events(pkt, rdlist, svr, s) = n /\ n \in Nat
        BY <3>3, <4>1, CountTyped, EventsSum
      <4>3. Events(pkt', rdlist', svr', s) = Pending(pkt', rdlist', svr'.evs, s.fd)
        BY <4>1, EventsSum
      <4> QED
        BY <3>3, <4>1, <4>2, <4>3
    <3>5. Events(pkt', rdlist', svr', s) <= Events(pkt, rdlist, svr, s)
      BY <3>4
    <3> QED
      BY <3>2, <3>5, ServedLess
  <2>13. Served(pkt', rdlist', svr', tcb'[i])
    <3>1. PICK s : s = tcb'[i]
      OBVIOUS
    <3>2. s.fd = fd /\ s.rcvbuf \in Seq(Data)
      BY <1>2, <2>3, <2>5, <3>1
    <3>3. Events(pkt', rdlist', svr', s) = 0
      BY <2>4, <2>10, <3>2, EventsSum
    <3>4. Reach(s.rcvbuf, 0)
      BY <3>2 DEF Reach
    <3> QED
      BY <3>1, <3>3, <3>4 DEF Served
  <2>14. \A f \in DOMAIN items \ {ListenFd} : \E j \in DOMAIN tcb' : tcb'[j].fd = f /\ tcb'[j].status # "LAST_ACK"
    <3> SUFFICES ASSUME NEW f \in DOMAIN items \ {ListenFd}
                 PROVE  \E j \in DOMAIN tcb' : tcb'[j].fd = f /\ tcb'[j].status # "LAST_ACK"
      OBVIOUS
    <3>1. PICK j \in DOMAIN tcb : tcb[j].fd = f /\ ~Closed(j)
      BY <1>1 DEF EpollInv
    <3>2. j # i
      BY <1>1, <2>3, <3>1 DEF ListInv
    <3> QED
      BY <2>5, <3>1, <3>2 DEF Closed
  <2> QED
    BY <2>1, <2>3, <2>4, <2>5, <2>11, <2>12, <2>13, <2>14 DEF EpollInv, Closed
<1>7. CASE ReceiveFragment
  <2>1. rdlist' = rdlist /\ items' = items /\ pkt' = pkt
    BY <1>7 DEF ReceiveFragment, epoll
  <2>2. PICK i, r : i = Waited /\ r = nrecv(tcb[Waited].rcvbuf)
    OBVIOUS
  <2>3. /\ i \in DOMAIN tcb /\ i < Len(tcb) /\ tcb[i].peer = svr.on /\ svr.at = "recv"
        /\ tcb[i].rcvbuf \in Seq(Data) /\ tcb[i].rcvbuf # <<>>
        /\ TakenFrom(tcb[i].rcvbuf, r.ring) /\ (r.data = <<>> <=> tcb[i].rcvbuf[1] = <<>>)
        /\ At(tcb, tcb', i, tcb[i].fd, tcb[i].status, r.ring)
        /\ svr' = [svr EXCEPT !.data = r.data, !.at = IF r.data # <<>> THEN "send" ELSE "del"]
    BY <1>7, <2>2, ReceiveStep
  <2>4. svr'.at = (IF r.data # <<>> THEN "send" ELSE "del") /\ svr'.fd = svr.fd /\ svr'.evs = svr.evs
    BY <1>1, <2>3 DEF ServerStates
  <2>5. /\ Len(tcb') = Len(tcb) /\ DOMAIN tcb' = DOMAIN tcb
        /\ \A j \in DOMAIN tcb : j # i => tcb'[j] = tcb[j]
        /\ tcb'[i].peer = tcb[i].peer /\ tcb'[i].fd = tcb[i].fd /\ tcb'[i].status = tcb[i].status
        /\ tcb'[i].rcvbuf = r.ring
    BY <1>1, <2>3 DEF At
  <2>6. PICK s, s2, m : s = tcb[i] /\ s2 = tcb'[i] /\ m = Pending(pkt, rdlist, svr.evs, tcb[i].fd)
    OBVIOUS
  <2>7. m \in Nat /\ Events(pkt, rdlist, svr, s) = m + 1 /\ Events(pkt', rdlist', svr', s2) = m
    <3>1. m \in Nat /\ Events(pkt, rdlist, svr, s) = m + 1
      BY <2>3, <2>6, CountTyped, EventsSum
    <3>2. svr'.at # "recv" /\ s2.fd = s.fd
      BY <2>4, <2>5, <2>6
    <3>3. Events(pkt', rdlist', svr', s2) = Pending(pkt', rdlist', svr'.evs, s2.fd)
      BY <3>2, EventsSum
    <3> QED
      BY <2>1, <2>4, <2>6, <3>1, <3>2, <3>3
  <2>8. Served(pkt', rdlist', svr', s2)
    <3> SUFFICES ASSUME s2.fd # NoFd, s2.status # "LAST_ACK" PROVE Reach(s2.rcvbuf, m)
      BY <2>7 DEF Served
    <3>1. Served(pkt, rdlist, svr, s)
      BY <1>1, <2>3, <2>6 DEF EpollInv
    <3>2. Reach(s.rcvbuf, m + 1)
      BY <2>5, <2>6, <2>7, <3>1 DEF Served
    <3>3. s.rcvbuf \in Seq(Data) /\ s.rcvbuf # <<>> /\ TakenFrom(s.rcvbuf, s2.rcvbuf) /\ m + 1 \in Nat
      BY <2>3, <2>5, <2>6, <2>7
    <3> QED
      BY <2>7, <3>2, <3>3, ReachTaken
  <2>9. ASSUME NEW j \in DOMAIN tcb, j < Len(tcb), j # i PROVE Served(pkt', rdlist', svr', tcb'[j])
    <3>1. PICK u : u = tcb[j]
      OBVIOUS
    <3>2. Served(pkt, rdlist, svr, u) /\ u.rcvbuf \in Seq(Data) /\ tcb'[j] = u
      BY <1>1, <1>2, <2>5, <2>9, <3>1 DEF EpollInv
    <3>3. PICK n : n = Pending(pkt, rdlist, svr.evs, u.fd)
      OBVIOUS
    <3>4. svr.on # u.peer /\ svr'.at # "recv"
      BY <2>3, <2>4, <2>9, <3>1 DEF TableInv
    <3>5. Events(pkt, rdlist, svr, u) = n /\ Events(pkt', rdlist', svr', u) = n /\ n \in Nat
      BY <2>1, <2>4, <3>3, <3>4, EventsSum
    <3>6. Events(pkt', rdlist', svr', u) <= Events(pkt, rdlist, svr, u)
      BY <3>5
    <3> QED
      BY <3>2, <3>6, ServedLess
  <2>10. svr'.at = "del" => Pending(pkt', rdlist', svr'.evs, svr'.fd) = 0
    <3> SUFFICES ASSUME svr'.at = "del" PROVE m = 0 /\ svr.fd = s.fd
      BY <2>1, <2>4, <2>6
    <3>1. s.rcvbuf[1] = <<>> /\ 1 \in DOMAIN s.rcvbuf
      BY <2>3, <2>4, <2>6
    <3>2. s.status = "CLOSE_WAIT"
      BY <2>3, <2>6, <3>1 DEF RingEnds, Ends
    <3>3. s.fd = svr.fd /\ svr.fd # NoFd
      BY <2>3, <2>6 DEF SvrInv, Leads
    <3>4. Reach(s.rcvbuf, m + 1)
      BY <1>1, <2>3, <2>6, <2>7, <3>2, <3>3 DEF EpollInv, Served
    <3>5. m + 1 <= 1
      BY <3>1, <3>4 DEF Reach
    <3> QED
      BY <2>7, <3>3, <3>5
  <2>11. Carries(tcb, tcb')
    <3>1. \A j \in DOMAIN tcb : tcb'[j].fd = tcb[j].fd /\ tcb'[j].status = tcb[j].status
      BY <2>5
    <3> QED
      BY <2>5, <3>1 DEF Carries
  <2>12. \A fd \in DOMAIN items' \ {ListenFd} : \E j \in DOMAIN tcb' : tcb'[j].fd = fd /\ tcb'[j].status # "LAST_ACK"
    BY <1>1, <2>1, <2>11 DEF EpollInv, ListInv, Carries, Closed
  <2> QED
    BY <2>4, <2>5, <2>6, <2>8, <2>9, <2>10, <2>12 DEF EpollInv, Closed
<1>8. CASE Echo
  <2>1. rdlist' = rdlist /\ items' = items /\ pkt' = pkt
    BY <1>8 DEF Echo, epoll
  <2>2. svr'.at = "next" /\ svr'.evs = svr.evs /\ (tcb' = tcb \/ Alike(tcb, tcb'))
    BY <1>1, <1>8, EchoStep DEF ServerStates
  <2>3. \A fd : Pending(pkt', rdlist', svr'.evs, fd) <= Pending(pkt, rdlist, svr.evs, fd)
    BY <2>1, <2>2, PendingLess
  <2> QED
    BY <1>1, <2>1, <2>2, <2>3, EpollQuiet
<1>9. CASE Close
  <2>1. rdlist' = rdlist /\ items' = items /\ pkt' = pkt
    BY <1>9 DEF Close, epoll
  <2>2. PICK i \in DOMAIN tcb :
           /\ svr.at = "close" /\ i < Len(tcb) /\ tcb[i].fd = svr.fd
           /\ At(tcb, tcb', i, tcb[i].fd, "LAST_ACK", tcb[i].rcvbuf)
           /\ svr' = [svr EXCEPT !.at = "next"]
    BY <1>9, CloseStep
  <2>3. svr'.at = "next" /\ svr'.evs = svr.evs
    BY <1>1, <2>2 DEF ServerStates
  <2>4. /\ Len(tcb') = Len(tcb) /\ DOMAIN tcb' = DOMAIN tcb
        /\ \A j \in DOMAIN tcb : j # i => tcb'[j] = tcb[j]
        /\ tcb'[i].status = "LAST_ACK"
    BY <1>1, <2>2 DEF At
  <2>5. ASSUME NEW j \in DOMAIN tcb, j < Len(tcb), j # i PROVE Served(pkt', rdlist', svr', tcb'[j])
    <3>1. PICK s : s = tcb[j]
      OBVIOUS
    <3>2. Served(pkt, rdlist, svr, s) /\ s.rcvbuf \in Seq(Data) /\ tcb'[j] = s
      BY <1>1, <1>2, <2>4, <2>5, <3>1 DEF EpollInv
    <3>3. PICK n : n = Pending(pkt, rdlist, svr.evs, s.fd)
      OBVIOUS
    <3>4. Events(pkt, rdlist, svr, s) = n /\ Events(pkt', rdlist', svr', s) = n /\ n \in Nat
      <4>1. svr.at # "recv" /\ svr'.at # "recv" /\ svr'.evs = svr.evs /\ pkt' = pkt /\ rdlist' = rdlist
        BY <2>1, <2>2, <2>3
      <4>2. Events(pkt, rdlist, svr, s) = n /\ n \in Nat
        BY <3>3, <4>1, CountTyped, EventsSum
      <4>3. Events(pkt', rdlist', svr', s) = Pending(pkt', rdlist', svr'.evs, s.fd)
        BY <4>1, EventsSum
      <4> QED
        BY <3>3, <4>1, <4>2, <4>3
    <3>5. Events(pkt', rdlist', svr', s) <= Events(pkt, rdlist, svr, s)
      BY <3>4
    <3> QED
      BY <3>2, <3>5, ServedLess
  <2>6. Served(pkt', rdlist', svr', tcb'[i])
    BY <2>4 DEF Served
  <2>7. \A fd \in DOMAIN items \ {ListenFd} : \E j \in DOMAIN tcb' : tcb'[j].fd = fd /\ tcb'[j].status # "LAST_ACK"
    <3> SUFFICES ASSUME NEW fd \in DOMAIN items \ {ListenFd}
                 PROVE  \E j \in DOMAIN tcb' : tcb'[j].fd = fd /\ tcb'[j].status # "LAST_ACK"
      OBVIOUS
    <3>1. PICK j \in DOMAIN tcb : tcb[j].fd = fd /\ ~Closed(j)
      BY <1>1 DEF EpollInv
    <3>2. j # i
      BY <1>1, <2>2, <3>1 DEF EpollInv
    <3> QED
      BY <2>4, <3>1, <3>2 DEF Closed
  <2> QED
    BY <2>1, <2>3, <2>4, <2>5, <2>6, <2>7 DEF EpollInv, Closed
<1>10. CASE CallRecv \/ nrecvfrom \/ nsendto
  BY <1>10 DEF CallRecv, nrecvfrom, nsendto, SvrInv
<1> QED
  BY <1>3, <1>4, <1>5, <1>6, <1>7, <1>8, <1>9, <1>10 DEF ServerThread

\* Every step of the event-driven server keeps EpollInv.
LEMMA EpollStep ==
  ASSUME TypeOK, TableInv, RingEnds, PktInv, SvrInv, QueueInv, app = "epoll", Next
  PROVE  EpollInv'
<1>1. CASE PeerStep \/ arp_request_timer_cb
  <2>1. UNCHANGED <<items, rdlist, pkt, svr, tcb>>
    BY <1>1, PeersKeep
  <2>2. \A fd : Pending(pkt', rdlist', svr'.evs, fd) <= Pending(pkt, rdlist, svr.evs, fd)
    BY <2>1, PendingLess
  <2> QED
    BY <2>1, <2>2, EpollQuiet DEF QueueInv
<1>2. CASE SingleLoop
  BY <1>2 DEF SingleLoop
<1> QED
  BY <1>1, <1>2, EpollPacket, EpollServer DEF Next

-----------------------------------------------------------------------------
(* ConnectsOnce is preserved. *)

\* The packet thread takes the first packet: if that is a FIN, no SYN of the
\* same peer is behind it.
LEMMA ConnectsTail ==
  ASSUME TypeOK, ConnectsOnce, ringIn # <<>>, ringIn' = Tail(ringIn), cl' = cl,
         \A c \in Peer : FinTaken(c)' => FinTaken(c) \/ From(ringIn[1], c, "FIN"),
         \A c \in Peer : Gone(c) => Gone(c)' \/ From(ringIn[1], c, "SYN")
  PROVE  ConnectsOnce'
<1>1. 1 \in DOMAIN ringIn /\ \A k \in DOMAIN ringIn' : ringIn'[k] = ringIn[k + 1] /\ k + 1 \in DOMAIN ringIn /\ k \in Nat /\ k >= 1
  <2>1. ringIn' \in Seq(Packets)
    BY HeadPacket
  <2>2. \A k \in DOMAIN ringIn' : k \in Nat /\ k >= 1
    BY <2>1
  <2> QED
    BY <2>2, HeadPacket
<1> SUFFICES ASSUME NEW c \in Peer
             PROVE  /\ \A k \in DOMAIN ringIn' : From(ringIn'[k], c, "SYN") =>
                         /\ ~FinTaken(c)'
                         /\ \A j \in DOMAIN ringIn' : From(ringIn'[j], c, "FIN") => k < j
                    /\ cl[c].last # <<>> /\ "SYN" \in cl[c].last.flags =>
                         ~FinTaken(c)' /\ \A j \in DOMAIN ringIn' : ~From(ringIn'[j], c, "FIN")
                    /\ cl[c].st = "closed" =>
                         /\ Gone(c)' /\ ~FinTaken(c)' /\ cl[c].last = <<>>
                         /\ \A j \in DOMAIN ringIn' : ~From(ringIn'[j], c, "FIN") /\ ~From(ringIn'[j], c, "SYN")
  BY DEF ConnectsOnce
<1>2. ASSUME NEW k \in DOMAIN ringIn', From(ringIn'[k], c, "SYN")
      PROVE  ~FinTaken(c)' /\ \A j \in DOMAIN ringIn' : From(ringIn'[j], c, "FIN") => k < j
  <2>1. PICK l : l = k + 1
    OBVIOUS
  <2>2. l \in DOMAIN ringIn /\ From(ringIn[l], c, "SYN") /\ l \in Nat /\ l > 1 /\ k \in Nat
    BY <1>1, <1>2, <2>1
  <2>3. ~FinTaken(c) /\ \A j \in DOMAIN ringIn : From(ringIn[j], c, "FIN") => l < j
    BY <2>2 DEF ConnectsOnce
  <2>4. ~From(ringIn[1], c, "FIN")
    BY <1>1, <2>2, <2>3
  <2>5. ASSUME NEW j \in DOMAIN ringIn', From(ringIn'[j], c, "FIN") PROVE k < j
    <3>1. l < j + 1 /\ j \in Nat
      BY <1>1, <2>3, <2>5
    <3> QED
      BY <2>1, <2>2, <3>1
  <2> QED
    BY <2>3, <2>4, <2>5
<1>3. ASSUME cl[c].last # <<>>, "SYN" \in cl[c].last.flags
      PROVE  ~FinTaken(c)' /\ \A j \in DOMAIN ringIn' : ~From(ringIn'[j], c, "FIN")
  <2>1. ~FinTaken(c) /\ \A j \in DOMAIN ringIn : ~From(ringIn[j], c, "FIN")
    BY <1>3 DEF ConnectsOnce
  <2> QED
    BY <1>1, <2>1
<1>4. ASSUME cl[c].st = "closed"
      PROVE  /\ Gone(c)' /\ ~FinTaken(c)' /\ cl[c].last = <<>>
             /\ \A j \in DOMAIN ringIn' : ~From(ringIn'[j], c, "FIN") /\ ~From(ringIn'[j], c, "SYN")
  <2>1. /\ Gone(c) /\ ~FinTaken(c) /\ cl[c].last = <<>>
        /\ \A j \in DOMAIN ringIn : ~From(ringIn[j], c, "FIN") /\ ~From(ringIn[j], c, "SYN")
    BY <1>4 DEF ConnectsOnce
  <2> QED
    BY <1>1, <2>1
<1> QED
  BY <1>2, <1>3, <1>4

\* At most answers of the peers are put into the ring.
LEMMA ConnectsKeep ==
  ASSUME TypeOK, ConnectsOnce, Grown(ringIn, ringIn', Acks \union ArpPackets),
         \A c \in Peer : cl'[c].last = cl[c].last /\ (cl'[c].st = "closed" => cl[c].st = "closed"),
         \A c \in Peer : FinTaken(c)' => FinTaken(c),
         \A c \in Peer : Gone(c) => Gone(c)'
  PROVE  ConnectsOnce'
<1>1. \A p \in Acks \union ArpPackets : \A c : ~From(p, c, "SYN") /\ ~From(p, c, "FIN")
  BY DEF Acks, ArpPackets, From
<1>2. \A k \in DOMAIN ringIn' : (k \in DOMAIN ringIn /\ ringIn'[k] = ringIn[k]) \/ ringIn'[k] \in Acks \union ArpPackets
  <2>1. ringIn \in Seq(Packets) /\ ringIn' \in Seq(Packets)
    BY DEF TypeOK, Grown
  <2>2. \A k \in DOMAIN ringIn' : k \in Nat /\ k >= 1
    BY <2>1
  <2> QED
    BY <2>1, <2>2 DEF Grown
<1>3. \A c, f : f \in {"SYN", "FIN"} =>
        \A k \in DOMAIN ringIn' : From(ringIn'[k], c, f) => k \in DOMAIN ringIn /\ From(ringIn[k], c, f)
  BY <1>1, <1>2
<1> QED
  BY <1>3 DEF ConnectsOnce

\* A peer sends: its first SYN, or a segment of a connection that is open,
\* or the last segment again.
LEMMA ConnectsSend ==
  ASSUME TypeOK, PushHasData, ConnectsOnce, NEW c \in Peer, NEW p, NEW h, Sends(c, p, h),
         UNCHANGED <<tcb, pkt, svr>>, h.st = "closed" => cl[c].st = "closed", h.last = p,
         "SYN" \notin p.flags \/ "FIN" \notin p.flags,
         "SYN" \in p.flags => ~FinTaken(c) /\ \A j \in DOMAIN ringIn : ~From(ringIn[j], c, "FIN"),
         h.st # "closed"
  PROVE  ConnectsOnce'
<1>1. ringIn \in Seq(Packets) /\ ringIn' \in Seq(Packets) /\ Len(ringIn) <= Len(ringIn') /\ p.from = c
  BY DEF TypeOK, Sends, Grown
<1>2. \A k \in DOMAIN ringIn' : k \in Nat /\ k >= 1 /\ (k \in DOMAIN ringIn \/ k > Len(ringIn))
  BY <1>1
<1>3. \A k \in DOMAIN ringIn' : \/ k \in DOMAIN ringIn /\ ringIn'[k] = ringIn[k]
                                \/ k > Len(ringIn) /\ ringIn'[k] = p
  BY <1>1, <1>2 DEF Sends, Grown
<1>4. cl'[c] = h /\ \A d \in Peer : d # c => cl'[d] = cl[d]
  BY DEF Sends, ClAt
<1>5. \A d : (FinTaken(d)' <=> FinTaken(d)) /\ (Gone(d)' <=> Gone(d))
  BY DEF FinTaken, Gone
<1>6. ASSUME NEW d \in Peer, d # c
      PROVE  /\ \A k \in DOMAIN ringIn' : From(ringIn'[k], d, "SYN") =>
                  /\ ~FinTaken(d)'
                  /\ \A j \in DOMAIN ringIn' : From(ringIn'[j], d, "FIN") => k < j
             /\ cl'[d].last # <<>> /\ "SYN" \in cl'[d].last.flags =>
                  ~FinTaken(d)' /\ \A j \in DOMAIN ringIn' : ~From(ringIn'[j], d, "FIN")
             /\ cl'[d].st = "closed" =>
                  /\ Gone(d)' /\ ~FinTaken(d)' /\ cl'[d].last = <<>>
                  /\ \A j \in DOMAIN ringIn' : ~From(ringIn'[j], d, "FIN") /\ ~From(ringIn'[j], d, "SYN")
  <2>1. \A f : ~From(p, d, f)
    BY <1>1, <1>6 DEF From
  <2>2. \A k \in DOMAIN ringIn' : \A f : From(ringIn'[k], d, f) => k \in DOMAIN ringIn /\ From(ringIn[k], d, f)
    BY <1>3, <2>1
  <2> QED
    BY <1>4, <1>5, <1>6, <2>2 DEF ConnectsOnce
<1>7. ASSUME NEW k \in DOMAIN ringIn', From(ringIn'[k], c, "SYN")
      PROVE  ~FinTaken(c) /\ \A j \in DOMAIN ringIn' : From(ringIn'[j], c, "FIN") => k < j
  <2>1. CASE k \in DOMAIN ringIn /\ ringIn'[k] = ringIn[k]
    <3>1. ~FinTaken(c) /\ \A j \in DOMAIN ringIn : From(ringIn[j], c, "FIN") => k < j
      BY <1>7, <2>1 DEF ConnectsOnce
    <3>2. k <= Len(ringIn) /\ Len(ringIn) \in Nat /\ k \in Nat
      BY <1>1, <2>1
    <3>3. ASSUME NEW j \in DOMAIN ringIn', From(ringIn'[j], c, "FIN") PROVE k < j
      <4>1. CASE j \in DOMAIN ringIn /\ ringIn'[j] = ringIn[j]
        BY <3>1, <3>3, <4>1
      <4>2. CASE j > Len(ringIn)
        BY <1>2, <3>2, <4>2
      <4> QED
        BY <1>3, <4>1, <4>2
    <3> QED
      BY <3>1, <3>3
  <2>2. CASE ringIn'[k] = p
    <3>1. "SYN" \in p.flags
      BY <1>7, <2>2 DEF From
    <3>2. \A j \in DOMAIN ringIn' : ~From(ringIn'[j], c, "FIN")
      BY <1>3, <3>1 DEF From
    <3> QED
      BY <3>1, <3>2
  <2> QED
    BY <1>3, <2>1, <2>2
<1>8. ASSUME "SYN" \in p.flags
      PROVE  ~FinTaken(c) /\ \A j \in DOMAIN ringIn' : ~From(ringIn'[j], c, "FIN")
  BY <1>3, <1>8 DEF From
<1> QED
  BY <1>4, <1>5, <1>6, <1>7, <1>8 DEF ConnectsOnce

\* Every step of the event-driven server keeps ConnectsOnce.
LEMMA ConnectsStep ==
  ASSUME TypeOK, TableInv, PktInv, SvrInv, PushHasData, QueueInv, app = "epoll", Next
  PROVE  ConnectsOnce'
<1>1. tcb \in Seq(Streams) /\ Len(tcb) \in Nat /\ DOMAIN tcb = 1 .. Len(tcb) /\ ConnectsOnce /\ svr \in ServerStates
  BY DEF TypeOK, QueueInv
<1>2. ASSUME SameShape(tcb, tcb')
      PROVE  \A c : /\ Gone(c)' <=> Gone(c)
                    /\ (\E i \in DOMAIN tcb' : tcb'[i].peer = c /\ tcb'[i].status \in {"CLOSE_WAIT", "LAST_ACK"})
                       <=> (\E i \in DOMAIN tcb : tcb[i].peer = c /\ tcb[i].status \in {"CLOSE_WAIT", "LAST_ACK"})
  <2>1. DOMAIN tcb' = DOMAIN tcb /\ \A j \in DOMAIN tcb : tcb'[j].peer = tcb[j].peer /\ tcb'[j].status = tcb[j].status
    BY <1>2 DEF SameShape
  <2> QED
    BY <2>1 DEF Gone
<1>3. ASSUME SameShape(tcb, tcb'),
             pkt' # Idle => pkt # Idle /\ pkt'.p = pkt.p,
             svr'.at = "recv" => (svr.at = "recv" /\ svr'.on = svr.on) \/ ~Gone(svr'.on)
      PROVE  \A c \in Peer : (FinTaken(c)' => FinTaken(c)) /\ (Gone(c) => Gone(c)')
  BY <1>2, <1>3 DEF FinTaken
<1>4. Grown(ringIn, ringIn, Acks \union ArpPackets)
  <2>1. ringIn \in Seq(Packets) /\ \A k \in DOMAIN ringIn : k <= Len(ringIn)
    BY DEF TypeOK
  <2> QED
    BY <2>1 DEF Grown
<1>5. ASSUME SameShape(tcb, tcb'), ringIn' = ringIn, cl' = cl,
             pkt' # Idle => pkt # Idle /\ pkt'.p = pkt.p,
             svr'.at = "recv" => (svr.at = "recv" /\ svr'.on = svr.on) \/ ~Gone(svr'.on)
      PROVE  ConnectsOnce'
  BY <1>1, <1>3, <1>4, <1>5, ConnectsKeep
<1>6. tcb' = tcb => SameShape(tcb, tcb')
  BY <1>1, ShapeAlike
<1>7. CASE PeerStep
  <2>1. UNCHANGED <<tcb, pkt, svr>>
    BY <1>7, PeersKeep
  <2>2. PICK c \in Peer : \/ Connect(c) \/ Resend(c) \/ SendSegment(c, 0, {"FIN"})
                         \/ \E n \in Length : \/ SendSegment(c, n, {}) \/ SendSegment(c, n, {"FIN"})
                                              \/ SendDatagram(c, n)
    BY <1>7 DEF PeerStep
  <2>3. CASE Connect(c)
    <3>1. PICK p, h : Sends(c, p, h) /\ cl[c].st = "closed" /\ h.st = "syn" /\ h.last = p /\ "FIN" \notin p.flags
      BY <2>3, ConnectStep
    <3>2. ~FinTaken(c) /\ \A j \in DOMAIN ringIn : ~From(ringIn[j], c, "FIN")
      BY <1>1, <3>1 DEF ConnectsOnce
    <3> QED
      BY <1>1, <2>1, <3>1, <3>2, ConnectsSend
  <2>4. CASE Resend(c)
    <3>1. PICK p, h : Sends(c, p, h) /\ cl[c].last # <<>> /\ p = cl[c].last /\ h.st = cl[c].st /\ h.last = cl[c].last
      BY <2>4, ResendStep
    <3>2. "SYN" \in p.flags => ~FinTaken(c) /\ \A j \in DOMAIN ringIn : ~From(ringIn[j], c, "FIN")
      BY <1>1, <3>1 DEF ConnectsOnce
    <3>3. cl[c].st # "closed"
      BY <1>1, <3>1 DEF ConnectsOnce
    <3>4. "SYN" \notin p.flags \/ "FIN" \notin p.flags
      BY <3>1 DEF PushHasData
    <3> QED
      BY <1>1, <2>1, <3>1, <3>2, <3>3, <3>4, ConnectsSend
  <2>5. ASSUME NEW n \in Length \union {0}, NEW flags \in {{}, {"FIN"}}, SendSegment(c, n, flags)
        PROVE  ConnectsOnce'
    <3>1. PICK p, h : Sends(c, p, h) /\ h.st # "closed" /\ h.last = p /\ "SYN" \notin p.flags
      BY <2>5, SegmentStep
    <3> QED
      BY <1>1, <2>1, <3>1, ConnectsSend
  <2>6. ASSUME NEW n \in Length, SendDatagram(c, n)
        PROVE  FALSE
    BY <2>6 DEF SendDatagram
  <2> QED
    BY <2>2, <2>3, <2>4, <2>5, <2>6
<1>8. CASE arp_request_timer_cb \/ SingleLoop
  BY <1>8 DEF arp_request_timer_cb, SingleLoop
<1>9. CASE SendPass
  <2>1. pkt' = pkt /\ svr' = svr
    BY <1>9 DEF SendPass
  <2>2. /\ Alike(tcb, tcb') /\ Grown(ringIn, ringIn', Acks \union ArpPackets)
        /\ \A c \in Peer : cl'[c].last = cl[c].last /\ (cl'[c].st = "closed" => cl[c].st = "closed")
    BY <1>9, SendPassStep
  <2>3. SameShape(tcb, tcb')
    BY <1>1, <2>2, ShapeAlike
  <2> QED
    BY <1>1, <1>3, <2>1, <2>2, <2>3, ConnectsKeep
<1>10. ASSUME NEW kind, Reads(kind)
       PROVE  ringIn # <<>> /\ ringIn' = Tail(ringIn) /\ pkt = Idle /\ Head(ringIn) = ringIn[1]
  BY <1>10, HeadPacket DEF Reads
<1>11. CASE ArpReply \/ udp_process \/ ng_tcp_handle_close_wait
  <2>1. ringIn # <<>> /\ ringIn' = Tail(ringIn) /\ cl' = cl /\ pkt' = pkt /\ svr' = svr /\ tcb' = tcb
    BY <1>10, <1>11 DEF ArpReply, udp_process, ng_tcp_handle_close_wait, Arrives
  <2> QED
    BY <1>1, <1>3, <1>6, <2>1, ConnectsTail
<1>12. ASSUME NEW status, Arrives(status)
       PROVE  /\ ringIn # <<>> /\ ringIn' = Tail(ringIn) /\ cl' = cl /\ svr' = svr /\ pkt = Idle
              /\ Head(ringIn) = ringIn[1] /\ Head(ringIn).kind = "tcp"
  BY <1>10, <1>12 DEF Arrives, Reads
<1>13. CASE Listening
  <2>1. Arrives("LISTEN") /\ pkt' = pkt
    BY <1>13 DEF Listening
  <2>2. PICK p : p = Head(ringIn)
    OBVIOUS
  <2>3. p = ringIn[1] /\ p.kind = "tcp" /\ svr' = svr /\ pkt = Idle
    BY <1>12, <2>1, <2>2
  <2>4. CASE tcb' = tcb
    BY <1>1, <1>3, <1>6, <1>12, <2>1, <2>4, ConnectsTail
  <2>5. CASE tcb' # tcb
    <3>1. PICK s \in Streams : s.peer = p.from /\ s.status = "SYN_RCVD" /\ Pushed(tcb, tcb', s) /\ "SYN" \in p.flags
      BY <1>13, <2>2, <2>5, ListeningStep
    <3>2. /\ 1 \in DOMAIN tcb' /\ tcb'[1] = s
          /\ \A k \in DOMAIN tcb' : tcb'[k] = s \/ \E j \in DOMAIN tcb : tcb'[k] = tcb[j]
          /\ \A j \in DOMAIN tcb : \E k \in DOMAIN tcb' : tcb'[k] = tcb[j]
      <4>1. /\ DOMAIN tcb' = 1 .. Len(tcb) + 1
            /\ \A k \in DOMAIN tcb' : k = 1 \/ (k - 1 \in DOMAIN tcb /\ tcb'[k] = tcb[k - 1])
            /\ \A j \in DOMAIN tcb : tcb'[j + 1] = tcb[j]
        BY <1>1, <3>1 DEF Pushed
      <4>2. \A j \in DOMAIN tcb : j + 1 \in DOMAIN tcb'
        BY <1>1, <4>1
      <4>3. 1 \in DOMAIN tcb' /\ tcb'[1] = s
        BY <1>1, <3>1, <4>1 DEF Pushed
      <4> QED
        BY <4>1, <4>2, <4>3
    <3>3. \A c \in Peer : FinTaken(c)' => FinTaken(c)
      BY <2>1, <2>3, <3>1, <3>2 DEF FinTaken, Gone
    <3>4. \A c \in Peer : Gone(c) => Gone(c)' \/ From(ringIn[1], c, "SYN")
      BY <2>3, <3>1, <3>2 DEF Gone, From
    <3> QED
      BY <1>1, <1>12, <2>1, <3>3, <3>4, ConnectsTail
  <2> QED
    BY <2>4, <2>5
<1>14. ASSUME NEW i \in DOMAIN tcb, NEW p, p = Head(ringIn), tcb[i].peer = p.from, NEW status, Arrives(status),
              NEW fd, NEW st, NEW r, At(tcb, tcb', i, fd, st, r), st = "CLOSE_WAIT" => "FIN" \in p.flags,
              st # "LAST_ACK", pkt' = Idle \/ pkt'.p = p
       PROVE  ConnectsOnce'
  <2>1. p = ringIn[1] /\ p.kind = "tcp" /\ svr' = svr /\ pkt = Idle
    BY <1>12, <1>14
  <2>2. /\ DOMAIN tcb' = DOMAIN tcb /\ \A j \in DOMAIN tcb : j # i => tcb'[j] = tcb[j]
        /\ tcb'[i].peer = p.from /\ tcb'[i].status = st
    BY <1>1, <1>14 DEF At
  <2>3. \A j \in DOMAIN tcb : tcb'[j].peer = tcb[j].peer
    BY <1>14, <2>2
  <2>4. \A c : Gone(c)' <=> Gone(c)
    BY <2>2, <2>3 DEF Gone
  <2>5. ASSUME NEW c \in Peer, FinTaken(c)' PROVE FinTaken(c) \/ From(ringIn[1], c, "FIN")
    <3>1. CASE \E j \in DOMAIN tcb' : tcb'[j].peer = c /\ tcb'[j].status \in {"CLOSE_WAIT", "LAST_ACK"}
      <4>1. PICK j \in DOMAIN tcb : tcb'[j].peer = c /\ tcb'[j].status \in {"CLOSE_WAIT", "LAST_ACK"}
        BY <2>2, <3>1
      <4>2. CASE j = i
        BY <1>14, <2>1, <2>2, <4>1, <4>2 DEF From
      <4>3. CASE j # i
        BY <2>2, <4>1, <4>3 DEF FinTaken
      <4> QED
        BY <4>2, <4>3
    <3>2. CASE pkt' # Idle /\ pkt'.p.from = c /\ "FIN" \in pkt'.p.flags
      BY <1>14, <2>1, <3>2 DEF From
    <3>3. CASE svr'.at = "recv" /\ svr'.on = c /\ Gone(c)'
      BY <2>1, <2>4, <3>3 DEF FinTaken
    <3> QED
      BY <2>5, <3>1, <3>2, <3>3 DEF FinTaken
  <2> QED
    BY <1>1, <1>12, <1>14, <2>4, <2>5, ConnectsTail
<1>15. CASE SynReceived
  <2>1. Arrives("SYN_RCVD")
    BY <1>15 DEF SynReceived
  <2>2. PICK i, p : p = Head(ringIn) /\ i = ng_tcp_stream_search(tcb, p.from)
    OBVIOUS
  <2>3. i \in DOMAIN tcb /\ tcb[i].peer = p.from
    BY <2>1, <2>2, Arrival
  <2>4. CASE tcb' = tcb /\ pkt' = Idle
    BY <1>1, <1>3, <1>6, <1>12, <2>1, <2>4, ConnectsTail
  <2>5. CASE ~(tcb' = tcb /\ pkt' = Idle)
    <3>1. /\ At(tcb, tcb', i, tcb[i].fd, "ESTABLISHED", tcb[i].rcvbuf)
          /\ pkt' = [at |-> "find", i |-> i, fd |-> ListenFd, p |-> p, todo |-> <<>>]
      BY <1>15, <2>2, <2>5, SynReceivedStep
    <3>2. pkt'.p = p
      BY <3>1
    <3> QED
      BY <1>14, <2>1, <2>2, <2>3, <3>1, <3>2
  <2> QED
    BY <2>4, <2>5
<1>16. CASE Established
  <2>1. Arrives("ESTABLISHED")
    BY <1>16 DEF Established
  <2>2. PICK i, p : p = Head(ringIn) /\ i = ng_tcp_stream_search(tcb, p.from)
    OBVIOUS
  <2>3. i \in DOMAIN tcb /\ tcb[i].peer = p.from
    BY <2>1, <2>2, Arrival
  <2>4. CASE tcb' = tcb /\ pkt' = pkt
    BY <1>1, <1>3, <1>6, <1>12, <2>1, <2>4, ConnectsTail
  <2>5. CASE ~(tcb' = tcb /\ pkt' = pkt)
    <3>1. PICK st, r :
            /\ st \in {"ESTABLISHED", "CLOSE_WAIT"}
            /\ At(tcb, tcb', i, tcb[i].fd, st, r) /\ pkt'.p = p /\ (st = "CLOSE_WAIT" => "FIN" \in p.flags)
      BY <1>16, <2>2, <2>5, EstablishedStep
    <3> QED
      BY <1>14, <2>1, <2>2, <2>3, <3>1
  <2> QED
    BY <2>4, <2>5
<1>17. CASE Acknowledges
  <2>1. ringIn' = ringIn /\ cl' = cl /\ svr' = svr
    BY <1>17 DEF Acknowledges
  <2>2. CASE pkt' = Idle /\ Alike(tcb, tcb')
    <3>1. SameShape(tcb, tcb')
      BY <1>1, <2>2, ShapeAlike
    <3> QED
      BY <1>5, <2>1, <2>2, <3>1
  <2>3. CASE ~(pkt' = Idle /\ Alike(tcb, tcb'))
    <3>1. PICK i : i = pkt.i
      OBVIOUS
    <3>2. /\ pkt # Idle /\ pkt.todo = <<"PSH", "FIN">>
          /\ At(tcb, tcb', i, tcb[i].fd, "CLOSE_WAIT", Append(tcb[i].rcvbuf, <<>>))
          /\ pkt' = [pkt EXCEPT !.at = IF app = "epoll" THEN "find" ELSE "ack", !.fd = tcb[i].fd, !.todo = <<"FIN">>]
      BY <1>17, <2>3, <3>1, AcknowledgesStep
    <3>3. pkt \in Works
      BY <3>2 DEF TypeOK
    <3>4. i \in DOMAIN tcb /\ tcb[i].peer = pkt.p.from /\ "FIN" \in pkt.p.flags
      BY <1>1, <3>1, <3>2 DEF PktInv
    <3>5. pkt'.p = pkt.p
      BY <3>2, <3>3 DEF Works
    <3>6. /\ DOMAIN tcb' = DOMAIN tcb /\ \A j \in DOMAIN tcb : j # i => tcb'[j] = tcb[j]
          /\ tcb'[i].peer = tcb[i].peer
      BY <1>1, <3>2 DEF At
    <3>7. \A j \in DOMAIN tcb : tcb'[j].peer = tcb[j].peer
      BY <3>6
    <3>8. \A c : Gone(c)' <=> Gone(c)
      BY <3>6, <3>7 DEF Gone
    <3>9. FinTaken(tcb[i].peer)
      BY <3>2, <3>4 DEF FinTaken
    <3>10. ASSUME NEW c \in Peer, FinTaken(c)', c # tcb[i].peer PROVE FinTaken(c)
      <4>1. CASE \E j \in DOMAIN tcb' : tcb'[j].peer = c /\ tcb'[j].status \in {"CLOSE_WAIT", "LAST_ACK"}
        BY <3>6, <3>10, <4>1 DEF FinTaken
      <4>2. CASE pkt' # Idle /\ pkt'.p.from = c /\ "FIN" \in pkt'.p.flags
        BY <3>2, <3>5, <4>2 DEF FinTaken
      <4>3. CASE svr'.at = "recv" /\ svr'.on = c /\ Gone(c)'
        BY <2>1, <3>8, <4>3 DEF FinTaken
      <4> QED
        BY <3>10, <4>1, <4>2, <4>3 DEF FinTaken
    <3>11. \A c \in Peer : FinTaken(c)' => FinTaken(c)
      BY <3>9, <3>10
    <3> QED
      BY <1>1, <1>4, <2>1, <3>8, <3>11, ConnectsKeep
  <2> QED
    BY <2>2, <2>3
<1>18. CASE LastAck
  <2>1. Arrives("LAST_ACK") /\ pkt' = pkt
    BY <1>18 DEF LastAck
  <2>2. PICK i : i = ng_tcp_stream_search(tcb, Head(ringIn).from)
    OBVIOUS
  <2>3. i \in DOMAIN tcb /\ tcb[i].status = "LAST_ACK" /\ i < Len(tcb)
    BY <2>1, <2>2, Arrival
  <2>4. svr' = svr /\ pkt = Idle
    BY <1>12, <2>1
  <2>5. CASE tcb' = tcb
    BY <1>1, <1>3, <1>6, <1>12, <2>1, <2>5, ConnectsTail
  <2>6. CASE Removed(tcb, tcb', i)
    <3>1. PICK n : n = Len(tcb)
      OBVIOUS
    <3>2. n \in Nat /\ DOMAIN tcb = 1 .. n /\ DOMAIN tcb' = 1 .. n - 1 /\ i \in 1 .. n - 1
      BY <1>1, <2>3, <2>6, <3>1 DEF Removed
    <3>3. \A k \in 1 .. n - 1 : \E j \in 1 .. n : tcb'[k] = tcb[j]
      <4> SUFFICES ASSUME NEW k \in 1 .. n - 1 PROVE \E j \in 1 .. n : tcb'[k] = tcb[j]
        OBVIOUS
      <4>1. PICK j : j = IF k < i THEN k ELSE k + 1
        OBVIOUS
      <4>2. j \in 1 .. n
        BY <3>2, <4>1
      <4> QED
        BY <2>6, <3>2, <4>1, <4>2 DEF Removed
    <3>4. \A j \in 1 .. n : j # i => \E k \in 1 .. n - 1 : tcb'[k] = tcb[j]
      <4> SUFFICES ASSUME NEW j \in 1 .. n, j # i PROVE \E k \in 1 .. n - 1 : tcb'[k] = tcb[j]
        OBVIOUS
      <4>1. PICK k : k = IF j < i THEN j ELSE j - 1
        OBVIOUS
      <4>2. k \in 1 .. n - 1 /\ j = (IF k < i THEN k ELSE k + 1)
        BY <3>2, <4>1
      <4> QED
        BY <2>6, <3>2, <4>2 DEF Removed
    <3>5. \A c \in Peer : Gone(c) => Gone(c)'
      BY <3>2, <3>3 DEF Gone
    <3>6. \A c \in Peer : Gone(c)' => Gone(c) \/ c = tcb[i].peer
      BY <3>2, <3>4 DEF Gone
    <3>7. FinTaken(tcb[i].peer)
      BY <2>3 DEF FinTaken
    <3>8. \A c \in Peer : FinTaken(c)' => FinTaken(c)
      BY <2>1, <2>4, <3>2, <3>3, <3>6, <3>7 DEF FinTaken
    <3> QED
      BY <1>1, <1>12, <2>1, <3>5, <3>8, ConnectsTail
  <2> QED
    BY <1>18, <2>2, <2>5, <2>6, LastAckStep
<1>19. CASE FindItem
  <2>1. ringIn' = ringIn /\ cl' = cl /\ svr' = svr /\ tcb' = tcb /\ pkt.at = "find"
    BY <1>19 DEF FindItem, stack
  <2>2. pkt # Idle /\ pkt \in Works
    BY <2>1 DEF TypeOK, Idle
  <2>3. pkt' = Idle \/ \E at : pkt' = [pkt EXCEPT !.at = at]
    BY <1>19 DEF FindItem
  <2>4. pkt' # Idle => pkt'.p = pkt.p
    BY <2>2, <2>3 DEF Works
  <2> QED
    BY <1>5, <1>6, <2>1, <2>2, <2>4
<1>20. CASE PushItem
  <2>1. ringIn' = ringIn /\ cl' = cl /\ svr' = svr /\ tcb' = tcb /\ pkt.at = "push"
    BY <1>20 DEF PushItem, stack
  <2>2. pkt # Idle /\ pkt \in Works
    BY <2>1 DEF TypeOK, Idle
  <2>3. pkt' = Idle \/ \E at : pkt' = [pkt EXCEPT !.at = at]
    BY <1>20 DEF PushItem
  <2>4. pkt' # Idle => pkt'.p = pkt.p
    BY <2>2, <2>3 DEF Works
  <2> QED
    BY <1>5, <1>6, <2>1, <2>2, <2>4
<1>21. CASE nepoll_wait \/ CtlAdd \/ CtlDel
  <2>1. ringIn' = ringIn /\ cl' = cl /\ tcb' = tcb /\ pkt' = pkt
    BY <1>21 DEF nepoll_wait, CtlAdd, CtlDel, stack
  <2>2. svr'.at # "recv"
    BY <1>1, <1>21 DEF nepoll_wait, CtlAdd, CtlDel, ServerStates
  <2> QED
    BY <1>5, <1>6, <2>1, <2>2
<1>22. CASE NextEvent
  <2>1. ringIn' = ringIn /\ cl' = cl /\ tcb' = tcb /\ pkt' = pkt
    BY <1>22 DEF NextEvent, stack
  <2>2. svr'.at = "recv" => ~Gone(svr'.on)
    BY <1>1, <1>22, NextEventStep DEF ServerStates, Gone
  <2> QED
    BY <1>5, <1>6, <2>1, <2>2
<1>23. CASE CallRecv \/ nrecvfrom \/ nsendto
  BY <1>23 DEF CallRecv, nrecvfrom, nsendto, SvrInv
<1>24. CASE ReceiveFragment
  <2>1. ringIn' = ringIn /\ cl' = cl /\ pkt' = pkt
    BY <1>24 DEF ReceiveFragment
  <2>2. PICK i, r : i = Waited /\ r = nrecv(tcb[Waited].rcvbuf)
    OBVIOUS
  <2>3. i \in DOMAIN tcb /\ i < Len(tcb) /\ At(tcb, tcb', i, tcb[i].fd, tcb[i].status, r.ring)
        /\ svr' = [svr EXCEPT !.data = r.data, !.at = IF r.data # <<>> THEN "send" ELSE "del"]
    BY <1>24, <2>2, ReceiveStep
  <2>4. svr'.at # "recv"
    BY <1>1, <2>3 DEF ServerStates
  <2>5. SameShape(tcb, tcb')
    BY <1>1, <2>3, ShapeAt
  <2> QED
    BY <1>5, <2>1, <2>4, <2>5
<1>25. CASE Echo
  <2>1. ringIn' = ringIn /\ cl' = cl /\ pkt' = pkt
    BY <1>25 DEF Echo
  <2>2. svr'.at # "recv" /\ (tcb' = tcb \/ Alike(tcb, tcb'))
    BY <1>1, <1>25, EchoStep DEF ServerStates
  <2>3. SameShape(tcb, tcb')
    BY <1>1, <2>2, ShapeAlike
  <2> QED
    BY <1>5, <2>1, <2>2, <2>3
<1>26. CASE naccept \/ Close
  <2>1. ringIn' = ringIn /\ cl' = cl /\ pkt' = pkt
    BY <1>26 DEF naccept, Close
  <2>2. svr'.at # "recv"
    BY <1>1, <1>26 DEF naccept, Close, ServerStates
  <2>3. PICK i, fd, st, r :
          /\ i \in DOMAIN tcb
          /\ At(tcb, tcb', i, fd, st, r)
          /\ st = tcb[i].status \/ (tcb[i].status = "CLOSE_WAIT" /\ st = "LAST_ACK")
    <3>1. CASE naccept
      BY <3>1, NacceptStep
    <3>2. CASE Close
      BY <3>2, CloseStep
    <3> QED
      BY <1>26, <3>1, <3>2
  <2>4. /\ DOMAIN tcb' = DOMAIN tcb /\ \A j \in DOMAIN tcb : j # i => tcb'[j] = tcb[j]
        /\ tcb'[i].peer = tcb[i].peer /\ tcb'[i].status = st
    BY <1>1, <2>3 DEF At
  <2>5. \A j \in DOMAIN tcb : /\ tcb'[j].peer = tcb[j].peer
                              /\ tcb'[j].status \in {"CLOSE_WAIT", "LAST_ACK"} => tcb[j].status \in {"CLOSE_WAIT", "LAST_ACK"}
    BY <2>3, <2>4
  <2>6. \A c : Gone(c)' <=> Gone(c)
    BY <2>4, <2>5 DEF Gone
  <2>7. \A c \in Peer : FinTaken(c)' => FinTaken(c)
    BY <2>1, <2>2, <2>4, <2>5 DEF FinTaken
  <2> QED
    BY <1>1, <1>4, <2>1, <2>6, <2>7, ConnectsKeep
<1> QED
  BY <1>7, <1>8, <1>9, <1>11, <1>13, <1>15, <1>16, <1>17, <1>18, <1>19, <1>20, <1>21, <1>22, <1>23, <1>24, <1>25, <1>26
     DEF Next, PacketThread, ServerThread

-----------------------------------------------------------------------------
(* AcceptInv is preserved. *)

\* What the server still has to accept: an event of the listening socket that
\* is on its way, and the call of naccept it is in.
Due(k, rd, v) == Pending(k, rd, v.evs, ListenFd) + B(v.at = "accept")

\* Both sides of AcceptInv are numbers.
LEMMA AcceptTyped ==
  ASSUME NEW t \in Seq(Streams)
  PROVE  /\ IsFiniteSet(Unaccepted(t)) /\ Cardinality(Unaccepted(t)) \in Nat
         /\ IsFiniteSet(HalfOpen(t)) /\ Cardinality(HalfOpen(t)) \in Nat
         /\ \A c : c \in Unaccepted(t) <=> \E i \in DOMAIN t : t[i].peer = c /\ t[i].fd = NoFd
         /\ \A c : c \in HalfOpen(t) <=> \E i \in DOMAIN t : t[i].peer = c /\ t[i].status = "SYN_RCVD"
<1>1. \A i \in DOMAIN t : t[i].peer \in Peer \union {NoPeer}
  <2>1. \A i \in DOMAIN t : t[i] \in Streams
    OBVIOUS
  <2> QED
    BY <2>1 DEF Streams
<1>2. IsFiniteSet(Peer \union {NoPeer})
  BY PeerAssumption, FS_AddElement
<1>3. Unaccepted(t) \subseteq Peer \union {NoPeer} /\ HalfOpen(t) \subseteq Peer \union {NoPeer}
  BY <1>1 DEF Unaccepted, HalfOpen
<1>4. IsFiniteSet(Unaccepted(t)) /\ IsFiniteSet(HalfOpen(t))
  BY <1>2, <1>3, FS_Subset
<1>5. Cardinality(Unaccepted(t)) \in Nat /\ Cardinality(HalfOpen(t)) \in Nat
  BY <1>4, FS_CardinalityType
<1>6. \A c : c \in Unaccepted(t) <=> \E i \in DOMAIN t : t[i].peer = c /\ t[i].fd = NoFd
  BY DEF Unaccepted
<1>7. \A c : c \in HalfOpen(t) <=> \E i \in DOMAIN t : t[i].peer = c /\ t[i].status = "SYN_RCVD"
  BY DEF HalfOpen
<1> QED
  BY <1>4, <1>5, <1>6, <1>7

\* The events and the call are numbers too.
LEMMA DueTyped ==
  ASSUME NEW k, NEW rd, NEW v
  PROVE  /\ Due(k, rd, v) \in Nat
         /\ Due(k, rd, v) >= B(v.at = "accept")
         /\ Pending(k, rd, v.evs, ListenFd) \in Nat
         /\ v.at = "accept" => Due(k, rd, v) = Pending(k, rd, v.evs, ListenFd) + 1
         /\ v.at # "accept" => Due(k, rd, v) = Pending(k, rd, v.evs, ListenFd)
<1>1. PICK n, b : n = Pending(k, rd, v.evs, ListenFd) /\ b = B(v.at = "accept")
  OBVIOUS
<1>2. n \in Nat
  BY <1>1, CountTyped
<1>3. b \in {0, 1} /\ (v.at = "accept" => b = 1) /\ (v.at # "accept" => b = 0)
  BY <1>1 DEF B
<1>4. Due(k, rd, v) = n + b
  BY <1>1 DEF Due
<1> QED
  BY <1>1, <1>2, <1>3, <1>4

\* AcceptInv in terms of Due.
LEMMA AcceptDue ==
  ASSUME tcb \in Seq(Streams)
  PROVE  AcceptInv <=> Cardinality(Unaccepted(tcb)) >= Cardinality(HalfOpen(tcb)) + Due(pkt, rdlist, svr)
<1>1. PICK h, n, b : h = Cardinality(HalfOpen(tcb)) /\ n = Pending(pkt, rdlist, svr.evs, ListenFd) /\ b = B(svr.at = "accept")
  OBVIOUS
<1>2. h \in Nat /\ n \in Nat /\ b \in {0, 1}
  BY <1>1, AcceptTyped, CountTyped DEF B
<1>3. h + n + b = h + (n + b)
  BY <1>2
<1> QED
  BY <1>1, <1>3 DEF AcceptInv, Due

\* The same in the next state.
LEMMA AcceptNext ==
  ASSUME tcb' \in Seq(Streams),
         Cardinality(Unaccepted(tcb')) >= Cardinality(HalfOpen(tcb')) + Due(pkt', rdlist', svr')
  PROVE  AcceptInv'
<1>1. PICK h, n, b : /\ h = Cardinality(HalfOpen(tcb')) /\ n = Pending(pkt', rdlist', svr'.evs, ListenFd)
                     /\ b = B(svr'.at = "accept")
  OBVIOUS
<1>2. h \in Nat /\ n \in Nat /\ b \in {0, 1}
  BY <1>1, AcceptTyped, CountTyped DEF B
<1>3. h + n + b = h + (n + b)
  BY <1>2
<1> QED
  BY <1>1, <1>3 DEF AcceptInv, Due

\* A step that keeps the sets and makes no accept due.
LEMMA AcceptKeep ==
  ASSUME tcb \in Seq(Streams), tcb' \in Seq(Streams), AcceptInv,
         \A c : c \in Unaccepted(tcb') <=> c \in Unaccepted(tcb),
         \A c : c \in HalfOpen(tcb') <=> c \in HalfOpen(tcb),
         Due(pkt', rdlist', svr') <= Due(pkt, rdlist, svr)
  PROVE  AcceptInv'
<1>1. Unaccepted(tcb') = Unaccepted(tcb) /\ HalfOpen(tcb') = HalfOpen(tcb)
  OBVIOUS
<1>2. PICK u, h, n, m : /\ u = Cardinality(Unaccepted(tcb)) /\ h = Cardinality(HalfOpen(tcb))
                        /\ n = Due(pkt, rdlist, svr) /\ m = Due(pkt', rdlist', svr')
  OBVIOUS
<1>3. u \in Nat /\ h \in Nat /\ n \in Nat /\ m \in Nat
  BY <1>2, AcceptTyped, DueTyped
<1>4. u >= h + n /\ m <= n
  BY <1>2, AcceptDue
<1>5. u >= h + m
  BY <1>3, <1>4
<1>6. Cardinality(Unaccepted(tcb')) >= Cardinality(HalfOpen(tcb')) + Due(pkt', rdlist', svr')
  BY <1>1, <1>2, <1>5
<1> QED
  BY <1>6, AcceptNext

\* A stream changes, or leaves: which ones wait to be accepted, and which are
\* half open, is the same.
LEMMA AcceptShape ==
  ASSUME NEW t \in Seq(Streams), NEW u, SameShape(t, u)
  PROVE  /\ u \in Seq(Streams)
         /\ \A c : c \in Unaccepted(u) <=> c \in Unaccepted(t)
         /\ \A c : c \in HalfOpen(u) <=> c \in HalfOpen(t)
<1>1. /\ u \in Seq(Streams) /\ DOMAIN u = DOMAIN t
      /\ \A j \in DOMAIN t : u[j].peer = t[j].peer /\ u[j].fd = t[j].fd /\ u[j].status = t[j].status
  BY DEF SameShape
<1> QED
  BY <1>1, AcceptTyped

\* A SYN of a new peer: its stream is not accepted and half open.
LEMMA AcceptPushed ==
  ASSUME tcb \in Seq(Streams), AcceptInv, NEW s \in Streams, Pushed(tcb, tcb', s),
         s.fd = NoFd, s.status = "SYN_RCVD", Gone(s.peer), pkt' = pkt, rdlist' = rdlist, svr' = svr
  PROVE  AcceptInv'
<1>1. tcb' \in Seq(Streams)
  BY DEF Pushed
<1>2. /\ 1 \in DOMAIN tcb' /\ tcb'[1] = s
      /\ \A k \in DOMAIN tcb' : tcb'[k] = s \/ \E j \in DOMAIN tcb : tcb'[k] = tcb[j]
      /\ \A j \in DOMAIN tcb : \E k \in DOMAIN tcb' : tcb'[k] = tcb[j]
  <2>1. /\ DOMAIN tcb' = 1 .. Len(tcb) + 1
        /\ \A k \in DOMAIN tcb' : k = 1 \/ (k - 1 \in DOMAIN tcb /\ tcb'[k] = tcb[k - 1])
        /\ \A j \in DOMAIN tcb : tcb'[j + 1] = tcb[j]
    BY DEF Pushed
  <2>2. \A j \in DOMAIN tcb : j + 1 \in DOMAIN tcb'
    BY <2>1
  <2>3. 1 \in DOMAIN tcb' /\ tcb'[1] = s
    BY <2>1 DEF Pushed
  <2> QED
    BY <2>1, <2>2, <2>3
<1>3. PICK U, H, U2, H2 : /\ U = Unaccepted(tcb) /\ H = HalfOpen(tcb)
                          /\ U2 = Unaccepted(tcb') /\ H2 = HalfOpen(tcb')
  OBVIOUS
<1>4. \A c : c \in U2 <=> c = s.peer \/ c \in U
  <2> SUFFICES ASSUME NEW c PROVE c \in U2 <=> c = s.peer \/ c \in U
    OBVIOUS
  <2>1. c \in U <=> \E j \in DOMAIN tcb : tcb[j].peer = c /\ tcb[j].fd = NoFd
    BY <1>3, AcceptTyped
  <2>2. c \in U2 <=> \E k \in DOMAIN tcb' : tcb'[k].peer = c /\ tcb'[k].fd = NoFd
    BY <1>1, <1>3, AcceptTyped
  <2> QED
    BY <1>2, <2>1, <2>2
<1>5. \A c : c \in H2 <=> c = s.peer \/ c \in H
  <2> SUFFICES ASSUME NEW c PROVE c \in H2 <=> c = s.peer \/ c \in H
    OBVIOUS
  <2>1. c \in H <=> \E j \in DOMAIN tcb : tcb[j].peer = c /\ tcb[j].status = "SYN_RCVD"
    BY <1>3, AcceptTyped
  <2>2. c \in H2 <=> \E k \in DOMAIN tcb' : tcb'[k].peer = c /\ tcb'[k].status = "SYN_RCVD"
    BY <1>1, <1>3, AcceptTyped
  <2> QED
    BY <1>2, <2>1, <2>2
<1>6. U2 = U \union {s.peer} /\ H2 = H \union {s.peer}
  BY <1>4, <1>5
<1>7. s.peer \notin U /\ s.peer \notin H
  BY <1>3, AcceptTyped DEF Gone
<1>8. /\ IsFiniteSet(U) /\ IsFiniteSet(H)
      /\ Cardinality(U) \in Nat /\ Cardinality(H) \in Nat
  BY <1>3, AcceptTyped
<1>9. Cardinality(U2) = Cardinality(U) + 1 /\ Cardinality(H2) = Cardinality(H) + 1
  BY <1>6, <1>7, <1>8, FS_AddElement
<1>10. PICK u, h, n : u = Cardinality(U) /\ h = Cardinality(H) /\ n = Due(pkt, rdlist, svr)
  OBVIOUS
<1>11. u >= h + n /\ u \in Nat /\ h \in Nat /\ n \in Nat
  BY <1>3, <1>8, <1>10, AcceptDue, DueTyped
<1>12. u + 1 >= h + 1 + n
  BY <1>11
<1>13. Cardinality(Unaccepted(tcb')) >= Cardinality(HalfOpen(tcb')) + Due(pkt', rdlist', svr')
  BY <1>3, <1>9, <1>10, <1>12
<1> QED
  BY <1>1, <1>13, AcceptNext

\* The ACK of the handshake: the stream is no longer half open and makes the
\* listening socket readable.
LEMMA AcceptEstablished ==
  ASSUME tcb \in Seq(Streams), AcceptInv, NEW i \in DOMAIN tcb, tcb[i].status = "SYN_RCVD",
         \A j, k \in DOMAIN tcb : tcb[j].peer = tcb[k].peer => j = k,
         At(tcb, tcb', i, tcb[i].fd, "ESTABLISHED", tcb[i].rcvbuf), rdlist' = rdlist, svr' = svr
  PROVE  AcceptInv'
<1>1. /\ tcb' \in Seq(Streams) /\ DOMAIN tcb' = DOMAIN tcb
      /\ \A j \in DOMAIN tcb : j # i => tcb'[j] = tcb[j]
      /\ tcb'[i].peer = tcb[i].peer /\ tcb'[i].fd = tcb[i].fd /\ tcb'[i].status # "SYN_RCVD"
  BY DEF At
<1>2. PICK U, H, U2, H2 : /\ U = Unaccepted(tcb) /\ H = HalfOpen(tcb)
                          /\ U2 = Unaccepted(tcb') /\ H2 = HalfOpen(tcb')
  OBVIOUS
<1>3. \A j \in DOMAIN tcb : tcb'[j].peer = tcb[j].peer /\ tcb'[j].fd = tcb[j].fd
  BY <1>1
<1>4. \A c : c \in U2 <=> c \in U
  BY <1>1, <1>2, <1>3, AcceptTyped
<1>5. \A c : c \in H2 <=> c \in H /\ c # tcb[i].peer
  <2>1. \A c : c \in H2 => c \in H /\ c # tcb[i].peer
    BY <1>1, <1>2, <1>3, AcceptTyped
  <2>2. \A c : c \in H /\ c # tcb[i].peer => c \in H2
    BY <1>1, <1>2, <1>3, AcceptTyped
  <2> QED
    BY <2>1, <2>2
<1>6. U2 = U /\ H2 = H \ {tcb[i].peer} /\ tcb[i].peer \in H
  BY <1>2, <1>4, <1>5, AcceptTyped
<1>7. IsFiniteSet(H) /\ Cardinality(U) \in Nat /\ Cardinality(H) \in Nat /\ Cardinality(H2) \in Nat
  BY <1>1, <1>2, AcceptTyped
<1>8. Cardinality(H2) = Cardinality(H) - 1
  BY <1>6, <1>7, FS_RemoveElement
<1>9. PICK u, h, n, m : /\ u = Cardinality(U) /\ h = Cardinality(H)
                        /\ n = Due(pkt, rdlist, svr) /\ m = Due(pkt', rdlist', svr')
  OBVIOUS
<1>10. u >= h + n /\ u \in Nat /\ h \in Nat /\ n \in Nat /\ m \in Nat
  BY <1>2, <1>7, <1>9, AcceptDue, DueTyped
<1>11. m <= n + 1
  <2>1. PICK a, b, e : a = Pending(pkt, rdlist, svr.evs, ListenFd) /\ b = Pending(pkt', rdlist, svr.evs, ListenFd)
                       /\ e = B(svr.at = "accept")
    OBVIOUS
  <2>2. b <= a + 1 /\ a \in Nat /\ b \in Nat /\ e \in {0, 1}
    BY <2>1, PendingMore, CountTyped DEF B
  <2>3. n = a + e /\ m = b + e
    BY <1>9, <2>1 DEF Due
  <2> QED
    BY <2>2, <2>3
<1>12. u >= (h - 1) + m
  BY <1>10, <1>11
<1>13. Cardinality(Unaccepted(tcb')) >= Cardinality(HalfOpen(tcb')) + Due(pkt', rdlist', svr')
  BY <1>2, <1>6, <1>8, <1>9, <1>12
<1> QED
  BY <1>1, <1>13, AcceptNext

\* naccept takes one of the streams that wait, half open or not.
LEMMA AcceptTakes ==
  ASSUME tcb \in Seq(Streams), AcceptInv, NEW i \in DOMAIN tcb, tcb[i].fd = NoFd, NEW fd, fd # NoFd,
         \A j, k \in DOMAIN tcb : tcb[j].peer = tcb[k].peer => j = k,
         At(tcb, tcb', i, fd, tcb[i].status, tcb[i].rcvbuf), rdlist' = rdlist, pkt' = pkt,
         svr.at = "accept", svr'.at # "accept", svr'.evs = svr.evs
  PROVE  AcceptInv'
<1>1. /\ tcb' \in Seq(Streams) /\ DOMAIN tcb' = DOMAIN tcb
      /\ \A j \in DOMAIN tcb : j # i => tcb'[j] = tcb[j]
      /\ tcb'[i].peer = tcb[i].peer /\ tcb'[i].fd # NoFd /\ tcb'[i].status = tcb[i].status
  BY DEF At
<1>2. PICK U, H, U2, H2 : /\ U = Unaccepted(tcb) /\ H = HalfOpen(tcb)
                          /\ U2 = Unaccepted(tcb') /\ H2 = HalfOpen(tcb')
  OBVIOUS
<1>3. \A j \in DOMAIN tcb : tcb'[j].peer = tcb[j].peer /\ tcb'[j].status = tcb[j].status
  BY <1>1
<1>4. \A c : c \in H2 <=> c \in H
  BY <1>1, <1>2, <1>3, AcceptTyped
<1>5. \A c : c \in U2 <=> c \in U /\ c # tcb[i].peer
  <2>1. \A c : c \in U2 => c \in U /\ c # tcb[i].peer
    BY <1>1, <1>2, <1>3, AcceptTyped
  <2>2. \A c : c \in U /\ c # tcb[i].peer => c \in U2
    BY <1>1, <1>2, <1>3, AcceptTyped
  <2> QED
    BY <2>1, <2>2
<1>6. H2 = H /\ U2 = U \ {tcb[i].peer} /\ tcb[i].peer \in U
  BY <1>2, <1>4, <1>5, AcceptTyped
<1>7. IsFiniteSet(U) /\ Cardinality(U) \in Nat /\ Cardinality(H) \in Nat /\ Cardinality(U2) \in Nat
  BY <1>1, <1>2, AcceptTyped
<1>8. Cardinality(U2) = Cardinality(U) - 1
  BY <1>6, <1>7, FS_RemoveElement
<1>9. PICK u, h, n : u = Cardinality(U) /\ h = Cardinality(H) /\ n = Pending(pkt, rdlist, svr.evs, ListenFd)
  OBVIOUS
<1>10. Due(pkt, rdlist, svr) = n + 1 /\ Due(pkt', rdlist', svr') = n /\ n \in Nat
  <2>1. Due(pkt, rdlist, svr) = n + 1 /\ n \in Nat
    BY <1>9, DueTyped
  <2>2. Due(pkt', rdlist', svr') = n
    BY <1>9, DueTyped
  <2> QED
    BY <2>1, <2>2
<1>11. u >= h + (n + 1) /\ u \in Nat /\ h \in Nat
  BY <1>2, <1>7, <1>9, <1>10, AcceptDue
<1>12. u - 1 >= h + n
  BY <1>10, <1>11
<1>13. Cardinality(Unaccepted(tcb')) >= Cardinality(HalfOpen(tcb')) + Due(pkt', rdlist', svr')
  BY <1>2, <1>6, <1>8, <1>9, <1>10, <1>12
<1> QED
  BY <1>1, <1>13, AcceptNext

\* A stream that changes its status, but is not half open before or after.
LEMMA AcceptStatus ==
  ASSUME NEW t \in Seq(Streams), NEW u, NEW i \in DOMAIN t, NEW status, NEW r, At(t, u, i, t[i].fd, status, r),
         t[i].status # "SYN_RCVD", status # "SYN_RCVD"
  PROVE  /\ u \in Seq(Streams)
         /\ \A c : c \in Unaccepted(u) <=> c \in Unaccepted(t)
         /\ \A c : c \in HalfOpen(u) <=> c \in HalfOpen(t)
<1>1. /\ u \in Seq(Streams) /\ DOMAIN u = DOMAIN t
      /\ \A j \in DOMAIN t : j # i => u[j] = t[j]
      /\ u[i].peer = t[i].peer /\ u[i].fd = t[i].fd /\ u[i].status # "SYN_RCVD"
  BY DEF At
<1>2. \A j \in DOMAIN t : /\ u[j].peer = t[j].peer /\ u[j].fd = t[j].fd
                          /\ u[j].status = "SYN_RCVD" <=> t[j].status = "SYN_RCVD"
  BY <1>1
<1> QED
  BY <1>1, <1>2, AcceptTyped

\* A closed stream leaves the table.
LEMMA AcceptRemoved ==
  ASSUME NEW t \in Seq(Streams), NEW u, NEW i \in DOMAIN t, Removed(t, u, i), t[i].fd # NoFd, t[i].status # "SYN_RCVD"
  PROVE  /\ u \in Seq(Streams)
         /\ \A c : c \in Unaccepted(u) <=> c \in Unaccepted(t)
         /\ \A c : c \in HalfOpen(u) <=> c \in HalfOpen(t)
<1>1. PICK n : n = Len(t)
  OBVIOUS
<1>2. u \in Seq(Streams) /\ n \in Nat /\ DOMAIN t = 1 .. n /\ DOMAIN u = 1 .. n - 1 /\ i \in 1 .. n
  BY <1>1 DEF Removed
<1>3. \A k \in 1 .. n - 1 : \E j \in 1 .. n : u[k] = t[j]
  <2> SUFFICES ASSUME NEW k \in 1 .. n - 1 PROVE \E j \in 1 .. n : u[k] = t[j]
    OBVIOUS
  <2>1. PICK j : j = IF k < i THEN k ELSE k + 1
    OBVIOUS
  <2>2. j \in 1 .. n
    BY <1>2, <2>1
  <2> QED
    BY <1>2, <2>1, <2>2 DEF Removed
<1>4. \A j \in 1 .. n : j # i => \E k \in 1 .. n - 1 : u[k] = t[j]
  <2> SUFFICES ASSUME NEW j \in 1 .. n, j # i PROVE \E k \in 1 .. n - 1 : u[k] = t[j]
    OBVIOUS
  <2>1. PICK k : k = IF j < i THEN j ELSE j - 1
    OBVIOUS
  <2>2. k \in 1 .. n - 1 /\ j = (IF k < i THEN k ELSE k + 1)
    BY <1>2, <2>1
  <2> QED
    BY <1>2, <2>2 DEF Removed
<1>5. /\ \A k \in DOMAIN u : \E j \in DOMAIN t : u[k] = t[j]
      /\ \A j \in DOMAIN t : j # i => \E k \in DOMAIN u : u[k] = t[j]
  BY <1>2, <1>3, <1>4
<1>6. ASSUME NEW c PROVE c \in Unaccepted(u) <=> c \in Unaccepted(t)
  <2>1. c \in Unaccepted(u) <=> \E k \in DOMAIN u : u[k].peer = c /\ u[k].fd = NoFd
    BY <1>2, AcceptTyped
  <2>2. c \in Unaccepted(t) <=> \E j \in DOMAIN t : t[j].peer = c /\ t[j].fd = NoFd
    BY AcceptTyped
  <2> QED
    BY <1>5, <2>1, <2>2, Zenon
<1>7. ASSUME NEW c PROVE c \in HalfOpen(u) <=> c \in HalfOpen(t)
  <2>1. c \in HalfOpen(u) <=> \E k \in DOMAIN u : u[k].peer = c /\ u[k].status = "SYN_RCVD"
    BY <1>2, AcceptTyped
  <2>2. c \in HalfOpen(t) <=> \E j \in DOMAIN t : t[j].peer = c /\ t[j].status = "SYN_RCVD"
    BY AcceptTyped
  <2> QED
    BY <1>5, <2>1, <2>2, Zenon
<1> QED
  BY <1>2, <1>6, <1>7

\* Fewer events, and the same call: no more to accept.
LEMMA DueLess ==
  ASSUME NEW k, NEW rd, NEW v, NEW k2, NEW rd2, NEW v2, v2.at = v.at,
         Pending(k2, rd2, v2.evs, ListenFd) <= Pending(k, rd, v.evs, ListenFd)
  PROVE  Due(k2, rd2, v2) <= Due(k, rd, v)
<1>1. PICK n, m, b : /\ n = Pending(k, rd, v.evs, ListenFd) /\ m = Pending(k2, rd2, v2.evs, ListenFd)
                     /\ b = B(v.at = "accept")
  OBVIOUS
<1>2. n \in Nat /\ m \in Nat /\ m <= n /\ b \in {0, 1}
  BY <1>1, CountTyped DEF B
<1>3. Due(k, rd, v) = n + b /\ Due(k2, rd2, v2) = m + b
  BY <1>1 DEF Due
<1> QED
  BY <1>2, <1>3

\* Every event of the listening socket is one of a connection that was
\* established, and naccept takes one connection for it.
LEMMA AcceptStep ==
  ASSUME TypeOK, TableInv, PktInv, SvrInv, QueueInv, app = "epoll", Next
  PROVE  AcceptInv'
<1>1. AcceptInv /\ ListInv
  BY DEF QueueInv
<1>2. tcb \in Seq(Streams) /\ svr \in ServerStates /\ svr.evs \in Seq(Nat)
  BY DEF TypeOK, ServerStates
<1>3. \A i, j \in DOMAIN tcb : tcb[i].peer = tcb[j].peer => i = j
  BY DEF TableInv
<1>4. ASSUME SameShape(tcb, tcb'), Due(pkt', rdlist', svr') <= Due(pkt, rdlist, svr)
      PROVE  AcceptInv'
  BY <1>1, <1>2, <1>4, AcceptShape, AcceptKeep
<1>5. tcb' = tcb => SameShape(tcb, tcb')
  BY <1>2, ShapeAlike
<1>6. ASSUME pkt' = Idle \/ pkt' = pkt \/ pkt'.fd # ListenFd \/ (pkt.at \in {"find", "push"} /\ pkt'.fd = pkt.fd),
             rdlist' = rdlist, svr'.evs = svr.evs, svr'.at = "accept" => svr.at = "accept"
      PROVE  Due(pkt', rdlist', svr') <= Due(pkt, rdlist, svr)
  <2>1. pkt'.at \in {"find", "push"} /\ pkt'.fd = ListenFd => pkt.at \in {"find", "push"} /\ pkt.fd = ListenFd
    BY <1>6 DEF Idle
  <2>2. Pending(pkt', rdlist', svr'.evs, ListenFd) <= Pending(pkt, rdlist, svr.evs, ListenFd)
    BY <1>6, <2>1, PendingLess
  <2>3. PICK n, m : n = Pending(pkt, rdlist, svr.evs, ListenFd) /\ m = Pending(pkt', rdlist', svr'.evs, ListenFd)
    OBVIOUS
  <2>4. n \in Nat /\ m \in Nat /\ m <= n
    BY <2>2, <2>3, CountTyped
  <2>5. Due(pkt, rdlist, svr) = IF svr.at = "accept" THEN n + 1 ELSE n
    BY <2>3, DueTyped
  <2>6. Due(pkt', rdlist', svr') = IF svr'.at = "accept" THEN m + 1 ELSE m
    BY <2>3, DueTyped
  <2> QED
    BY <1>6, <2>4, <2>5, <2>6
<1>7. CASE PeerStep \/ arp_request_timer_cb
  BY <1>4, <1>5, <1>6, <1>7, PeersKeep
<1>8. CASE SingleLoop \/ CallRecv \/ nrecvfrom \/ nsendto
  BY <1>8 DEF SingleLoop, CallRecv, nrecvfrom, nsendto, SvrInv
<1>9. CASE ArpReply \/ udp_process \/ ng_tcp_handle_close_wait
  <2>1. tcb' = tcb /\ pkt' = pkt /\ rdlist' = rdlist /\ svr' = svr
    BY <1>9 DEF ArpReply, udp_process, ng_tcp_handle_close_wait, Arrives, epoll
  <2> QED
    BY <1>4, <1>5, <1>6, <2>1
<1>10. CASE SendPass
  <2>1. pkt' = pkt /\ rdlist' = rdlist /\ svr' = svr
    BY <1>10 DEF SendPass, epoll
  <2>2. SameShape(tcb, tcb')
    BY <1>2, <1>10, SendPassStep, ShapeAlike
  <2> QED
    BY <1>4, <1>6, <2>1, <2>2
<1>11. ASSUME NEW status, Arrives(status)
       PROVE  rdlist' = rdlist /\ svr' = svr /\ pkt = Idle
  BY <1>11 DEF Arrives, Reads, epoll
<1>12. CASE Listening
  <2>1. Arrives("LISTEN") /\ pkt' = pkt
    BY <1>12 DEF Listening
  <2>2. rdlist' = rdlist /\ svr' = svr
    BY <1>11, <2>1
  <2>3. CASE tcb' = tcb
    BY <1>4, <1>5, <1>6, <2>1, <2>2, <2>3
  <2>4. CASE tcb' # tcb
    <3>1. PICK s \in Streams : /\ s.fd = NoFd /\ s.status = "SYN_RCVD"
                               /\ Pushed(tcb, tcb', s) /\ Gone(s.peer)
      BY <1>12, <2>4, ListeningStep
    <3> QED
      BY <1>1, <1>2, <2>1, <2>2, <3>1, AcceptPushed
  <2> QED
    BY <2>3, <2>4
<1>13. CASE SynReceived
  <2>1. Arrives("SYN_RCVD")
    BY <1>13 DEF SynReceived
  <2>2. rdlist' = rdlist /\ svr' = svr
    BY <1>11, <2>1
  <2>3. PICK i, p : p = Head(ringIn) /\ i = ng_tcp_stream_search(tcb, p.from)
    OBVIOUS
  <2>4. i \in DOMAIN tcb /\ tcb[i].status = "SYN_RCVD"
    BY <2>1, <2>3, Arrival
  <2>5. CASE tcb' = tcb /\ pkt' = Idle
    BY <1>4, <1>5, <1>6, <2>2, <2>5
  <2>6. CASE At(tcb, tcb', i, tcb[i].fd, "ESTABLISHED", tcb[i].rcvbuf)
    BY <1>1, <1>2, <1>3, <2>2, <2>4, <2>6, AcceptEstablished
  <2> QED
    BY <1>13, <2>3, <2>5, <2>6, SynReceivedStep
<1>14. CASE Established
  <2>1. Arrives("ESTABLISHED")
    BY <1>14 DEF Established
  <2>2. rdlist' = rdlist /\ svr' = svr
    BY <1>11, <2>1
  <2>3. PICK i, p : p = Head(ringIn) /\ i = ng_tcp_stream_search(tcb, p.from)
    OBVIOUS
  <2>4. i \in DOMAIN tcb /\ tcb[i].status = "ESTABLISHED" /\ i < Len(tcb)
    BY <2>1, <2>3, Arrival
  <2>5. CASE tcb' = tcb /\ pkt' = pkt
    BY <1>4, <1>5, <1>6, <2>2, <2>5
  <2>6. CASE ~(tcb' = tcb /\ pkt' = pkt)
    <3>1. PICK st, r :
            /\ st \in {"ESTABLISHED", "CLOSE_WAIT"}
            /\ At(tcb, tcb', i, tcb[i].fd, st, r) /\ pkt'.fd = tcb[i].fd
      BY <1>14, <2>3, <2>6, EstablishedStep
    <3>2. pkt'.fd # ListenFd
      BY <2>4, <3>1 DEF TableInv
    <3>3. Due(pkt', rdlist', svr') <= Due(pkt, rdlist, svr)
      BY <1>6, <2>2, <3>2
    <3> QED
      BY <1>1, <1>2, <2>4, <3>1, <3>3, AcceptStatus, AcceptKeep
  <2> QED
    BY <2>5, <2>6
<1>15. CASE Acknowledges
  <2>1. rdlist' = rdlist /\ svr' = svr
    BY <1>15 DEF Acknowledges, epoll
  <2>2. CASE pkt' = Idle /\ Alike(tcb, tcb')
    <3>1. SameShape(tcb, tcb')
      BY <1>2, <2>2, ShapeAlike
    <3> QED
      BY <1>4, <1>6, <2>1, <2>2, <3>1
  <2>3. CASE ~(pkt' = Idle /\ Alike(tcb, tcb'))
    <3>1. PICK i, f : i = pkt.i /\ f = tcb[pkt.i].fd
      OBVIOUS
    <3>2. /\ pkt # Idle /\ pkt.todo = <<"PSH", "FIN">>
          /\ At(tcb, tcb', i, tcb[i].fd, "CLOSE_WAIT", Append(tcb[i].rcvbuf, <<>>))
          /\ pkt' = [pkt EXCEPT !.at = IF app = "epoll" THEN "find" ELSE "ack", !.fd = f, !.todo = <<"FIN">>]
      BY <1>15, <2>3, <3>1, AcknowledgesStep
    <3>3. pkt \in Works
      BY <3>2 DEF TypeOK
    <3>4. i \in DOMAIN tcb /\ i < Len(tcb) /\ tcb[i].status = "ESTABLISHED"
      BY <1>2, <3>1, <3>2 DEF PktInv
    <3>5. pkt'.fd = f
      BY <3>2, <3>3 DEF Works
    <3>6. pkt'.fd # ListenFd
      BY <3>1, <3>4, <3>5 DEF TableInv
    <3>7. Due(pkt', rdlist', svr') <= Due(pkt, rdlist, svr)
      BY <1>6, <2>1, <3>6
    <3>8. PICK q : q = Append(tcb[i].rcvbuf, <<>>)
      OBVIOUS
    <3>9. At(tcb, tcb', i, tcb[i].fd, "CLOSE_WAIT", q)
      BY <3>2, <3>8
    <3>10. /\ tcb' \in Seq(Streams)
           /\ \A c : c \in Unaccepted(tcb') <=> c \in Unaccepted(tcb)
           /\ \A c : c \in HalfOpen(tcb') <=> c \in HalfOpen(tcb)
      BY <1>2, <3>4, <3>9, AcceptStatus
    <3> QED
      BY <1>1, <1>2, <3>7, <3>10, AcceptKeep
  <2> QED
    BY <2>2, <2>3
<1>16. CASE LastAck
  <2>1. Arrives("LAST_ACK") /\ pkt' = pkt
    BY <1>16 DEF LastAck
  <2>2. rdlist' = rdlist /\ svr' = svr
    BY <1>11, <2>1
  <2>3. PICK i : i = ng_tcp_stream_search(tcb, Head(ringIn).from)
    OBVIOUS
  <2>4. i \in DOMAIN tcb /\ tcb[i].status = "LAST_ACK"
    BY <2>1, <2>3, Arrival
  <2>5. tcb[i].fd # NoFd
    BY <2>4 DEF TableInv, Closed
  <2>6. Due(pkt', rdlist', svr') <= Due(pkt, rdlist, svr)
    BY <1>6, <2>1, <2>2
  <2>7. CASE tcb' = tcb
    BY <1>4, <1>5, <2>6, <2>7
  <2>8. CASE Removed(tcb, tcb', i)
    BY <1>1, <1>2, <2>4, <2>5, <2>6, <2>8, AcceptRemoved, AcceptKeep
  <2> QED
    BY <1>16, <2>3, <2>7, <2>8, LastAckStep
<1>17. CASE FindItem
  <2>1. rdlist' = rdlist /\ svr' = svr /\ tcb' = tcb /\ pkt.at = "find"
    BY <1>17 DEF FindItem, stack, epoll
  <2>2. pkt # Idle /\ pkt \in Works
    BY <2>1 DEF TypeOK, Idle
  <2>3. pkt' = Idle \/ \E at : pkt' = [pkt EXCEPT !.at = at]
    BY <1>17 DEF FindItem
  <2>4. pkt' # Idle => pkt'.fd = pkt.fd
    BY <2>2, <2>3 DEF Works
  <2> QED
    BY <1>4, <1>5, <1>6, <2>1, <2>4
<1>18. CASE PushItem
  <2>1. rdlist' = <<pkt.fd>> \o rdlist /\ svr' = svr /\ tcb' = tcb /\ pkt.at = "push"
    BY <1>18 DEF PushItem, stack
  <2>2. pkt # Idle /\ pkt \in Works
    BY <2>1 DEF TypeOK, Idle
  <2>3. pkt'.at \notin {"find", "push"}
    BY <1>18, <2>2 DEF PushItem, After, Idle, Works
  <2>4. \A x : x \in ToSet(rdlist') => x = pkt.fd \/ x \in ToSet(rdlist)
    <3>1. pkt.fd \in Nat /\ rdlist \in Seq(Nat)
      BY <2>2 DEF Works, TypeOK
    <3> QED
      BY <2>1, <3>1, PushedList
  <2>5. Pending(pkt', rdlist', svr'.evs, ListenFd) <= Pending(pkt, rdlist, svr.evs, ListenFd)
    BY <2>1, <2>3, <2>4, PendingPush
  <2>6. Due(pkt', rdlist', svr') <= Due(pkt, rdlist, svr)
    BY <2>1, <2>5, DueLess
  <2> QED
    BY <1>4, <1>5, <2>1, <2>6
<1>19. CASE nepoll_wait
  <2>1. tcb' = tcb /\ pkt' = pkt /\ rdlist' = <<>> /\ svr.evs = <<>> /\ svr.at = "next"
    BY <1>19 DEF nepoll_wait, stack
  <2>2. svr'.at = svr.at /\ svr'.evs = rdlist
    BY <1>2, <1>19 DEF nepoll_wait, ServerStates
  <2>3. Pending(pkt', rdlist', svr'.evs, ListenFd) <= Pending(pkt, rdlist, svr.evs, ListenFd)
    BY <2>1, <2>2, PendingWait
  <2>4. Due(pkt', rdlist', svr') <= Due(pkt, rdlist, svr)
    BY <2>2, <2>3, DueLess
  <2> QED
    BY <1>4, <1>5, <2>1, <2>4
<1>20. CASE NextEvent
  <2>1. tcb' = tcb /\ pkt' = pkt /\ rdlist' = rdlist
    BY <1>20 DEF NextEvent, stack, epoll
  <2>2. PICK fd, e : fd = svr.evs[1] /\ e = svr.evs
    OBVIOUS
  <2>3. e # <<>> /\ e \in Seq(Nat) /\ \A j, l \in DOMAIN e : e[j] = e[l] => j = l
    BY <1>1, <1>2, <1>20, <2>2 DEF NextEvent, ListInv
  <2>4. /\ svr.at = "next" /\ svr'.evs = Tail(e)
        /\ svr'.at = IF fd = ListenFd THEN "accept" ELSE "recv"
    BY <1>2, <1>20, <2>2, NextEventStep DEF ServerStates
  <2>5. PICK n, m : n = Pending(pkt, rdlist, e, ListenFd) /\ m = Pending(pkt, rdlist, Tail(e), ListenFd)
    OBVIOUS
  <2>6. n \in Nat /\ m \in Nat /\ m <= n /\ (fd = ListenFd => m + 1 = n)
    BY <2>2, <2>3, <2>5, PendingTake, CountTyped
  <2>7. Due(pkt, rdlist, svr) = n
    BY <2>2, <2>4, <2>5, DueTyped
  <2>8. Due(pkt', rdlist', svr') = IF fd = ListenFd THEN m + 1 ELSE m
    BY <2>1, <2>4, <2>5, DueTyped
  <2>9. Due(pkt', rdlist', svr') <= Due(pkt, rdlist, svr)
    BY <2>6, <2>7, <2>8
  <2> QED
    BY <1>4, <1>5, <2>1, <2>9
<1>21. CASE CtlAdd \/ CtlDel
  <2>1. tcb' = tcb /\ pkt' = pkt /\ rdlist' = rdlist
    BY <1>21 DEF CtlAdd, CtlDel, stack
  <2>2. svr'.at # "accept" /\ svr'.evs = svr.evs
    BY <1>2, <1>21 DEF CtlAdd, CtlDel, ServerStates
  <2> QED
    BY <1>4, <1>5, <1>6, <2>1, <2>2
<1>22. CASE naccept
  <2>1. pkt' = pkt /\ rdlist' = rdlist
    BY <1>22 DEF naccept, epoll
  <2>2. PICK i, fd : i = get_accept_tcb(tcb) /\ fd = get_fd_frombitmap(fds)
    OBVIOUS
  <2>3. /\ i \in DOMAIN tcb /\ tcb[i].fd = NoFd /\ svr.at = "accept" /\ fd # NoFd
        /\ At(tcb, tcb', i, fd, tcb[i].status, tcb[i].rcvbuf)
        /\ svr' = [svr EXCEPT !.at = "add", !.fd = fd]
    BY <1>22, <2>2, NacceptStep
  <2>4. svr'.at = "add" /\ svr'.evs = svr.evs
    BY <1>2, <2>3 DEF ServerStates
  <2> QED
    BY <1>1, <1>2, <1>3, <2>1, <2>3, <2>4, AcceptTakes
<1>23. CASE ReceiveFragment
  <2>1. pkt' = pkt /\ rdlist' = rdlist
    BY <1>23 DEF ReceiveFragment, epoll
  <2>2. PICK i, r : i = Waited /\ r = nrecv(tcb[Waited].rcvbuf)
    OBVIOUS
  <2>3. i \in DOMAIN tcb /\ i < Len(tcb) /\ At(tcb, tcb', i, tcb[i].fd, tcb[i].status, r.ring)
        /\ svr' = [svr EXCEPT !.data = r.data, !.at = IF r.data # <<>> THEN "send" ELSE "del"]
    BY <1>23, <2>2, ReceiveStep
  <2>4. svr'.at # "accept" /\ svr'.evs = svr.evs
    BY <1>2, <2>3 DEF ServerStates
  <2>5. SameShape(tcb, tcb')
    BY <1>2, <2>3, ShapeAt
  <2> QED
    BY <1>4, <1>6, <2>1, <2>4, <2>5
<1>24. CASE Echo
  <2>1. pkt' = pkt /\ rdlist' = rdlist
    BY <1>24 DEF Echo, epoll
  <2>2. svr'.at # "accept" /\ svr'.evs = svr.evs /\ (tcb' = tcb \/ Alike(tcb, tcb'))
    BY <1>2, <1>24, EchoStep DEF ServerStates
  <2>3. SameShape(tcb, tcb')
    BY <1>2, <2>2, ShapeAlike
  <2> QED
    BY <1>4, <1>6, <2>1, <2>2, <2>3
<1>25. CASE Close
  <2>1. pkt' = pkt /\ rdlist' = rdlist
    BY <1>25 DEF Close, epoll
  <2>2. PICK i \in DOMAIN tcb : /\ tcb[i].status = "CLOSE_WAIT"
                                /\ At(tcb, tcb', i, tcb[i].fd, "LAST_ACK", tcb[i].rcvbuf)
    BY <1>25, CloseStep
  <2>3. svr'.at # "accept" /\ svr'.evs = svr.evs
    BY <1>2, <1>25 DEF Close, ServerStates
  <2>4. Due(pkt', rdlist', svr') <= Due(pkt, rdlist, svr)
    BY <1>6, <2>1, <2>3
  <2> QED
    BY <1>1, <1>2, <2>2, <2>4, AcceptStatus, AcceptKeep
<1> QED
  BY <1>7, <1>8, <1>9, <1>10, <1>12, <1>13, <1>14, <1>15, <1>16, <1>17, <1>18, <1>19, <1>20, <1>21, <1>22, <1>23, <1>24, <1>25
     DEF Next, PacketThread, ServerThread

-----------------------------------------------------------------------------
(* The theorems. *)

\* A step leaves the choice of the program alone.
LEMMA AppKept ==
  ASSUME Next
  PROVE  app' = app
<1>1. CASE PeerStep \/ arp_request_timer_cb
  BY <1>1, PeersKeep
<1>2. CASE PacketThread \/ SingleLoop
  BY <1>2 DEF PacketThread, ArpReply, udp_process, Listening, SynReceived, Established, Acknowledges,
              ng_tcp_handle_close_wait, LastAck, SendPass, FindItem, PushItem, Arrives, SingleLoop, stack
<1>3. CASE ServerThread
  BY <1>3 DEF ServerThread, nepoll_wait, NextEvent, CtlAdd, CtlDel, naccept, CallRecv, ReceiveFragment, Echo,
              Close, nrecvfrom, nsendto, stack
<1> QED
  BY <1>1, <1>2, <1>3 DEF Next

\* After nsocket, nbind and nlisten there is one stream, it listens, and
\* nothing is on its way.
LEMMA StackInit ==
  ASSUME Init
  PROVE  StackInv /\ QueueInv
<1>1. PICK s : s = Stream(NoPeer, ListenFd, "LISTEN")
  OBVIOUS
<1>2. /\ tcb = <<s>> /\ s \in Streams /\ s.peer = NoPeer /\ s.fd = ListenFd /\ s.status = "LISTEN"
      /\ s.sndbuf = <<>> /\ s.rcvbuf = <<>>
  <2>1. s = [peer |-> NoPeer, fd |-> ListenFd, status |-> "LISTEN", snd_nxt |-> 0, rcv_nxt |-> 0,
             sndbuf |-> <<>>, rcvbuf |-> <<>>]
    BY <1>1 DEF Stream
  <2>2. tcb = <<s>>
    BY <1>1 DEF Init, ListeningTable
  <2> QED
    BY <2>1, <2>2 DEF Streams, Status, ListenFd
<1>3. tcb \in Seq(Streams) /\ Len(tcb) = 1 /\ DOMAIN tcb = {1} /\ tcb[1] = s
  BY <1>2
<1>4. \A i \in DOMAIN tcb : i = 1 /\ tcb[i] = s
  BY <1>3
<1>5. /\ ringIn = <<>> /\ rdlist = <<>> /\ rdnum = 0 /\ pkt = Idle /\ pkt.at = "idle"
      /\ items = [fd \in {ListenFd} |-> FALSE] /\ DOMAIN items = {ListenFd}
  BY DEF Init, Idle
<1>6. PICK at : at = CASE app = "serial" -> "accept" [] app = "epoll" -> "next"
                       [] app = "udp" -> "recvfrom" [] app = "single" -> "none"
  OBVIOUS
<1>7. svr = [at |-> at, evs |-> <<>>, fd |-> NoFd, on |-> NoPeer, data |-> <<>>]
  BY <1>6 DEF Init
<1>8. app \in {"serial", "epoll", "udp", "single"}
  BY DEF Init
<1>9. /\ at \in {"accept", "next", "recvfrom", "none"}
      /\ (at = "accept" <=> app = "serial") /\ (at = "next" <=> app = "epoll")
      /\ (at = "recvfrom" <=> app = "udp") /\ (at = "none" <=> app = "single")
  BY <1>6, <1>8
<1>10. svr.at = at /\ svr.evs = <<>> /\ svr.fd = NoFd
  BY <1>7
<1>11. TypeOK
  <2>1. svr \in ServerStates
    BY <1>7, <1>9, EmptyData DEF ServerStates, ServerAt, NoFd
  <2>2. Peer0 \in Hosts
    BY DEF Peer0, Hosts
  <2>3. cl \in [Peer -> Hosts]
    BY <2>2 DEF Init
  <2>4. fds \in SUBSET Nat /\ IsFiniteSet(fds)
    <3>1. fds = {ListenFd} \/ fds = {ListenFd, ListenFd + 1}
      BY DEF Init
    <3>2. fds = {ListenFd} \/ fds = {ListenFd} \union {ListenFd + 1}
      BY <3>1
    <3>3. IsFiniteSet({ListenFd}) /\ IsFiniteSet({ListenFd} \union {ListenFd + 1})
      BY FS_Singleton, FS_AddElement
    <3> QED
      BY <3>1, <3>2, <3>3 DEF ListenFd
  <2>5. host \in [rcvbuf : Seq(Datagrams), sndbuf : Seq(Datagrams)]
    BY DEF Init
  <2>6. DOMAIN items \in SUBSET Nat /\ items \in [DOMAIN items -> BOOLEAN]
    BY <1>5 DEF ListenFd
  <2>7. rdlist \in Seq(Nat) /\ ringIn \in Seq(Packets) /\ rdnum \in Nat
    BY <1>5
  <2> QED
    BY <1>3, <1>5, <1>8, <2>1, <2>3, <2>4, <2>5, <2>6, <2>7 DEF Init, TypeOK
<1>12. TableInv
  <2>1. NoFd \notin fds /\ ListenFd \in fds
    BY DEF Init, NoFd, ListenFd
  <2>2. /\ Len(tcb) >= 1 /\ tcb[Len(tcb)] = s /\ ~Closed(Len(tcb))
        /\ Len(tcb) = 1 /\ Len(tcb) <= 2
    BY <1>2, <1>3 DEF Closed
  <2>3. \A i \in DOMAIN tcb : ~Closed(i)
    BY <1>2, <1>4 DEF Closed
  <2>4. \A i \in DOMAIN tcb : tcb[i].status = "LISTEN" <=> i = Len(tcb)
    BY <1>2, <1>4, <2>2
  <2>5. \A i \in DOMAIN tcb : tcb[i].fd = ListenFd => i = Len(tcb)
    BY <1>4, <2>2
  <2>6. \A i \in DOMAIN tcb : tcb[i].fd \in fds
    BY <1>2, <1>4, <2>1
  <2>7. \A i, j \in DOMAIN tcb : i = j
    BY <1>4
  <2> QED
    BY <1>2, <2>1, <2>2, <2>3, <2>4, <2>5, <2>6, <2>7 DEF TableInv
<1>13. RingEnds
  BY <1>2, <1>4 DEF RingEnds, Ends
<1>14. PktInv
  BY <1>5 DEF PktInv
<1>15. SvrInv
  BY <1>9, <1>10 DEF SvrInv
<1>16. PushHasData
  <2>1. \A c \in Peer : cl[c].last = <<>>
    BY DEF Init, Peer0
  <2> QED
    BY <1>5, <2>1 DEF PushHasData
<1>17. ListInv
  <2>1. {fd \in DOMAIN items : items[fd]} = {} /\ ToSet(rdlist) = {} /\ ToSet(svr.evs) = {}
    BY <1>5, <1>10 DEF ToSet
  <2>2. Len(rdlist) = 0 /\ DOMAIN rdlist = {} /\ DOMAIN svr.evs = {}
    BY <1>5, <1>10
  <2> QED
    BY <1>5, <1>10, <2>1, <2>2 DEF ListInv, ListenFd, NoFd
<1>18. ASSUME app = "epoll" PROVE EpollInv
  <2>1. svr.at \notin {"close", "add", "del"}
    BY <1>9, <1>10
  <2>2. \A i \in DOMAIN tcb : ~(i < Len(tcb))
    BY <1>3
  <2> QED
    BY <1>5, <2>1, <2>2 DEF EpollInv
<1>19. ASSUME app = "epoll" PROVE ConnectsOnce
  <2>1. \A c \in Peer : cl[c].last = <<>>
    BY DEF Init, Peer0
  <2>2. \A c \in Peer : Gone(c)
    BY <1>2, <1>4, PeerAssumption DEF Gone
  <2>3. \A c \in Peer : ~FinTaken(c)
    BY <1>2, <1>4, <1>5, <1>9, <1>10 DEF FinTaken
  <2> QED
    BY <1>5, <2>1, <2>2, <2>3 DEF ConnectsOnce
<1>20. ASSUME app = "epoll" PROVE AcceptInv
  <2>1. \A c : c \notin Unaccepted(tcb) /\ c \notin HalfOpen(tcb)
    <3>1. ListenFd # NoFd
      BY DEF ListenFd, NoFd
    <3>2. \A i \in DOMAIN tcb : tcb[i].fd # NoFd /\ tcb[i].status # "SYN_RCVD"
      BY <1>2, <1>4, <3>1
    <3> QED
      BY <1>3, <3>2, AcceptTyped
  <2>2. Unaccepted(tcb) = {} /\ HalfOpen(tcb) = {}
    BY <2>1
  <2>3. Cardinality(Unaccepted(tcb)) = 0 /\ Cardinality(HalfOpen(tcb)) = 0
    BY <2>2, FS_EmptySet
  <2>4. Pending(pkt, rdlist, svr.evs, ListenFd) = 0
    BY <1>5, <1>10, CountTyped DEF ToSet
  <2>5. Due(pkt, rdlist, svr) = 0
    BY <1>9, <1>10, <1>20, <2>4, DueTyped
  <2> QED
    BY <1>3, <2>3, <2>5, AcceptDue
<1> QED
  BY <1>11, <1>12, <1>13, <1>14, <1>15, <1>16, <1>17, <1>18, <1>19, <1>20 DEF StackInv, QueueInv

\* Every step of the peers, the packet thread and the server keeps the
\* inductive invariant.
LEMMA StackStep ==
  ASSUME StackInv, QueueInv, Next
  PROVE  StackInv' /\ QueueInv'
<1> USE DEF StackInv
<1>1. ListInv
  BY DEF QueueInv
<1>2. TypeOK'
  <2>1. CASE PeerStep \/ arp_request_timer_cb
    BY <2>1, TypePeers
  <2>2. CASE ArpReply \/ udp_process \/ Listening \/ SynReceived \/ Established
             \/ ng_tcp_handle_close_wait \/ LastAck
    BY <2>2, TypeReads
  <2>3. CASE Acknowledges \/ SendPass \/ FindItem \/ PushItem \/ SingleLoop
    BY <2>3, TypePacket
  <2>4. CASE ServerThread
    BY <1>1, <2>4, TypeServer
  <2> QED
    BY <2>1, <2>2, <2>3, <2>4 DEF Next, PacketThread
<1>3. TableInv' /\ RingEnds' /\ PktInv' /\ SvrInv' /\ PushHasData'
  BY TableStep, RingStep, PktStep, SvrStep, PushStep
<1>4. ListInv'
  BY ListStep
<1>5. app' = app
  BY AppKept
<1>6. app = "epoll" => EpollInv' /\ ConnectsOnce' /\ AcceptInv'
  BY EpollStep, ConnectsStep, AcceptStep
<1> QED
  BY <1>2, <1>3, <1>4, <1>5, <1>6 DEF QueueInv

\* A step of the environment changes nothing.
LEMMA StackStutter ==
  ASSUME StackInv, QueueInv, UNCHANGED vars
  PROVE  StackInv' /\ QueueInv'
<1> USE DEF vars, stack, epoll
<1>1. TypeOK' /\ TableInv' /\ PktInv'
  BY DEF StackInv, TypeOK, TableInv, PktInv, Closed
<1>2. RingEnds' /\ SvrInv' /\ PushHasData'
  BY DEF StackInv, RingEnds, SvrInv, PushHasData, Closed
<1>3. ListInv'
  BY DEF QueueInv, ListInv
<1>4. app = "epoll" => EpollInv' /\ AcceptInv'
  BY DEF QueueInv, EpollInv, AcceptInv, Closed
<1>5. app = "epoll" => ConnectsOnce'
  BY DEF QueueInv, ConnectsOnce, FinTaken, Gone
<1> QED
  BY <1>1, <1>2, <1>3, <1>4, <1>5 DEF StackInv, QueueInv

\* The inductive invariant of the stack holds in every state: each peer has
\* one stream, the packet thread and the server work on streams that exist,
\* and there is a fragment or a connection for every event on its way.
THEOREM StackInductive == Spec => [](StackInv /\ QueueInv)
<1>1. Init => StackInv /\ QueueInv
  BY StackInit
<1>2. (StackInv /\ QueueInv) /\ [Next]_vars => (StackInv /\ QueueInv)'
  BY StackStep, StackStutter
<1> QED
  BY <1>1, <1>2, PTL DEF Spec

\* Streams that are not closed have distinct descriptors, all marked in
\* fd_table, and a peer has one stream, whatever naccept and nclose interleave
\* with the packet thread.
THEOREM DescriptorsHold == Spec => []DescriptorsSound
<1>1. StackInv => DescriptorsSound
  BY DEF StackInv, TableInv, DescriptorsSound, Closed
<1> QED
  BY <1>1, StackInductive, PTL

\* The ready list and the tree agree although epoll_event_callback reads rdy
\* without the lock.
THEOREM ReadyListHolds == Spec => []ReadyListSound
<1>1. ASSUME TypeOK, ListInv PROVE ReadyListSound
  <2>1. /\ rdlist \in Seq(Nat) /\ Len(rdlist) \in Nat /\ DOMAIN rdlist = 1 .. Len(rdlist)
    BY <1>1 DEF TypeOK
  <2>2. PICK n, f, S : n = Len(rdlist) /\ f = rdlist /\ S = ToSet(rdlist)
    OBVIOUS
  <2>3. f \in Bijection(1 .. n, S)
    <3>1. f \in [1 .. n -> S] /\ \A x \in S : \E k \in 1 .. n : f[k] = x
      BY <2>1, <2>2 DEF ToSet
    <3>2. \A j, k \in 1 .. n : f[j] = f[k] => j = k
      BY <1>1, <2>1, <2>2 DEF ListInv
    <3> QED
      BY <3>1, <3>2 DEF Bijection, Injection, Surjection, IsInjective
  <2>4. n \in Nat /\ IsFiniteSet(1 .. n) /\ Cardinality(1 .. n) = n
    <3>1. n \in Int /\ 1 \in Int /\ (IF 1 > n THEN 0 ELSE n - 1 + 1) = n
      BY <2>1, <2>2
    <3>2. IsFiniteSet(1 .. n) /\ Cardinality(1 .. n) = IF 1 > n THEN 0 ELSE n - 1 + 1
      BY <3>1, FS_Interval
    <3> QED
      BY <2>1, <2>2, <3>1, <3>2
  <2>5. Cardinality(S) = n
    BY <2>3, <2>4, FS_Bijection DEF ExistsBijection
  <2> QED
    BY <1>1, <2>2, <2>5 DEF ListInv, ReadyListSound
<1>2. StackInv /\ QueueInv => ReadyListSound
  BY <1>1 DEF StackInv, QueueInv
<1> QED
  BY <1>2, StackInductive, PTL

\* The event-driven server never sleeps in the blocking naccept or nrecv,
\* except on a connection it has closed before: every event of the listening
\* socket has a connection to accept, and every other one a fragment to read.
THEOREM BlocksOnlyHolds == Spec => []BlocksOnlyOnStale
<1>1. ASSUME StackInv, QueueInv, app = "epoll", svr.at = "accept" PROVE get_accept_tcb(tcb) # 0
  <2>1. tcb \in Seq(Streams) /\ AcceptInv
    BY <1>1 DEF StackInv, TypeOK, QueueInv
  <2>2. PICK u, h, n, m : /\ u = Cardinality(Unaccepted(tcb)) /\ h = Cardinality(HalfOpen(tcb))
                          /\ n = Due(pkt, rdlist, svr) /\ m = Pending(pkt, rdlist, svr.evs, ListenFd)
    OBVIOUS
  <2>3. u \in Nat /\ h \in Nat /\ m \in Nat /\ n = m + 1 /\ u >= h + n
    BY <1>1, <2>1, <2>2, AcceptTyped, DueTyped, AcceptDue
  <2>4. u # 0
    BY <2>3
  <2>5. Unaccepted(tcb) # {}
    BY <2>2, <2>4, FS_EmptySet
  <2>6. \E i \in DOMAIN tcb : tcb[i].fd = NoFd
    BY <2>1, <2>5, AcceptTyped
  <2>7. 0 \notin DOMAIN tcb
    BY <2>1
  <2> QED
    BY <2>1, <2>6, <2>7, AcceptTcb
<1>2. ASSUME StackInv, QueueInv, app = "epoll", svr.at = "recv", Waited # 0, tcb[Waited].status # "LAST_ACK"
      PROVE  tcb[Waited].rcvbuf # <<>>
  <2>1. PICK w : w = Waited
    OBVIOUS
  <2>2. TypeOK /\ TableInv /\ SvrInv /\ EpollInv /\ tcb \in Seq(Streams)
    BY <1>2 DEF StackInv, QueueInv, TypeOK
  <2>3. w \in DOMAIN tcb /\ tcb[w].peer = svr.on
    BY <1>2, <2>1, <2>2, WaitedStream
  <2>4. svr.on \in Peer /\ tcb[w].fd = svr.fd /\ svr.fd # NoFd
    BY <1>2, <2>2, <2>3 DEF SvrInv, Leads
  <2>5. w # Len(tcb)
    BY <2>2, <2>3, <2>4, PeerAssumption DEF TableInv
  <2>6. w < Len(tcb)
    BY <2>2, <2>3, <2>5
  <2>7. Served(pkt, rdlist, svr, tcb[w])
    BY <2>2, <2>3, <2>6 DEF EpollInv
  <2>8. Reach(tcb[w].rcvbuf, Events(pkt, rdlist, svr, tcb[w]))
    BY <1>2, <2>1, <2>4, <2>7 DEF Served
  <2>9. PICK n, m : n = Events(pkt, rdlist, svr, tcb[w]) /\ m = Pending(pkt, rdlist, svr.evs, tcb[w].fd)
    OBVIOUS
  <2>10. n = m + 1 /\ m \in Nat
    BY <1>2, <2>3, <2>9, EventsSum, CountTyped
  <2>11. n <= Len(tcb[w].rcvbuf)
    BY <2>8, <2>9 DEF Reach
  <2>12. ~(n <= 0)
    BY <2>10
  <2>13. Len(tcb[w].rcvbuf) # 0
    BY <2>11, <2>12
  <2> QED
    BY <2>1, <2>13
<1>3. StackInv /\ QueueInv => BlocksOnlyOnStale
  BY <1>1, <1>2 DEF BlocksOnlyOnStale
<1> QED
  BY <1>3, StackInductive, PTL

=============================================================================
