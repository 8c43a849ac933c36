---------------------------- MODULE UstackServer ---------------------------
(***************************************************************************)
(* The user-level stack at work.  Its threads are the main loop (NIC to    *)
(* ring and back), the packet thread (pkt_process) and one server thread;  *)
(* they share the rings, the ARP table, the connection table of UstackTcp  *)
(* and, in tcp_concurrency.c, an epoll object.  The programs of the        *)
(* directory are chosen by app:                                            *)
(*   "serial"  tcp-orig/tcp.c, one client served after the other; hardware *)
(*             addresses are learned from ARP replies;                     *)
(*   "epoll"   tcp_concurrency.c, the event-driven server; hardware        *)
(*             addresses are learned from every IPv4 packet;               *)
(*   "udp"     tcp.c, whose UDP echo server is driven here;                *)
(*   "single"  ustack.c, the first lesson: one loop, one connection status.*)
(* The peers are ordinary TCP and UDP hosts (external).                    *)
(***************************************************************************)
EXTENDS UstackTcp

CONSTANTS
  Length,      \* lengths of the segments a peer sends
  MaxUnits,    \* bound: MaxUnits[c] units are sent by peer c
  MaxResend,   \* bound: MaxResend[c] retransmissions of peer c
  MaxTick,     \* bound: firings of the ARP timer
  RING_SIZE    \* packets the in ring holds

ASSUME LengthAssumption == Length \subseteq 1 .. 2 * BUFFER_SIZE
ASSUME BoundAssumption == /\ MaxUnits \in [Peer -> Nat] /\ MaxResend \in [Peer -> Nat]
                          /\ MaxTick \in Nat /\ RING_SIZE \in Nat \ {0}

VARIABLES
  app,        \* which program runs
  alive,      \* the process has not crashed
  ringIn,     \* inout_ring.in
  arp,        \* the peers in the ARP table
  ticks,      \* how often the ARP timer fired
  tcb,        \* tcb_set, head first
  fds,        \* descriptors marked in fd_table
  items,      \* the epoll tree: descriptor -> its rdy flag
  rdlist,     \* the epoll ready list, head first
  rdnum,      \* its length as the code counts it
  host,       \* the UDP socket's rings
  pkt,        \* where the packet thread is
  svr,        \* where the server thread is
  cl          \* the peers

stack == <<app, alive, ringIn, arp, ticks, tcb, fds>>
epoll == <<items, rdlist, rdnum>>
vars == <<stack, epoll, host, pkt, svr, cl>>

Idle == [at |-> "idle"]

Peer0 == [st |-> "closed", snd |-> 0, una |-> 0, rcv |-> 0, got |-> <<>>,
          last |-> <<>>, fits |-> TRUE, resent |-> 0]

Init ==
  /\ app \in {"serial", "epoll", "udp", "single"}
  /\ alive = TRUE
  /\ ringIn = <<>>
  /\ arp = {} /\ ticks = 0
  /\ tcb = ListeningTable
  /\ fds = IF app = "epoll" THEN {ListenFd, ListenFd + 1} ELSE {ListenFd}
  /\ items = [fd \in {ListenFd} |-> FALSE]
  /\ rdlist = <<>> /\ rdnum = 0
  /\ host = [rcvbuf |-> <<>>, sndbuf |-> <<>>]
  /\ pkt = Idle
  /\ svr = [at |-> CASE app = "serial" -> "accept" [] app = "epoll" -> "next"
                     [] app = "udp" -> "recvfrom" [] app = "single" -> "none",
            evs |-> <<>>, fd |-> NoFd, on |-> NoPeer, data |-> <<>>]
  /\ cl = [c \in Peer |-> Peer0]

-----------------------------------------------------------------------------
(* The peers. *)

\* The main loop reads the NIC and puts what came into the in ring; what the
\* ring has no room for is lost.
Rx(packets) ==
  /\ alive
  /\ ringIn' = ringIn \o FirstOf(packets, RING_SIZE - Len(ringIn))

Packet(c, flags, data) ==
  [from |-> c, kind |-> "tcp", flags |-> flags, seq |-> cl[c].snd,
   ack |-> cl[c].rcv, data |-> data]

\* Units are numbered by their place in the peer's stream.
Units(c, n) == [k \in 1 .. n |-> cl[c].snd + k - 1]

PeerOnly == <<app, alive, arp, ticks, tcb, fds, epoll, host, pkt, svr>>

Connect(c) ==
  LET p == Packet(c, {"SYN"}, <<>>)
  IN  /\ app # "udp" /\ cl[c].st = "closed" /\ cl[c].snd = 0
      /\ Rx(<<p>>)
      /\ cl' = [cl EXCEPT ![c].st = "syn", ![c].snd = 1, ![c].last = p]
      /\ UNCHANGED PeerOnly

\* A data segment, the last one possibly with the FIN.
SendSegment(c, n, flags) ==
  LET p == Packet(c, flags \union (IF n > 0 THEN {"ACK", "PSH"} ELSE {"ACK"}), Units(c, n))
  IN  /\ cl[c].st = "open" /\ cl[c].snd + n <= MaxUnits[c] + 1
      /\ Rx(<<p>>)
      /\ cl' = [cl EXCEPT ![c].snd = @ + n + Cardinality(flags), ![c].last = p,
                          ![c].fits = @ /\ n <= BUFFER_SIZE,
                          ![c].st = IF flags = {} THEN @ ELSE "fin"]
      /\ UNCHANGED PeerOnly

\* A timeout or a lost acknowledgement: the last segment once more.
Resend(c) ==
  /\ cl[c].last # <<>> /\ cl[c].una < cl[c].snd /\ cl[c].resent < MaxResend[c]
  /\ Rx(<<cl[c].last>>)
  /\ cl' = [cl EXCEPT ![c].resent = @ + 1]
  /\ UNCHANGED PeerOnly

SendDatagram(c, n) ==
  LET p == [from |-> c, kind |-> "udp", data |-> [k \in 1 .. n |-> cl[c].snd + k]]
  IN  /\ app \in {"udp", "single"} /\ cl[c].st = "closed" /\ cl[c].snd + n <= MaxUnits[c]
      /\ Rx(<<p>>)
      /\ cl' = [cl EXCEPT ![c].snd = @ + n, ![c].fits = @ /\ n <= BUFFER_SIZE]
      /\ UNCHANGED PeerOnly

\* How a peer takes the segment g, and what it answers.
TakesSegment(c, g) ==
  LET p == cl[c]
      inOrder == g.seqnum = p.rcv /\ p.st # "syn"
      una == IF g.acknum > p.una THEN g.acknum ELSE p.una
      after ==
        IF "SYN" \in g.flags
        THEN IF p.st = "syn" THEN [p EXCEPT !.st = "open", !.rcv = g.seqnum + 1, !.una = una] ELSE p
        ELSE IF inOrder
        THEN [p EXCEPT !.got = @ \o g.data, !.una = una,
                       !.rcv = @ + Len(g.data) + Cardinality(g.flags \intersect {"FIN"}),
                       !.st = IF "FIN" \in g.flags THEN "done" ELSE @]
        ELSE [p EXCEPT !.una = una]
      answer == [from |-> c, kind |-> "tcp", flags |-> {"ACK"}, seq |-> p.snd,
                 ack |-> after.rcv, data |-> <<>>]
  IN  [peer |-> after,
       reply |-> IF g.flags = {"ACK"} THEN {} ELSE {answer}]

\* What the packet o does to its peer.
Effect(o) ==
  CASE o.kind = "arp" -> [peer |-> cl[o.to], reply |-> {[from |-> o.to, kind |-> "arp"]}]
    [] o.kind = "udp" -> [peer |-> [cl[o.to] EXCEPT !.got = @ \o o.data], reply |-> {}]
    [] o.kind = "tcp" -> TakesSegment(o.to, o.seg)

\* Packets sent together, at most one to a peer: the peers that took them...
Taken(packets) ==
  [c \in Peer |-> LET to == {o \in packets : o.to = c}
                  IN  IF to = {} THEN cl[c] ELSE Effect(CHOOSE o \in to : TRUE).peer]

\* ... and their answers, which reach the NIC in any order.
Answers(packets) == SetToSeqs(UNION {Effect(o).reply : o \in packets})

-----------------------------------------------------------------------------
(* The main loop. *)

\* The main loop transmits what the out ring holds.
Tx(packets) ==
  /\ \E answers \in Answers(packets) : Rx(answers)
  /\ cl' = Taken(packets)

\* The timer asks every host of the network for its hardware address.
arp_request_timer_cb ==
  /\ app = "serial" /\ ticks < MaxTick
  /\ ticks' = ticks + 1
  /\ Tx({[to |-> c, kind |-> "arp"] : c \in Peer})
  /\ UNCHANGED <<app, alive, arp, tcb, fds, epoll, host, pkt, svr>>

-----------------------------------------------------------------------------
(* The packet thread: one packet of a burst. *)

\* The packet thread reads a packet of the given kind.
Reads(kind) ==
  /\ alive /\ app # "single" /\ pkt = Idle /\ ringIn # <<>> /\ Head(ringIn).kind = kind
  /\ ringIn' = Tail(ringIn)

\* tcp-orig learns from ARP replies, the later programs from every IPv4 packet.
Learns(p) ==
  IF (p.kind = "arp") <=> (app = "serial") THEN arp \union {p.from} ELSE arp

ArpReply ==
  /\ Reads("arp")
  /\ arp' = Learns(Head(ringIn))
  /\ UNCHANGED <<app, alive, ticks, tcb, fds, epoll, host, pkt, svr, cl>>

udp_process ==
  /\ Reads("udp")
  /\ arp' = Learns(Head(ringIn))
  /\ host' = [host EXCEPT !.rcvbuf =
                Append(@, [to |-> Head(ringIn).from, kind |-> "udp", data |-> Head(ringIn).data])]
  /\ UNCHANGED <<app, alive, ticks, tcb, fds, epoll, pkt, svr, cl>>

\* A TCP packet for a stream in the given status.
Arrives(status) ==
  /\ Reads("tcp")
  /\ tcb[ng_tcp_stream_search(tcb, Head(ringIn).from)].status = status
  /\ arp' = Learns(Head(ringIn))
  /\ UNCHANGED <<app, ticks, fds, epoll, host, svr, cl>>

\* In tcp-orig the rings of all connections have one name: a second
\* connection gets none, and the SYN-ACK goes through a null pointer.
Listening ==
  /\ Arrives("LISTEN")
  /\ LET t == ng_tcp_handle_listen(tcb, Head(ringIn))
     IN  IF app = "serial" /\ t # tcb /\ Len(tcb) > 1
         THEN alive' = FALSE /\ UNCHANGED tcb
         ELSE tcb' = t /\ UNCHANGED alive
  /\ UNCHANGED pkt

\* The connection is established; the listening socket becomes readable.
SynReceived ==
  LET p == Head(ringIn)
      i == ng_tcp_stream_search(tcb, p.from)
  IN  /\ Arrives("SYN_RCVD")
      /\ tcb' = ng_tcp_handle_syn_rcvd(tcb, i, p)
      /\ pkt' = IF app = "epoll" /\ "ACK" \in p.flags
                THEN [at |-> "find", i |-> i, fd |-> ListenFd, p |-> p, todo |-> <<>>]
                ELSE Idle
      /\ UNCHANGED alive

\* The flags ng_tcp_handle_established acts on, in its order.
Todo(p) == (IF "PSH" \in p.flags THEN <<"PSH">> ELSE <<>>)
           \o (IF "FIN" \in p.flags THEN <<"FIN">> ELSE <<>>)

\* First the fragment is put into the receive ring and its reader is woken...
Deliver(i, p, todo) ==
  /\ tcb' = ng_tcp_enqueue_recvbuffer(
              IF Head(todo) = "FIN" THEN [tcb EXCEPT ![i].status = "CLOSE_WAIT"] ELSE tcb,
              i, IF Head(todo) = "PSH" THEN p.data ELSE <<>>)
  /\ pkt' = [at |-> IF app = "epoll" THEN "find" ELSE "ack",
             i |-> i, fd |-> tcb[i].fd, p |-> p, todo |-> todo]

Established ==
  LET p == Head(ringIn)
      i == ng_tcp_stream_search(tcb, p.from)
  IN  /\ Arrives("ESTABLISHED")
      /\ IF Todo(p) = <<>> THEN UNCHANGED <<tcb, pkt>> ELSE Deliver(i, p, Todo(p))
      /\ UNCHANGED alive

\* ... and after the event it moves the numbers and acknowledges.
Acknowledges ==
  /\ alive /\ pkt.at = "ack"
  /\ LET t == Acknowledge(tcb, pkt.i,
                IF Head(pkt.todo) = "PSH" THEN Len(pkt.p.data) ELSE 1, pkt.p)
     IN  IF Tail(pkt.todo) = <<>>
         THEN tcb' = t /\ pkt' = Idle
         ELSE /\ tcb' = ng_tcp_enqueue_recvbuffer([t EXCEPT ![pkt.i].status = "CLOSE_WAIT"], pkt.i, <<>>)
              /\ pkt' = [pkt EXCEPT !.at = IF app = "epoll" THEN "find" ELSE "ack",
                                    !.fd = tcb[pkt.i].fd, !.todo = Tail(@)]
  /\ UNCHANGED <<app, alive, ringIn, arp, ticks, fds, epoll, host, svr, cl>>

ng_tcp_handle_close_wait ==
  /\ Arrives("CLOSE_WAIT")
  /\ UNCHANGED <<alive, tcb, pkt>>

LastAck ==
  LET i == ng_tcp_stream_search(tcb, Head(ringIn).from)
  IN  /\ Arrives("LAST_ACK")
      /\ tcb' = ng_tcp_handle_last_ack(tcb, i, Head(ringIn))
      /\ UNCHANGED <<alive, pkt>>

\* The end of a burst: every stream and the UDP socket send one fragment.
udp_out ==
  IF host.sndbuf = <<>> THEN {} ELSE {Head(host.sndbuf)}

SendPass ==
  /\ alive /\ pkt = Idle
  /\ host.sndbuf # <<>> \/ \E i \in DOMAIN tcb : tcb[i].sndbuf # <<>>
  /\ Tx(udp_out \union Outgoing(tcb, arp))
  /\ tcb' = ng_tcp_out(tcb, arp)
  /\ host' = [host EXCEPT !.sndbuf = IF @ = <<>> THEN @ ELSE Tail(@)]
  /\ UNCHANGED <<app, alive, arp, ticks, fds, epoll, pkt, svr>>

-----------------------------------------------------------------------------
(* The single loop of ustack.c answers straight to the NIC.  It has one       *)
(* connection status for all peers and acknowledges only a SYN.               *)

\* The status after the flags of p: SYN first, then ACK.
SingleStatus(p) ==
  LET syn == IF "SYN" \in p.flags /\ tcb[1].status = "LISTEN" THEN "SYN_RCVD" ELSE tcb[1].status
  IN  IF "ACK" \in p.flags /\ syn = "SYN_RCVD" THEN "ESTABLISHED" ELSE syn

SingleAnswer(p) ==
  IF p.kind = "udp" THEN {[to |-> p.from, kind |-> "udp", data |-> p.data]}
  ELSE IF p.kind = "tcp" /\ "SYN" \in p.flags /\ tcb[1].status = "LISTEN"
  THEN {[to |-> p.from, kind |-> "tcp", seg |-> Fragment({"SYN", "ACK"}, 0, p.seq + 1, <<>>)]}
  ELSE {}

SingleLoop ==
  /\ app = "single" /\ ringIn # <<>>
  /\ LET p == Head(ringIn)
     IN  /\ \E answers \in Answers(SingleAnswer(p)) : ringIn' = Tail(ringIn) \o answers
         /\ cl' = Taken(SingleAnswer(p))
         /\ tcb' = IF p.kind = "tcp" THEN [tcb EXCEPT ![1].status = SingleStatus(p)] ELSE tcb
  /\ UNCHANGED <<app, alive, arp, ticks, fds, epoll, host, pkt, svr>>

-----------------------------------------------------------------------------
(* The epoll object of tcp_concurrency.c. *)

After(todo) == IF todo = <<>> THEN "idle" ELSE "ack"

\* Mutant: the rdy flag is not looked at.
FindItemReady ==
  /\ alive /\ pkt.at = "find"
  /\ LET at == IF pkt.fd \in DOMAIN items THEN "push" ELSE After(pkt.todo)
     IN  pkt' = IF at = "idle" THEN Idle ELSE [pkt EXCEPT !.at = at]
  /\ UNCHANGED <<stack, epoll, host, svr, cl>>

\* epoll_event_callback looks the descriptor up and reads rdy without a lock:
\* an unknown descriptor and one that is ready already get no new event.
FindItem ==
  /\ alive /\ pkt.at = "find"
  /\ LET waits == pkt.fd \in DOMAIN items /\ ~items[pkt.fd]
         at == IF waits THEN "push" ELSE After(pkt.todo)
     IN  pkt' = IF at = "idle" THEN Idle ELSE [pkt EXCEPT !.at = at]
  /\ UNCHANGED <<stack, epoll, host, svr, cl>>

\* Then, under the lock, the item goes to the head of the ready list.
PushItem ==
  /\ alive /\ pkt.at = "push"
  /\ items' = [fd \in DOMAIN items |-> items[fd] \/ fd = pkt.fd]
  /\ rdlist' = <<pkt.fd>> \o rdlist
  /\ rdnum' = rdnum + 1
  /\ pkt' = IF After(pkt.todo) = "idle" THEN Idle ELSE [pkt EXCEPT !.at = "ack"]
  /\ UNCHANGED <<stack, host, svr, cl>>

\* All ready items are handed over at once (there are fewer than maxevents).
nepoll_wait ==
  /\ alive /\ app = "epoll" /\ svr.at = "next" /\ svr.evs = <<>> /\ rdnum > 0
  /\ svr' = [svr EXCEPT !.evs = rdlist]
  /\ items' = [fd \in DOMAIN items |-> items[fd] /\ ~Contains(rdlist, fd)]
  /\ rdlist' = <<>>
  /\ rdnum' = rdnum - Len(rdlist)
  /\ UNCHANGED <<stack, host, pkt, cl>>

\* An event for the listening socket, or for a connection: the stream is
\* looked up by its descriptor.
NextEvent ==
  LET fd == Head(svr.evs)
      i == get_hostinfo_fromfd(tcb, fd)
  IN  /\ alive /\ svr.at = "next" /\ svr.evs # <<>>
      /\ svr' = IF fd = ListenFd THEN [svr EXCEPT !.at = "accept", !.evs = Tail(@)]
                ELSE IF i = 0 THEN [svr EXCEPT !.at = "del", !.evs = Tail(@), !.fd = fd]
                ELSE [svr EXCEPT !.at = "recv", !.evs = Tail(@), !.fd = fd, !.on = tcb[i].peer]
      /\ UNCHANGED <<stack, epoll, host, pkt, cl>>

\* A new item is not ready; one that exists already stays as it is.
CtlAdd ==
  /\ alive /\ svr.at = "add"
  /\ items' = [fd \in DOMAIN items \union {svr.fd} |-> fd \in DOMAIN items /\ items[fd]]
  /\ svr' = [svr EXCEPT !.at = "next"]
  /\ UNCHANGED <<stack, rdlist, rdnum, host, pkt, cl>>

\* The item was allocated with rte_malloc and is released with free: the C
\* library may abort the process or not notice.
CtlDel ==
  /\ alive /\ svr.at = "del"
  /\ items' = [fd \in DOMAIN items \ {svr.fd} |-> items[fd]]
  /\ svr' = [svr EXCEPT !.at = "close"]
  /\ alive' \in (IF svr.fd \in DOMAIN items THEN BOOLEAN ELSE {TRUE})
  /\ UNCHANGED <<app, ringIn, arp, ticks, tcb, fds, rdlist, rdnum, host, pkt, cl>>

-----------------------------------------------------------------------------
(* The server threads. *)

naccept ==
  LET i == get_accept_tcb(tcb)
      fd == get_fd_frombitmap(fds)
  IN  /\ alive /\ svr.at = "accept" /\ i # 0
      /\ tcb' = [tcb EXCEPT ![i].fd = fd]
      /\ fds' = fds \union {fd}
      /\ svr' = IF app = "epoll" THEN [svr EXCEPT !.at = "add", !.fd = fd]
                ELSE [svr EXCEPT !.at = "call", !.fd = fd]
      /\ UNCHANGED <<app, alive, ringIn, arp, ticks, epoll, host, pkt, cl>>

\* The serial server calls nrecv, which looks the stream up.
CallRecv ==
  /\ alive /\ svr.at = "call"
  /\ svr' = [svr EXCEPT !.at = "recv", !.on = tcb[get_hostinfo_fromfd(tcb, svr.fd)].peer]
  /\ UNCHANGED <<stack, epoll, host, pkt, cl>>

\* The stream nrecv waits on; 0 if it was freed meanwhile.
Waited == First(tcb, LAMBDA s : s.peer = svr.on)

\* nrecv sleeps until its ring has a fragment.
ReceiveFragment ==
  /\ alive /\ svr.at = "recv" /\ Waited # 0 /\ tcb[Waited].rcvbuf # <<>>
  /\ LET r == nrecv(tcb[Waited].rcvbuf)
     IN  /\ tcb' = [tcb EXCEPT ![Waited].rcvbuf = r.ring]
         /\ svr' = [svr EXCEPT !.data = r.data,
                      !.at = IF r.data # <<>> THEN "send"
                             ELSE IF app = "epoll" THEN "del" ELSE "close"]
  /\ UNCHANGED <<app, alive, ringIn, arp, ticks, fds, epoll, host, pkt, cl>>

Echo ==
  LET i == get_hostinfo_fromfd(tcb, svr.fd)
  IN  /\ alive /\ svr.at = "send"
      /\ tcb' = IF i = 0 THEN tcb ELSE nsend(tcb, i, svr.data)
      /\ svr' = [svr EXCEPT !.at = IF app = "epoll" THEN "next" ELSE "call", !.data = <<>>]
      /\ UNCHANGED <<app, alive, ringIn, arp, ticks, fds, epoll, host, pkt, cl>>

Close ==
  LET i == get_hostinfo_fromfd(tcb, svr.fd)
  IN  /\ alive /\ svr.at = "close"
      /\ tcb' = IF i = 0 THEN tcb ELSE nclose(tcb, i)
      /\ fds' = IF i = 0 THEN fds ELSE fds \ {svr.fd}
      /\ svr' = [svr EXCEPT !.at = IF app = "epoll" THEN "next" ELSE "accept"]
      /\ UNCHANGED <<app, alive, ringIn, arp, ticks, epoll, host, pkt, cl>>

\* The rest of a long datagram goes to the back of the ring.
nrecvfrom ==
  LET ol == Head(host.rcvbuf)
      rest == SubSeq(ol.data, BUFFER_SIZE + 1, Len(ol.data))
  IN  /\ alive /\ svr.at = "recvfrom" /\ host.rcvbuf # <<>>
      /\ host' = [host EXCEPT !.rcvbuf =
                    IF rest = <<>> THEN Tail(@) ELSE Append(Tail(@), [ol EXCEPT !.data = rest])]
      /\ svr' = [svr EXCEPT !.at = "sendto", !.on = ol.to, !.data = FirstOf(ol.data, BUFFER_SIZE)]
      /\ UNCHANGED <<stack, epoll, pkt, cl>>

nsendto ==
  /\ alive /\ svr.at = "sendto"
  /\ host' = [host EXCEPT !.sndbuf =
                Append(@, [to |-> svr.on, kind |-> "udp", data |-> svr.data])]
  /\ svr' = [svr EXCEPT !.at = "recvfrom", !.data = <<>>]
  /\ UNCHANGED <<stack, epoll, pkt, cl>>

-----------------------------------------------------------------------------
PeerStep ==
  \E c \in Peer :
    \/ Connect(c) \/ Resend(c)
    \/ \E n \in Length : \/ SendSegment(c, n, {}) \/ SendSegment(c, n, {"FIN"})
                         \/ SendDatagram(c, n)
    \/ SendSegment(c, 0, {"FIN"})

PacketThread ==
  \/ ArpReply \/ udp_process \/ Listening \/ SynReceived \/ Established
  \/ Acknowledges \/ ng_tcp_handle_close_wait \/ LastAck \/ SendPass
  \/ FindItem \/ PushItem

ServerThread ==
  \/ nepoll_wait \/ NextEvent \/ CtlAdd \/ CtlDel
  \/ naccept \/ CallRecv \/ ReceiveFragment \/ Echo \/ Close
  \/ nrecvfrom \/ nsendto

Next == PeerStep \/ arp_request_timer_cb \/ PacketThread \/ SingleLoop \/ ServerThread

Spec == Init /\ [][Next]_vars

-----------------------------------------------------------------------------
\* The ready list and the tree agree whatever the packet thread and the
\* server interleave (epoll_event_callback, nepoll_wait, nepoll_ctl): the list
\* holds each item once, exactly the items marked ready, none that was freed,
\* and rdnum counts it; an item about to be pushed still exists and is unready.
ReadyListSound ==
  /\ rdnum = Len(rdlist)
  /\ Cardinality(ToSet(rdlist)) = Len(rdlist)
  /\ {fd \in DOMAIN items : items[fd]} = ToSet(rdlist)
  /\ pkt.at = "push" => pkt.fd \in DOMAIN items /\ ~items[pkt.fd]

\* The event-driven server calls the blocking naccept and nrecv (lines 2587
\* and 2598).  It sleeps in neither, except on a connection it has closed
\* before whose descriptor was given to another one.
BlocksOnlyOnStale ==
  app = "epoll" =>
    /\ svr.at = "accept" => get_accept_tcb(tcb) # 0
    /\ svr.at = "recv" =>
         \/ Waited = 0 \/ tcb[Waited].status = "LAST_ACK"
         \/ tcb[Waited].rcvbuf # <<>>

\* Descriptors and table (get_fd_frombitmap, naccept, nclose): a peer has one
\* stream; streams that are not closed have distinct descriptors, all marked.
DescriptorsSound ==
  LET open == {i \in DOMAIN tcb : tcb[i].status # "LAST_ACK" /\ tcb[i].fd # NoFd}
  IN  /\ \A i, j \in DOMAIN tcb : tcb[i].peer = tcb[j].peer => i = j
      /\ \A i, j \in open : tcb[i].fd = tcb[j].fd => i = j
      /\ \A i \in open : tcb[i].fd \in fds

\* Across NIC, rings, connection table and server, a peer whose segments fit
\* the server's buffer and that retransmitted nothing reads its own units,
\* each at most once, in the order in which it sent them.
EchoInOrder ==
  \A c \in Peer : cl[c].fits /\ cl[c].resent = 0 =>
    LET got == cl[c].got
    IN  /\ \A k \in DOMAIN got : got[k] <= cl[c].snd
        /\ \A j, k \in DOMAIN got : j < k => got[j] < got[k]
=============================================================================
