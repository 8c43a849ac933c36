----------------------------- MODULE UstackTcp -----------------------------
(***************************************************************************)
(* The connection table of the user-level TCP stack (senior/2.4_Ustack)    *)
(* and the pure part of its socket calls and packet handlers, as functions *)
(* from table to table.  Who calls them, and when, is in UstackServer.     *)
(*                                                                         *)
(* The table is the list tcb_set, head first.  A segment's payload is a    *)
(* sequence of units; an empty fragment in a receive ring is the end of    *)
(* the stream.  Sequence numbers count units from the initial numbers,     *)
(* which are taken as 0 on both sides.                                     *)
(***************************************************************************)
EXTENDS Naturals, Sequences, FiniteSets, SequencesExt

CONSTANTS
  Peer,        \* the remote hosts; each uses one address and one port
  NoPeer,      \* the remote address of the listening socket
  BUFFER_SIZE  \* units nrecv is asked for

ASSUME PeerAssumption == IsFiniteSet(Peer) /\ NoPeer \notin Peer
ASSUME BufferAssumption == BUFFER_SIZE \in Nat \ {0}

ListenFd == 3   \* DEFAULT_FD_NUM: the first descriptor handed out
NoFd == 0       \* stands for the -1 of a connection nobody accepted

Status == {"LISTEN", "SYN_RCVD", "ESTABLISHED", "CLOSE_WAIT", "LAST_ACK"}

\* struct ng_tcp_stream, without the fields no decision reads.
Stream(peer, fd, status) ==
  [peer |-> peer, fd |-> fd, status |-> status, snd_nxt |-> 0, rcv_nxt |-> 0,
   sndbuf |-> <<>>, rcvbuf |-> <<>>]

\* struct ng_tcp_fragment as it waits in a send ring.
Fragment(flags, seqnum, acknum, data) ==
  [flags |-> flags, seqnum |-> seqnum, acknum |-> acknum, data |-> data]

\* nsocket, nbind and nlisten of the server entry: one listening stream.
ListeningTable == <<Stream(NoPeer, ListenFd, "LISTEN")>>

\* The first n elements of s, or all of it.
FirstOf(s, n) == SubSeq(s, 1, IF n < Len(s) THEN n ELSE Len(s))

-----------------------------------------------------------------------------
(* Looking up.  All searches walk the list from its head. *)

\* The first index of t that satisfies P; 0 if there is none.
First(t, P(_)) ==
  LET found == {i \in DOMAIN t : P(t[i])}
  IN  IF found = {} THEN 0 ELSE CHOOSE i \in found : \A j \in found : i <= j

get_fd_frombitmap(fds) ==
  CHOOSE fd \in ListenFd .. ListenFd + Cardinality(fds) :
    /\ fd \notin fds
    /\ \A less \in ListenFd .. fd - 1 : less \in fds

\* Mutant: only established connections.
AcceptsEstablished(t) == First(t, LAMBDA s : s.fd = NoFd /\ s.status = "ESTABLISHED")

\* A connection nobody accepted, whatever its status: the newest is nearest.
get_accept_tcb(t) == First(t, LAMBDA s : s.fd = NoFd)

get_hostinfo_fromfd(t, fd) == First(t, LAMBDA s : s.fd = fd)

ng_tcp_stream_search(t, peer) ==
  LET exact == First(t, LAMBDA s : s.peer = peer)
  IN  IF exact # 0 THEN exact ELSE First(t, LAMBDA s : s.status = "LISTEN")

-----------------------------------------------------------------------------
(* Packet handlers. *)

ng_tcp_stream_create(peer) == Stream(peer, NoFd, "LISTEN")

\* A new connection at the head of the table, its SYN-ACK in the send ring.
ng_tcp_handle_listen(t, p) ==
  LET new == ng_tcp_stream_create(p.from)
      syn == [new EXCEPT
                !.rcv_nxt = p.seq + 1,
                !.sndbuf = <<Fragment({"SYN", "ACK"}, new.snd_nxt, p.seq + 1, <<>>)>>,
                !.status = "SYN_RCVD"]
  IN  IF "SYN" \in p.flags THEN <<syn>> \o t ELSE t

\* The acknowledgement number is compared with nothing; a payload is dropped.
ng_tcp_handle_syn_rcvd(t, i, p) ==
  IF "ACK" \in p.flags THEN [t EXCEPT ![i].status = "ESTABLISHED"] ELSE t

\* Mutant: the newest fragment is read first.
EnqueuesAtHead(t, i, data) ==
  [t EXCEPT ![i].rcvbuf = <<data>> \o @]

ng_tcp_enqueue_recvbuffer(t, i, data) ==
  [t EXCEPT ![i].rcvbuf = Append(@, data)]

ng_tcp_send_ackpkt(t, i) ==
  [t EXCEPT ![i].sndbuf =
     Append(@, Fragment({"ACK"}, t[i].snd_nxt, t[i].rcv_nxt, <<>>))]

\* The numbers move after the data was enqueued: by its length, unchecked,
\* and to whatever the peer acknowledges.
Acknowledge(t, i, units, p) ==
  ng_tcp_send_ackpkt(
    [t EXCEPT ![i].rcv_nxt = @ + units, ![i].snd_nxt = p.ack], i)

\* Any acknowledgement ends the connection, sent or unsent FIN alike.
ng_tcp_handle_last_ack(t, i, p) ==
  IF "ACK" \in p.flags THEN RemoveAt(t, i) ELSE t

-----------------------------------------------------------------------------
(* Socket calls on an established stream. *)

\* What nrecv leaves in the ring and what it returns.  The rest of a long
\* fragment goes to the back of the ring and its length is the result.
nrecv(ring) ==
  LET fragment == Head(ring)
      rest == SubSeq(fragment, BUFFER_SIZE + 1, Len(fragment))
      buf == SubSeq(fragment, 1, BUFFER_SIZE)
  IN  IF Len(fragment) > BUFFER_SIZE
      THEN [ring |-> Append(Tail(ring), rest),
            data |-> SubSeq(buf, 1, Len(rest))]
      ELSE [ring |-> Tail(ring), data |-> fragment]

nsend(t, i, data) ==
  [t EXCEPT ![i].sndbuf =
     Append(@, Fragment({"ACK", "PSH"}, t[i].snd_nxt, t[i].rcv_nxt, data))]

\* Mutant: the status is not advanced.
ClosesWithoutStatus(t, i) ==
  [t EXCEPT ![i].sndbuf =
       Append(@, Fragment({"FIN", "ACK"}, t[i].snd_nxt, t[i].rcv_nxt, <<>>))]

\* The stream keeps its descriptor; the caller gives it back to the bitmap.
nclose(t, i) ==
  [t EXCEPT ![i].sndbuf =
       Append(@, Fragment({"FIN", "ACK"}, t[i].snd_nxt, t[i].rcv_nxt, <<>>)),
     ![i].status = "LAST_ACK"]

-----------------------------------------------------------------------------
(* Sending: one fragment of every stream. *)

\* What one pass of ng_tcp_out puts into the out ring.  A peer whose hardware
\* address is unknown is asked for it.
Outgoing(t, known) ==
  LET ready == {i \in DOMAIN t : t[i].sndbuf # <<>>}
  IN  {IF t[i].peer \in known
       THEN [to |-> t[i].peer, kind |-> "tcp", seg |-> Head(t[i].sndbuf)]
       ELSE [to |-> t[i].peer, kind |-> "arp"] : i \in ready}

\* And what it leaves: an unsent fragment goes to the back of its ring.
ng_tcp_out(t, known) ==
  [i \in DOMAIN t |->
     IF t[i].sndbuf = <<>> THEN t[i]
     ELSE [t[i] EXCEPT !.sndbuf =
             IF t[i].peer \in known THEN Tail(@) ELSE Append(Tail(@), Head(@))]]
=============================================================================
