------------------------------ MODULE Reactors ------------------------------
(***************************************************************************)
(* The single-threaded servers that wait for readiness.                    *)
(*   "select", "poll", "epoll"   00_networkio.c, its three loops           *)
(*   "reactor"    01_reactor.c     "ports"     02_reactor_listen_...c      *)
(*   "epolltcp"   epoll_tcp_server.c           "testreactor" test1/reactor *)
(*   "printing"   tcp_server.c of junior/08 and 09: edge-triggered, and    *)
(*                what arrives is printed                                  *)
(* The first three answer as soon as they have received; the reactors keep *)
(* the answer in the connection and wait until it can be sent.             *)
(***************************************************************************)
EXTENDS Sockets

VARIABLES
  interest,   \* the event each descriptor is watched for
  ready,      \* the rest of what the last wait returned
  reply,      \* conn_list[fd].wbuffer, by the client it is for
  reported    \* EPOLLET: how much of each client's news has been reported

reactorVars == <<interest, ready, reply, reported>>

Direct == {"select", "poll", "epoll"}
ReactorDesigns == Direct \cup {"reactor", "ports", "epolltcp", "testreactor", "printing"}

\* The servers that test the results of accept and of recv.
ChecksAccept == {"epoll", "ports", "epolltcp", "testreactor", "printing"}
ChecksRecv == {"ports", "testreactor", "printing"}

\* The descriptor of the listening sockets, of which one stands for all.
ListenFd == 0

ReactorInit ==
  /\ interest = [f \in Fd |-> "NONE"]
  /\ ready = {} /\ reply = [c \in Client |-> <<>>]
  /\ reported = [c \in Client |-> 0]
-----------------------------------------------------------------------------
(* Readiness (external).                                                   *)

\* What has happened to a client's socket so far: arrivals and the hang-up.
News(c) == sent[c] + (IF peer[c] = "open" THEN 0 ELSE 1)

\* A wait reports the state of a socket, with EPOLLET only what is new.
Readable(c) ==
  /\ Available(c) \/ peer[c] # "open"
  /\ design = "printing" => News(c) > reported[c]

ReadyFds ==
  {f \in Fd : interest[f] = "OUT" \/ (interest[f] = "IN" /\ Readable(owner[f]))}
-----------------------------------------------------------------------------
(* The program.                                                            *)

\* set_event
SetEvent(f, ev) == interest' = [interest EXCEPT ![f] = ev]

\* select, poll or epoll_wait.
Wait ==
  /\ alive /\ design \in ReactorDesigns /\ ready = {}
  /\ ready' = {[fd |-> f, ev |-> interest[f], who |-> owner[f]] : f \in ReadyFds}
              \cup (IF backlog # <<>> THEN {[fd |-> ListenFd, ev |-> "IN", who |-> NULL]} ELSE {})
  /\ ready' # {}
  /\ reported' = IF design # "printing" THEN reported
                 ELSE [c \in Client |-> IF \E f \in ReadyFds : owner[f] = c THEN News(c)
                                        ELSE reported[c]]
  /\ UNCHANGED <<kernel, interest, reply>>

\* select looks at the listening socket first, then at the others in the order
\* of their numbers, and so does poll; epoll reports in any order.
SelectTurn(e) == design = "select" => \A d \in ready : e.fd <= d.fd
PollTurn(e) == design = "poll" => \A d \in ready : e.fd <= d.fd
Turn(e) == e \in ready /\ SelectTurn(e) /\ PollTurn(e)

Done(e) == ready' = ready \ {e}

\* accept_cb and its like: the new socket is watched for input, and its slot
\* is cleared.
AcceptCb(e) ==
  /\ Turn(e) /\ e.fd = ListenFd /\ Accept /\ Done(e)
  /\ SetEvent(Min(FreeFd), "IN")
  /\ reply' = [reply EXCEPT ![Head(backlog)] = <<>>]
  /\ UNCHANGED <<design, limit, peer, wire, sent, got, alive, reported>>

\* accept returns -1 to a server that tests it, or that has no use for it but
\* calls which fail in turn.
AcceptFails(e) ==
  /\ Turn(e) /\ e.fd = ListenFd /\ FreeFd = {} /\ Done(e)
  /\ design \in ChecksAccept
  /\ UNCHANGED <<kernel, interest, reply, reported>>

\* Without a test the -1 becomes an index: 01_reactor.c writes in front of
\* conn_list, select and poll in front of their set, and goes on or does not.
AcceptUnchecked(e) ==
  /\ Turn(e) /\ e.fd = ListenFd /\ FreeFd = {} /\ Done(e)
  /\ design \notin ChecksAccept
  /\ alive' \in BOOLEAN
  /\ UNCHANGED <<design, limit, peer, backlog, owner, wire, sent, got, interest, reply, reported>>

Recv(e) == Turn(e) /\ e.fd # ListenFd /\ e.ev = "IN" /\ Done(e)

\* Data for one of the loops that answer at once.  A broken connection raises
\* SIGPIPE; the result of send is ignored.
RecvEchoes(e) ==
  /\ Recv(e) /\ design \in Direct /\ Available(e.who)
  /\ TakeChunk(e.who)
  /\ \/ Deliver(e.who, Chunk(e.who)) /\ UNCHANGED alive
     \/ SendFails(e.who) /\ UNCHANGED <<got, alive>>
     \/ Broken(e.who) /\ Killed /\ UNCHANGED <<got, peer>>
  /\ UNCHANGED <<design, limit, backlog, owner, sent, interest, reply, reported>>

\* recv_cb: the answer is kept and the socket watched for output.
RecvCb(e) ==
  /\ Recv(e) /\ design \notin Direct \cup {"printing"} /\ Available(e.who)
  /\ TakeChunk(e.who)
  /\ reply' = [reply EXCEPT ![e.who] = Chunk(e.who)]
  /\ SetEvent(e.fd, "OUT")
  /\ UNCHANGED <<design, limit, peer, backlog, owner, sent, got, alive, reported>>

\* junior/08 and 09: one recv for every report.
RecvPrints(e) ==
  /\ Recv(e) /\ design = "printing" /\ Available(e.who)
  /\ TakeChunk(e.who)
  /\ UNCHANGED <<design, limit, peer, backlog, owner, sent, got, alive, interest, reply, reported>>

\* The socket is closed, no longer watched, and its slot cleared.
Drop(e) ==
  /\ Close(e.who)
  /\ SetEvent(e.fd, "NONE")
  /\ reply' = [reply EXCEPT ![e.who] = <<>>]
  /\ UNCHANGED <<design, limit, backlog, sent, got, alive, reported>>

\* recv returns 0.
RecvEnds(e) == Recv(e) /\ Ended(e.who) /\ Drop(e)

\* recv returns -1, and the server tests it.
RecvError(e) == Recv(e) /\ Failed(e.who) /\ design \in ChecksRecv /\ Drop(e)

\* recv returns -1, and nobody tests it: 00_networkio.c sends on the socket
\* whose error has just been taken, the reactors copy (size_t)-1 bytes.
RecvFails(e) ==
  /\ Recv(e) /\ Failed(e.who) /\ design \notin ChecksRecv
  /\ Killed
  /\ UNCHANGED <<design, limit, peer, backlog, owner, wire, sent, got, interest, reply, reported>>

\* Mutant of SendCb: the socket stays watched for output.
SendKeepsOut(e) ==
  /\ Turn(e) /\ e.ev = "OUT" /\ Done(e)
  /\ \/ Deliver(e.who, reply[e.who]) /\ UNCHANGED alive
     \/ SendFails(e.who) /\ UNCHANGED <<got, alive>>
     \/ Broken(e.who) /\ Killed /\ UNCHANGED <<got, peer>>
  /\ reply' = [reply EXCEPT ![e.who] = <<>>]
  /\ UNCHANGED <<design, limit, backlog, owner, wire, sent, interest, reported>>

\* send_cb: the answer is sent, whatever comes of it, and the socket is watched
\* for input again.
SendCb(e) ==
  /\ Turn(e) /\ e.ev = "OUT" /\ Done(e)
  /\ \/ Deliver(e.who, reply[e.who]) /\ UNCHANGED alive
     \/ SendFails(e.who) /\ UNCHANGED <<got, alive>>
     \/ Broken(e.who) /\ Killed /\ UNCHANGED <<got, peer>>
  /\ SetEvent(e.fd, "IN")
  /\ UNCHANGED <<design, limit, backlog, owner, wire, sent, reply, reported>>

ReactorLoop ==
  \/ Wait
  \/ alive /\ \E e \in ready :
       \/ AcceptCb(e) \/ AcceptFails(e) \/ AcceptUnchecked(e)
       \/ RecvEchoes(e) \/ RecvCb(e) \/ RecvPrints(e)
       \/ RecvEnds(e) \/ RecvError(e) \/ RecvFails(e)
       \/ SendCb(e)
=============================================================================
