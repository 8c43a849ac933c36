----------------------------- MODULE KvReactor -----------------------------
(***************************************************************************)
(* The epoll network layer, reactor.c, between the sockets and the         *)
(* protocol layer: one thread, a table of connections indexed by fd, and   *)
(* callbacks chosen by the one event each fd waits for.                    *)
(*                                                                         *)
(* The kernel's side of a socket is external.  peer[c] is what it knows of *)
(* client c's end of the connection:                                       *)
(*   "away"   no connection          "open"   established                  *)
(*   "fin"    the client closed      "reset"  reset, ECONNRESET pending    *)
(*   "pipe"   reset after a close, EPIPE pending                           *)
(*   "dead"   reset, its error already reported                            *)
(* A send on a "pipe" or "dead" socket raises SIGPIPE, which the program   *)
(* neither ignores nor handles.                                            *)
(***************************************************************************)
EXTENDS KvProtocol, FiniteSets, FiniteSetsExt

CONSTANTS
  Client,          \* the clients
  Message,         \* what a client may send in one go: sequences of tokens
  Split,           \* TRUE: a recv may return part of what has arrived
  Window,          \* requests a client sends without waiting for a reply
  WireBuf,         \* tokens a socket holds before the client's send blocks
  SockBuf,         \* replies a socket holds before it stops being writable
  MaxFd,           \* the process's last descriptor (RLIMIT_NOFILE)
  ConnectionSize   \* CONNECTION_SIZE

ASSUME ReactorAssumption ==
  /\ Split \in BOOLEAN
  /\ Window \in Nat \ {0} /\ WireBuf \in Nat \ {0} /\ SockBuf \in Nat \ {0}
  /\ MaxFd \in Nat \ {0} /\ ConnectionSize \in Nat \ {0}
  /\ NULL \notin Client \cup {"listener"} /\ "listener" \notin Client

VARIABLES
  conn_list,   \* the table: callbacks and the reply to send, by fd
  interest,    \* epoll: the event each fd is registered for
  batch,       \* the events of the last epoll_wait not yet dispatched
  owner,       \* kernel: the client whose socket an fd is
  backlog,     \* kernel: clients waiting to be accepted
  peer,        \* kernel: the state of each client's connection
  wire,        \* kernel: tokens sent by each client and not yet received
  inbox,       \* kernel: replies sent to each client and not yet read
  due,         \* clients: replies each one still waits for
  store,       \* the engine's map
  alive        \* FALSE once a signal has ended the process

vars == <<conn_list, interest, batch, owner, backlog, peer, wire, inbox, due, store, alive>>
kernel == <<owner, backlog, peer, wire, inbox>>

ListenFd == 0
Fd == ListenFd .. MaxFd
Slot == ListenFd .. (ConnectionSize - 1)
Listener == "listener"

Token == UNION {{m[i] : i \in DOMAIN m} : m \in Message}
ASSUME MessageAssumption == \A m \in Message : m \in Seq(Token) /\ m # <<>>

Reply ==
  {"OK", "ERROR", "EXIST", "NO EXIST", "PROTOCOL ERROR", NoLength} \cup Token

\* A slot of the table after memset.
NoConn == [recv |-> NULL, send |-> NULL, wbuf |-> NULL]

\* Every variable has its type; in particular no slot outside conn_list exists.
TypeOK ==
  /\ conn_list \in [Slot -> [recv : {"accept_cb", "recv_cb", NULL},
                             send : {"send_cb", NULL},
                             wbuf : Reply \cup {NULL}]]
  /\ interest \in [Fd -> {"IN", "OUT", "NONE"}]
  /\ batch \subseteq [fd : Fd, ev : {"IN", "OUT"}, who : Client \cup {Listener}]
  /\ owner \in [Fd -> Client \cup {Listener, NULL}]
  /\ backlog \in Seq(Client)
  /\ peer \in [Client -> {"away", "open", "fin", "reset", "pipe", "dead"}]
  /\ wire \in [Client -> Seq(Token)]
  /\ inbox \in [Client -> Seq(Reply)]
  /\ due \in [Client -> 0 .. Window]
  /\ store \in [Key -> Token \cup {NULL}]
  /\ alive \in BOOLEAN

\* reactor_start up to its loop: one listening socket, registered for EPOLLIN.
Init ==
  /\ conn_list = [f \in Slot |-> IF f = ListenFd THEN [NoConn EXCEPT !.recv = "accept_cb"]
                                 ELSE NoConn]
  /\ interest = [f \in Fd |-> IF f = ListenFd THEN "IN" ELSE "NONE"]
  /\ batch = {}
  /\ owner = [f \in Fd |-> IF f = ListenFd THEN Listener ELSE NULL]
  /\ backlog = <<>>
  /\ peer = [c \in Client |-> "away"]
  /\ wire = [c \in Client |-> <<>>]
  /\ inbox = [c \in Client |-> <<>>]
  /\ due = [c \in Client |-> 0]
  /\ store = [k \in Key |-> NULL]
  /\ alive = TRUE
-----------------------------------------------------------------------------
(* The clients and the kernel (external).                                  *)

Connect(c) ==
  /\ alive /\ peer[c] = "away"
  /\ peer' = [peer EXCEPT ![c] = "open"]
  /\ backlog' = Append(backlog, c)
  /\ UNCHANGED <<conn_list, interest, batch, owner, wire, inbox, due, store, alive>>

Send(c, m) ==
  /\ alive /\ peer[c] = "open" /\ due[c] < Window
  /\ Len(wire[c]) + Len(m) <= WireBuf
  /\ wire' = [wire EXCEPT ![c] = @ \o m]
  /\ due' = [due EXCEPT ![c] = @ + 1]
  /\ UNCHANGED <<conn_list, interest, batch, owner, backlog, peer, inbox, store, alive>>

Read(c) ==
  /\ alive /\ inbox[c] # <<>>
  /\ inbox' = [inbox EXCEPT ![c] = Tail(@)]
  /\ due' = [due EXCEPT ![c] = IF @ = 0 THEN 0 ELSE @ - 1]
  /\ UNCHANGED <<conn_list, interest, batch, owner, backlog, peer, wire, store, alive>>

\* The client closes.  Unread replies, or the wish to, make it a reset, and a
\* reset may overtake what was sent before.
Hangup(c) ==
  /\ alive /\ peer[c] = "open"
  /\ \/ inbox[c] = <<>> /\ peer' = [peer EXCEPT ![c] = "fin"] /\ UNCHANGED wire
     \/ /\ peer' = [peer EXCEPT ![c] = "reset"]
        /\ wire' \in {wire, [wire EXCEPT ![c] = <<>>]}
  /\ inbox' = [inbox EXCEPT ![c] = <<>>]
  /\ due' = [due EXCEPT ![c] = 0]
  /\ UNCHANGED <<conn_list, interest, batch, owner, backlog, store, alive>>

\* What epoll reports.  A closed or reset connection is readable and writable.
Readable(f) ==
  IF f = ListenFd THEN backlog # <<>>
  ELSE wire[owner[f]] # <<>> \/ peer[owner[f]] # "open"
Writable(f) == peer[owner[f]] # "open" \/ Len(inbox[owner[f]]) < SockBuf
Ready(f) ==
  \/ interest[f] = "IN" /\ Readable(f)
  \/ interest[f] = "OUT" /\ Writable(f)

\* The chunks one recv may return.
Chunk(stream) == {n \in 1 .. Len(stream) : Split \/ n = Len(stream)}

\* The connection of client c no longer exists on either side.
Disconnected(c) ==
  /\ peer' = [peer EXCEPT ![c] = "away"]
  /\ wire' = [wire EXCEPT ![c] = <<>>]
  /\ inbox' = [inbox EXCEPT ![c] = <<>>]
  /\ due' = [due EXCEPT ![c] = 0]
-----------------------------------------------------------------------------
(* The reactor.                                                            *)

\* set_event(fd, event, 0)
SetEvent(f, ev) == interest' = [interest EXCEPT ![f] = ev]

\* epoll_wait returns every fd that is ready.  Dispatching the events in any
\* order stands for the order of the events array.
EpollWait ==
  /\ alive /\ batch = {}
  /\ \E f \in Fd : Ready(f)
  /\ batch' = {[fd |-> f, ev |-> interest[f], who |-> owner[f]] : f \in {g \in Fd : Ready(g)}}
  /\ UNCHANGED <<conn_list, interest, kernel, due, store, alive>>

\* Mutant of Dispatched: the event of a connection is looked at again, as a
\* loop that drains the socket would.
DispatchedTwice(e) == batch' = IF e.fd = ListenFd THEN batch \ {e} ELSE batch

\* The loop moves on to the next event.
Dispatched(e) == batch' = batch \ {e}

\* accept fails: always when no descriptor is free, now and then otherwise.
AcceptFails(e) ==
  /\ e.ev = "IN" /\ conn_list[e.fd].recv = "accept_cb"
  /\ Dispatched(e)
  /\ UNCHANGED <<conn_list, interest, kernel, due, store, alive>>

\* accept returns the lowest free descriptor.
NewFd == Min({f \in Fd : owner[f] = NULL})

\* Mutant of AcceptRejects: the socket is not closed.
AcceptForgets(e) ==
  /\ e.ev = "IN" /\ conn_list[e.fd].recv = "accept_cb"
  /\ \E f \in Fd : owner[f] = NULL
  /\ NewFd >= ConnectionSize
  /\ Dispatched(e)
  /\ owner' = [owner EXCEPT ![NewFd] = Head(backlog)]
  /\ backlog' = Tail(backlog)
  /\ UNCHANGED <<conn_list, interest, peer, wire, inbox, due, store, alive>>

\* accept_cb: a descriptor the table has no slot for is closed at once.
AcceptRejects(e) ==
  /\ e.ev = "IN" /\ conn_list[e.fd].recv = "accept_cb"
  /\ \E f \in Fd : owner[f] = NULL
  /\ NewFd >= ConnectionSize
  /\ Dispatched(e)
  /\ Disconnected(Head(backlog))
  /\ backlog' = Tail(backlog)
  /\ UNCHANGED <<conn_list, interest, owner, store, alive>>

\* Mutant of AcceptCb: without the test against CONNECTION_SIZE.
AcceptAnyFd(e) ==
  /\ e.ev = "IN" /\ conn_list[e.fd].recv = "accept_cb"
  /\ \E f \in Fd : owner[f] = NULL
  /\ Dispatched(e)
  /\ owner' = [owner EXCEPT ![NewFd] = Head(backlog)]
  /\ backlog' = Tail(backlog)
  /\ conn_list' = [f \in DOMAIN conn_list \cup {NewFd} |->
                     IF f = NewFd THEN [recv |-> "recv_cb", send |-> "send_cb", wbuf |-> NULL]
                     ELSE conn_list[f]]
  /\ SetEvent(NewFd, "IN")
  /\ UNCHANGED <<peer, wire, inbox, due, store, alive>>

\* accept_cb: the slot is filled in and the new socket registered for EPOLLIN.
AcceptCb(e) ==
  /\ e.ev = "IN" /\ conn_list[e.fd].recv = "accept_cb"
  /\ \E f \in Fd : owner[f] = NULL
  /\ NewFd < ConnectionSize
  /\ Dispatched(e)
  /\ owner' = [owner EXCEPT ![NewFd] = Head(backlog)]
  /\ backlog' = Tail(backlog)
  /\ conn_list' = [conn_list EXCEPT ![NewFd] =
                     [recv |-> "recv_cb", send |-> "send_cb", wbuf |-> NULL]]
  /\ SetEvent(NewFd, "IN")
  /\ UNCHANGED <<peer, wire, inbox, due, store, alive>>

\* Mutant of RecvCb: the connection keeps waiting for EPOLLIN.
RecvStaysIn(e) ==
  LET f == e.fd c == owner[f] IN
    /\ e.ev = "IN" /\ conn_list[f].recv = "recv_cb"
    /\ \E n \in Chunk(wire[c]) : \E done \in Protocol(store, SubSeq(wire[c], 1, n)) :
         /\ wire' = [wire EXCEPT ![c] = SubSeq(@, n + 1, Len(@))]
         /\ conn_list' = [conn_list EXCEPT ![f].wbuf = done.reply]
         /\ store' = done.map
    /\ Dispatched(e)
    /\ UNCHANGED <<interest, owner, backlog, peer, inbox, due, alive>>

\* recv_cb: what has arrived goes to the protocol layer as one message, and
\* the connection waits to send the reply.
RecvCb(e) ==
  LET f == e.fd c == owner[f] IN
    /\ e.ev = "IN" /\ conn_list[f].recv = "recv_cb"
    /\ \E n \in Chunk(wire[c]) : \E done \in Protocol(store, SubSeq(wire[c], 1, n)) :
         /\ wire' = [wire EXCEPT ![c] = SubSeq(@, n + 1, Len(@))]
         /\ conn_list' = [conn_list EXCEPT ![f].wbuf = done.reply]
         /\ store' = done.map
    /\ SetEvent(f, "OUT")
    /\ Dispatched(e)
    /\ UNCHANGED <<owner, backlog, peer, inbox, due, alive>>

\* Mutant of RecvEnds: without its test for -1, recv_cb passes the error on to
\* the protocol layer as a message of length -1.
RecvIgnoresError(e) ==
  LET f == e.fd c == owner[f] IN
    /\ e.ev = "IN" /\ conn_list[f].recv = "recv_cb"
    /\ wire[c] = <<>> /\ peer[c] # "open"
    /\ peer' = [peer EXCEPT ![c] = "dead"]
    /\ conn_list' = [conn_list EXCEPT ![f].wbuf = NoLength]
    /\ SetEvent(f, "OUT")
    /\ Dispatched(e)
    /\ UNCHANGED <<owner, backlog, wire, inbox, due, store, alive>>

\* recv_cb: recv returns 0 or -1; the socket is closed and the slot cleared.
RecvEnds(e) ==
  LET f == e.fd IN
    /\ e.ev = "IN" /\ conn_list[f].recv = "recv_cb"
    /\ wire[owner[f]] = <<>> /\ peer[owner[f]] # "open"
    /\ Disconnected(owner[f])
    /\ owner' = [owner EXCEPT ![f] = NULL]
    /\ SetEvent(f, "NONE")
    /\ conn_list' = [conn_list EXCEPT ![f] = NoConn]
    /\ Dispatched(e)
    /\ UNCHANGED <<backlog, store, alive>>

\* Mutant of SendCb: the connection keeps waiting for EPOLLOUT.
SendStaysOut(e) ==
  LET f == e.fd c == owner[f] IN
    /\ e.ev = "OUT" /\ conn_list[f].send = "send_cb"
    /\ peer[c] = "open"
    /\ inbox' = [inbox EXCEPT ![c] = Append(@, conn_list[f].wbuf)]
    /\ Dispatched(e)
    /\ UNCHANGED <<conn_list, interest, owner, backlog, peer, wire, due, store, alive>>

\* send_cb: the reply goes out and the connection waits for EPOLLIN again.  A
\* reply of length -1 sends bytes that mean nothing, or fails.  The length is
\* never 0 here: every reply has text.
SendCb(e) ==
  LET f == e.fd c == owner[f] IN
    /\ e.ev = "OUT" /\ conn_list[f].send = "send_cb"
    /\ peer[c] = "open"
    /\ \/ inbox' = [inbox EXCEPT ![c] = Append(@, conn_list[f].wbuf)]
       \/ conn_list[f].wbuf = NoLength /\ UNCHANGED inbox
    /\ SetEvent(f, "IN")
    /\ Dispatched(e)
    /\ UNCHANGED <<conn_list, owner, backlog, peer, wire, due, store, alive>>

\* send_cb to a client that is gone: a closed one answers with a reset, sooner
\* or later; a reset one makes send return -1.
SendUnheard(e) ==
  LET f == e.fd c == owner[f] IN
    /\ e.ev = "OUT" /\ conn_list[f].send = "send_cb"
    /\ \/ peer[c] = "fin" /\ \E p \in {"fin", "pipe"} : peer' = [peer EXCEPT ![c] = p]
       \/ peer[c] = "reset" /\ peer' = [peer EXCEPT ![c] = "dead"]
    /\ SetEvent(f, "IN")
    /\ Dispatched(e)
    /\ UNCHANGED <<conn_list, owner, backlog, wire, inbox, due, store, alive>>

\* send_cb on a socket that is known to be broken: SIGPIPE.
SendKills(e) ==
  /\ e.ev = "OUT" /\ conn_list[e.fd].send = "send_cb"
  /\ peer[owner[e.fd]] \in {"pipe", "dead"}
  /\ alive' = FALSE
  /\ UNCHANGED <<conn_list, interest, batch, kernel, due, store>>

\* The body of the loop: the callback the event calls for.
Dispatch ==
  /\ alive
  /\ \E e \in batch :
       \/ AcceptFails(e) \/ AcceptRejects(e) \/ AcceptCb(e)
       \/ RecvCb(e) \/ RecvEnds(e)
       \/ SendCb(e) \/ SendUnheard(e) \/ SendKills(e)

ClientNext ==
  \E c \in Client :
    \/ Connect(c) \/ Read(c) \/ Hangup(c)
    \/ \E m \in Message : Send(c, m)

Next == EpollWait \/ Dispatch \/ ClientNext

Spec == Init /\ [][Next]_vars

\* The loop never stops by itself, and clients read what they are sent.
FairSpec ==
  /\ Spec
  /\ WF_vars(EpollWait)
  /\ WF_vars(Dispatch)
  /\ \A c \in Client : WF_vars(Read(c))
-----------------------------------------------------------------------------
(* Properties.                                                             *)

\* An event is dispatched to the connection it was reported for, which still
\* waits for it, although earlier callbacks of the same batch close sockets
\* and accept new ones on their descriptors.
NoStaleEvent ==
  \A e \in batch : owner[e.fd] = e.who /\ interest[e.fd] = e.ev

\* No descriptor leaks and no null callback is called: a socket is open
\* exactly if epoll watches it, and then its slot has the callback for the
\* event, and every connection is in the backlog or in exactly one slot.
FdsWatched ==
  /\ \A f \in Fd :
       /\ (owner[f] # NULL) <=> (interest[f] # "NONE")
       /\ interest[f] = "IN" =>
            conn_list[f].recv = (IF f = ListenFd THEN "accept_cb" ELSE "recv_cb")
       /\ interest[f] = "OUT" => conn_list[f].send = "send_cb"
  /\ \A c \in Client :
       Cardinality({f \in Fd : owner[f] = c}) + Cardinality({i \in DOMAIN backlog : backlog[i] = c})
         = (IF peer[c] = "away" THEN 0 ELSE 1)

\* Clients that wait for each reply before the next request cannot bring the
\* process down by SIGPIPE, whenever and however they disconnect.
NeverKilled == alive

\* What the two invariants above rest on, an inductive invariant.  Descriptor
\* ListenFd listens; every other open socket is a client's, has a slot of the
\* table, and the slot both callbacks.
SlotsFilled ==
  /\ owner[ListenFd] = Listener /\ interest[ListenFd] = "IN"
  /\ conn_list[ListenFd].recv = "accept_cb"
  /\ \A f \in Fd \ {ListenFd} :
       /\ owner[f] \in Client \cup {NULL}
       /\ (owner[f] # NULL) <=> (interest[f] # "NONE")
       /\ owner[f] # NULL =>
            f \in Slot /\ conn_list[f].recv = "recv_cb" /\ conn_list[f].send = "send_cb"

\* A client's connection is one descriptor's, or has one place in the backlog.
OnePlace ==
  /\ \A f, g \in Fd : owner[f] = owner[g] /\ owner[f] # NULL => f = g
  /\ \A i, j \in DOMAIN backlog : backlog[i] = backlog[j] => i = j
  /\ \A f \in Fd : \A i \in DOMAIN backlog : owner[f] # backlog[i]
  /\ \A c \in Client :
       peer[c] # "away" <=> \/ \E f \in Fd : owner[f] = c
                            \/ \E i \in DOMAIN backlog : backlog[i] = c

\* The kernel drops what is left of a connection that has ended.
NothingLeft ==
  \A c \in Client :
    /\ peer[c] = "away" => wire[c] = <<>>
    /\ peer[c] # "open" => inbox[c] = <<>>

\* The event of the listening socket is dispatched while somebody waits.
SomebodyWaits == \A e \in batch : e.fd = ListenFd => backlog # <<>>

ReactorInv == SlotsFilled /\ OnePlace /\ NothingLeft /\ SomebodyWaits /\ NoStaleEvent

\* Client c's connection has a reply to send.
Replying(c) == \E f \in Fd : owner[f] = c /\ interest[f] = "OUT"

\* What NeverKilled rests on.  Of a client that waits for each reply, at most
\* one thing is under way: a request, the reply the reactor holds or the reply
\* the kernel holds; and none once a send has failed.
AtMostOne(c) ==
  /\ wire[c] # <<>> => ~Replying(c)
  /\ wire[c] # <<>> \/ Replying(c) => inbox[c] = <<>>
  /\ Len(inbox[c]) <= 1
  /\ peer[c] = "open" /\ (wire[c] # <<>> \/ Replying(c) \/ inbox[c] # <<>>) => due[c] = 1
  /\ peer[c] \in {"pipe", "dead"} => wire[c] = <<>> /\ ~Replying(c)

OneUnderWay == \A c \in Client : AtMostOne(c)

\* The reply a connection waits to send, as a sequence.
Unsent(c) ==
  LET fds == {f \in Fd : owner[f] = c /\ interest[f] = "OUT"}
  IN IF fds = {} THEN <<>> ELSE <<conn_list[CHOOSE f \in fds : TRUE].wbuf>>

Service == INSTANCE KvService WITH
  here <- [c \in Client |-> peer[c] = "open"],
  asked <- wire,
  answers <- [c \in Client |-> inbox[c] \o Unsent(c)]

\* The reactor keeps the server's promise to its clients.
ImplementsService == Service!Spec

\* An accepted client that has sent something is answered, or the connection
\* ends.
Answered ==
  \A c \in Client :
    ((\E f \in Fd : owner[f] = c) /\ wire[c] # <<>>) ~> (inbox[c] # <<>> \/ peer[c] # "open")

\* What recv_cb hands to kvs_protocol is a complete request: the comment on
\* kvs_protocol relies on it.
RequestsComplete ==
  [][ \A c \in Client :
        (peer[c] # "away" /\ peer'[c] # "away" /\ Len(wire'[c]) < Len(wire[c])) =>
          SubSeq(wire[c], 1, Len(wire[c]) - Len(wire'[c])) \in Message ]_vars
=============================================================================
