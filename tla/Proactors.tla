----------------------------- MODULE Proactors -----------------------------
(***************************************************************************)
(* The servers on io_uring: operations are prepared in a submission queue, *)
(* carried out by the kernel in any order, and handled in batches of       *)
(* completions.                                                            *)
(*   "proactor"   Project1_KVstore/src/proactor.c: a connection has its    *)
(*                own buffers                                              *)
(*   "precursor"  test1/proactor.c: one receive and one response buffer    *)
(*                for all connections                                      *)
(*   "uring"      uring_tcp_server.c and aaa.c: one buffer for everything  *)
(***************************************************************************)
EXTENDS Sockets

CONSTANTS
  Entries,    \* ENTRIES_LENGTH, the room in the submission queue
  BatchMax    \* the completions handled between two submissions

\* The queue has room for what a batch lets the program prepare: at most two
\* operations for each of 128 completions, and 1024 entries.
ASSUME ProactorsAssumption ==
  Entries \in Nat \ {0} /\ BatchMax \in Nat \ {0} /\ 2 * BatchMax <= Entries

VARIABLES
  sq,         \* operations prepared and not submitted
  ring,       \* operations the kernel is carrying out
  cq,         \* completions the program has not seen
  events,     \* the rest of the current batch of completions
  conns,      \* "proactor": the io_conn_t allocated, by the client they serve
  rbuf,       \* receive buffers: of a connection, or the shared one
  wbuf        \* send buffers, likewise

proactorVars == <<sq, ring, cq, events, conns, rbuf, wbuf>>

ProactorDesigns == {"proactor", "precursor", "uring"}

\* An operation as the program prepares it: what to do and for which client's
\* descriptor.  NULL is the listener, or the descriptor -1 of a failed accept.
Op == [type : {"accept", "recv", "send"}, who : Client \cup {NULL}, len : 0 .. BufMax]
AcceptOp == [type |-> "accept", who |-> NULL, len |-> 0]
RecvOp(c) == [type |-> "recv", who |-> c, len |-> 0]
SendOp(c, n) == [type |-> "send", who |-> c, len |-> n]

\* Where the data of a connection are kept.
Buffer(c) == IF design = "proactor" THEN c ELSE NULL
NoData == [i \in 1 .. BufMax |-> NULL]

\* What the first bytes of a buffer become, and what a buffer holds.
Overwritten(old, chunk) == [i \in 1 .. BufMax |-> IF i <= Len(chunk) THEN chunk[i] ELSE old[i]]
Held(buffer, n) == [i \in 1 .. n |-> buffer[i]]

\* set_event_accept, set_event_recv, set_event_send: io_uring_get_sqe finds no
\* entry in a full queue, and nobody looks at the result.
Prepared(queue, op) == IF Cardinality(queue) < Entries THEN queue \cup {op} ELSE queue

ProactorInit ==
  /\ sq = IF design \in ProactorDesigns THEN {AcceptOp} ELSE {}
  /\ ring = {} /\ cq = <<>> /\ events = <<>> /\ conns = {}
  /\ rbuf = [b \in Client \cup {NULL} |-> NoData]
  /\ wbuf = [b \in Client \cup {NULL} |-> NoData]
-----------------------------------------------------------------------------
(* The kernel (external): an operation in the ring completes.  res is the  *)
(* number of messages, a client for a new descriptor, 0, or -1.            *)

Completed(op, res) == ring' = ring \ {op} /\ cq' = Append(cq, [op |-> op, res |-> res])

CompleteAccept ==
  /\ AcceptOp \in ring
  /\ \/ /\ Accept
        /\ Completed(AcceptOp, Head(backlog))
     \/ /\ FreeFd = {}
        /\ Completed(AcceptOp, -1)
        /\ UNCHANGED <<owner, backlog>>
  /\ UNCHANGED <<design, limit, peer, wire, sent, got, alive, sq, events, conns, rbuf, wbuf>>

CompleteRecv(c) ==
  LET op == RecvOp(c) IN
    /\ op \in ring
    /\ \/ /\ Available(c) /\ TakeChunk(c) /\ UNCHANGED peer
          /\ rbuf' = [rbuf EXCEPT ![Buffer(c)] = Overwritten(@, Chunk(c))]
          /\ Completed(op, Len(Chunk(c)))
       \/ /\ Ended(c) /\ Completed(op, 0)
          /\ UNCHANGED <<peer, wire, rbuf>>
       \/ /\ Failed(c) /\ Completed(op, -1)
          /\ peer' = [peer EXCEPT ![c] = "dead"]
          /\ UNCHANGED <<wire, rbuf>>
    /\ UNCHANGED <<design, limit, backlog, owner, sent, got, alive, sq, events, conns, wbuf>>

\* A recv on the descriptor -1.
CompleteBadRecv ==
  /\ RecvOp(NULL) \in ring
  /\ Completed(RecvOp(NULL), -1)
  /\ UNCHANGED <<kernel, sq, events, conns, rbuf, wbuf>>

\* io_uring sends with MSG_NOSIGNAL: a broken connection is an error.  The
\* bytes are those in the buffer now; "uring" sends from where it receives.
CompleteSend(c) ==
  \E op \in ring :
    /\ op.type = "send" /\ op.who = c
    /\ \/ /\ Deliver(c, Held((IF design = "uring" THEN rbuf ELSE wbuf)[Buffer(c)], op.len))
          /\ Completed(op, op.len)
       \/ SendFails(c) /\ UNCHANGED got /\ Completed(op, -1)
       \/ Broken(c) /\ UNCHANGED <<got, peer>> /\ Completed(op, -1)
    /\ UNCHANGED <<design, limit, backlog, owner, wire, sent, alive, sq, events, conns, rbuf, wbuf>>
-----------------------------------------------------------------------------
(* The program.                                                            *)

\* io_uring_submit at the head of the loop.
Submit ==
  /\ design \in ProactorDesigns
  /\ events = <<>> /\ sq # {}
  /\ ring' = ring \cup sq
  /\ sq' = {}
  /\ UNCHANGED <<kernel, cq, events, conns, rbuf, wbuf>>

\* io_uring_wait_cqe and io_uring_peek_batch_cqe.
PeekBatch ==
  /\ events = <<>> /\ sq = {} /\ cq # <<>>
  /\ events' = SubSeq(cq, 1, Min({BatchMax, Len(cq)}))
  /\ cq' = SubSeq(cq, Len(events') + 1, Len(cq))
  /\ UNCHANGED <<kernel, sq, ring, conns, rbuf, wbuf>>

Handling(type) == events # <<>> /\ Head(events).op.type = type /\ events' = Tail(events)
Res == Head(events).res
Who == Head(events).op.who

\* Mutant of HandleAccept: a failed accept is not prepared again.
AcceptNotRearmed ==
  /\ design = "proactor" /\ Handling("accept")
  /\ \/ Res = -1 /\ UNCHANGED <<sq, conns>>
     \/ /\ Res # -1
        /\ sq' = Prepared(Prepared(sq, RecvOp(Res)), AcceptOp)
        /\ conns' = conns \cup {Res}
  /\ UNCHANGED <<kernel, ring, cq, rbuf, wbuf>>

\* EVENT_ACCEPT: a connection with a first recv, and the next accept.
HandleAccept ==
  /\ design = "proactor" /\ Handling("accept")
  /\ \/ /\ Res = -1
        /\ sq' = Prepared(sq, AcceptOp)
        /\ UNCHANGED conns
     \/ /\ Res # -1
        /\ sq' = Prepared(Prepared(sq, RecvOp(Res)), AcceptOp)
        /\ conns' = conns \cup {Res}
  /\ UNCHANGED <<kernel, ring, cq, rbuf, wbuf>>

\* EVENT_ACCEPT without memory for the io_conn_t: the client is turned away.
HandleAcceptNoMemory ==
  /\ design = "proactor" /\ Handling("accept") /\ Res # -1
  /\ Close(Res)
  /\ sq' = Prepared(sq, AcceptOp)
  /\ UNCHANGED <<design, limit, backlog, sent, got, alive, ring, cq, conns, rbuf, wbuf>>

\* EVENT_RECV with data: the handler fills the connection's send buffer.
HandleRecv ==
  /\ design = "proactor" /\ Handling("recv") /\ Res > 0
  /\ wbuf' = [wbuf EXCEPT ![Who] = Overwritten(@, Held(rbuf[Who], Res))]
  /\ sq' = Prepared(sq, SendOp(Who, Res))
  /\ UNCHANGED <<kernel, ring, cq, conns, rbuf>>

\* EVENT_RECV with 0 or an error: the connection is closed and freed.
HandleRecvEnds ==
  /\ design = "proactor" /\ Handling("recv") /\ Res <= 0
  /\ Close(Who)
  /\ conns' = conns \ {Who}
  /\ UNCHANGED <<design, limit, backlog, sent, got, alive, sq, ring, cq, rbuf, wbuf>>

\* EVENT_SEND: closed and freed after an error, else the next recv.
HandleSend ==
  /\ design = "proactor" /\ Handling("send")
  /\ IF Res = -1 THEN Close(Who) /\ conns' = conns \ {Who} /\ UNCHANGED sq
     ELSE sq' = Prepared(sq, RecvOp(Who)) /\ UNCHANGED <<owner, peer, wire, conns>>
  /\ UNCHANGED <<design, limit, backlog, sent, got, alive, ring, cq, rbuf, wbuf>>

\* The lesson servers accept again first and do not look at the result: after
\* an error they receive from the descriptor -1.
LessonAccept ==
  /\ design \in SharedBuffer /\ Handling("accept")
  /\ sq' = Prepared(Prepared(sq, AcceptOp), RecvOp(IF Res = -1 THEN NULL ELSE Res))
  /\ UNCHANGED <<kernel, ring, cq, conns, rbuf, wbuf>>

\* uring_tcp_server.c: what is in the buffer by then is sent back.
LessonRecv ==
  /\ design = "uring" /\ Handling("recv") /\ Res > 0
  /\ sq' = Prepared(sq, SendOp(Who, Res))
  /\ UNCHANGED <<kernel, ring, cq, conns, rbuf, wbuf>>

\* test1/proactor.c: the handler turns it into the one response.
PrecursorRecv ==
  /\ design = "precursor" /\ Handling("recv") /\ Res > 0
  /\ wbuf' = [wbuf EXCEPT ![NULL] = Overwritten(@, Held(rbuf[NULL], Res))]
  /\ sq' = Prepared(sq, SendOp(Who, Res))
  /\ UNCHANGED <<kernel, ring, cq, conns, rbuf>>

\* A connection is closed at the peer's end; after an error it is forgotten.
LessonEnds ==
  /\ design \in SharedBuffer /\ Handling("recv") /\ Res <= 0
  /\ IF Res = 0 THEN Close(Who) ELSE UNCHANGED <<owner, peer, wire>>
  /\ UNCHANGED <<design, limit, backlog, sent, got, alive, sq, ring, cq, conns, rbuf, wbuf>>

\* The next recv, whatever came of the send.
LessonSend ==
  /\ design \in SharedBuffer /\ Handling("send")
  /\ sq' = Prepared(sq, RecvOp(Who))
  /\ UNCHANGED <<kernel, ring, cq, conns, rbuf, wbuf>>

ProactorLoop ==
  \/ Submit \/ PeekBatch
  \/ HandleAccept \/ HandleAcceptNoMemory \/ HandleRecv \/ HandleRecvEnds \/ HandleSend
  \/ LessonAccept \/ LessonRecv \/ PrecursorRecv \/ LessonEnds \/ LessonSend

ProactorKernel(c) == CompleteRecv(c) \/ CompleteSend(c)
-----------------------------------------------------------------------------
\* The operations for client c, or the accepts for NULL, that the program waits
\* for: in the queue, in the ring, completed, or in the current batch.
Of(op, c) == IF c = NULL THEN op.type = "accept" ELSE op.type # "accept" /\ op.who = c
Among(ops, c) == Cardinality({op \in ops : Of(op, c)})
Seen(entries, c) == Cardinality({i \in DOMAIN entries : Of(entries[i].op, c)})
Awaited(c) == Among(sq, c) + Among(ring, c) + Seen(cq, c) + Seen(events, c)

\* Client c has been accepted and the program does not know yet.
Accepting(c) ==
  \E e \in Range(cq) \cup Range(events) : e.op.type = "accept" /\ e.res = c

\* A connection is in exactly one operation at any time, so that nothing
\* completes for an io_conn_t that was freed, none is forgotten or leaked, and
\* the submission queue never runs out of entries; and one accept is always on
\* its way.  Only the lesson servers forget a connection, after a failed recv.
OneOperationEach ==
  design \in ProactorDesigns =>
    /\ Awaited(NULL) = 1
    /\ \A c \in Client :
         IF Accepted(c) /\ ~Accepting(c)
         THEN \/ Awaited(c) = 1
              \/ design # "proactor" /\ peer[c] = "dead" /\ Awaited(c) = 0
         ELSE Awaited(c) = 0
    /\ design = "proactor" => conns = {c \in Client : Accepted(c) /\ ~Accepting(c)}
=============================================================================
