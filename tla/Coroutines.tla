----------------------------- MODULE Coroutines -----------------------------
(***************************************************************************)
(* The servers with a flow of control for every connection.                *)
(*   "ntyco"   ntyco_server.c, test1/ntyco.c, nty_server.c and             *)
(*             hook_tcpserver.c: coroutines of NtyCo, a library that is    *)
(*             not part of the repository.  accept and recv park the       *)
(*             caller; a new coroutine runs before the acceptor does.      *)
(*   "mini"    mini_ntyco.c with its own scheduler                         *)
(*   "thread"  client_thread of 00_networkio.c, client_routine of          *)
(*             junior/08: a thread that finds its descriptor in a variable *)
(*             of the accepting loop                                       *)
(***************************************************************************)
EXTENDS Sockets

VARIABLES
  co,        \* the state of the flow created for each client
  serves,    \* the client whose descriptor a flow has read from its argument
  cell,      \* "thread": the variable clientfd of the accepting loop
  buf,       \* what a flow has received and not sent back
  created,   \* "mini": S->co, the coroutines in the order of their creation
  cur,       \* "mini": the running coroutine, S->cur_id
  polled     \* "mini": the rest of what epoll_wait returned

coroutineVars == <<co, serves, cell, buf, created, cur, polled>>

CoroutineDesigns == {"ntyco", "mini", "thread"}

\* The loop of mini_ntyco.c between two waits: dispatching what epoll_wait
\* returned, then the resume at the end.
Listening == "listenfd"

CoroutineInit ==
  /\ co = [c \in Client |-> "none"]
  /\ serves = [c \in Client |-> NULL]
  /\ cell = NULL
  /\ buf = [c \in Client |-> <<>>]
  /\ created = <<>> /\ cur = NULL /\ polled = NULL
-----------------------------------------------------------------------------
(* Creation.                                                               *)

\* The acceptors of NtyCo: a coroutine with its own copy of the descriptor, or
\* one that runs before the variable changes.
CoAccept ==
  /\ design = "ntyco"
  /\ Accept
  /\ co' = [co EXCEPT ![Head(backlog)] = "read"]
  /\ serves' = [serves EXCEPT ![Head(backlog)] = Head(backlog)]
  /\ UNCHANGED <<design, limit, peer, wire, sent, got, alive, cell, buf, created, cur, polled>>

\* ntyco_server.c without memory for the argument.
CoAcceptNoMemory ==
  /\ design = "ntyco" /\ CanAccept
  /\ backlog' = Tail(backlog)
  /\ peer' = [peer EXCEPT ![Head(backlog)] = "gone"]
  /\ wire' = [wire EXCEPT ![Head(backlog)] = <<>>]
  /\ UNCHANGED <<design, limit, owner, sent, got, alive, coroutineVars>>

\* The loop that accepts and creates a thread with the address of clientfd.
ThreadAccept ==
  /\ design = "thread"
  /\ Accept
  /\ cell' = Head(backlog)
  /\ co' = [co EXCEPT ![Head(backlog)] = "new"]
  /\ UNCHANGED <<design, limit, peer, wire, sent, got, alive, serves, buf, created, cur, polled>>

\* The thread starts and reads what the variable holds now.
ThreadStarts(c) ==
  /\ design = "thread" /\ co[c] = "new"
  /\ serves' = [serves EXCEPT ![c] = cell]
  /\ co' = [co EXCEPT ![c] = "read"]
  /\ UNCHANGED <<kernel, cell, buf, created, cur, polled>>
-----------------------------------------------------------------------------
(* The body: receive, answer, until the connection ends.                   *)

Runs(c) == design # "mini" \/ cur = c

\* The connection of a flow, gone or not.
Sock(c) == serves[c]
Open(c) == Accepted(Sock(c))

\* Mutant of BodyRecv: the data of an earlier round stay in front.
BodyRecvAppends(c) ==
  /\ co[c] = "read" /\ Runs(c) /\ Open(c) /\ Available(Sock(c))
  /\ TakeChunk(Sock(c))
  /\ buf' = [buf EXCEPT ![c] = @ \o Chunk(Sock(c))]
  /\ co' = [co EXCEPT ![c] = "write"]
  /\ UNCHANGED <<design, limit, peer, backlog, owner, sent, got, alive, serves, cell, created, cur, polled>>

\* recv returns data.
BodyRecv(c) ==
  /\ co[c] = "read" /\ Runs(c) /\ Open(c) /\ Available(Sock(c))
  /\ TakeChunk(Sock(c))
  /\ buf' = [buf EXCEPT ![c] = Chunk(Sock(c))]
  /\ co' = [co EXCEPT ![c] = "write"]
  /\ UNCHANGED <<design, limit, peer, backlog, owner, sent, got, alive, serves, cell, created, cur, polled>>

\* The answer is sent; SIGPIPE on a broken connection.
BodySend(c) ==
  /\ co[c] = "write" /\ Runs(c) /\ Open(c)
  /\ \/ Deliver(Sock(c), buf[c]) /\ UNCHANGED alive
     \/ Broken(Sock(c)) /\ Killed /\ UNCHANGED <<got, peer>>
     \/ design = "thread" /\ SendFails(Sock(c)) /\ UNCHANGED <<got, alive>>
  /\ co' = [co EXCEPT ![c] = "read"]
  /\ UNCHANGED <<design, limit, backlog, owner, wire, sent, serves, cell, buf, created, cur, polled>>

\* recv returns 0, mini_ntyco.c also -1, or a send fails: close and return.
BodyEnds(c) ==
  /\ Runs(c) /\ Open(c)
  /\ \/ co[c] = "read" /\ Ended(Sock(c))
     \/ co[c] = "read" /\ Failed(Sock(c)) /\ design = "mini"
     \/ co[c] = "write" /\ peer[Sock(c)] = "reset" /\ design # "thread"
  /\ Close(Sock(c))
  /\ co' = [co EXCEPT ![c] = "dead"]
  /\ cur' = NULL
  /\ UNCHANGED <<design, limit, backlog, sent, got, alive, serves, cell, buf, created, polled>>

\* recv returns -1: the reader of NtyCo tries again, the thread sends -1 bytes
\* on a broken connection.
BodyFails(c) ==
  /\ co[c] = "read" /\ Open(c) /\ Failed(Sock(c))
  /\ \/ design = "ntyco" /\ peer' = [peer EXCEPT ![Sock(c)] = "dead"] /\ UNCHANGED alive
     \/ design = "thread" /\ Killed /\ UNCHANGED peer
  /\ UNCHANGED <<design, limit, backlog, owner, wire, sent, got, coroutineVars>>
-----------------------------------------------------------------------------
(* The scheduler of mini_ntyco.c.                                          *)

\* epoll_wait, level-triggered; every client's socket is watched for input.
MiniWait ==
  LET fds == {c \in Client : Accepted(c) /\ (Available(c) \/ peer[c] # "open")}
             \cup (IF backlog # <<>> THEN {Listening} ELSE {})
  IN  /\ design = "mini" /\ polled = NULL /\ cur = NULL /\ fds # {}
      /\ polled' = fds
      /\ UNCHANGED <<kernel, co, serves, cell, buf, created, cur>>

\* The listening socket: all pending connections, a coroutine for each.
MiniAccept ==
  /\ design = "mini" /\ polled # NULL /\ cur = NULL /\ Listening \in polled
  /\ \/ /\ Accept
        /\ co' = [co EXCEPT ![Head(backlog)] = "new"]
        /\ serves' = [serves EXCEPT ![Head(backlog)] = Head(backlog)]
        /\ created' = Append(created, Head(backlog))
        /\ UNCHANGED polled
     \/ /\ ~CanAccept
        /\ polled' = polled \ {Listening}
        /\ UNCHANGED <<owner, backlog, co, serves, created>>
  /\ UNCHANGED <<design, limit, peer, wire, sent, got, alive, cell, buf, cur>>

\* Another descriptor: the coroutine that waits for it is resumed.  One that
\* has not run yet waits for nothing, and the event is dropped.
MiniWake(c) ==
  /\ design = "mini" /\ polled # NULL /\ cur = NULL /\ c \in polled
  /\ polled' = polled \ {c}
  /\ IF co[c] = "wait" THEN cur' = c /\ co' = [co EXCEPT ![c] = "read"]
     ELSE UNCHANGED <<cur, co>>
  /\ UNCHANGED <<kernel, serves, cell, buf, created>>

\* The hooked read gets EAGAIN and yields.
MiniYield(c) ==
  /\ design = "mini" /\ cur = c /\ co[c] = "read"
  /\ ~Available(c) /\ peer[c] = "open"
  /\ co' = [co EXCEPT ![c] = "wait"]
  /\ cur' = NULL
  /\ UNCHANGED <<kernel, serves, cell, buf, created, polled>>

\* At the end of every round the first coroutine that is not dead is resumed,
\* whether it has something to do or not.
Living == {i \in DOMAIN created : co[created[i]] # "dead"}
First == created[Min(Living)]
MiniResume ==
  /\ design = "mini" /\ polled = {} /\ cur = NULL
  /\ polled' = NULL
  /\ IF Living # {} THEN cur' = First /\ co' = [co EXCEPT ![First] = "read"]
     ELSE UNCHANGED <<cur, co>>
  /\ UNCHANGED <<kernel, serves, cell, buf, created>>

CoroutineLoop ==
  \/ CoAccept \/ CoAcceptNoMemory \/ ThreadAccept
  \/ MiniWait \/ MiniAccept \/ MiniResume \/ \E c \in Client : MiniWake(c)

CoroutineBody(c) ==
  \/ ThreadStarts(c)
  \/ BodyRecv(c) \/ BodySend(c) \/ BodyEnds(c) \/ BodyFails(c) \/ MiniYield(c)
=============================================================================
