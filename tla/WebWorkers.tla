----------------------------- MODULE WebWorkers -----------------------------
(***************************************************************************)
(* nty_http_epoll.c ("preepoll") and ntyco_httpd.c ("preco"): processes    *)
(* forked after listen, which share the listening socket, an accept lock   *)
(* and the counters of their connections in shared memory.                 *)
(***************************************************************************)
EXTENDS WebCoroutines

VARIABLES
  pc,           \* where the accepting loop of each process is
  accept_mtx,   \* the lock
  slot          \* self_id % cpu_size: processes may share a counter

workerVars == <<pc, accept_mtx, slot>>

WebWorkerInit ==
  /\ pc = [w \in Worker |-> "idle"]
  /\ accept_mtx = 0
  /\ IF design \in Prefork THEN slot \in [Worker -> Slot] /\ slot[1] = 1
     ELSE slot = [w \in Worker |-> 1]

Does(w, p) == pc' = [pc EXCEPT ![w] = p]
-----------------------------------------------------------------------------
\* Mutant of Exchange: it does not compare.
ExchangeBlind == accept_mtx' = 1

\* cmpxchg of the lock: 0 becomes 1.
Exchange == accept_mtx = 0 /\ accept_mtx' = 1
Unlock == accept_mtx' = 0

\* epoll_wait of nty_http_epoll.c reports the listening socket.
Woken(w) ==
  /\ design = "preepoll" /\ w \in up /\ pc[w] = "idle" /\ backlog # <<>>
  /\ Does(w, "woken")
  /\ UNCHANGED <<kernel, webVars, hand, total, accept_mtx, slot>>

\* lock, which nty_http_epoll.c tries after that report and ntyco_httpd.c always.
Lock(w) ==
  /\ w \in up
  /\ \/ design = "preepoll" /\ pc[w] = "woken"
     \/ design = "preco" /\ pc[w] = "idle"
  /\ Exchange
  /\ Does(w, "accept")
  /\ UNCHANGED <<kernel, webVars, hand, total, slot>>

\* The lock is taken: nty_http_epoll.c waits for the next report.
LockBusy(w) ==
  /\ w \in up /\ pc[w] = "woken" /\ accept_mtx = 1
  /\ Does(w, "idle")
  /\ UNCHANGED <<kernel, webVars, hand, total, accept_mtx, slot>>

\* accept, unlock and the count; the coroutine or the epoll entry is new.
LockedAccept(w) ==
  /\ w \in up /\ pc[w] = "accept"
  /\ AcceptAt(w)
  /\ Unlock /\ Does(w, "idle")
  /\ Counts(slot[w], 1)
  /\ IF design = "preepoll" THEN watch' = [watch EXCEPT ![Head(backlog)] = "IN"] /\ UNCHANGED phase
     ELSE GoesTo(Head(backlog), "recv") /\ UNCHANGED watch
  /\ UNCHANGED <<design, limit, peer, wire, sent, got, alive, up, kind, out, hand, slot>>

\* Mutant of LockedAgain: the lock is kept after EAGAIN.
LockedForEver(w) ==
  /\ design = "preepoll" /\ w \in up /\ pc[w] = "accept" /\ backlog = <<>>
  /\ Does(w, "idle")
  /\ UNCHANGED <<kernel, webVars, hand, total, accept_mtx, slot>>

\* Another process was faster and accept finds nothing: EAGAIN.  In ntyco_httpd.c it waits instead,
\* and other coroutines of the process run meanwhile.
LockedAgain(w) ==
  /\ design = "preepoll" /\ w \in up /\ pc[w] = "accept" /\ backlog = <<>>
  /\ Unlock /\ Does(w, "idle")
  /\ UNCHANGED <<kernel, webVars, hand, total, slot>>

\* accept fails: server returns.  This ends the process of nty_http_epoll.c, and
\* only the acceptor of ntyco_httpd.c.
LockedFails(w) ==
  /\ w \in up /\ pc[w] = "accept" /\ backlog # <<>> /\ Room(w) = {}
  /\ Unlock /\ Does(w, "done")
  /\ IF design = "preepoll" THEN Dies(w) ELSE UNCHANGED <<up, alive, owner, peer, wire>>
  /\ UNCHANGED <<design, limit, backlog, sent, got, kind, watch, phase, out, hand, total, slot>>
-----------------------------------------------------------------------------
(* nty_http_epoll.c: the process does one thing after the other.           *)

EpollTurn(c, ev) ==
  design = "preepoll" /\ Serves(c) /\ watch[c] = ev /\ pc[At(c)] = "idle"

\* EPOLLIN and accept_request.
EpollRequest(c) ==
  /\ EpollTurn(c, "IN") /\ Available(c)
  /\ TakeChunk(c)
  /\ watch' = [watch EXCEPT ![c] = "OUT"]
  /\ UNCHANGED <<design, limit, peer, backlog, owner, sent, got, alive, up, kind, phase, out, hand, total, workerVars>>

EpollEnds(c) ==
  /\ EpollTurn(c, "IN") /\ (Ended(c) \/ Failed(c))
  /\ Counts(slot[At(c)], -1)
  /\ Close(c)
  /\ watch' = [watch EXCEPT ![c] = "NONE"]
  /\ UNCHANGED <<design, limit, backlog, sent, got, alive, up, kind, phase, out, hand, workerVars>>

\* EPOLLOUT and serve_file: the count goes down after every reply.
EpollServe(c) ==
  /\ EpollTurn(c, "OUT")
  /\ Sends(c, <<"200", "page">>)
  /\ watch' = [watch EXCEPT ![c] = "IN"]
  /\ IF Broken(c) THEN UNCHANGED total ELSE Counts(slot[At(c)], -1)
  /\ UNCHANGED <<design, limit, backlog, sent, kind, phase, out, hand, workerVars>>
-----------------------------------------------------------------------------
(* ntyco_httpd.c: a coroutine for every connection.                        *)

\* accept_request: numchars has no sign, so that an error counts as a request.
WorkerRequest(c) ==
  /\ design = "preco" /\ Turn(c, "recv")
  /\ \/ Available(c) /\ TakeChunk(c) /\ UNCHANGED peer
     \/ TakeError(c) /\ UNCHANGED wire
  /\ GoesTo(c, "send")
  /\ UNCHANGED <<design, limit, backlog, owner, sent, got, alive, up, kind, watch, out, hand, total, workerVars>>

WorkerServe(c) ==
  /\ design = "preco" /\ Turn(c, "send")
  /\ Sends(c, <<"200", "page">>)
  /\ GoesTo(c, "recv")
  /\ UNCHANGED <<design, limit, backlog, sent, kind, watch, out, hand, total, workerVars>>

WorkerEnds(c) ==
  /\ design = "preco" /\ Turn(c, "recv") /\ Ended(c)
  /\ Counts(slot[At(c)], -1)
  /\ Close(c)
  /\ GoesTo(c, "none")
  /\ UNCHANGED <<design, limit, backlog, sent, got, alive, up, kind, watch, out, hand, workerVars>>

Acceptor(w) ==
  Woken(w) \/ Lock(w) \/ LockBusy(w) \/ LockedAccept(w) \/ LockedAgain(w) \/ LockedFails(w)

WebWorkerConn(c) ==
  \/ EpollRequest(c) \/ EpollEnds(c) \/ EpollServe(c)
  \/ WorkerRequest(c) \/ WorkerServe(c) \/ WorkerEnds(c)
=============================================================================
