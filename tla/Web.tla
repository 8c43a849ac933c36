-------------------------------- MODULE Web --------------------------------
(***************************************************************************)
(* The web servers of the repository, one of which runs in each behaviour, *)
(* and what their clients may rely on.                                     *)
(***************************************************************************)
EXTENDS WebReactors, WebWorkers

vars == <<kernel, webVars, statusVars, coroutineVars, workerVars>>

\* With a failed accept nty_websocket_server.c and nty_server_mulcore.c go on
\* with the descriptor -1: they run with enough descriptors.
Init ==
  /\ design \in WebDesigns
  /\ SocketsInit /\ WebInit /\ WebReactorInit /\ WebCoroutineInit /\ WebWorkerInit
  /\ design \in {"wsco", "counted"} => limit = MaxFd

\* A process that has ended accepts nobody.
Accepts ==
  /\ alive
  /\ \/ SiteAccept /\ UNCHANGED <<coroutineVars, workerVars>>
     \/ WebCoroutineAccept /\ UNCHANGED <<statusVars, workerVars>>

Conn(c) ==
  \/ WebReactorConn(c) /\ UNCHANGED <<coroutineVars, workerVars>>
  \/ WebCoroutineConn(c) /\ UNCHANGED <<statusVars, workerVars>>
  \/ WebWorkerConn(c) /\ UNCHANGED statusVars

\* The clients, who may do anything while a process lives.
Peers ==
  \E c \in Client :
    \/ WebConnect(c) /\ UNCHANGED <<statusVars, coroutineVars, workerVars>>
    \/ (SendMessage(c) \/ Hangup(c)) /\ UNCHANGED <<webVars, statusVars, coroutineVars, workerVars>>

Next ==
  \/ Peers
  \/ Accepts
  \/ \E c \in Client : Conn(c)
  \/ \E w \in Worker : Acceptor(w) /\ UNCHANGED statusVars

Spec == Init /\ [][Next]_vars

\* Every process and every coroutine runs on; no client has to do anything.
FairSpec ==
  /\ Spec /\ WF_vars(Accepts)
  /\ \A c \in Client : WF_vars(Conn(c))
  /\ \A w \in Worker : WF_vars(Acceptor(w) /\ UNCHANGED statusVars)
-----------------------------------------------------------------------------
PeerState == {"away", "open", "fin", "reset", "pipe", "dead", "gone"}
TypeOK ==
  /\ design \in WebDesigns /\ limit \in Fd /\ alive \in BOOLEAN /\ up \subseteq Worker
  /\ peer \in [Client -> PeerState]
  /\ backlog \in Seq(Client)
  /\ owner \in [Fd -> Client \cup {NULL}]
  /\ wire \in [Client -> Seq(Client \X Nat)]
  /\ sent \in [Client -> Nat]
  /\ kind \in [Client -> HttpKind \cup WsKind]
  /\ watch \in [Client -> {"NONE", "IN", "OUT"}]
  /\ phase \in [Client -> {"none", "recv", "lines", "send", "left"}]
  /\ status \in [Fd -> 0 .. 2] /\ used \subseteq Fd
  /\ hand \in Client \cup {NULL} /\ total \in [Slot -> Int]
  /\ pc \in [Worker -> {"idle", "woken", "accept", "done"}]
  /\ accept_mtx \in {0, 1} /\ slot \in [Worker -> Slot]

\* A client is in one place at most: it has not come, or it waits in the
\* backlog, or one descriptor of a living process is its own.
OnePlace ==
  /\ \A f, g \in Fd : owner[f] # NULL /\ owner[f] = owner[g] => f = g
  /\ \A f \in Fd : owner[f] # NULL =>
       Home(f) \in up /\ peer[owner[f]] # "away" /\ \A i \in DOMAIN backlog : backlog[i] # owner[f]
  /\ \A i, j \in DOMAIN backlog : backlog[i] = backlog[j] => i = j
  /\ \A i \in DOMAIN backlog : peer[backlog[i]] # "away"

\* The processes that there are: only the servers that fork have more than one.
\* Nobody but nty_websocket_server.c blocks in a handshake.
Processes ==
  /\ alive <=> up # {}
  /\ design \notin Prefork => up \subseteq {1} /\ pc = [w \in Worker |-> "idle"]
  /\ slot[1] = 1
  /\ hand # NULL => design = "wsco"

\* At most one process is between lock and unlock, and the lock is taken just
\* while one is.  In nty_http_epoll.c that process lives; in ntyco_httpd.c it
\* may have died of another coroutine's SIGPIPE while it waited in accept.
Inside == {w \in Worker : pc[w] = "accept"}
AcceptLockSound ==
  /\ Cardinality(Inside) = accept_mtx
  /\ design = "preepoll" => Inside \subseteq up

\* The shared counters: exact in nty_server_mulcore.c, and in ntyco_httpd.c as
\* long as the processes of a counter live (the end of a process leaves its
\* connections counted); nty_http_epoll.c counts a connection off with every
\* reply and again at its end, so that its counter is never above the truth.
Served(ws) == {c \in Client : Accepted(c) /\ At(c) \in ws}
Open(ws) == Cardinality(Served(ws))
CountsSound ==
  /\ design = "counted" /\ alive => total[1] = Open({1})
  /\ design \in Prefork =>
       \A s \in Slot :
         LET ws == {w \in Worker : slot[w] = s} IN
           /\ design = "preco" => total[s] >= Open(ws)
           /\ design = "preco" /\ ws \subseteq up => total[s] = Open(ws)
           /\ design = "preepoll" /\ ws \subseteq up => total[s] <= Open(ws)

\* 04_Websocket treats a connection on a descriptor that was used before as if
\* its handshake were done.
Stale(c) == design = "ws" /\ Accepted(c) /\ FdOf(c) \in used
Alternates(s, a, b) == \A i \in DOMAIN s : s[i] = IF i % 2 = 1 THEN a ELSE b

\* What a client has got is a beginning of what it is entitled to, in order,
\* nothing twice and nothing of a neighbour's: header and body of one page for
\* each recv at most (03_Webserver, given a descriptor for the file); the one
\* reply to its request (nty_http_server.c); the switch of protocols before its
\* frames, and these in order (the Websocket servers, on a fresh descriptor).
ResponsesSound ==
  \A c \in Client : peer[c] = "open" =>
    CASE design = "web" ->
           /\ IsFiniteSet(Client) /\ limit > Cardinality(Client) =>
                Alternates(got[c], "header", "body")
           /\ \A i \in DOMAIN got[c] : got[c][i] = "body" => i > 1 /\ got[c][i - 1] # "body"
           /\ Len(got[c]) <= 2 * sent[c]
      [] design \in OneRequest -> IsPrefix(got[c], Reply(kind[c]))
      [] design \in Websocket ->
           ~Stale(c) =>
             /\ got[c] # <<>> /\ kind[c] # "nokey" => got[c][1] = Switch(c)
             /\ \A i, j \in DOMAIN got[c] :
                  i < j /\ got[c][j][1] = "frame" => got[c][i][2] < got[c][j][2]
             /\ kind[c] \in {"upgrade", "zero"} =>
                  \A i \in DOMAIN got[c] : got[c][i][1] # "noise"
      [] OTHER -> Alternates(got[c], "200", "page") /\ Len(got[c]) <= 2 * sent[c]

\* A client that waits for a reply which the server can give.
Satisfied(c) ==
  IF design \in OneRequest THEN Len(got[c]) = 2
  ELSE wire[c] = <<>> /\ watch[c] # "OUT" /\ phase[c] # "send"

\* The waits that have no end: nty_http_server.c reads on before it says that a
\* path does not exist, nty_websocket_server.c is blocked by a silent client,
\* and the accept lock of ntyco_httpd.c is left behind by a process that died.
ReadsOn(c) == phase[c] = "lines" /\ wire[c] = <<>>
Blocked == hand # NULL /\ wire[hand] = <<>> /\ peer[hand] = "open"
Orphaned == \E w \in Worker \ up : pc[w] = "accept"

Owed(c) ==
  /\ alive /\ peer[c] = "open" /\ sent[c] > 0 /\ ~Satisfied(c)
  /\ ~ReadsOn(c) /\ ~Blocked
  /\ Accepted(c) \/ /\ c \in Range(backlog) /\ ~Orphaned
                    /\ \E w \in up : Room(w) # {} /\ pc[w] # "done"

\* Every other request is answered, whatever the other clients do.
Replied == \A c \in Client : Owed(c) ~> ~Owed(c)
=============================================================================
