----------------------------- MODULE WebSockets -----------------------------
(***************************************************************************)
(* What the web servers of the repository share: requests of several       *)
(* kinds, the reply a connection is about to send, and, for the servers    *)
(* that fork, several processes with a descriptor table each.              *)
(*   "web"       03_Webserver             "ws"        04_Websocket         *)
(*   "http"      nty_http_server.c        "wsco"      nty_websocket_...c   *)
(*   "mulcore"   nty_http_server_mulcore  "counted"   nty_server_mulcore.c *)
(*   "preepoll"  nty_http_epoll.c         "preco"     ntyco_httpd.c        *)
(* The processes of "mulcore" and "counted" bind one port each for itself: *)
(* the first gets it, the others listen on a port that nobody knows, and   *)
(* only the first is modelled.                                             *)
(***************************************************************************)
EXTENDS Sockets

CONSTANTS
  Workers,   \* the processes of a server that forks
  MaxOdd     \* the clients that ask for something unusual

ASSUME WebSocketsAssumption == Client \subseteq Nat /\ Workers \in Nat \ {0} /\ MaxOdd \in Nat

VARIABLES
  up,        \* the living processes
  kind,      \* what a client asks for
  watch,     \* the epoll interest in each client's socket
  phase,     \* what the coroutine of each client does
  out        \* what is still to be sent to each client

webVars == <<up, kind, watch, phase, out>>

Worker == 1 .. Workers
Prefork == {"preepoll", "preco"}
Websocket == {"ws", "wsco"}
OneRequest == {"http", "mulcore"}
WebDesigns == Prefork \cup Websocket \cup OneRequest \cup {"web", "counted"}

\* A request of nty_http_server.c: for a file, a directory without an index, a
\* path that does not exist, or with another method than GET and POST.  A
\* client of a Websocket server asks for the upgrade and sends frames; the
\* digest of its key may have a zero byte ("zero"), its frames may be of 126
\* bytes or more ("long"), or it never asks ("nokey").
HttpKind == {"file", "dir", "missing", "other"}
WsKind == {"upgrade", "zero", "long", "nokey"}
Kinds == CASE design \in OneRequest -> HttpKind
           [] design \in Websocket -> WsKind
           [] OTHER -> {"file"}
Odd(k) == k \notin {"file", "upgrade"}

WebInit ==
  /\ up = IF design \in Prefork THEN Worker ELSE {1}
  /\ kind = [c \in Client |-> "file"]
  /\ watch = [c \in Client |-> "NONE"]
  /\ phase = [c \in Client |-> "none"]
  /\ out = [c \in Client |-> <<>>]

\* A client that connects knows what it will ask for.  Clients are numbered in
\* the order in which they connect.
WebConnect(c) ==
  /\ Connect(c) /\ \A d \in Client : d < c => peer[d] # "away"
  /\ \E k \in Kinds : kind' = [kind EXCEPT ![c] = k]
  /\ Cardinality({d \in Client : Odd(kind'[d])}) <= MaxOdd
  /\ UNCHANGED <<up, watch, phase, out>>
-----------------------------------------------------------------------------
(* Processes and their descriptors: the tables of several processes are    *)
(* parts of Fd.                                                            *)

Home(f) == IF design \in Prefork THEN 1 + (f % Workers) ELSE 1
Room(w) == {f \in FreeFd : Home(f) = w}
At(c) == Home(FdOf(c))
Serves(c) == Accepted(c) /\ At(c) \in up

AcceptAt(w) ==
  /\ backlog # <<>> /\ Room(w) # {}
  /\ owner' = [owner EXCEPT ![Min(Room(w))] = Head(backlog)]
  /\ backlog' = Tail(backlog)

\* The end of a process closes what it has open.
Dies(w) ==
  LET its == {c \in Client : Accepted(c) /\ At(c) = w} IN
    /\ up' = up \ {w}
    /\ alive' = (up' # {})
    /\ owner' = [f \in Fd |-> IF Home(f) = w THEN NULL ELSE owner[f]]
    /\ peer' = [c \in Client |-> IF c \in its THEN "gone" ELSE peer[c]]
    /\ wire' = [c \in Client |-> IF c \in its THEN <<>> ELSE wire[c]]

\* send or write: it goes out, it fails, or it raises SIGPIPE.
Sends(c, reply) ==
  \/ Deliver(c, reply) /\ UNCHANGED <<up, alive, owner, wire>>
  \/ SendFails(c) /\ UNCHANGED <<got, up, alive, owner, wire>>
  \/ Broken(c) /\ Dies(At(c)) /\ UNCHANGED got

\* recv returns -1 once after a reset.
TakeError(c) == Failed(c) /\ peer' = [peer EXCEPT ![c] = "dead"]
-----------------------------------------------------------------------------
(* Websocket messages.                                                     *)

\* handshake: the reply to a request with a key.  The digest is encoded up to
\* its first zero byte.
HasKey(c, m) == kind[c] # "nokey" /\ m[2] = 1
Switch(c) == <<IF kind[c] = "zero" THEN "101x" ELSE "101", 0>>

\* decode_packet compares a bit field of one bit with 126 and 127, so that only a
\* short payload is found; from a longer one, and from what is no frame, it
\* takes noise.
Decoded(c, m) == kind[c] \in {"upgrade", "zero"} /\ m[2] > 1

\* encode_packet of what was decoded.
Packet(c, m) == IF Decoded(c, m) THEN <<"frame", m[2]>> ELSE <<"noise", 0>>
=============================================================================
