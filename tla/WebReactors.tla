---------------------------- MODULE WebReactors ----------------------------
(***************************************************************************)
(* 03_Webserver and 04_Websocket: a reactor whose connections go through   *)
(* the values of conn_list[fd].status.  No handler touches the descriptor  *)
(* of another connection, so that the events of a batch are taken one by   *)
(* one here.                                                               *)
(***************************************************************************)
EXTENDS WebSockets

VARIABLES
  status,    \* conn_list[fd].status
  used       \* history: the descriptors a connection had before

statusVars == <<status, used>>

WebReactorInit == status = [f \in Fd |-> 0] /\ used = {}

WatchFor(c, ev) == watch' = [watch EXCEPT ![c] = ev]

\* accept_cb: the buffers are cleared, the status is not.
SiteAccept ==
  /\ design \in {"web", "ws"}
  /\ AcceptAt(1)
  /\ WatchFor(Head(backlog), "IN")
  /\ out' = [out EXCEPT ![Head(backlog)] = <<>>]
  /\ UNCHANGED <<design, limit, peer, wire, sent, got, alive, up, kind, phase, status, used>>

Reports(c, ev, s) == Serves(c) /\ watch[c] = ev /\ status[FdOf(c)] = s

\* 03_Webserver, recv_cb and http_request.
WebRecv(c) ==
  /\ design = "web" /\ Serves(c) /\ watch[c] = "IN" /\ Available(c)
  /\ TakeChunk(c)
  /\ status' = [status EXCEPT ![FdOf(c)] = 0]
  /\ WatchFor(c, "OUT")
  /\ UNCHANGED <<design, limit, peer, backlog, owner, sent, got, alive, up, kind, phase, out, used>>

\* recv_cb at the end of a connection clears its slot.
WebRecvEnds(c) ==
  /\ design = "web" /\ Serves(c) /\ watch[c] = "IN" /\ (Ended(c) \/ Failed(c))
  /\ Close(c)
  /\ status' = [status EXCEPT ![FdOf(c)] = 0]
  /\ WatchFor(c, "NONE")
  /\ used' = used \cup {FdOf(c)}
  /\ UNCHANGED <<design, limit, backlog, sent, got, alive, up, kind, phase, out>>

\* http_response opens the file every time: without a descriptor the length in
\* the header is whatever was in stat_buf.
WebHeader(c) ==
  /\ design = "web" /\ Reports(c, "OUT", 0)
  /\ Sends(c, <<IF FreeFd = {} THEN "unsized" ELSE "header">>)
  /\ status' = [status EXCEPT ![FdOf(c)] = 1]
  /\ UNCHANGED <<design, limit, backlog, sent, kind, watch, phase, out, used>>

\* Mutant of WebBody: the status does not move on.
WebBodyAgain(c) ==
  /\ design = "web" /\ Reports(c, "OUT", 1)
  /\ Sends(c, <<"body">>)
  /\ UNCHANGED <<design, limit, backlog, sent, kind, watch, phase, out, status, used>>

\* sendfile; it fails without the file.
WebBody(c) ==
  /\ design = "web" /\ Reports(c, "OUT", 1)
  /\ IF FreeFd = {} THEN UNCHANGED <<owner, peer, wire, got, alive, up>>
     ELSE Sends(c, <<"body">>)
  /\ status' = [status EXCEPT ![FdOf(c)] = 2]
  /\ UNCHANGED <<design, limit, backlog, sent, kind, watch, phase, out, used>>

\* The response is complete.
WebEnd(c) ==
  /\ design = "web" /\ Reports(c, "OUT", 2)
  /\ status' = [status EXCEPT ![FdOf(c)] = 0]
  /\ WatchFor(c, "IN")
  /\ UNCHANGED <<kernel, up, kind, phase, out, used>>

\* 04_Websocket, recv_cb and ws_request: the handshake, found or not, comes
\* first, then one frame for every recv.
WsRecv(c) ==
  LET m == Head(Chunk(c)) IN
    /\ design = "ws" /\ Serves(c) /\ watch[c] = "IN" /\ Available(c)
    /\ TakeChunk(c)
    /\ out' = CASE status[FdOf(c)] = 1 -> [out EXCEPT ![c] = <<Packet(c, m)>>]
                [] status[FdOf(c)] # 1 /\ HasKey(c, m) -> [out EXCEPT ![c] = <<Switch(c)>>]
                [] OTHER -> out
    /\ status' = [status EXCEPT ![FdOf(c)] = 1]
    /\ WatchFor(c, "OUT")
    /\ UNCHANGED <<design, limit, peer, backlog, owner, sent, got, alive, up, kind, phase, used>>

\* The slot keeps its status for the next connection.
WsRecvEnds(c) ==
  /\ design = "ws" /\ Serves(c) /\ watch[c] = "IN" /\ (Ended(c) \/ Failed(c))
  /\ Close(c)
  /\ WatchFor(c, "NONE")
  /\ used' = used \cup {FdOf(c)}
  /\ UNCHANGED <<design, limit, backlog, sent, got, alive, up, kind, phase, out, status>>

\* send_cb: nothing is sent while wlength is 0.
WsSend(c) ==
  /\ design = "ws" /\ Serves(c) /\ watch[c] = "OUT"
  /\ IF out[c] = <<>> THEN UNCHANGED <<owner, peer, wire, got, alive, up>>
     ELSE Sends(c, out[c])
  /\ WatchFor(c, "IN")
  /\ UNCHANGED <<design, limit, backlog, sent, kind, phase, out, status, used>>

WebReactorConn(c) ==
  \/ WebRecv(c) \/ WebRecvEnds(c) \/ WebHeader(c) \/ WebBody(c) \/ WebEnd(c)
  \/ WsRecv(c) \/ WsRecvEnds(c) \/ WsSend(c)
=============================================================================
