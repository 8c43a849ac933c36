--------------------------- MODULE WebCoroutines ---------------------------
(***************************************************************************)
(* The web servers with a coroutine of NtyCo for every connection:         *)
(* nty_http_server.c and its mulcore variant, which answer one request and *)
(* close, nty_server_mulcore.c, which counts its connections in shared     *)
(* memory, and nty_websocket_server.c, whose acceptor does the handshake   *)
(* in a blocking read.                                                     *)
(***************************************************************************)
EXTENDS WebSockets

VARIABLES
  hand,      \* "wsco": the client whose handshake the process is blocked in
  total      \* the shared counters of connections

coroutineVars == <<hand, total>>

Slot == 1 .. Workers

WebCoroutineInit == hand = NULL /\ total = [s \in Slot |-> 0]

GoesTo(c, p) == phase' = [phase EXCEPT ![c] = p]
Counts(s, d) == total' = [total EXCEPT ![s] = @ + d]

\* No coroutine runs while the process is blocked.
Turn(c, p) == Serves(c) /\ phase[c] = p /\ hand = NULL

NewCoroutine ==
  /\ hand = NULL
  /\ AcceptAt(1)
  /\ GoesTo(Head(backlog), "recv")
  /\ UNCHANGED <<design, limit, peer, wire, sent, got, alive, up, kind, watch, out>>

\* server of nty_http_server.c and of its mulcore variant.
SiteCoAccept == design \in OneRequest /\ NewCoroutine /\ UNCHANGED <<hand, total>>

\* server of nty_server_mulcore.c, with add_shmvalue.
CountedAccept == design = "counted" /\ NewCoroutine /\ Counts(1, 1) /\ UNCHANGED hand

\* server of nty_websocket_server.c: the descriptor is made blocking and the
\* handshake comes before the coroutine.
WsCoAccept == design = "wsco" /\ NewCoroutine /\ hand' = Head(backlog) /\ UNCHANGED total

\* error_die("accept")
SiteCoAcceptDies ==
  /\ design \in OneRequest /\ backlog # <<>> /\ FreeFd = {}
  /\ Dies(1)
  /\ UNCHANGED <<design, limit, backlog, sent, got, kind, watch, phase, out, hand, total>>
-----------------------------------------------------------------------------
(* One request.                                                            *)

\* What accept_request answers.  The mulcore variant does not open the file.
Reply(k) ==
  CASE k = "other" -> <<"501", "text">>
    [] k = "missing" -> <<"404", "text">>
    [] k = "dir" /\ design = "http" -> <<"404", "text">>
    [] OTHER -> <<"200", "page">>

\* accept_request after its recv: for a path that does not exist it first reads
\* further lines up to an empty one.
Decides(c, k) ==
  /\ out' = [out EXCEPT ![c] = Reply(k)]
  /\ GoesTo(c, IF k = "missing" THEN "lines" ELSE "send")

HttpRequest(c) ==
  /\ design \in OneRequest /\ Turn(c, "recv") /\ Available(c)
  /\ TakeChunk(c)
  /\ Decides(c, kind[c])
  /\ UNCHANGED <<design, limit, peer, backlog, owner, sent, got, alive, up, kind, watch, hand, total>>

\* recv returns 0 or -1, and the request is whatever was in the buffer.
HttpUnset(c) ==
  /\ design \in OneRequest /\ Turn(c, "recv")
  /\ (Ended(c) /\ UNCHANGED peer) \/ TakeError(c)
  /\ \E k \in HttpKind : Decides(c, k) /\ kind' = [kind EXCEPT ![c] = k]
  /\ UNCHANGED <<design, limit, backlog, owner, wire, sent, got, alive, up, watch, hand, total>>

\* get_line up to the end of the next request, or of the connection.
HttpLines(c) ==
  /\ Turn(c, "lines")
  /\ \/ Available(c) /\ TakeChunk(c) /\ UNCHANGED peer
     \/ Ended(c) /\ UNCHANGED <<peer, wire>>
     \/ TakeError(c) /\ UNCHANGED wire
  /\ GoesTo(c, "send")
  /\ UNCHANGED <<design, limit, backlog, owner, sent, got, alive, up, kind, watch, out, hand, total>>

\* A reply is sent in several calls; the mulcore variant sends an error in one.
HttpSend(c) ==
  LET n == IF design = "mulcore" /\ out[c][1] # "200" THEN Len(out[c]) ELSE 1 IN
    /\ design \in OneRequest /\ Turn(c, "send") /\ out[c] # <<>>
    /\ Sends(c, SubSeq(out[c], 1, n))
    /\ out' = [out EXCEPT ![c] = SubSeq(@, n + 1, Len(@))]
    /\ UNCHANGED <<design, limit, backlog, sent, kind, watch, phase, hand, total>>

\* Then the connection is closed, but after "unimplemented" it is left open, and
\* serve_file passes the file it could not open to fclose.
HttpDone(c) ==
  /\ design \in OneRequest /\ Turn(c, "send") /\ out[c] = <<>>
  /\ \/ kind[c] = "other" /\ GoesTo(c, "left") /\ UNCHANGED <<owner, peer, wire, alive, up>>
     \/ kind[c] = "dir" /\ design = "http" /\ Dies(1) /\ UNCHANGED phase
     \/ /\ kind[c] # "other" /\ ~(kind[c] = "dir" /\ design = "http")
        /\ Close(c) /\ GoesTo(c, "none") /\ UNCHANGED <<alive, up>>
  /\ UNCHANGED <<design, limit, backlog, sent, got, kind, watch, out, hand, total>>
-----------------------------------------------------------------------------
(* nty_server_mulcore.c and nty_websocket_server.c.                        *)

\* server_reader: what one recv returned is answered, by a page or by the
\* first frame in it.
ReaderRecv(c) ==
  /\ design \in {"counted", "wsco"} /\ Turn(c, "recv") /\ Available(c)
  /\ TakeChunk(c)
  /\ out' = [out EXCEPT ![c] = IF design = "wsco" THEN <<Packet(c, Head(Chunk(c)))>>
                               ELSE <<"200", "page">>]
  /\ GoesTo(c, "send")
  /\ UNCHANGED <<design, limit, peer, backlog, owner, sent, got, alive, up, kind, watch, hand, total>>

ReaderSend(c) ==
  /\ design \in {"counted", "wsco"} /\ Turn(c, "send")
  /\ design = "counted" => peer[c] # "reset"
  /\ Sends(c, out[c])
  /\ GoesTo(c, "recv")
  /\ UNCHANGED <<design, limit, backlog, sent, kind, watch, out, hand, total>>

\* Mutant of ReaderEnds: sub_shmvalue is forgotten after a failed send.
ReaderEndsUncounted(c) ==
  /\ design \in {"counted", "wsco"}
  /\ \/ Turn(c, "recv") /\ Ended(c)
     \/ Turn(c, "send") /\ design = "counted" /\ peer[c] = "reset"
  /\ Close(c)
  /\ GoesTo(c, "none")
  /\ IF design = "counted" /\ phase[c] = "recv" THEN Counts(1, -1) ELSE UNCHANGED total
  /\ UNCHANGED <<design, limit, backlog, sent, got, alive, up, kind, watch, out, hand>>

\* recv returns 0, or a send of nty_server_mulcore.c fails.
ReaderEnds(c) ==
  /\ design \in {"counted", "wsco"}
  /\ \/ Turn(c, "recv") /\ Ended(c)
     \/ Turn(c, "send") /\ design = "counted" /\ peer[c] = "reset"
  /\ Close(c)
  /\ GoesTo(c, "none")
  /\ IF design = "counted" THEN Counts(1, -1) ELSE UNCHANGED total
  /\ UNCHANGED <<design, limit, backlog, sent, got, alive, up, kind, watch, out, hand>>

\* recv returns -1 and is called again.
ReaderError(c) ==
  /\ design \in {"counted", "wsco"} /\ Turn(c, "recv") /\ TakeError(c)
  /\ UNCHANGED <<design, limit, backlog, owner, wire, sent, got, alive, up, kind, watch, phase, out, hand, total>>

\* handshake: the blocking read, and the reply to a request with a key.
Handshake(c) ==
  /\ hand = c /\ Serves(c) /\ Available(c)
  /\ TakeChunk(c)
  /\ IF HasKey(c, Head(Chunk(c)))
     THEN Deliver(c, <<Switch(c)>>) \/ (SendFails(c) /\ UNCHANGED got)
     ELSE UNCHANGED <<peer, got>>
  /\ hand' = NULL
  /\ UNCHANGED <<design, limit, backlog, owner, sent, alive, up, kind, watch, phase, out, total>>

\* The read fails, and the request is whatever was in the buffer: there may be
\* a reply to it.
HandshakeUnset(c) ==
  /\ hand = c /\ Serves(c)
  /\ \/ /\ Ended(c) /\ peer' \in {peer, [peer EXCEPT ![c] = "pipe"]}
        /\ UNCHANGED <<owner, wire, alive, up>>
     \/ TakeError(c) /\ UNCHANGED <<owner, wire, alive, up>>
     \/ Failed(c) /\ Dies(1)
  /\ hand' = NULL
  /\ UNCHANGED <<design, limit, backlog, sent, got, kind, watch, phase, out, total>>

WebCoroutineAccept == SiteCoAccept \/ CountedAccept \/ WsCoAccept \/ SiteCoAcceptDies

WebCoroutineConn(c) ==
  \/ HttpRequest(c) \/ HttpUnset(c) \/ HttpLines(c) \/ HttpSend(c) \/ HttpDone(c)
  \/ ReaderRecv(c) \/ ReaderSend(c) \/ ReaderEnds(c) \/ ReaderError(c)
  \/ Handshake(c) \/ HandshakeUnset(c)
=============================================================================
