------------------------------ MODULE KcpChat ------------------------------
(***************************************************************************)
(* The chat room over KCP (apps/chat): a server with one session for each  *)
(* client it hears of, clients with a keep-alive, and a network that       *)
(* loses, duplicates and reorders datagrams.                               *)
(*                                                                         *)
(* Server: the update thread (KcpServer::Update) and the thread that reads *)
(* the socket (Run, HandleSession) exclude each other by mtx_.  Client:    *)
(* the Run loop and the thread that reads lines share the session's lock.  *)
(*                                                                         *)
(* The echo demonstration (apps/demo_c) is the other application: its      *)
(* server has one control block from the start, takes at most one message  *)
(* for each datagram, echoes it and flushes at once.                       *)
(***************************************************************************)
EXTENDS Ikcp, TLC

CONSTANTS
  Client,
  Line,         \* the lines users type
  Frags,        \* fragments of a line
  Budget        \* the bounds: each behaviour draws on one of these records

ASSUME FragsAssumption == Frags \in [Line -> Nat \ {0}]

\* app: the application; base: segments exchanged before the behaviour starts; lines: what may be
\* typed; alive, timeout, fault, expiry: how many keep-alives, session timeouts,
\* lost or duplicated datagrams and expired timers there may be.
ASSUME BudgetAssumption ==
  Budget \subseteq [app : {"chat", "demo"}, base : 0 .. SnMod - 1, lines : SUBSET Line,
                    alive : Nat, timeout : Nat, fault : Nat, expiry : Nat]

VARIABLES
  opt,       \* resend and nc of the KcpOpt in use
  kcp,       \* the clients' control blocks
  session,   \* the server's control blocks, as far as sessions_ has them
  up, down,  \* the datagrams in flight, for each client
  sent, got, \* the messages accepted and delivered, for each client and way
  broken,    \* the clients whose session the server dropped
  left       \* what is left of the budget

vars == <<opt, kcp, session, up, down, sent, got, broken, left>>

Alive == [kind |-> "alive"]
Say(c, line) == [kind |-> "say", from |-> c, line |-> line]
Joins(c) == [kind |-> "join", from |-> c]
Leaves(c) == [kind |-> "left", from |-> c]

FragsOf(msg) == IF msg.kind = "say" THEN Frags[msg.line] ELSE 1

Accepted(msg) == IF FragsOf(msg) >= IKCP_WND_RCV THEN <<>> ELSE <<msg>>

Init ==
  /\ opt \in {[resend |-> 0, nc |-> FALSE], [resend |-> 1, nc |-> TRUE]}
  /\ left \in Budget
  /\ kcp = [c \in Client |-> ikcp_create(left.base)]
  /\ session = IF left.app = "chat" /\ left.base = 0 THEN <<>> ELSE [c \in Client |-> ikcp_create(left.base)]
  /\ up = [c \in Client |-> {}] /\ down = [c \in Client |-> {}]
  /\ sent = [c \in Client |-> [w \in {"up", "down"} |-> <<>>]]
  /\ got = [c \in Client |-> [w \in {"up", "down"} |-> <<>>]]
  /\ broken = {}

-----------------------------------------------------------------------------
\* All messages the receive queue holds, in order, and the block without them.
Drain(k) ==
  LET step(r) ==
        IF ikcp_peeksize(r.kcp) = 0 THEN r
        ELSE [kcp |-> ikcp_recv(r.kcp), msgs |-> Append(r.msgs, Head(r.kcp.rcv_queue).msg)]
      run[i \in 0 .. 2 * IKCP_WND_RCV] ==
        IF i = 0 THEN [kcp |-> k, msgs |-> <<>>] ELSE step(run[i - 1])
  IN  run[2 * IKCP_WND_RCV]

\* The first message, if there is one and the datagram was long enough for the
\* buffer size the demonstration passes to ikcp_recv.
TakeOne(k, fits) ==
  IF ~fits \/ ikcp_peeksize(k) = 0 THEN [kcp |-> k, msgs |-> <<>>]
  ELSE [kcp |-> ikcp_recv(k), msgs |-> <<Head(k.rcv_queue).msg>>]

\* Every expiry pattern of the timers of a block.
Timers(k) == SUBSET {s.sn : s \in ToSet(k.snd_buf)}

Flush(k, due, probe) == ikcp_flush(k, due, probe, opt.resend, opt.nc)

\* The budget less the expired timers.
Expires(due, probe) == [left EXCEPT !.expiry = @ - Cardinality(due) - (IF probe THEN 1 ELSE 0)]

-----------------------------------------------------------------------------
(* The client. *)

\* A typed line goes into the send queue; the result of Send is ignored.
ChatClientSend(c, line) ==
  LET msg == Say(c, line)
  IN  /\ line \in left.lines
      /\ kcp' = [kcp EXCEPT ![c] = ikcp_send(@, msg, FragsOf(msg))]
      /\ sent' = [sent EXCEPT ![c]["up"] = @ \o Accepted(msg)]
      /\ left' = [left EXCEPT !.lines = @ \ {line}]
      /\ UNCHANGED <<opt, session, up, down, got, broken>>

\* KcpSession::Update of a client: ikcp_update, then perhaps a keep-alive.
ClientUpdate(c, due, probe, alive) ==
  LET f == Flush(kcp[c], due, probe)
  IN  /\ left' = [Expires(due, probe) EXCEPT !.alive = IF alive THEN @ - 1 ELSE @]
      /\ left'.expiry >= 0 /\ left'.alive >= 0
      /\ kcp' = [kcp EXCEPT ![c] = IF alive THEN ikcp_send(f.kcp, Alive, 1) ELSE f.kcp]
      /\ up' = [up EXCEPT ![c] = @ \union f.out]
      /\ sent' = IF alive THEN [sent EXCEPT ![c]["up"] = Append(@, Alive)] ELSE sent
      /\ UNCHANGED <<opt, session, down, got, broken>>

\* KcpClient::Run with a datagram: input, then all messages that are complete;
\* the demonstration takes one.
ClientInput(c, d) ==
  LET k == ikcp_input(kcp[c], d, opt.resend)
      r == IF left.app = "chat" THEN Drain(k) ELSE TakeOne(k, TRUE)
  IN  /\ kcp' = [kcp EXCEPT ![c] = r.kcp]
      /\ got' = [got EXCEPT ![c]["down"] = @ \o r.msgs]

-----------------------------------------------------------------------------
(* The server. *)

\* The block after all of msgs were sent.
SendAll(k, msgs) ==
  LET after[i \in 0 .. Len(msgs)] ==
        IF i = 0 THEN k ELSE ikcp_send(after[i - 1], msgs[i], FragsOf(msgs[i]))
  IN  after[Len(msgs)]

\* ChatServer::Notify sends to every user of the room, in one step under its
\* lock: msgs to the sessions of s.
Notify(s, msgs) == [c \in DOMAIN s |-> SendAll(s[c], msgs)]

Notified(users, msgs) ==
  [c \in Client |-> [sent[c] EXCEPT !["down"] =
     IF c \in users THEN @ \o FoldLeft(LAMBDA r, m : r \o Accepted(m), <<>>, msgs) ELSE @]]

\* GetSession: an unknown conversation becomes a session and joins the room.
GetSession(c) ==
  [u \in DOMAIN session \union {c} |-> IF u \in DOMAIN session THEN session[u] ELSE ikcp_create(0)]

\* Run and HandleSession: a datagram of client c; keep-alives are swallowed,
\* lines go to everybody.
ServerInput(c, d) ==
  /\ left.app = "chat"
  /\ LET joined == IF c \in DOMAIN session THEN <<>> ELSE <<Joins(c)>>
         room == Notify(GetSession(c), joined)
         r == Drain(ikcp_input(room[c], d, opt.resend))
         lines == Sift(r.msgs, ToSet(r.msgs) \ {Alive})
     IN  /\ session' = Notify([room EXCEPT ![c] = r.kcp], lines)
         /\ got' = [got EXCEPT ![c]["up"] = @ \o r.msgs]
         /\ sent' = Notified(DOMAIN room, joined \o lines)
  /\ UNCHANGED down

\* The loop of the demonstration server with a datagram: the buffer it offers
\* is as long as the datagram.
DemoInput(c, d) ==
  LET r == TakeOne(ikcp_input(session[c], d, opt.resend), d.push # <<>>)
      echo == SendAll(r.kcp, r.msgs)
      f == IF r.msgs = <<>> THEN [kcp |-> echo, out |-> {}] ELSE Flush(echo, {}, FALSE)
  IN  /\ left.app = "demo"
      /\ session' = [session EXCEPT ![c] = f.kcp]
      /\ got' = [got EXCEPT ![c]["up"] = @ \o r.msgs]
      /\ sent' = [sent EXCEPT ![c]["down"] = @ \o r.msgs]
      /\ down' = [down EXCEPT ![c] = @ \union f.out]

\* KcpServer::Update, one session: flush, and if it has timed out the room is
\* told and the session destroyed.
ServerUpdate(c, due, probe) ==
  LET f == Flush(session[c], due, probe)
  IN  /\ left' = Expires(due, probe) /\ left'.expiry >= 0
      /\ session' = [session EXCEPT ![c] = f.kcp]
      /\ down' = [down EXCEPT ![c] = @ \union f.out]
      /\ UNCHANGED <<opt, kcp, up, sent, got, broken>>

SessionTimeout(c, due, probe) ==
  LET f == Flush(session[c], due, probe)
      rest == [u \in DOMAIN session \ {c} |-> session[u]]
  IN  /\ left.app = "chat"
      /\ left' = [Expires(due, probe) EXCEPT !.timeout = @ - 1]
      /\ left'.expiry >= 0 /\ left'.timeout >= 0
      /\ down' = [down EXCEPT ![c] = @ \union f.out]
      /\ session' = Notify(rest, <<Leaves(c)>>)
      /\ sent' = Notified(DOMAIN rest, <<Leaves(c)>>)
      /\ broken' = broken \union {c}
      /\ UNCHANGED <<opt, kcp, up, got>>

-----------------------------------------------------------------------------
(* The network: a datagram arrives, arrives and stays (a duplicate will      *)
(* follow), or is lost.  Any datagram in flight may be the next.             *)

Takes(net, c, d, fate) ==
  IF fate = "duplicated" THEN net ELSE [net EXCEPT ![c] = @ \ {d}]

Arrive(c, d, way, fate) ==
  /\ left' = IF fate = "arrives" THEN left ELSE [left EXCEPT !.fault = @ - 1]
  /\ left'.fault >= 0
  /\ \/ way = "up" /\ d \in up[c] /\ (ServerInput(c, d) \/ DemoInput(c, d))
        /\ up' = Takes(up, c, d, fate) /\ UNCHANGED kcp
     \/ way = "down" /\ d \in down[c] /\ ClientInput(c, d)
        /\ down' = Takes(down, c, d, fate) /\ UNCHANGED <<session, up, sent>>
  /\ UNCHANGED <<opt, broken>>

Lose(c, d) ==
  /\ left.fault > 0 /\ d \in up[c] \union down[c]
  /\ up' = Takes(up, c, d, "lost") /\ down' = Takes(down, c, d, "lost")
  /\ left' = [left EXCEPT !.fault = @ - 1]
  /\ UNCHANGED <<opt, kcp, session, sent, got, broken>>

-----------------------------------------------------------------------------
Network(c) ==
  \E d \in up[c] \union down[c] :
    \/ \E way \in {"up", "down"}, fate \in {"arrives", "duplicated"} : Arrive(c, d, way, fate)
    \/ Lose(c, d)

ClientThreads(c) ==
  \/ \E line \in Line : ChatClientSend(c, line)
  \/ \E due \in Timers(kcp[c]), probe, alive \in BOOLEAN : ClientUpdate(c, due, probe, alive)

UpdateThread(c) ==
  /\ c \in DOMAIN session
  /\ \E due \in Timers(session[c]), probe \in BOOLEAN :
       ServerUpdate(c, due, probe) \/ SessionTimeout(c, due, probe)

Next == \E c \in Client : ClientThreads(c) \/ UpdateThread(c) \/ Network(c)

Spec == Init /\ [][Next]_vars

-----------------------------------------------------------------------------
Channel == INSTANCE KcpChannel WITH Way <- {"up", "down"}

\* Over a network that loses, duplicates and reorders, every session delivers
\* the accepted messages once and in order, until the server times it out;
\* even then no message is invented (ikcp_send, ikcp_flush, ikcp_input,
\* ikcp_recv, HandleSession).
ImplementsChannel == Channel!Spec

\* The two ends of a way: the sender's and the receiver's control block.
Ends == {<<kcp[c], session[c]>> : c \in DOMAIN session \ broken} \union
        {<<session[c], kcp[c]>> : c \in DOMAIN session \ broken}

\* What a sender dropped from snd_buf has arrived: it was acknowledged only
\* because the receiver keeps or has delivered it (ikcp_ack_push before
\* ikcp_parse_data, ikcp_parse_una, ikcp_parse_ack).
AckedIsKept ==
  \A e \in Ends :
    LET s == e[1]
        r == e[2]
        unacked == {x.sn : x \in ToSet(s.snd_buf)}
    IN  /\ itimediff(s.snd_una, r.rcv_nxt) <= IKCP_WND_RCV
        /\ itimediff(r.rcv_nxt, s.snd_nxt) <= 0
        /\ \A n \in 0 .. itimediff(s.snd_nxt, r.rcv_nxt) - 1 :
             \/ Plus(r.rcv_nxt, n) \in unacked
             \/ \E x \in r.rcv_buf : x.sn = Plus(r.rcv_nxt, n)

\* No peer overruns a window, stale window announcements included: snd_buf is
\* in order and within the send window, rcv_buf within the receive window, the
\* receive queue within its limit.
WindowsRespected ==
  \A k \in {kcp[c] : c \in Client} \union {session[c] : c \in DOMAIN session} :
    /\ \A i, j \in DOMAIN k.snd_buf : i < j => itimediff(k.snd_buf[i].sn, k.snd_buf[j].sn) < 0
    /\ \A i \in DOMAIN k.snd_buf :
         /\ itimediff(k.snd_buf[i].sn, k.snd_una) \in 0 .. IKCP_WND_SND - 1
         /\ itimediff(k.snd_buf[i].sn, k.snd_nxt) < 0
    /\ \A x \in k.rcv_buf : itimediff(x.sn, k.rcv_nxt) \in 0 .. IKCP_WND_RCV - 1
    /\ Cardinality({x.sn : x \in k.rcv_buf}) = Cardinality(k.rcv_buf)
    /\ Len(k.rcv_queue) <= IKCP_WND_RCV
=============================================================================
