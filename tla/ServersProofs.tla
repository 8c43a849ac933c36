--------------------------- MODULE ServersProofs ---------------------------
(***************************************************************************)
(* Whatever server of the repository runs, a client gets its own messages  *)
(* back in order; and a server on io_uring has one operation for each      *)
(* connection.  For every number of clients, descriptors and messages.     *)
(***************************************************************************)
EXTENDS Servers, SequenceTheorems, FiniteSetTheorems, WellFoundedInduction, TLAPS

Designs == ProactorDesigns \cup ReactorDesigns \cup CoroutineDesigns
PeerState == {"away", "open", "fin", "reset", "pipe", "dead", "gone"}
Message == Client \X Nat
Datum == Message \cup {NULL}

-----------------------------------------------------------------------------
(* The inductive invariant.                                                *)

\* The messages of client c after the first a and up to the b-th, in order.
Msg(c, i) == <<c, i>>
IsStream(s, c, a, b) ==
  /\ a \in Nat /\ b \in Nat /\ s \in Seq(Message) /\ b = a + Len(s)
  /\ \A i \in 1 .. Len(s) : s[i] = Msg(c, a + i)

\* What client c got (g), what the server holds for it (h) and what is still
\* to be received (w) are its n messages, in order, while it is connected.
PipeOf(c, g, p, w, n, h) ==
  \E a, b \in Nat :
    /\ IsStream(g, c, 0, a)
    /\ p = "open" => IsStream(h, c, a, b) /\ IsStream(w, c, b, n)

\* The servers of junior/08 and 09 only print: nothing flows back.
Flow(c, h) ==
  PipeOf(c, got[c], IF design = "printing" THEN "fin" ELSE peer[c], wire[c], sent[c], h)

Waiting(c) == peer[c] = "away" \/ \E i \in 1 .. Len(backlog) : backlog[i] = c

\* c is not mixed up with another client.
Own(c) == Mixes => \A d \in Client \ {c} : Waiting(d)

KernelType ==
  /\ design \in Designs /\ limit \in 1 .. MaxFd
  /\ peer \in [Client -> PeerState] /\ backlog \in Seq(Client) /\ owner \in [Fd -> Client \cup {NULL}]
  /\ wire \in [Client -> Seq(Message)] /\ sent \in [Client -> Nat] /\ got \in [Client -> Seq(Datum)]
  /\ alive \in BOOLEAN

\* A client is in the backlog, or has one descriptor, or none.
Placed ==
  /\ \A f, g \in Fd : owner[f] # NULL /\ owner[f] = owner[g] => f = g
  /\ \A i, j \in 1 .. Len(backlog) : backlog[i] = backlog[j] => i = j
  /\ \A i \in 1 .. Len(backlog) : peer[backlog[i]] # "away" /\ \A f \in Fd : owner[f] # backlog[i]
  /\ \A f \in Fd : owner[f] # NULL => peer[owner[f]] # "away"

\* A client that has not connected has sent and got nothing.
Fresh == \A c \in Client : peer[c] = "away" => wire[c] = <<>> /\ sent[c] = 0 /\ got[c] = <<>>

\* The variables of the designs that do not run.
Quiet ==
  /\ design \notin ProactorDesigns => sq = {} /\ ring = {} /\ cq = <<>> /\ events = <<>>
  /\ design \notin ReactorDesigns => ready = {}
  /\ design \notin CoroutineDesigns => co = [c \in Client |-> "none"]

\* A descriptor is watched as long as it is open, what the last wait returned
\* and is not handled is as it was, and what is kept for a client flows back.
Watched == \A f \in Fd : interest[f] = "NONE" <=> owner[f] = NULL
ReadyValid ==
  \A e \in ready :
    \/ e.fd = ListenFd /\ e.ev = "IN"
    \/ e.fd \in Fd /\ e.who \in Client /\ e.who = owner[e.fd] /\ e.ev = interest[e.fd]
ReadyOnce == \A e, d \in ready : e.fd = d.fd => e = d
AnswersAtOnce == design \in Direct \cup {"printing"} => \A f \in Fd : interest[f] # "OUT"
Kept(f) == IF interest[f] = "OUT" THEN reply[owner[f]] ELSE <<>>
KeptFlows == \A f \in Fd : owner[f] # NULL => Flow(owner[f], Kept(f))
IdleFlows == \A c \in Client : ~Accepted(c) => Flow(c, <<>>)

ReactorInv ==
  /\ interest \in [Fd -> {"NONE", "IN", "OUT"}] /\ reply \in [Client -> Seq(Datum)]
  /\ Watched /\ ReadyValid /\ ReadyOnce /\ AnswersAtOnce /\ KeptFlows /\ IdleFlows

CoState == {"none", "new", "read", "write", "wait", "dead"}

\* A flow of control belongs to a connection, finds its descriptor in its
\* argument, and what it holds goes back to the client.
Bound(c) == co[c] # "none" => IF design = "thread" /\ co[c] = "new" THEN cell = c ELSE serves[c] = c
InHand(c) == IF co[c] = "write" THEN buf[c] ELSE <<>>
Created == \A i \in 1 .. Len(created) : co[created[i]] # "none"
OneRuns == design = "mini" => \A c \in Client : co[c] = "write" => cur = c

CoroutineInv ==
  /\ co \in [Client -> CoState] /\ serves \in [Client -> Client \cup {NULL}] /\ cell \in Client \cup {NULL}
  /\ buf \in [Client -> Seq(Datum)] /\ created \in Seq(Client)
  /\ \A c \in Client : co[c] # "none" => ~Waiting(c)
  /\ \A c \in Client : co[c] \notin {"none", "new"} => serves[c] # NULL
  /\ \A c \in Client : design = "thread" /\ co[c] = "new" => cell # NULL
  /\ Created /\ OneRuns /\ (design # "mini" => created = <<>>)
  /\ \A c \in Client : Own(c) => Bound(c) /\ Flow(c, InHand(c))

\* The completions in the order they are handled.
Finished == events \o cq
Entry == [op : Op, res : Client \cup (-1 .. BufMax)]

\* The operations of client x, or the accept for NULL, in the queue S, the ring
\* R and among the completions s: none, or one.
InSet(S, x) == {op \in S : Of(op, x)}
InDone(s, x) == {i \in 1 .. Len(s) : Of(s[i].op, x)}
NoneIn(S, R, s, x) == InSet(S, x) = {} /\ InSet(R, x) = {} /\ InDone(s, x) = {}
SingleIn(S, R, s, x) ==
  \/ \E op \in S : InSet(S, x) = {op} /\ InSet(R, x) = {} /\ InDone(s, x) = {}
  \/ \E op \in R : InSet(S, x) = {} /\ InSet(R, x) = {op} /\ InDone(s, x) = {}
  \/ \E i \in 1 .. Len(s) : InSet(S, x) = {} /\ InSet(R, x) = {} /\ InDone(s, x) = {i}

\* The accept of c is among the completions s.
PendingIn(s, c) == \E i \in 1 .. Len(s) : s[i].op.type = "accept" /\ s[i].res = c

None(x) == NoneIn(sq, ring, Finished, x)
Single(x) == SingleIn(sq, ring, Finished, x)
Pending(c) == PendingIn(Finished, c)

\* Every connection the program knows of is in one operation, unless it has been
\* forgotten after an error, and one accept is on its way.
OpsOf(c) ==
  IF Accepted(c) /\ ~Pending(c)
  THEN Single(c) \/ (design # "proactor" /\ peer[c] = "dead" /\ None(c))
  ELSE None(c)
Tokens == Single(NULL) /\ \A c \in Client : OpsOf(c)
Known == design = "proactor" => conns = {c \in Client : Accepted(c) /\ ~Pending(c)}

\* The program can always prepare what it wants to.
Room == IsFiniteSet(sq) /\ Cardinality(sq) + 2 * Len(events) <= Entries

\* What an operation and a completion can be.
OpFine(op) ==
  /\ op \in Op /\ (op.type = "accept" => op = AcceptOp) /\ (op.type = "send" => op.who # NULL)
  /\ op.type = "recv" /\ design = "proactor" => op.who # NULL
EntryFine(e) ==
  /\ e \in Entry /\ OpFine(e.op)
  /\ e.op.type = "accept" => e.res \in Client \cup {-1} /\ (e.res # -1 => Accepted(e.res))
  /\ e.op.type # "accept" => e.res \in -1 .. BufMax
  /\ e.op.type = "recv" => /\ e.op.who = NULL => e.res = -1
                           /\ e.op.who # NULL /\ e.res = -1 => peer[e.op.who] = "dead"
AllFine == (\A op \in sq \cup ring : OpFine(op)) /\ \A i \in 1 .. Len(Finished) : EntryFine(Finished[i])

\* The messages of client c that an operation or a completion stands for.
SendFrom(c) == IF design = "uring" THEN rbuf[Buffer(c)] ELSE wbuf[Buffer(c)]
OpData(op) == IF op.type = "send" THEN Held(SendFrom(op.who), op.len) ELSE <<>>
EntryData(e) == IF e.op.type = "recv" /\ e.res > 0 THEN Held(rbuf[Buffer(e.op.who)], e.res) ELSE <<>>
DataFlow(c) ==
  /\ \A op \in sq \cup ring : Of(op, c) => Flow(c, OpData(op))
  /\ \A i \in 1 .. Len(Finished) : Of(Finished[i].op, c) => Flow(c, EntryData(Finished[i]))
  /\ None(c) => Flow(c, <<>>)
DataFlows == \A c \in Client : Own(c) => DataFlow(c)

BufferType == [Client \cup {NULL} -> [1 .. BufMax -> Datum]]
ProactorInv ==
  /\ cq \in Seq(Entry) /\ events \in Seq(Entry) /\ rbuf \in BufferType /\ wbuf \in BufferType
  /\ Room /\ AllFine /\ Tokens /\ Known /\ DataFlows

Inv ==
  /\ KernelType /\ Placed /\ Fresh /\ Quiet
  /\ design \in ProactorDesigns => ProactorInv
  /\ design \in ReactorDesigns => ReactorInv
  /\ design \in CoroutineDesigns => CoroutineInv

-----------------------------------------------------------------------------
(* Streams of messages.                                                    *)

\* One more message.
LEMMA StreamAppend ==
  ASSUME NEW c \in Client, NEW a, NEW b, NEW s, IsStream(s, c, a, b), NEW d, d = b + 1
  PROVE  d \in Nat /\ IsStream(Append(s, Msg(c, d)), c, a, d)
<1>a. PICK n, t : n = Len(s) /\ t = Append(s, Msg(c, d))
  OBVIOUS
<1>1. a \in Nat /\ b \in Nat /\ d \in Nat /\ s \in Seq(Message) /\ n \in Nat /\ b = a + n
      /\ \A i \in 1 .. n : s[i] = Msg(c, a + i)
  BY <1>a DEF IsStream
<1>2. Msg(c, d) \in Message
  BY <1>1 DEF Message, Msg
<1>3. t \in Seq(Message) /\ Len(t) = n + 1 /\ \A i \in 1 .. n + 1 : t[i] = IF i = n + 1 THEN Msg(c, d) ELSE s[i]
  BY <1>1, <1>2, <1>a
<1>4. \A i \in 1 .. n + 1 : t[i] = Msg(c, a + i)
  <2>1. a + (n + 1) = d
    BY <1>1, <1>a
  <2>2. \A i \in 1 .. n + 1 : i = n + 1 \/ i \in 1 .. n
    BY <1>1
  <2> QED
    BY <1>1, <1>3, <2>1, <2>2
<1>5. d = a + Len(t)
  BY <1>1, <1>3
<1>6. IsStream(t, c, a, d)
  BY <1>1, <1>3, <1>4, <1>5 DEF IsStream
<1> QED
  BY <1>1, <1>6, <1>a

\* Two streams, one behind the other.
LEMMA StreamConcat ==
  ASSUME NEW c, NEW a, NEW b, NEW d, NEW s, IsStream(s, c, a, b), NEW t, IsStream(t, c, b, d)
  PROVE  IsStream(s \o t, c, a, d)
<1>a. PICK m, n, u : m = Len(s) /\ n = Len(t) /\ u = s \o t
  OBVIOUS
<1>1. s \in Seq(Message) /\ t \in Seq(Message)
  BY DEF IsStream
<1>2. /\ a \in Nat /\ b \in Nat /\ d \in Nat /\ m \in Nat /\ n \in Nat /\ b = a + m /\ d = b + n
      /\ (\A i \in 1 .. m : s[i] = Msg(c, a + i)) /\ (\A i \in 1 .. n : t[i] = Msg(c, b + i))
  BY <1>1, <1>a DEF IsStream
<1>3. u \in Seq(Message) /\ Len(u) = m + n
      /\ \A i \in 1 .. m + n : u[i] = IF i <= m THEN s[i] ELSE t[i - m]
  BY <1>1, <1>a, ConcatProperties
<1>4. ASSUME NEW i \in 1 .. m + n PROVE u[i] = Msg(c, a + i)
  <2>1. CASE i <= m
    BY <1>2, <1>3, <2>1
  <2>2. CASE ~(i <= m)
    <3>1. i - m \in 1 .. n /\ b + (i - m) = a + i
      BY <1>2, <2>2
    <3>2. u[i] = t[i - m]
      BY <1>3, <2>2
    <3>3. t[i - m] = Msg(c, b + (i - m))
      BY <1>2, <3>1
    <3> QED
      BY <3>1, <3>2, <3>3
  <2> QED
    BY <2>1, <2>2
<1>5. d = a + Len(u)
  BY <1>2, <1>3
<1>6. IsStream(u, c, a, d)
  BY <1>2, <1>3, <1>4, <1>5 DEF IsStream
<1> QED
  BY <1>6, <1>a

\* The beginning and the rest of a stream.
LEMMA StreamCut ==
  ASSUME NEW c, NEW a, NEW b, NEW s, IsStream(s, c, a, b), NEW m \in 0 .. Len(s)
  PROVE  \E d \in Nat : IsStream(SubSeq(s, 1, m), c, a, d) /\ IsStream(SubSeq(s, m + 1, Len(s)), c, d, b)
<1>a. PICK n, d, t, u : n = Len(s) /\ d = a + m /\ t = SubSeq(s, 1, m) /\ u = SubSeq(s, m + 1, Len(s))
  OBVIOUS
<1>1. /\ a \in Nat /\ b \in Nat /\ b = a + n /\ s \in Seq(Message) /\ n \in Nat /\ m \in 0 .. n
      /\ \A i \in 1 .. n : s[i] = Msg(c, a + i) /\ s[i] \in Message
  BY <1>a DEF IsStream
<1>b. d \in Nat /\ b = d + (n - m)
  BY <1>1, <1>a
<1>2. t \in Seq(Message) /\ Len(t) = m /\ \A i \in 1 .. m : t[i] = s[i]
  BY <1>1, <1>a
<1>3. u \in Seq(Message) /\ Len(u) = n - m /\ \A i \in 1 .. n - m : u[i] = s[m + i]
  <2>1. \A i \in m + 1 .. n : s[i] \in Message
    BY <1>1
  <2>2. m + 1 \in Int /\ n \in Int
    BY <1>1
  <2>3. u = SubSeq(s, m + 1, n)
    BY <1>a
  <2>4. u \in Seq(Message) /\ Len(u) = (IF m + 1 <= n THEN n - (m + 1) + 1 ELSE 0)
        /\ \A i \in 1 .. n - (m + 1) + 1 : u[i] = s[(m + 1) + i - 1]
    BY <2>1, <2>2, <2>3, SubSeqProperties
  <2>5. Len(u) = n - m
    BY <1>1, <2>4
  <2>6. ASSUME NEW i \in 1 .. n - m PROVE u[i] = s[m + i]
    <3>1. i \in 1 .. n - (m + 1) + 1 /\ (m + 1) + i - 1 = m + i
      BY <1>1
    <3> QED
      BY <2>4, <3>1
  <2> QED
    BY <2>4, <2>5, <2>6
<1>4. \A i \in 1 .. m : t[i] = Msg(c, a + i)
  BY <1>1, <1>2
<1>5. ASSUME NEW i \in 1 .. n - m PROVE u[i] = Msg(c, d + i)
  <2>1. m + i \in 1 .. n /\ a + (m + i) = d + i
    BY <1>1, <1>a
  <2>2. u[i] = Msg(c, a + (m + i))
    BY <1>1, <1>3, <2>1
  <2> QED
    BY <2>1, <2>2
<1>6. IsStream(t, c, a, d) /\ IsStream(u, c, d, b)
  BY <1>1, <1>2, <1>3, <1>4, <1>5, <1>a, <1>b DEF IsStream
<1> QED
  BY <1>6, <1>a, <1>b

\* No message is a stream.
LEMMA StreamEmpty ==
  ASSUME NEW c, NEW a \in Nat
  PROVE  IsStream(<<>>, c, a, a)
BY DEF IsStream

-----------------------------------------------------------------------------
(* What the steps of a connection do to its pipe.                          *)

\* A client that has sent nothing.
LEMMA PipeEmpty ==
  ASSUME NEW c, NEW p
  PROVE  PipeOf(c, <<>>, p, <<>>, 0, <<>>)
BY StreamEmpty DEF PipeOf

\* The client sends a message.
LEMMA PipeSent ==
  ASSUME NEW c \in Client, NEW g, NEW p, NEW w, NEW n, NEW h, PipeOf(c, g, p, w, n, h), NEW d, d = n + 1
  PROVE  PipeOf(c, g, p, Append(w, Msg(c, d)), d, h)
<1>1. PICK a \in Nat, b \in Nat :
        IsStream(g, c, 0, a) /\ (p = "open" => IsStream(h, c, a, b) /\ IsStream(w, c, b, n))
  BY DEF PipeOf
<1>2. CASE p = "open"
  <2>1. IsStream(Append(w, Msg(c, d)), c, b, d)
    BY <1>1, <1>2, StreamAppend
  <2> QED
    BY <1>1, <1>2, <2>1 DEF PipeOf
<1> QED
  BY <1>1, <1>2 DEF PipeOf

\* The server receives the first m messages.
LEMMA PipeTaken ==
  ASSUME NEW c \in Client, NEW g, NEW p, NEW w, NEW n, PipeOf(c, g, p, w, n, <<>>), NEW m \in 0 .. Len(w)
  PROVE  PipeOf(c, g, p, SubSeq(w, m + 1, Len(w)), n, SubSeq(w, 1, m))
<1>1. PICK a \in Nat, b \in Nat :
        IsStream(g, c, 0, a) /\ (p = "open" => IsStream(<<>>, c, a, b) /\ IsStream(w, c, b, n))
  BY DEF PipeOf
<1>2. CASE p = "open"
  <2>1. a = b
    BY <1>1, <1>2 DEF IsStream
  <2>2. PICK d \in Nat : IsStream(SubSeq(w, 1, m), c, a, d) /\ IsStream(SubSeq(w, m + 1, Len(w)), c, d, n)
    BY <1>1, <1>2, <2>1, StreamCut
  <2> QED
    BY <1>1, <1>2, <2>2 DEF PipeOf
<1> QED
  BY <1>1, <1>2 DEF PipeOf

\* The server sends what it holds.
LEMMA PipeDelivered ==
  ASSUME NEW c \in Client, NEW g, NEW p, p = "open", NEW w, NEW n, NEW h, PipeOf(c, g, p, w, n, h)
  PROVE  PipeOf(c, g \o h, p, w, n, <<>>)
<1>1. PICK a \in Nat, b \in Nat : IsStream(g, c, 0, a) /\ IsStream(h, c, a, b) /\ IsStream(w, c, b, n)
  BY DEF PipeOf
<1>2. IsStream(g \o h, c, 0, b) /\ IsStream(<<>>, c, b, b)
  BY <1>1, StreamConcat, StreamEmpty
<1> QED
  BY <1>1, <1>2 DEF PipeOf

\* A connection that is not open promises nothing more.
LEMMA PipeClosed ==
  ASSUME NEW c, NEW g, NEW p, NEW w, NEW n, NEW h, PipeOf(c, g, p, w, n, h),
         NEW p2, p2 # "open", NEW w2, NEW n2, NEW h2
  PROVE  PipeOf(c, g, p2, w2, n2, h2)
BY DEF PipeOf

-----------------------------------------------------------------------------
(* Descriptors and the backlog.                                            *)

\* A set of numbers has a least one.
LEMMA LeastNumber ==
  ASSUME NEW S, S \subseteq Nat, S # {}
  PROVE  Min(S) \in S /\ \A y \in S : Min(S) =< y
<1>1. PICK x \in S : \A y \in S : ~(<<y, x>> \in OpToRel(<, Nat))
  BY NatLessThanWellFounded, WFMin
<1>2. ASSUME NEW y \in Nat, y < x PROVE <<y, x>> \in OpToRel(<, Nat)
  <2>1. <<y, x>> \in Nat \X Nat /\ <<y, x>>[1] = y /\ <<y, x>>[2] = x
    OBVIOUS
  <2> QED
    BY <1>2, <2>1, Zenon DEF OpToRel
<1>3. \A y \in S : ~(y < x)
  BY <1>1, <1>2, Zenon
<1>4. \A y \in S : x =< y
  BY <1>3
<1> QED
  BY <1>4 DEF Min

\* accept takes client c from the head of the backlog and gives it descriptor f.
Takes(c, f) ==
  /\ c \in Client /\ f \in Fd /\ owner[f] = NULL /\ backlog # <<>> /\ c = Head(backlog)
  /\ owner' = [owner EXCEPT ![f] = c] /\ backlog' = Tail(backlog)

\* accept gives the first client of the backlog the lowest free descriptor.
LEMMA AcceptTakes ==
  ASSUME KernelType, Accept
  PROVE  Takes(Head(backlog), Min(FreeFd))
<1>1. FreeFd \subseteq Nat /\ FreeFd # {}
  BY DEF FreeFd, Accept, CanAccept, KernelType
<1>2. Min(FreeFd) \in FreeFd
  BY <1>1, LeastNumber
<1>3. Min(FreeFd) \in Fd /\ owner[Min(FreeFd)] = NULL
  BY <1>2, SocketsAssumption DEF FreeFd, Fd, KernelType
<1>4. Head(backlog) \in Client
  BY DEF Accept, CanAccept, KernelType
<1> QED
  BY <1>3, <1>4 DEF Takes, Accept, CanAccept

\* What the tail of the backlog holds.
LEMMA TailIs ==
  ASSUME KernelType, Placed, backlog # <<>>, backlog' = Tail(backlog)
  PROVE  /\ backlog' \in Seq(Client) /\ Len(backlog') = Len(backlog) - 1 /\ Len(backlog) \in Nat \ {0}
         /\ Head(backlog) \in Client /\ Head(backlog) = backlog[1]
         /\ \A i \in 1 .. Len(backlog') : i + 1 \in 1 .. Len(backlog) /\ backlog'[i] = backlog[i + 1]
         /\ \A i \in 1 .. Len(backlog) : i = 1 \/ (i - 1 \in 1 .. Len(backlog') /\ backlog[i] = backlog'[i - 1])
         /\ \A i \in 1 .. Len(backlog') : backlog'[i] # Head(backlog)
<1>1. backlog' \in Seq(Client) /\ Len(backlog') = Len(backlog) - 1 /\ Len(backlog) \in Nat \ {0}
      /\ Head(backlog) \in Client /\ Head(backlog) = backlog[1]
  BY DEF KernelType
<1>2. \A i \in 1 .. Len(backlog') : i + 1 \in 1 .. Len(backlog) /\ backlog'[i] = backlog[i + 1]
  BY <1>1 DEF KernelType
<1>3. \A i \in 1 .. Len(backlog) : i = 1 \/ (i - 1 \in 1 .. Len(backlog') /\ backlog[i] = backlog'[i - 1])
  <2>1. ASSUME NEW i \in 1 .. Len(backlog), i # 1 PROVE i - 1 \in 1 .. Len(backlog') /\ (i - 1) + 1 = i
    BY <1>1, <2>1
  <2> QED
    BY <1>2, <2>1
<1>4. ASSUME NEW i \in 1 .. Len(backlog') PROVE backlog'[i] # Head(backlog)
  <2>1. i + 1 # 1 /\ 1 \in 1 .. Len(backlog)
    BY <1>1
  <2> QED
    BY <1>1, <1>2, <2>1 DEF Placed
<1> QED
  BY <1>1, <1>2, <1>3, <1>4

\* Who waits and who has a descriptor after c has been taken from the backlog.
LEMMA TakenPlaces ==
  ASSUME KernelType, Placed, NEW c, NEW f, Takes(c, f), UNCHANGED <<design, limit, peer, wire, sent, got, alive>>
  PROVE  /\ KernelType' /\ Placed' /\ owner'[f] = c /\ \A g \in Fd : g # f => owner'[g] = owner[g]
         /\ ~Accepted(c) /\ Waiting(c) /\ ~Waiting(c)' /\ peer[c] # "away"
         /\ \A d \in Client : (Accepted(d)' <=> Accepted(d) \/ d = c) /\ (Waiting(d)' <=> Waiting(d) /\ d # c)
<1>1. c \in Client /\ f \in Fd /\ owner[f] = NULL /\ c = Head(backlog) /\ c # NULL /\ backlog # <<>>
      /\ owner' = [owner EXCEPT ![f] = c] /\ backlog' = Tail(backlog) /\ peer' = peer
  BY SocketsAssumption DEF Takes
<1>2. owner'[f] = c /\ \A g \in Fd : g # f => owner'[g] = owner[g]
  BY <1>1 DEF KernelType
<1>3. /\ backlog' \in Seq(Client) /\ Len(backlog') = Len(backlog) - 1 /\ Len(backlog) \in Nat \ {0} /\ c = backlog[1]
      /\ \A i \in 1 .. Len(backlog') : i + 1 \in 1 .. Len(backlog) /\ backlog'[i] = backlog[i + 1]
      /\ \A i \in 1 .. Len(backlog) : i = 1 \/ (i - 1 \in 1 .. Len(backlog') /\ backlog[i] = backlog'[i - 1])
      /\ \A i \in 1 .. Len(backlog') : backlog'[i] # c
  BY <1>1, TailIs
<1>4. 1 \in 1 .. Len(backlog)
  BY <1>3
<1>5. peer[c] # "away" /\ (\A g \in Fd : owner[g] # c) /\ Waiting(c)
  BY <1>3, <1>4 DEF Placed, Waiting
<1>6. KernelType'
  BY <1>1, <1>3 DEF KernelType
<1>7. Placed'
  <2>1. \A g, h \in Fd : owner'[g] # NULL /\ owner'[g] = owner'[h] => g = h
    BY <1>2, <1>5 DEF Placed
  <2>2. ASSUME NEW i \in 1 .. Len(backlog'), NEW j \in 1 .. Len(backlog'), backlog'[i] = backlog'[j] PROVE i = j
    <3>1. i + 1 = j + 1
      BY <1>3, <2>2 DEF Placed
    <3> QED
      BY <3>1, <1>3
  <2>3. \A i \in 1 .. Len(backlog') : peer'[backlog'[i]] # "away" /\ \A g \in Fd : owner'[g] # backlog'[i]
    BY <1>1, <1>2, <1>3 DEF Placed
  <2>4. \A g \in Fd : owner'[g] # NULL => peer'[owner'[g]] # "away"
    BY <1>1, <1>2, <1>5 DEF Placed
  <2> QED
    BY <2>1, <2>2, <2>3, <2>4 DEF Placed
<1>8. ~Accepted(c) /\ ~Waiting(c)'
  BY <1>1, <1>3, <1>5 DEF Accepted, Waiting
<1>9. ASSUME NEW d \in Client PROVE (Accepted(d)' <=> Accepted(d) \/ d = c) /\ (Waiting(d)' <=> Waiting(d) /\ d # c)
  <2>1. Accepted(d)' <=> Accepted(d) \/ d = c
    BY <1>1, <1>2, SocketsAssumption DEF Accepted
  <2>2. Waiting(d)' => Waiting(d) /\ d # c
    BY <1>1, <1>3, <1>5 DEF Waiting
  <2>3. Waiting(d) /\ d # c => Waiting(d)'
    BY <1>1, <1>3 DEF Waiting
  <2> QED
    BY <2>1, <2>2, <2>3
<1> QED
  BY <1>2, <1>5, <1>6, <1>7, <1>8, <1>9

\* The descriptor of a client that has one.
LEMMA DescriptorOf ==
  ASSUME NEW c, Accepted(c)
  PROVE  FdOf(c) \in Fd /\ owner[FdOf(c)] = c
BY DEF Accepted, FdOf

\* Who waits and who has a descriptor after c's has been closed.
LEMMA ClosedPlaces ==
  ASSUME KernelType, Placed, NEW c \in Client, Accepted(c), Close(c), UNCHANGED <<design, limit, backlog, sent, got, alive>>
  PROVE  /\ KernelType' /\ Placed' /\ peer'[c] = "gone" /\ ~Accepted(c)' /\ ~Waiting(c)
         /\ \A d \in Client \ {c} : peer'[d] = peer[d] /\ wire'[d] = wire[d]
         /\ \A d \in Client : (Accepted(d)' <=> Accepted(d) /\ d # c) /\ (Waiting(d)' <=> Waiting(d))
         /\ owner'[FdOf(c)] = NULL /\ \A g \in Fd : g # FdOf(c) => owner'[g] = owner[g] /\ owner[g] # c
<1>a. PICK f : f = FdOf(c)
  OBVIOUS
<1>1. f \in Fd /\ owner[f] = c /\ c # NULL /\ \A g \in Fd : g # f => owner[g] # c
  BY <1>a, DescriptorOf, SocketsAssumption DEF Placed
<1>2. /\ owner' = [owner EXCEPT ![f] = NULL] /\ peer' = [peer EXCEPT ![c] = "gone"]
      /\ wire' = [wire EXCEPT ![c] = <<>>] /\ backlog' = backlog
  BY <1>a DEF Close
<1>3. owner'[f] = NULL /\ \A g \in Fd : g # f => owner'[g] = owner[g]
  BY <1>1, <1>2 DEF KernelType
<1>4. peer'[c] = "gone" /\ wire'[c] = <<>> /\ \A d \in Client \ {c} : peer'[d] = peer[d] /\ wire'[d] = wire[d]
  BY <1>2 DEF KernelType
<1>5. KernelType'
  <2>1. <<>> \in Seq(Message) /\ "gone" \in PeerState
    BY DEF PeerState
  <2>2. peer' \in [Client -> PeerState] /\ owner' \in [Fd -> Client \cup {NULL}] /\ wire' \in [Client -> Seq(Message)]
    BY <1>2, <2>1 DEF KernelType
  <2> QED
    BY <2>2 DEF KernelType
<1>6. ~Waiting(c) /\ peer[c] # "away" /\ \A i \in 1 .. Len(backlog) : backlog[i] # c
  BY <1>1 DEF Placed, Waiting
<1>b. \A i \in 1 .. Len(backlog) : backlog[i] \in Client
  BY DEF KernelType
<1>7. Placed'
  <2>1. \A g, h \in Fd : owner'[g] # NULL /\ owner'[g] = owner'[h] => g = h
    BY <1>3 DEF Placed
  <2>2. \A i, j \in 1 .. Len(backlog') : backlog'[i] = backlog'[j] => i = j
    BY <1>2 DEF Placed
  <2>3. \A i \in 1 .. Len(backlog') : peer'[backlog'[i]] # "away" /\ \A g \in Fd : owner'[g] # backlog'[i]
    BY <1>2, <1>3, <1>4, <1>6, <1>b, SocketsAssumption DEF Placed
  <2>4. ASSUME NEW g \in Fd, owner'[g] # NULL PROVE peer'[owner'[g]] # "away"
    <3>1. g # f /\ owner'[g] = owner[g] /\ owner[g] \in Client \ {c} /\ peer[owner[g]] # "away"
      BY <1>1, <1>3, <2>4 DEF Placed, KernelType
    <3> QED
      BY <1>4, <3>1
  <2> QED
    BY <2>1, <2>2, <2>3, <2>4 DEF Placed
<1>8. ASSUME NEW d \in Client PROVE (Accepted(d)' <=> Accepted(d) /\ d # c) /\ (Waiting(d)' <=> Waiting(d))
  <2>1. Accepted(d)' <=> Accepted(d) /\ d # c
    BY <1>1, <1>3, SocketsAssumption DEF Accepted
  <2>2. Waiting(d)' <=> Waiting(d)
    BY <1>2, <1>4, <1>6 DEF Waiting
  <2> QED
    BY <2>1, <2>2
<1> QED
  BY <1>1, <1>3, <1>4, <1>5, <1>6, <1>7, <1>8, <1>a

\* Nobody moves: a client stays where it is unless it connects or is accepted.
SamePlace == owner' = owner /\ backlog' = backlog /\ \A c \in Client : peer'[c] = "away" <=> peer[c] = "away"

\* Where nobody moves, the places stay in order.
LEMMA SamePlaces ==
  ASSUME KernelType, Placed, SamePlace
  PROVE  Placed' /\ \A d \in Client : (Accepted(d)' <=> Accepted(d)) /\ (Waiting(d)' <=> Waiting(d))
<1>1. \A i \in 1 .. Len(backlog) : backlog[i] \in Client
  BY DEF KernelType
<1>2. \A g \in Fd : owner[g] # NULL => owner[g] \in Client
  BY DEF KernelType
<1>3. Placed'
  BY <1>1, <1>2 DEF Placed, SamePlace
<1> QED
  BY <1>3 DEF SamePlace, Accepted, Waiting

\* A client with a descriptor does not wait.
LEMMA AcceptedIsPlaced ==
  ASSUME KernelType, Placed, NEW c \in Client, Accepted(c)
  PROVE  ~Waiting(c)
BY SocketsAssumption DEF Placed, Accepted, Waiting

\* The others being where they are, c is no less mixed up than before.
LEMMA OwnBefore ==
  ASSUME design' = design, \A d \in Client : Waiting(d)' => Waiting(d)
  PROVE  \A c \in Client : Own(c)' => Own(c)
BY DEF Own, Mixes

-----------------------------------------------------------------------------
(* The flow of one client's messages.                                      *)

\* The flow of c after a step.
FlowAfter(c, h) ==
  PipeOf(c, got'[c], IF design' = "printing" THEN "fin" ELSE peer'[c], wire'[c], sent'[c], h)

\* Nothing happens to client c, or its connection is not open.
Untouched(c) ==
  /\ got'[c] = got[c]
  /\ peer'[c] # "open" \/ (peer'[c] = peer[c] /\ wire'[c] = wire[c] /\ sent'[c] = sent[c])

\* What is held for a client to whom nothing happens flows as before.
LEMMA FlowUntouched ==
  ASSUME design' = design, NEW c, NEW h, Flow(c, h), Untouched(c)
  PROVE  FlowAfter(c, h)
BY DEF Flow, FlowAfter, Untouched, PipeOf

\* A connection that is not open promises nothing about what is held for it.
LEMMA FlowClosed ==
  ASSUME design' = design, NEW c, NEW h, Flow(c, h), got'[c] = got[c], peer'[c] # "open", NEW j
  PROVE  FlowAfter(c, j)
BY DEF Flow, FlowAfter, PipeOf

\* Whatever happens, it happens to client c, which is connected and stays so.
OnlyTouches(c) ==
  /\ design' = design /\ peer[c] # "away" /\ peer'[c] # "away"
  /\ \A d \in Client \ {c} : peer'[d] = peer[d] /\ wire'[d] = wire[d] /\ sent'[d] = sent[d] /\ got'[d] = got[d]

\* A step of one connection leaves the other clients alone.
LEMMA OthersUntouched ==
  ASSUME NEW c \in Client, OnlyTouches(c)
  PROVE  /\ Fresh => Fresh'
         /\ \A d \in Client \ {c} : Untouched(d)
         /\ owner' = owner /\ backlog' = backlog => SamePlace
BY DEF OnlyTouches, Fresh, Untouched, SamePlace

\* What recv takes from the wire.
Rest(c) == SubSeq(wire[c], Len(Chunk(c)) + 1, Len(wire[c]))

\* A recv takes a first part of the wire: something if there is something, and
\* no more than the buffer holds.
LEMMA ChunkIs ==
  ASSUME KernelType, NEW c \in Client
  PROVE  /\ Chunk(c) \in Seq(Message) /\ Chunk(c) \in Seq(Datum) /\ Rest(c) \in Seq(Message)
         /\ Len(Chunk(c)) \in 0 .. Len(wire[c]) /\ Len(Chunk(c)) \in 0 .. BufMax
         /\ Chunk(c) = SubSeq(wire[c], 1, Len(Chunk(c)))
         /\ Available(c) => Len(Chunk(c)) > 0
<1>a. PICK w, n, m : w = wire[c] /\ n = Len(wire[c]) /\ m = Min({BufMax, Len(wire[c])})
  OBVIOUS
<1>1. w \in Seq(Message) /\ n = Len(w) /\ n \in Nat /\ BufMax \in Nat \ {0}
  BY <1>a, SocketsAssumption DEF KernelType
<1>2. m \in {BufMax, n} /\ m <= BufMax /\ m <= n
  BY <1>1, <1>a, LeastNumber
<1>3. m \in 0 .. n /\ m \in 0 .. BufMax /\ (w # <<>> => m > 0)
  BY <1>1, <1>2
<1>4. Chunk(c) = SubSeq(w, 1, m)
  BY <1>a DEF Chunk
<1>5. SubSeq(w, 1, m) \in Seq(Message) /\ Len(SubSeq(w, 1, m)) = m
  BY <1>1, <1>3
<1>6. SubSeq(w, 1, m) \in Seq(Datum)
  BY <1>5 DEF Datum
<1>7. SubSeq(w, m + 1, n) \in Seq(Message)
  <2>1. \A i \in m + 1 .. n : w[i] \in Message
    BY <1>1, <1>3
  <2>2. m + 1 \in Int /\ n \in Int
    BY <1>1, <1>3
  <2> QED
    BY <2>1, <2>2, SubSeqProperties
<1> QED
  BY <1>3, <1>4, <1>5, <1>6, <1>7, <1>a DEF Rest, Available

\* recv moves the first messages from the wire to the server.
LEMMA FlowTaken ==
  ASSUME KernelType, NEW c \in Client, Flow(c, <<>>)
  PROVE  PipeOf(c, got[c], IF design = "printing" THEN "fin" ELSE peer[c], Rest(c), sent[c], Chunk(c))
<1>a. PICK p, w, m : p = (IF design = "printing" THEN "fin" ELSE peer[c]) /\ w = wire[c] /\ m = Len(Chunk(c))
  OBVIOUS
<1>1. PipeOf(c, got[c], p, w, sent[c], <<>>) /\ m \in 0 .. Len(w)
  BY <1>a, ChunkIs DEF Flow
<1>2. PipeOf(c, got[c], p, SubSeq(w, m + 1, Len(w)), sent[c], SubSeq(w, 1, m))
  BY <1>1, PipeTaken
<1> QED
  BY <1>2, <1>a, ChunkIs DEF Rest

\* recv changes the wire of c only.
LEMMA TakeChunkIs ==
  ASSUME KernelType, NEW c \in Client, TakeChunk(c)
  PROVE  /\ wire' \in [Client -> Seq(Message)] /\ wire'[c] = Rest(c)
         /\ \A d \in Client \ {c} : wire'[d] = wire[d]
<1>1. wire' = [wire EXCEPT ![c] = Rest(c)]
  BY DEF TakeChunk, Rest
<1>2. Rest(c) \in Seq(Message)
  BY ChunkIs
<1> QED
  BY <1>1, <1>2 DEF KernelType

\* What send does to the client: it gets the answer, or its end is broken.
Sends(c, h) ==
  Deliver(c, h) \/ (SendFails(c) /\ UNCHANGED got) \/ (Broken(c) /\ UNCHANGED <<got, peer>>)

\* A send leaves every other client alone, and the sender connected.
LEMMA SendsIs ==
  ASSUME KernelType, NEW c \in Client, NEW h \in Seq(Datum), Sends(c, h)
  PROVE  /\ peer' \in [Client -> PeerState] /\ got' \in [Client -> Seq(Datum)]
         /\ peer[c] # "away" /\ peer'[c] # "away"
         /\ \A d \in Client \ {c} : peer'[d] = peer[d] /\ got'[d] = got[d]
         /\ \/ peer[c] = "open" /\ peer'[c] = "open" /\ got'[c] = got[c] \o h
            \/ peer'[c] # "open" /\ got'[c] = got[c]
<1>1. CASE Deliver(c, h)
  <2>1. CASE peer[c] = "open" /\ got' = [got EXCEPT ![c] = @ \o h] /\ UNCHANGED peer
    <3>1. got[c] \o h \in Seq(Datum)
      BY DEF KernelType
    <3> QED
      BY <2>1, <3>1 DEF KernelType
  <2>2. CASE peer[c] = "fin" /\ UNCHANGED got /\ \E p \in {"fin", "pipe"} : peer' = [peer EXCEPT ![c] = p]
    BY <2>2 DEF KernelType, PeerState
  <2> QED
    BY <1>1, <2>1, <2>2 DEF Deliver
<1>2. CASE SendFails(c) /\ UNCHANGED got
  BY <1>2 DEF SendFails, KernelType, PeerState
<1>3. CASE Broken(c) /\ UNCHANGED <<got, peer>>
  BY <1>3 DEF Broken, KernelType
<1> QED
  BY <1>1, <1>2, <1>3 DEF Sends

\* What was held has been sent, or the connection is not open any more.
LEMMA PipeSends ==
  ASSUME KernelType, NEW c \in Client, NEW h \in Seq(Datum), Sends(c, h),
         NEW w, NEW n, PipeOf(c, got[c], peer[c], w, n, h)
  PROVE  PipeOf(c, got'[c], peer'[c], w, n, <<>>)
<1>1. CASE peer[c] = "open" /\ peer'[c] = "open" /\ got'[c] = got[c] \o h
  BY <1>1, PipeDelivered
<1>2. CASE peer'[c] # "open" /\ got'[c] = got[c]
  BY <1>2, PipeClosed
<1> QED
  BY <1>1, <1>2, SendsIs

-----------------------------------------------------------------------------
(* The reactors.                                                           *)

KernelInv == KernelType /\ Placed /\ Fresh

\* The events that are left after one has been handled.
LEMMA ReadyShrinks ==
  ASSUME ReadyValid, ReadyOnce, NEW e \in ready, Done(e), NEW f, f = e.fd \/ owner[f] = NULL, NULL \notin Client,
         \A g \in Fd : g # f => owner'[g] = owner[g] /\ interest'[g] = interest[g]
  PROVE  ReadyValid' /\ ReadyOnce'
<1>1. ready' \subseteq ready /\ \A d \in ready' : d.fd # e.fd
  BY DEF Done, ReadyOnce
<1>2. ReadyOnce'
  BY <1>1 DEF ReadyOnce
<1>3. ASSUME NEW d \in ready'
      PROVE  \/ d.fd = ListenFd /\ d.ev = "IN"
             \/ d.fd \in Fd /\ d.who \in Client /\ d.who = owner'[d.fd] /\ d.ev = interest'[d.fd]
  <2>1. d \in ready /\ d.fd # e.fd
    BY <1>1
  <2>2. \/ d.fd = ListenFd /\ d.ev = "IN"
        \/ d.fd \in Fd /\ d.who \in Client /\ d.who = owner[d.fd] /\ d.ev = interest[d.fd]
    BY <2>1 DEF ReadyValid
  <2>3. CASE d.fd \in Fd /\ d.who \in Client /\ d.who = owner[d.fd] /\ d.ev = interest[d.fd]
    <3>1. d.fd # f
      BY <2>1, <2>3
    <3> QED
      BY <2>3, <3>1
  <2> QED
    BY <2>2, <2>3
<1> QED
  BY <1>2, <1>3 DEF ReadyValid

\* A wait reports the sockets as they are.
LEMMA WaitKeeps ==
  ASSUME KernelInv, ReactorInv, Wait
  PROVE  KernelInv' /\ ReactorInv'
<1>1. UNCHANGED <<kernel, interest, reply>>
  BY DEF Wait
<1>2. KernelInv'
  BY <1>1 DEF kernel, KernelInv, KernelType, Placed, Fresh
<1>3. ASSUME NEW e \in ready'
      PROVE  \/ e.fd = ListenFd /\ e.ev = "IN"
             \/ e.fd \in Fd /\ e.who \in Client /\ e.who = owner[e.fd] /\ e.ev = interest[e.fd]
  <2>1. CASE e \in {[fd |-> f, ev |-> interest[f], who |-> owner[f]] : f \in ReadyFds}
    <3>1. PICK f \in Fd : e = [fd |-> f, ev |-> interest[f], who |-> owner[f]] /\ interest[f] \in {"IN", "OUT"}
      BY <2>1 DEF ReadyFds
    <3>2. owner[f] \in Client
      BY <3>1 DEF ReactorInv, Watched, KernelInv, KernelType
    <3> QED
      BY <3>1, <3>2
  <2>2. CASE e = [fd |-> ListenFd, ev |-> "IN", who |-> NULL]
    BY <2>2
  <2> QED
    BY <2>1, <2>2 DEF Wait
<1>4. ASSUME NEW e \in ready', NEW d \in ready', e.fd = d.fd PROVE e = d
  <2>1. /\ e \in {[fd |-> f, ev |-> interest[f], who |-> owner[f]] : f \in Fd} \cup {[fd |-> ListenFd, ev |-> "IN", who |-> NULL]}
        /\ d \in {[fd |-> f, ev |-> interest[f], who |-> owner[f]] : f \in Fd} \cup {[fd |-> ListenFd, ev |-> "IN", who |-> NULL]}
    BY DEF Wait, ReadyFds
  <2>2. ListenFd \notin Fd
    BY DEF ListenFd, Fd
  <2> QED
    BY <1>4, <2>1, <2>2
<1>5. ReadyValid' /\ ReadyOnce'
  BY <1>1, <1>3, <1>4 DEF ReadyValid, ReadyOnce, kernel
<1>6. Watched' /\ AnswersAtOnce' /\ interest' \in [Fd -> {"NONE", "IN", "OUT"}] /\ reply' \in [Client -> Seq(Datum)]
  BY <1>1 DEF ReactorInv, Watched, AnswersAtOnce, kernel
<1>7. KeptFlows' /\ IdleFlows'
  BY <1>1 DEF ReactorInv, KeptFlows, IdleFlows, Flow, Kept, Accepted, kernel
<1> QED
  BY <1>2, <1>5, <1>6, <1>7 DEF ReactorInv

\* accept_cb gives a new client its slot, empty.
LEMMA AcceptCbKeeps ==
  ASSUME KernelInv, ReactorInv, design \in ReactorDesigns, NEW e \in ready, AcceptCb(e)
  PROVE  KernelInv' /\ ReactorInv'
<1>a. PICK c, f : c = Head(backlog) /\ f = Min(FreeFd)
  OBVIOUS
<1>1. Takes(c, f) /\ UNCHANGED <<design, limit, peer, wire, sent, got, alive>>
  BY <1>a, AcceptTakes DEF AcceptCb, KernelInv
<1>2. c \in Client /\ f \in Fd /\ owner[f] = NULL /\ NULL \notin Client
  BY <1>1, SocketsAssumption DEF Takes
<1>3. /\ KernelType' /\ Placed' /\ owner'[f] = c /\ (\A g \in Fd : g # f => owner'[g] = owner[g])
      /\ ~Accepted(c) /\ \A d \in Client : Accepted(d)' <=> Accepted(d) \/ d = c
  BY <1>1, TakenPlaces DEF KernelInv
<1>4. Fresh'
  BY <1>1 DEF KernelInv, Fresh
<1>5. interest' = [interest EXCEPT ![f] = "IN"] /\ reply' = [reply EXCEPT ![c] = <<>>] /\ Done(e)
  BY <1>a DEF AcceptCb, SetEvent
<1>6. interest' \in [Fd -> {"NONE", "IN", "OUT"}] /\ interest'[f] = "IN" /\ \A g \in Fd : g # f => interest'[g] = interest[g]
  BY <1>2, <1>5 DEF ReactorInv
<1>7. <<>> \in Seq(Datum)
  OBVIOUS
<1>8. reply' \in [Client -> Seq(Datum)] /\ \A d \in Client : d # c => reply'[d] = reply[d]
  BY <1>2, <1>5, <1>7 DEF ReactorInv
<1>9. Watched' /\ AnswersAtOnce'
  BY <1>1, <1>2, <1>3, <1>6 DEF ReactorInv, Watched, AnswersAtOnce
<1>10. ReadyValid' /\ ReadyOnce'
  BY <1>2, <1>3, <1>5, <1>6, ReadyShrinks DEF ReactorInv
<1>11. \A d, h : Flow(d, h) => FlowAfter(d, h)
  BY <1>1, FlowUntouched DEF Untouched
<1>12. ASSUME NEW g \in Fd, owner'[g] # NULL
       PROVE  FlowAfter(owner'[g], IF interest'[g] = "OUT" THEN reply'[owner'[g]] ELSE <<>>)
  <2>1. CASE g = f
    <3>1. Flow(c, <<>>)
      BY <1>2, <1>3 DEF ReactorInv, IdleFlows
    <3> QED
      BY <1>3, <1>6, <1>11, <2>1, <3>1
  <2>2. CASE g # f
    <3>1. owner'[g] = owner[g] /\ interest'[g] = interest[g] /\ owner[g] \in Client /\ owner[g] # c
      BY <1>3, <1>6, <1>12, <2>2 DEF KernelInv, KernelType, Accepted
    <3>2. Flow(owner[g], IF interest[g] = "OUT" THEN reply[owner[g]] ELSE <<>>)
      BY <1>12, <3>1 DEF ReactorInv, KeptFlows, Kept
    <3> QED
      BY <1>8, <1>11, <3>1, <3>2
  <2> QED
    BY <2>1, <2>2
<1>13. KeptFlows'
  BY <1>12 DEF KeptFlows, Kept, Flow, FlowAfter
<1>14. ASSUME NEW d \in Client, ~Accepted(d)' PROVE FlowAfter(d, <<>>)
  BY <1>3, <1>11, <1>14 DEF ReactorInv, IdleFlows
<1>15. IdleFlows'
  BY <1>14 DEF IdleFlows, Flow, FlowAfter
<1> QED
  BY <1>3, <1>4, <1>6, <1>8, <1>9, <1>10, <1>13, <1>15 DEF KernelInv, ReactorInv

\* A failed accept leaves the connections alone.
LEMMA AcceptFailsKeeps ==
  ASSUME KernelInv, ReactorInv, NEW e \in ready, AcceptFails(e) \/ AcceptUnchecked(e)
  PROVE  KernelInv' /\ ReactorInv'
<1>1. /\ UNCHANGED <<design, limit, peer, backlog, owner, wire, sent, got, interest, reply>> /\ alive' \in BOOLEAN
      /\ Done(e)
  BY DEF AcceptFails, AcceptUnchecked, kernel, KernelInv, KernelType
<1>2. KernelInv'
  BY <1>1 DEF KernelInv, KernelType, Placed, Fresh
<1>3. ReadyValid' /\ ReadyOnce'
  BY <1>1 DEF ReactorInv, ReadyValid, ReadyOnce, Done
<1>4. Watched' /\ AnswersAtOnce' /\ interest' \in [Fd -> {"NONE", "IN", "OUT"}] /\ reply' \in [Client -> Seq(Datum)]
  BY <1>1 DEF ReactorInv, Watched, AnswersAtOnce
<1>5. KeptFlows' /\ IdleFlows'
  BY <1>1 DEF ReactorInv, KeptFlows, IdleFlows, Flow, Kept, Accepted
<1> QED
  BY <1>2, <1>3, <1>4, <1>5 DEF ReactorInv

\* An event of a connection is about the socket as it is.
LEMMA EventIs ==
  ASSUME KernelInv, ReactorInv, NEW e \in ready, e.fd # ListenFd \/ e.ev = "OUT"
  PROVE  /\ e.fd \in Fd /\ e.who = owner[e.fd] /\ e.who \in Client /\ e.ev = interest[e.fd] /\ peer[e.who] # "away"
         /\ Accepted(e.who) /\ Flow(e.who, Kept(e.fd))
<1>1. e.fd \in Fd /\ e.who = owner[e.fd] /\ e.who \in Client /\ e.ev = interest[e.fd]
  BY DEF ReactorInv, ReadyValid
<1>2. e.who # NULL
  BY <1>1, SocketsAssumption
<1> QED
  BY <1>1, <1>2 DEF KernelInv, Placed, Accepted, ReactorInv, KeptFlows

\* An event of client c's descriptor f is handled, and its messages still flow.
LEMMA EventKeeps ==
  ASSUME KernelInv, ReactorInv, NEW e \in ready, Done(e), NEW c \in Client, NEW f \in Fd, f = e.fd, c = owner[f],
         KernelType', OnlyTouches(c), owner' = owner, backlog' = backlog,
         interest' \in [Fd -> {"NONE", "IN", "OUT"}], interest'[f] # "NONE",
         \A g \in Fd : g # f => interest'[g] = interest[g],
         reply' \in [Client -> Seq(Datum)], \A d \in Client : d # c => reply'[d] = reply[d],
         AnswersAtOnce', FlowAfter(c, IF interest'[f] = "OUT" THEN reply'[c] ELSE <<>>)
  PROVE  KernelInv' /\ ReactorInv'
<1>1. c # NULL /\ design' = design
  BY SocketsAssumption DEF OnlyTouches
<1>2. Fresh' /\ (\A d \in Client \ {c} : Untouched(d)) /\ SamePlace
  BY OthersUntouched DEF KernelInv
<1>3. Placed' /\ \A d \in Client : Accepted(d)' <=> Accepted(d)
  BY <1>2, SamePlaces DEF KernelInv
<1>4. Watched'
  BY <1>1 DEF ReactorInv, Watched
<1>5. ReadyValid' /\ ReadyOnce'
  BY ReadyShrinks, SocketsAssumption DEF ReactorInv
<1>6. \A d \in Client \ {c} : \A h : Flow(d, h) => FlowAfter(d, h)
  BY <1>1, <1>2, FlowUntouched
<1>7. ASSUME NEW g \in Fd, owner'[g] # NULL
      PROVE  FlowAfter(owner'[g], IF interest'[g] = "OUT" THEN reply'[owner'[g]] ELSE <<>>)
  <2>1. CASE g = f
    BY <2>1
  <2>2. CASE g # f
    <3>1. owner'[g] = owner[g] /\ interest'[g] = interest[g] /\ owner[g] \in Client \ {c}
      BY <1>7, <2>2 DEF KernelInv, KernelType, Placed
    <3>2. Flow(owner[g], IF interest[g] = "OUT" THEN reply[owner[g]] ELSE <<>>)
      BY <1>7, <3>1 DEF ReactorInv, KeptFlows, Kept
    <3> QED
      BY <1>6, <3>1, <3>2
  <2> QED
    BY <2>1, <2>2
<1>8. KeptFlows'
  BY <1>7 DEF KeptFlows, Kept, Flow, FlowAfter
<1>9. Accepted(c)
  BY DEF Accepted
<1>10. ASSUME NEW d \in Client, ~Accepted(d)' PROVE FlowAfter(d, <<>>)
  BY <1>3, <1>6, <1>9, <1>10 DEF ReactorInv, IdleFlows
<1>11. IdleFlows'
  BY <1>10 DEF IdleFlows, Flow, FlowAfter
<1> QED
  BY <1>2, <1>3, <1>4, <1>5, <1>8, <1>11 DEF KernelInv, ReactorInv

\* The loops of 00_networkio.c send back what they have received.
LEMMA RecvEchoesKeeps ==
  ASSUME KernelInv, ReactorInv, NEW e \in ready, RecvEchoes(e)
  PROVE  KernelInv' /\ ReactorInv'
<1>a. PICK c, f, h : c = e.who /\ f = e.fd /\ h = Chunk(c)
  OBVIOUS
<1>1. /\ f \in Fd /\ c = owner[f] /\ c \in Client /\ interest[f] = "IN" /\ peer[c] # "away" /\ Done(e) /\ Flow(c, <<>>)
      /\ design \in Direct /\ TakeChunk(c) /\ KernelType
  BY <1>a, EventIs DEF RecvEchoes, Recv, Kept, KernelInv
<1>2. Sends(c, h) /\ UNCHANGED <<design, limit, backlog, owner, sent, interest, reply>> /\ alive' \in BOOLEAN
  BY <1>a DEF RecvEchoes, Sends, Killed, KernelInv, KernelType
<1>3. h \in Seq(Datum)
  BY <1>1, <1>a, ChunkIs
<1>4. wire' \in [Client -> Seq(Message)] /\ wire'[c] = Rest(c) /\ \A d \in Client \ {c} : wire'[d] = wire[d]
  BY <1>1, TakeChunkIs
<1>5. /\ peer' \in [Client -> PeerState] /\ got' \in [Client -> Seq(Datum)] /\ peer'[c] # "away"
      /\ \A d \in Client \ {c} : peer'[d] = peer[d] /\ got'[d] = got[d]
  BY <1>1, <1>2, <1>3, SendsIs
<1>6. KernelType' /\ OnlyTouches(c)
  BY <1>1, <1>2, <1>4, <1>5 DEF KernelType, OnlyTouches
<1>7. design # "printing"
  BY <1>1 DEF Direct
<1>8. PipeOf(c, got[c], peer[c], Rest(c), sent[c], h)
  BY <1>1, <1>7, <1>a, FlowTaken
<1>9. PipeOf(c, got'[c], peer'[c], Rest(c), sent[c], <<>>)
  BY <1>1, <1>2, <1>3, <1>8, PipeSends
<1>10. FlowAfter(c, <<>>)
  BY <1>2, <1>4, <1>7, <1>9 DEF FlowAfter
<1>11. AnswersAtOnce' /\ interest' \in [Fd -> {"NONE", "IN", "OUT"}] /\ reply' \in [Client -> Seq(Datum)]
       /\ interest'[f] = "IN"
  BY <1>1, <1>2 DEF ReactorInv, AnswersAtOnce
<1> QED
  BY <1>1, <1>2, <1>6, <1>10, <1>11, <1>a, EventKeeps

\* recv_cb keeps the answer and waits until it can be sent.
LEMMA RecvCbKeeps ==
  ASSUME KernelInv, ReactorInv, NEW e \in ready, RecvCb(e)
  PROVE  KernelInv' /\ ReactorInv'
<1>a. PICK c, f, h : c = e.who /\ f = e.fd /\ h = Chunk(c)
  OBVIOUS
<1>1. /\ f \in Fd /\ c = owner[f] /\ c \in Client /\ interest[f] = "IN" /\ peer[c] # "away" /\ Done(e) /\ Flow(c, <<>>)
      /\ design \notin Direct \cup {"printing"} /\ TakeChunk(c) /\ KernelType
  BY <1>a, EventIs DEF RecvCb, Recv, Kept, KernelInv
<1>2. /\ UNCHANGED <<design, limit, peer, backlog, owner, sent, got, alive>>
      /\ reply' = [reply EXCEPT ![c] = h] /\ interest' = [interest EXCEPT ![f] = "OUT"]
  BY <1>a DEF RecvCb, SetEvent
<1>3. h \in Seq(Datum)
  BY <1>1, <1>a, ChunkIs
<1>4. wire' \in [Client -> Seq(Message)] /\ wire'[c] = Rest(c) /\ \A d \in Client \ {c} : wire'[d] = wire[d]
  BY <1>1, TakeChunkIs
<1>5. KernelType' /\ OnlyTouches(c)
  BY <1>1, <1>2, <1>4 DEF KernelType, OnlyTouches
<1>6. PipeOf(c, got[c], peer[c], Rest(c), sent[c], h)
  BY <1>1, <1>a, FlowTaken
<1>7. FlowAfter(c, h)
  BY <1>1, <1>2, <1>4, <1>6 DEF FlowAfter
<1>8. reply' \in [Client -> Seq(Datum)] /\ reply'[c] = h /\ \A d \in Client : d # c => reply'[d] = reply[d]
  BY <1>1, <1>2, <1>3 DEF ReactorInv
<1>9. /\ interest' \in [Fd -> {"NONE", "IN", "OUT"}] /\ interest'[f] = "OUT"
      /\ (\A g \in Fd : g # f => interest'[g] = interest[g]) /\ AnswersAtOnce'
  BY <1>1, <1>2 DEF ReactorInv, AnswersAtOnce
<1> QED
  BY <1>1, <1>2, <1>5, <1>7, <1>8, <1>9, <1>a, EventKeeps, ZenonT(60)

\* The servers of junior/08 and 09 drop what they have printed.
LEMMA RecvPrintsKeeps ==
  ASSUME KernelInv, ReactorInv, NEW e \in ready, RecvPrints(e)
  PROVE  KernelInv' /\ ReactorInv'
<1>a. PICK c, f : c = e.who /\ f = e.fd
  OBVIOUS
<1>1. /\ f \in Fd /\ c = owner[f] /\ c \in Client /\ interest[f] = "IN" /\ peer[c] # "away" /\ Done(e) /\ Flow(c, <<>>)
      /\ design = "printing" /\ TakeChunk(c) /\ KernelType
  BY <1>a, EventIs DEF RecvPrints, Recv, Kept, KernelInv
<1>2. UNCHANGED <<design, limit, peer, backlog, owner, sent, got, alive, interest, reply>>
  BY DEF RecvPrints
<1>3. wire' \in [Client -> Seq(Message)] /\ \A d \in Client \ {c} : wire'[d] = wire[d]
  BY <1>1, TakeChunkIs
<1>4. KernelType' /\ OnlyTouches(c)
  BY <1>1, <1>2, <1>3 DEF KernelType, OnlyTouches
<1>5. FlowAfter(c, <<>>)
  BY <1>1, <1>2 DEF Flow, FlowAfter, PipeOf
<1>6. AnswersAtOnce' /\ interest' \in [Fd -> {"NONE", "IN", "OUT"}] /\ reply' \in [Client -> Seq(Datum)]
      /\ interest'[f] = "IN"
  BY <1>1, <1>2 DEF ReactorInv, AnswersAtOnce
<1> QED
  BY <1>1, <1>2, <1>4, <1>5, <1>6, <1>a, EventKeeps

\* An error that nobody tests ends the process and nothing else.
LEMMA RecvFailsKeeps ==
  ASSUME KernelInv, ReactorInv, NEW e \in ready, RecvFails(e)
  PROVE  KernelInv' /\ ReactorInv'
<1>a. PICK c, f : c = e.who /\ f = e.fd
  OBVIOUS
<1>1. /\ f \in Fd /\ c = owner[f] /\ c \in Client /\ interest[f] = "IN" /\ peer[c] # "away" /\ Done(e) /\ Flow(c, <<>>)
  BY <1>a, EventIs DEF RecvFails, Recv, Kept, KernelInv
<1>2. UNCHANGED <<design, limit, peer, backlog, owner, wire, sent, got, interest, reply>> /\ alive' \in BOOLEAN
  BY DEF RecvFails, Killed
<1>3. KernelType' /\ OnlyTouches(c)
  BY <1>1, <1>2 DEF KernelType, OnlyTouches, KernelInv
<1>4. FlowAfter(c, <<>>)
  BY <1>1, <1>2, FlowUntouched DEF Untouched
<1>5. AnswersAtOnce' /\ interest' \in [Fd -> {"NONE", "IN", "OUT"}] /\ reply' \in [Client -> Seq(Datum)]
      /\ interest'[f] = "IN"
  BY <1>1, <1>2 DEF ReactorInv, AnswersAtOnce
<1> QED
  BY <1>1, <1>2, <1>3, <1>4, <1>5, <1>a, EventKeeps

\* send_cb sends the answer that recv_cb kept, and waits for input.
LEMMA SendCbKeeps ==
  ASSUME KernelInv, ReactorInv, NEW e \in ready, SendCb(e)
  PROVE  KernelInv' /\ ReactorInv'
<1>a. PICK c, f, h : c = e.who /\ f = e.fd /\ h = reply[c]
  OBVIOUS
<1>1. /\ f \in Fd /\ c = owner[f] /\ c \in Client /\ interest[f] = "OUT" /\ peer[c] # "away" /\ Done(e) /\ Flow(c, h)
      /\ h \in Seq(Datum) /\ KernelType
  BY <1>a, EventIs DEF SendCb, Kept, KernelInv, ReactorInv
<1>2. /\ Sends(c, h) /\ UNCHANGED <<design, limit, backlog, owner, wire, sent, reply>> /\ alive' \in BOOLEAN
      /\ interest' = [interest EXCEPT ![f] = "IN"]
  BY <1>a DEF SendCb, Sends, Killed, KernelInv, KernelType, SetEvent
<1>3. /\ peer' \in [Client -> PeerState] /\ got' \in [Client -> Seq(Datum)] /\ peer'[c] # "away"
      /\ \A d \in Client \ {c} : peer'[d] = peer[d] /\ got'[d] = got[d]
  BY <1>1, <1>2, SendsIs
<1>4. KernelType' /\ OnlyTouches(c)
  BY <1>1, <1>2, <1>3 DEF KernelType, OnlyTouches
<1>5. design # "printing"
  BY <1>1 DEF ReactorInv, AnswersAtOnce
<1>6. PipeOf(c, got[c], peer[c], wire[c], sent[c], h)
  BY <1>1, <1>5 DEF Flow
<1>7. PipeOf(c, got'[c], peer'[c], wire[c], sent[c], <<>>)
  BY <1>1, <1>2, <1>6, PipeSends
<1>8. FlowAfter(c, <<>>)
  BY <1>2, <1>5, <1>7 DEF FlowAfter
<1>9. /\ interest' \in [Fd -> {"NONE", "IN", "OUT"}] /\ interest'[f] = "IN" /\ reply' \in [Client -> Seq(Datum)]
      /\ (\A g \in Fd : g # f => interest'[g] = interest[g]) /\ AnswersAtOnce'
  BY <1>1, <1>2 DEF ReactorInv, AnswersAtOnce
<1> QED
  BY <1>1, <1>2, <1>4, <1>8, <1>9, <1>a, EventKeeps, ZenonT(60)

\* A connection that has ended is closed, no longer watched, and its slot empty.
LEMMA DropKeeps ==
  ASSUME KernelInv, ReactorInv, NEW e \in ready, e.fd # ListenFd, Done(e), Drop(e)
  PROVE  KernelInv' /\ ReactorInv'
<1>a. PICK c, f : c = e.who /\ f = e.fd
  OBVIOUS
<1>1. f \in Fd /\ c = owner[f] /\ c \in Client /\ peer[c] # "away" /\ Accepted(c) /\ c # NULL
  BY <1>a, EventIs, SocketsAssumption
<1>2. /\ Close(c) /\ interest' = [interest EXCEPT ![f] = "NONE"] /\ reply' = [reply EXCEPT ![c] = <<>>]
      /\ UNCHANGED <<design, limit, backlog, sent, got, alive>>
  BY <1>a DEF Drop, SetEvent
<1>3. FdOf(c) = f
  BY <1>1, DescriptorOf DEF KernelInv, Placed
<1>4. /\ KernelType' /\ Placed' /\ peer'[c] = "gone" /\ (\A d \in Client \ {c} : peer'[d] = peer[d] /\ wire'[d] = wire[d])
      /\ (\A d \in Client : Accepted(d)' <=> Accepted(d) /\ d # c)
      /\ owner'[f] = NULL /\ \A g \in Fd : g # f => owner'[g] = owner[g] /\ owner[g] # c
  BY <1>1, <1>2, <1>3, ClosedPlaces DEF KernelInv
<1>5. OnlyTouches(c)
  BY <1>1, <1>2, <1>4 DEF OnlyTouches
<1>6. Fresh' /\ \A d \in Client \ {c} : Untouched(d)
  BY <1>1, <1>5, OthersUntouched DEF KernelInv
<1>7. \A d \in Client \ {c} : \A h : Flow(d, h) => FlowAfter(d, h)
  BY <1>2, <1>6, FlowUntouched
<1>8. \A h : Flow(c, h) => FlowAfter(c, <<>>)
  BY <1>2, <1>4, FlowClosed
<1>9. interest' \in [Fd -> {"NONE", "IN", "OUT"}] /\ interest'[f] = "NONE" /\ \A g \in Fd : g # f => interest'[g] = interest[g]
  BY <1>1, <1>2 DEF ReactorInv
<1>10. <<>> \in Seq(Datum)
  OBVIOUS
<1>11. reply' \in [Client -> Seq(Datum)] /\ \A d \in Client : d # c => reply'[d] = reply[d]
  BY <1>1, <1>2, <1>10 DEF ReactorInv
<1>12. Watched' /\ AnswersAtOnce'
  BY <1>1, <1>2, <1>4, <1>9 DEF ReactorInv, Watched, AnswersAtOnce
<1>13. ReadyValid' /\ ReadyOnce'
  <2>1. \A g \in Fd : g # f => owner'[g] = owner[g] /\ interest'[g] = interest[g]
    BY <1>4, <1>9
  <2>2. f = e.fd /\ Done(e) /\ NULL \notin Client /\ ReadyValid /\ ReadyOnce
    BY <1>a, SocketsAssumption DEF ReactorInv
  <2> QED
    BY <2>1, <2>2, ReadyShrinks
<1>14. ASSUME NEW g \in Fd, owner'[g] # NULL
       PROVE  FlowAfter(owner'[g], IF interest'[g] = "OUT" THEN reply'[owner'[g]] ELSE <<>>)
  <2>1. g # f /\ owner'[g] = owner[g] /\ interest'[g] = interest[g] /\ owner[g] \in Client \ {c}
    BY <1>4, <1>9, <1>14 DEF KernelInv, KernelType
  <2>2. Flow(owner[g], IF interest[g] = "OUT" THEN reply[owner[g]] ELSE <<>>)
    BY <1>14, <2>1 DEF ReactorInv, KeptFlows, Kept
  <2> QED
    BY <1>7, <1>11, <2>1, <2>2
<1>15. KeptFlows'
  BY <1>14 DEF KeptFlows, Kept, Flow, FlowAfter
<1>16. ASSUME NEW d \in Client, ~Accepted(d)' PROVE FlowAfter(d, <<>>)
  <2>1. CASE d = c
    <3>1. Flow(c, Kept(f))
      BY <1>1 DEF ReactorInv, KeptFlows
    <3> QED
      BY <1>8, <2>1, <3>1
  <2>2. CASE d # c
    BY <1>4, <1>7, <1>16, <2>2 DEF ReactorInv, IdleFlows
  <2> QED
    BY <2>1, <2>2
<1>17. IdleFlows'
  BY <1>16 DEF IdleFlows, Flow, FlowAfter
<1> QED
  BY <1>4, <1>6, <1>9, <1>11, <1>12, <1>13, <1>15, <1>17 DEF KernelInv, ReactorInv

\* A step of a reactor.
LEMMA ReactorKeeps ==
  ASSUME KernelInv, ReactorInv, design \in ReactorDesigns, ReactorLoop
  PROVE  KernelInv' /\ ReactorInv'
<1>1. CASE Wait
  BY <1>1, WaitKeeps
<1>2. ASSUME NEW e \in ready,
             \/ AcceptCb(e) \/ AcceptFails(e) \/ AcceptUnchecked(e)
             \/ RecvEchoes(e) \/ RecvCb(e) \/ RecvPrints(e)
             \/ RecvEnds(e) \/ RecvError(e) \/ RecvFails(e) \/ SendCb(e)
      PROVE  KernelInv' /\ ReactorInv'
  <2>1. CASE RecvEnds(e) \/ RecvError(e)
    <3>1. e.fd # ListenFd /\ Done(e) /\ Drop(e)
      BY <2>1 DEF RecvEnds, RecvError, Recv
    <3> QED
      BY <3>1, DropKeeps
  <2> QED
    BY <1>2, <2>1, AcceptCbKeeps, AcceptFailsKeeps, RecvEchoesKeeps, RecvCbKeeps, RecvPrintsKeeps, RecvFailsKeeps, SendCbKeeps
<1> QED
  BY <1>1, <1>2 DEF ReactorLoop

-----------------------------------------------------------------------------
(* The coroutines and threads.                                             *)

\* A step of the flow created for c: the others are as they were.
CoStepOf(c) ==
  /\ design' = design
  /\ co' \in [Client -> CoState] /\ serves' \in [Client -> Client \cup {NULL}] /\ cell' \in Client \cup {NULL}
  /\ buf' \in [Client -> Seq(Datum)] /\ created' \in Seq(Client)
  /\ \A d \in Client : Waiting(d)' => Waiting(d)
  /\ ~Waiting(c)'
  /\ \A d \in Client \ {c} : co'[d] = co[d] /\ serves'[d] = serves[d] /\ buf'[d] = buf[d]
  /\ co'[c] \notin {"none", "new"} => serves'[c] # NULL
  /\ design = "thread" /\ co'[c] = "new" => cell' # NULL
  /\ cell' = cell \/ cell' = c
  /\ design # "mini" => created' = created

\* What remains to be shown of such a step: that it is c's messages it moves.
LEMMA CoStepKeeps ==
  ASSUME CoroutineInv, NEW c \in Client, CoStepOf(c), Created', OneRuns',
         \A d \in Client \ {c} : Own(d)' => Untouched(d),
         Own(c)' => Bound(c)' /\ FlowAfter(c, IF co'[c] = "write" THEN buf'[c] ELSE <<>>)
  PROVE  CoroutineInv'
<1>1. design' = design /\ \A d \in Client : Own(d)' => Own(d)
  BY OwnBefore DEF CoStepOf
<1>2. ASSUME NEW d \in Client, co'[d] # "none" PROVE ~Waiting(d)'
  BY <1>2 DEF CoStepOf, CoroutineInv
<1>3. ASSUME NEW d \in Client, co'[d] \notin {"none", "new"} PROVE serves'[d] # NULL
  BY <1>3 DEF CoStepOf, CoroutineInv
<1>4. ASSUME NEW d \in Client, design' = "thread", co'[d] = "new" PROVE cell' # NULL
  <2>1. CASE d = c
    BY <1>1, <1>4, <2>1 DEF CoStepOf
  <2>2. CASE d # c
    <3>1. cell # NULL
      BY <1>1, <1>4, <2>2 DEF CoStepOf, CoroutineInv
    <3> QED
      BY <3>1, SocketsAssumption DEF CoStepOf
  <2> QED
    BY <2>1, <2>2
<1>5. ASSUME NEW d \in Client, Own(d)' PROVE Bound(d)' /\ FlowAfter(d, IF co'[d] = "write" THEN buf'[d] ELSE <<>>)
  <2>1. CASE d = c
    BY <1>5, <2>1
  <2>2. CASE d # c
    <3>1. co'[d] = co[d] /\ serves'[d] = serves[d] /\ buf'[d] = buf[d] /\ Untouched(d)
      BY <1>5, <2>2 DEF CoStepOf
    <3>2. Bound(d) /\ Flow(d, IF co[d] = "write" THEN buf[d] ELSE <<>>)
      BY <1>1, <1>5 DEF CoroutineInv, InHand
    <3>3. ~Mixes'
      BY <1>5, <2>2 DEF Own, CoStepOf
    <3>4. design # "thread"
      BY <1>1, <3>3 DEF Mixes
    <3>5. Bound(d)'
      BY <1>1, <3>1, <3>2, <3>4 DEF Bound
    <3> QED
      BY <1>1, <3>1, <3>2, <3>5, FlowUntouched
  <2> QED
    BY <2>1, <2>2
<1>6. \A d \in Client : Own(d)' => Bound(d)' /\ Flow(d, InHand(d))'
  BY <1>5 DEF Flow, FlowAfter, InHand
<1>7. design' # "mini" => created' = <<>>
  BY DEF CoStepOf, CoroutineInv
<1>8. /\ co' \in [Client -> CoState] /\ serves' \in [Client -> Client \cup {NULL}] /\ cell' \in Client \cup {NULL}
      /\ buf' \in [Client -> Seq(Datum)] /\ created' \in Seq(Client)
  BY DEF CoStepOf
<1> QED
  BY <1>2, <1>3, <1>4, <1>6, <1>7, <1>8 DEF CoroutineInv

\* The flow of a client is not created before the client is accepted.
LEMMA NoFlowYet ==
  ASSUME CoroutineInv, NEW c \in Client, Waiting(c)
  PROVE  co[c] = "none" /\ (Own(c) => Flow(c, <<>>))
BY DEF CoroutineInv, InHand

\* accept in the coroutine of NtyCo.
LEMMA CoAcceptKeeps ==
  ASSUME KernelInv, CoroutineInv, CoAccept
  PROVE  KernelInv' /\ CoroutineInv'
<1>a. PICK c, f : c = Head(backlog) /\ f = Min(FreeFd)
  OBVIOUS
<1>1. /\ Takes(c, f) /\ UNCHANGED <<design, limit, peer, wire, sent, got, alive, cell, buf, created>> /\ design = "ntyco"
      /\ co' = [co EXCEPT ![c] = "read"] /\ serves' = [serves EXCEPT ![c] = c]
  BY <1>a, AcceptTakes DEF CoAccept, KernelInv
<1>2. c \in Client /\ c # NULL
  BY <1>1, SocketsAssumption DEF Takes
<1>3. /\ KernelType' /\ Placed' /\ Waiting(c) /\ ~Waiting(c)'
      /\ \A d \in Client : Waiting(d)' => Waiting(d)
  BY <1>1, TakenPlaces DEF KernelInv
<1>4. Fresh'
  BY <1>1 DEF KernelInv, Fresh
<1>5. /\ co' \in [Client -> CoState] /\ serves' \in [Client -> Client \cup {NULL}] /\ co'[c] = "read" /\ serves'[c] = c
      /\ \A d \in Client \ {c} : co'[d] = co[d] /\ serves'[d] = serves[d]
  BY <1>1, <1>2 DEF CoroutineInv, CoState
<1>6. CoStepOf(c)
  BY <1>1, <1>2, <1>3, <1>5 DEF CoStepOf, CoroutineInv
<1>7. Created' /\ OneRuns'
  BY <1>1, <1>5 DEF Created, OneRuns, CoroutineInv
<1>8. \A d \in Client : Untouched(d)
  BY <1>1 DEF Untouched
<1>9. ~Mixes
  BY <1>1 DEF Mixes, SharedBuffer
<1>10. Bound(c)' /\ Flow(c, <<>>)
  BY <1>1, <1>2, <1>3, <1>5, <1>9, NoFlowYet DEF Bound, Own
<1>11. FlowAfter(c, <<>>)
  BY <1>1, <1>2, <1>8, <1>10, FlowUntouched
<1>12. CoroutineInv'
  BY <1>2, <1>5, <1>6, <1>7, <1>8, <1>10, <1>11, CoStepKeeps
<1> QED
  BY <1>3, <1>4, <1>12 DEF KernelInv

\* accept in the loop that creates threads: the new thread finds its descriptor
\* in clientfd until the next accept.
LEMMA ThreadAcceptKeeps ==
  ASSUME KernelInv, CoroutineInv, ThreadAccept
  PROVE  KernelInv' /\ CoroutineInv'
<1>a. PICK c, f : c = Head(backlog) /\ f = Min(FreeFd)
  OBVIOUS
<1>1. /\ Takes(c, f) /\ UNCHANGED <<design, limit, peer, wire, sent, got, alive, serves, buf, created>> /\ design = "thread"
      /\ co' = [co EXCEPT ![c] = "new"] /\ cell' = c
  BY <1>a, AcceptTakes DEF ThreadAccept, KernelInv
<1>2. c \in Client /\ c # NULL
  BY <1>1, SocketsAssumption DEF Takes
<1>3. /\ KernelType' /\ Placed' /\ Waiting(c) /\ ~Waiting(c)'
      /\ \A d \in Client : Waiting(d)' => Waiting(d)
  BY <1>1, TakenPlaces DEF KernelInv
<1>4. Fresh'
  BY <1>1 DEF KernelInv, Fresh
<1>5. co' \in [Client -> CoState] /\ co'[c] = "new" /\ \A d \in Client \ {c} : co'[d] = co[d]
  BY <1>1, <1>2 DEF CoroutineInv, CoState
<1>6. CoStepOf(c)
  BY <1>1, <1>2, <1>3, <1>5 DEF CoStepOf, CoroutineInv
<1>7. Created' /\ OneRuns'
  BY <1>1, <1>5 DEF Created, OneRuns, CoroutineInv
<1>8. \A d \in Client : Untouched(d)
  BY <1>1 DEF Untouched
<1>9. Bound(c)'
  BY <1>1, <1>5 DEF Bound
<1>10. ASSUME Own(c)' PROVE FlowAfter(c, <<>>)
  <2>1. Own(c)
    BY <1>1, <1>2, <1>3, <1>10, OwnBefore
  <2> QED
    BY <1>1, <1>2, <1>3, <1>8, <2>1, NoFlowYet, FlowUntouched
<1>11. CoroutineInv'
  BY <1>2, <1>5, <1>6, <1>7, <1>8, <1>9, <1>10, CoStepKeeps
<1> QED
  BY <1>3, <1>4, <1>11 DEF KernelInv

\* The thread reads clientfd: its own descriptor unless another client has been
\* accepted meanwhile.
LEMMA ThreadStartsKeeps ==
  ASSUME KernelInv, CoroutineInv, NEW c \in Client, ThreadStarts(c)
  PROVE  KernelInv' /\ CoroutineInv'
<1>1. /\ UNCHANGED <<kernel, cell, buf, created>> /\ design = "thread" /\ co[c] = "new"
      /\ co' = [co EXCEPT ![c] = "read"] /\ serves' = [serves EXCEPT ![c] = cell]
  BY DEF ThreadStarts
<1>2. KernelInv' /\ design' = design /\ \A d \in Client : Waiting(d)' <=> Waiting(d)
  BY <1>1 DEF kernel, KernelInv, KernelType, Placed, Fresh, Waiting
<1>3. /\ co' \in [Client -> CoState] /\ serves' \in [Client -> Client \cup {NULL}] /\ co'[c] = "read" /\ serves'[c] = cell
      /\ \A d \in Client \ {c} : co'[d] = co[d] /\ serves'[d] = serves[d]
  BY <1>1 DEF CoroutineInv, CoState
<1>4. cell # NULL /\ ~Waiting(c)'
  BY <1>1, <1>2 DEF CoroutineInv
<1>5. CoStepOf(c)
  BY <1>1, <1>2, <1>3, <1>4 DEF CoStepOf, CoroutineInv
<1>6. Created' /\ OneRuns'
  BY <1>1, <1>2, <1>3 DEF Created, OneRuns, CoroutineInv
<1>7. \A d \in Client : Untouched(d)
  BY <1>1 DEF Untouched, kernel
<1>8. ASSUME Own(c)' PROVE Bound(c)' /\ FlowAfter(c, <<>>)
  <2>1. Own(c)
    BY <1>2, <1>8, OwnBefore
  <2>2. Bound(c) /\ Flow(c, <<>>)
    BY <1>1, <2>1 DEF CoroutineInv, InHand
  <2> QED
    BY <1>1, <1>2, <1>3, <1>7, <2>2, FlowUntouched DEF Bound
<1> QED
  BY <1>2, <1>3, <1>5, <1>6, <1>7, <1>8, CoStepKeeps

\* The connection of a flow that runs: its own, where clients are not mixed up.
LEMMA BodyIs ==
  ASSUME KernelInv, CoroutineInv, NEW c \in Client, co[c] \in {"read", "write"}, Open(c)
  PROVE  /\ serves[c] \in Client /\ Accepted(serves[c]) /\ peer[serves[c]] # "away" /\ ~Waiting(c)
         /\ \A d \in Client : Own(d) => serves[c] = c /\ Flow(c, InHand(c)) /\ Own(c)
<1>1. serves[c] \in Client /\ Accepted(serves[c]) /\ ~Waiting(c)
  BY DEF CoroutineInv, Open, Sock
<1>2. peer[serves[c]] # "away"
  BY <1>1, AcceptedIsPlaced DEF KernelInv, Waiting
<1>3. ASSUME NEW d \in Client, Own(d) PROVE Own(c)
  BY <1>1, <1>3 DEF Own
<1>4. Own(c) => serves[c] = c /\ Flow(c, InHand(c))
  BY DEF CoroutineInv, Bound
<1> QED
  BY <1>1, <1>2, <1>3, <1>4

\* A step of a flow that runs touches its own connection.
LEMMA BodyKeeps ==
  ASSUME KernelInv, CoroutineInv, NEW c \in Client, co[c] \in {"read", "write"}, Open(c),
         KernelType', Placed', OnlyTouches(serves[c]), \A d \in Client : Waiting(d)' => Waiting(d),
         UNCHANGED <<serves, cell, created>>, buf' \in [Client -> Seq(Datum)], co' \in [Client -> CoState],
         co'[c] \notin {"none", "new"}, \A d \in Client \ {c} : co'[d] = co[d] /\ buf'[d] = buf[d],
         OneRuns',
         serves[c] = c /\ Flow(c, InHand(c)) => FlowAfter(c, IF co'[c] = "write" THEN buf'[c] ELSE <<>>)
  PROVE  KernelInv' /\ CoroutineInv'
<1>1. /\ serves[c] \in Client /\ serves[c] # NULL /\ ~Waiting(c) /\ design' = design
      /\ \A d \in Client : Own(d) => serves[c] = c /\ Flow(c, InHand(c)) /\ Own(c)
  BY BodyIs, SocketsAssumption DEF OnlyTouches
<1>2. Fresh' /\ \A d \in Client \ {serves[c]} : Untouched(d)
  BY <1>1, OthersUntouched DEF KernelInv
<1>3. \A d \in Client : Own(d)' => Own(d)
  BY <1>1, OwnBefore
<1>4. design = "thread" /\ co'[c] = "new" => cell # NULL
  OBVIOUS
<1>5. CoStepOf(c)
  BY <1>1, <1>4 DEF CoStepOf, CoroutineInv
<1>6. Created'
  BY DEF Created, CoroutineInv
<1>7. \A d \in Client \ {c} : Own(d)' => Untouched(d)
  BY <1>1, <1>2, <1>3
<1>8. ASSUME Own(c)' PROVE Bound(c)' /\ FlowAfter(c, IF co'[c] = "write" THEN buf'[c] ELSE <<>>)
  <2>1. serves[c] = c /\ Flow(c, InHand(c))
    BY <1>1, <1>3, <1>8
  <2> QED
    BY <2>1 DEF Bound
<1>9. CoroutineInv'
  BY <1>5, <1>6, <1>7, <1>8, CoStepKeeps
<1> QED
  BY <1>2, <1>9 DEF KernelInv

\* The flow receives.
LEMMA BodyRecvKeeps ==
  ASSUME KernelInv, CoroutineInv, design \in CoroutineDesigns, NEW c \in Client, BodyRecv(c)
  PROVE  KernelInv' /\ CoroutineInv'
<1>a. PICK s, h : s = serves[c] /\ h = Chunk(s)
  OBVIOUS
<1>1. /\ co[c] = "read" /\ Runs(c) /\ Open(c) /\ TakeChunk(s)
      /\ buf' = [buf EXCEPT ![c] = h] /\ co' = [co EXCEPT ![c] = "write"]
      /\ UNCHANGED <<design, limit, peer, backlog, owner, sent, got, alive, serves, cell, created, cur>>
  BY <1>a DEF BodyRecv, Sock
<1>2. s \in Client /\ peer[s] # "away" /\ KernelType /\ Placed
  BY <1>1, <1>a, BodyIs DEF KernelInv
<1>3. h \in Seq(Datum)
  BY <1>2, <1>a, ChunkIs
<1>4. wire' \in [Client -> Seq(Message)] /\ wire'[s] = Rest(s) /\ \A d \in Client \ {s} : wire'[d] = wire[d]
  BY <1>1, <1>2, TakeChunkIs
<1>5. KernelType' /\ OnlyTouches(s)
  BY <1>1, <1>2, <1>4 DEF KernelType, OnlyTouches
<1>6. Placed' /\ \A d \in Client : Waiting(d)' => Waiting(d)
  BY <1>1, <1>2, SamePlaces DEF SamePlace
<1>7. buf' \in [Client -> Seq(Datum)] /\ co' \in [Client -> CoState] /\ co'[c] = "write" /\ buf'[c] = h
      /\ \A d \in Client \ {c} : co'[d] = co[d] /\ buf'[d] = buf[d]
  BY <1>1, <1>3 DEF CoroutineInv, CoState
<1>8. OneRuns'
  BY <1>1, <1>7 DEF OneRuns, CoroutineInv, Runs
<1>9. design # "printing"
  BY DEF CoroutineDesigns
<1>10. ASSUME s = c, Flow(c, InHand(c)) PROVE FlowAfter(c, h)
  <2>1. Flow(c, <<>>)
    BY <1>1, <1>10 DEF InHand
  <2>2. PipeOf(c, got[c], peer[c], Rest(c), sent[c], h)
    BY <1>2, <1>9, <1>10, <1>a, <2>1, FlowTaken
  <2> QED
    BY <1>1, <1>4, <1>9, <1>10, <2>2 DEF FlowAfter
<1> QED
  BY <1>1, <1>5, <1>6, <1>7, <1>8, <1>10, <1>a, BodyKeeps

\* The flow sends what it has received.
LEMMA BodySendKeeps ==
  ASSUME KernelInv, CoroutineInv, design \in CoroutineDesigns, NEW c \in Client, BodySend(c)
  PROVE  KernelInv' /\ CoroutineInv'
<1>a. PICK s, h : s = serves[c] /\ h = buf[c]
  OBVIOUS
<1>1. /\ co[c] = "write" /\ Runs(c) /\ Open(c) /\ Sends(s, h)
      /\ co' = [co EXCEPT ![c] = "read"] /\ alive' \in BOOLEAN
      /\ UNCHANGED <<design, limit, backlog, owner, wire, sent, serves, cell, buf, created, cur>>
  BY <1>a DEF BodySend, Sock, Sends, Killed, KernelInv, KernelType
<1>2. s \in Client /\ peer[s] # "away" /\ KernelType /\ Placed /\ h \in Seq(Datum)
  BY <1>1, <1>a, BodyIs DEF KernelInv, CoroutineInv
<1>3. /\ peer' \in [Client -> PeerState] /\ got' \in [Client -> Seq(Datum)] /\ peer'[s] # "away"
      /\ \A d \in Client \ {s} : peer'[d] = peer[d] /\ got'[d] = got[d]
  BY <1>1, <1>2, SendsIs
<1>4. KernelType' /\ OnlyTouches(s)
  BY <1>1, <1>2, <1>3 DEF KernelType, OnlyTouches
<1>5. SamePlace
  BY <1>1, <1>2, <1>4, OthersUntouched
<1>6. Placed' /\ \A d \in Client : Waiting(d)' => Waiting(d)
  BY <1>2, <1>5, SamePlaces
<1>7. buf' \in [Client -> Seq(Datum)] /\ co' \in [Client -> CoState] /\ co'[c] = "read"
      /\ \A d \in Client \ {c} : co'[d] = co[d] /\ buf'[d] = buf[d]
  BY <1>1 DEF CoroutineInv, CoState
<1>8. OneRuns'
  BY <1>1, <1>7 DEF OneRuns, CoroutineInv
<1>9. design # "printing"
  BY DEF CoroutineDesigns
<1>10. ASSUME s = c, Flow(c, InHand(c)) PROVE FlowAfter(c, <<>>)
  <2>1. PipeOf(c, got[c], peer[c], wire[c], sent[c], h)
    BY <1>1, <1>9, <1>10, <1>a DEF InHand, Flow
  <2>2. PipeOf(c, got'[c], peer'[c], wire[c], sent[c], <<>>)
    BY <1>1, <1>2, <1>10, <2>1, PipeSends
  <2> QED
    BY <1>1, <1>9, <2>2 DEF FlowAfter
<1> QED
  BY <1>1, <1>4, <1>6, <1>7, <1>8, <1>10, <1>a, BodyKeeps

\* The flow closes its connection and returns.
LEMMA BodyEndsKeeps ==
  ASSUME KernelInv, CoroutineInv, NEW c \in Client, BodyEnds(c)
  PROVE  KernelInv' /\ CoroutineInv'
<1>a. PICK s : s = serves[c]
  OBVIOUS
<1>1. /\ co[c] \in {"read", "write"} /\ Runs(c) /\ Open(c) /\ Close(s)
      /\ co' = [co EXCEPT ![c] = "dead"] /\ UNCHANGED <<design, limit, backlog, sent, got, alive, serves, cell, buf, created>>
  BY <1>a DEF BodyEnds, Sock
<1>2. s \in Client /\ peer[s] # "away" /\ KernelType /\ Placed /\ Accepted(s)
  BY <1>1, <1>a, BodyIs DEF KernelInv
<1>3. /\ KernelType' /\ Placed' /\ peer'[s] = "gone"
      /\ (\A d \in Client \ {s} : peer'[d] = peer[d] /\ wire'[d] = wire[d])
      /\ \A d \in Client : Waiting(d)' => Waiting(d)
  BY <1>1, <1>2, ClosedPlaces
<1>4. OnlyTouches(s)
  BY <1>1, <1>2, <1>3 DEF OnlyTouches
<1>5. buf' \in [Client -> Seq(Datum)] /\ co' \in [Client -> CoState] /\ co'[c] = "dead"
      /\ \A d \in Client \ {c} : co'[d] = co[d] /\ buf'[d] = buf[d]
  BY <1>1 DEF CoroutineInv, CoState
<1>6. OneRuns'
  BY <1>1, <1>5 DEF OneRuns, CoroutineInv, Runs
<1>7. ASSUME s = c, Flow(c, InHand(c)) PROVE FlowAfter(c, <<>>)
  BY <1>1, <1>3, <1>7, FlowClosed
<1> QED
  BY <1>1, <1>3, <1>4, <1>5, <1>6, <1>7, <1>a, BodyKeeps

\* The flow gets an error from recv.
LEMMA BodyFailsKeeps ==
  ASSUME KernelInv, CoroutineInv, NEW c \in Client, BodyFails(c)
  PROVE  KernelInv' /\ CoroutineInv'
<1>a. PICK s : s = serves[c]
  OBVIOUS
<1>1. /\ co[c] = "read" /\ Open(c) /\ peer[s] = "reset" /\ alive' \in BOOLEAN
      /\ peer' = [peer EXCEPT ![s] = "dead"] \/ peer' = peer
      /\ UNCHANGED <<design, limit, backlog, owner, wire, sent, got, co, serves, cell, buf, created, cur>>
  BY <1>a DEF BodyFails, Sock, Failed, Killed, KernelInv, KernelType, coroutineVars
<1>2. s \in Client /\ peer[s] # "away" /\ KernelType /\ Placed /\ Accepted(s)
  BY <1>1, <1>a, BodyIs DEF KernelInv
<1>3. peer' \in [Client -> PeerState] /\ peer'[s] \notin {"open", "away"} /\ \A d \in Client \ {s} : peer'[d] = peer[d]
  BY <1>1, <1>2 DEF KernelType, PeerState
<1>4. KernelType' /\ OnlyTouches(s)
  BY <1>1, <1>2, <1>3 DEF KernelType, OnlyTouches
<1>5. SamePlace
  BY <1>1, <1>2, <1>4, OthersUntouched
<1>6. Placed' /\ \A d \in Client : Waiting(d)' => Waiting(d)
  BY <1>2, <1>5, SamePlaces
<1>7. buf' \in [Client -> Seq(Datum)] /\ co' \in [Client -> CoState] /\ co'[c] = "read"
      /\ \A d \in Client \ {c} : co'[d] = co[d] /\ buf'[d] = buf[d]
  BY <1>1 DEF CoroutineInv, CoState
<1>8. OneRuns'
  BY <1>1, <1>7 DEF OneRuns, CoroutineInv
<1>9. ASSUME s = c, Flow(c, InHand(c)) PROVE FlowAfter(c, <<>>)
  BY <1>1, <1>3, <1>9, FlowClosed
<1> QED
  BY <1>1, <1>4, <1>6, <1>7, <1>8, <1>9, <1>a, BodyKeeps

\* Steps that move a flow of control and no message.
LEMMA SchedulerKeeps ==
  ASSUME KernelInv, CoroutineInv, NEW c \in Client, UNCHANGED <<kernel, serves, cell, buf, created>>,
         co[c] # "none", co[c] # "write", co' \in [Client -> CoState], co'[c] \notin {"none", "new", "write"},
         \A d \in Client \ {c} : co'[d] = co[d], OneRuns', design = "mini"
  PROVE  KernelInv' /\ CoroutineInv'
<1>1. KernelInv' /\ design' = design /\ \A d \in Client : Waiting(d)' <=> Waiting(d)
  BY DEF kernel, KernelInv, KernelType, Placed, Fresh, Waiting
<1>2. Own(c) /\ ~Waiting(c)
  BY DEF Own, Mixes, SharedBuffer, CoroutineInv
<1>3. serves[c] = c /\ c # NULL /\ Flow(c, <<>>)
  BY <1>2, SocketsAssumption DEF CoroutineInv, Bound, InHand
<1>4. CoStepOf(c)
  BY <1>1, <1>2, <1>3 DEF CoStepOf, CoroutineInv
<1>5. Created'
  BY DEF Created, CoroutineInv
<1>6. \A d \in Client : Untouched(d)
  BY DEF Untouched, kernel
<1>7. Bound(c)' /\ FlowAfter(c, <<>>)
  BY <1>1, <1>3, <1>6, FlowUntouched DEF Bound
<1> QED
  BY <1>1, <1>4, <1>5, <1>6, <1>7, CoStepKeeps

\* Nothing moves but the scheduler's own variables.
LEMMA CoIdle ==
  ASSUME KernelInv, CoroutineInv, UNCHANGED <<kernel, co, serves, cell, buf, created, cur>>
  PROVE  KernelInv' /\ CoroutineInv'
<1>1. KernelInv' /\ design' = design /\ \A d \in Client : (Waiting(d)' <=> Waiting(d)) /\ (Own(d)' <=> Own(d))
  BY DEF kernel, KernelInv, KernelType, Placed, Fresh, Waiting, Own, Mixes
<1>2. \A d \in Client : Bound(d)' <=> Bound(d)
  BY DEF Bound, kernel
<1>3. \A d \in Client : Flow(d, InHand(d))' <=> Flow(d, InHand(d))
  BY DEF Flow, InHand, kernel
<1>4. Created' /\ OneRuns'
  BY DEF Created, OneRuns, CoroutineInv, kernel
<1> QED
  BY <1>1, <1>2, <1>3, <1>4 DEF CoroutineInv, kernel

\* A new coroutine of mini_ntyco.c.
LEMMA MiniAcceptKeeps ==
  ASSUME KernelInv, CoroutineInv, MiniAccept
  PROVE  KernelInv' /\ CoroutineInv'
<1>1. CASE Accept /\ co' = [co EXCEPT ![Head(backlog)] = "new"]
           /\ serves' = [serves EXCEPT ![Head(backlog)] = Head(backlog)]
           /\ created' = Append(created, Head(backlog))
  <2>a. PICK c, f : c = Head(backlog) /\ f = Min(FreeFd)
    OBVIOUS
  <2>1. /\ Takes(c, f) /\ UNCHANGED <<design, limit, peer, wire, sent, got, alive, cell, buf, cur>> /\ design = "mini"
        /\ co' = [co EXCEPT ![c] = "new"] /\ serves' = [serves EXCEPT ![c] = c] /\ created' = Append(created, c)
    BY <1>1, <2>a, AcceptTakes DEF MiniAccept, KernelInv
  <2>2. c \in Client /\ c # NULL
    BY <2>1, SocketsAssumption DEF Takes
  <2>3. /\ KernelType' /\ Placed' /\ Waiting(c) /\ ~Waiting(c)'
        /\ \A d \in Client : Waiting(d)' => Waiting(d)
    BY <2>1, TakenPlaces DEF KernelInv
  <2>4. Fresh'
    BY <2>1 DEF KernelInv, Fresh
  <2>5. /\ co' \in [Client -> CoState] /\ serves' \in [Client -> Client \cup {NULL}] /\ co'[c] = "new" /\ serves'[c] = c
        /\ \A d \in Client \ {c} : co'[d] = co[d] /\ serves'[d] = serves[d]
    BY <2>1, <2>2 DEF CoroutineInv, CoState
  <2>6. /\ created' \in Seq(Client)
        /\ \A i \in 1 .. Len(created') : created'[i] = c \/ (i \in 1 .. Len(created) /\ created'[i] = created[i])
    BY <2>1, <2>2 DEF CoroutineInv
  <2>7. CoStepOf(c)
    BY <2>1, <2>2, <2>3, <2>5, <2>6 DEF CoStepOf, CoroutineInv
  <2>8. Created'
    <3>1. \A i \in 1 .. Len(created) : created[i] \in Client /\ co[created[i]] # "none"
      BY DEF CoroutineInv, Created
    <3> QED
      BY <2>5, <2>6, <3>1 DEF Created
  <2>9. OneRuns'
    BY <2>1, <2>5 DEF OneRuns, CoroutineInv
  <2>10. \A d \in Client : Untouched(d)
    BY <2>1 DEF Untouched
  <2>11. ~Mixes
    BY <2>1 DEF Mixes, SharedBuffer
  <2>12. Bound(c)' /\ Flow(c, <<>>)
    BY <2>1, <2>2, <2>3, <2>5, <2>11, NoFlowYet DEF Bound, Own
  <2>13. FlowAfter(c, <<>>)
    BY <2>1, <2>2, <2>10, <2>12, FlowUntouched
  <2>14. CoroutineInv'
    BY <2>2, <2>5, <2>7, <2>8, <2>9, <2>10, <2>12, <2>13, CoStepKeeps
  <2> QED
    BY <2>3, <2>4, <2>14 DEF KernelInv
<1>2. CASE UNCHANGED <<owner, backlog, co, serves, created>>
  <2>1. UNCHANGED <<kernel, co, serves, cell, buf, created, cur>>
    BY <1>2 DEF MiniAccept, kernel
  <2> QED
    BY <2>1, CoIdle
<1> QED
  BY <1>1, <1>2 DEF MiniAccept

\* The coroutine that waits for a descriptor is resumed.
LEMMA MiniWakeKeeps ==
  ASSUME KernelInv, CoroutineInv, NEW c \in Client, MiniWake(c)
  PROVE  KernelInv' /\ CoroutineInv'
<1>1. CASE co[c] = "wait"
  <2>1. /\ design = "mini" /\ cur = NULL /\ cur' = c /\ co' = [co EXCEPT ![c] = "read"]
        /\ UNCHANGED <<kernel, serves, cell, buf, created>>
    BY <1>1 DEF MiniWake
  <2>2. co' \in [Client -> CoState] /\ co'[c] = "read" /\ \A d \in Client \ {c} : co'[d] = co[d]
    BY <2>1 DEF CoroutineInv, CoState
  <2>3. OneRuns'
    BY <2>1, <2>2, SocketsAssumption DEF OneRuns, CoroutineInv
  <2> QED
    BY <1>1, <2>1, <2>2, <2>3, SchedulerKeeps
<1>2. CASE co[c] # "wait"
  <2>1. UNCHANGED <<kernel, co, serves, cell, buf, created, cur>>
    BY <1>2 DEF MiniWake
  <2> QED
    BY <2>1, CoIdle
<1> QED
  BY <1>1, <1>2

\* The coroutine yields.
LEMMA MiniYieldKeeps ==
  ASSUME KernelInv, CoroutineInv, NEW c \in Client, MiniYield(c)
  PROVE  KernelInv' /\ CoroutineInv'
<1>1. /\ design = "mini" /\ cur = c /\ co[c] = "read" /\ co' = [co EXCEPT ![c] = "wait"]
      /\ UNCHANGED <<kernel, serves, cell, buf, created>>
  BY DEF MiniYield
<1>2. co' \in [Client -> CoState] /\ co'[c] = "wait" /\ \A d \in Client \ {c} : co'[d] = co[d]
  BY <1>1 DEF CoroutineInv, CoState
<1>3. OneRuns'
  BY <1>1, <1>2 DEF OneRuns, CoroutineInv
<1> QED
  BY <1>1, <1>2, <1>3, SchedulerKeeps

\* The first coroutine that is not dead is resumed: it holds no message, since
\* none runs.
LEMMA MiniResumeKeeps ==
  ASSUME KernelInv, CoroutineInv, MiniResume
  PROVE  KernelInv' /\ CoroutineInv'
<1>1. CASE Living # {}
  <2>a. PICK c : c = First
    OBVIOUS
  <2>1. /\ design = "mini" /\ cur = NULL /\ cur' = c /\ co' = [co EXCEPT ![c] = "read"]
        /\ UNCHANGED <<kernel, serves, cell, buf, created>>
    BY <1>1, <2>a DEF MiniResume
  <2>2. Living \subseteq Nat
    BY DEF Living, CoroutineInv
  <2>3. Min(Living) \in Living
    BY <1>1, <2>2, LeastNumber
  <2>4. Min(Living) \in 1 .. Len(created) /\ c \in Client
    BY <2>3, <2>a DEF Living, First, CoroutineInv
  <2>5. co[c] # "none"
    BY <2>4, <2>a DEF First, CoroutineInv, Created
  <2>6. co' \in [Client -> CoState] /\ co'[c] = "read" /\ \A d \in Client \ {c} : co'[d] = co[d]
    BY <2>1, <2>4 DEF CoroutineInv, CoState
  <2>7. OneRuns' /\ co[c] # "write"
    BY <2>1, <2>4, <2>6, SocketsAssumption DEF OneRuns, CoroutineInv
  <2> QED
    BY <2>1, <2>4, <2>5, <2>6, <2>7, SchedulerKeeps
<1>2. CASE Living = {}
  <2>1. UNCHANGED <<kernel, co, serves, cell, buf, created, cur>>
    BY <1>2 DEF MiniResume
  <2> QED
    BY <2>1, CoIdle
<1> QED
  BY <1>1, <1>2

\* What the kernel and the clients do leaves the flows of control alone.
LEMMA CoUntouched ==
  ASSUME CoroutineInv, UNCHANGED <<design, co, serves, cell, buf, created, cur>>,
         \A d \in Client : Waiting(d)' => Waiting(d),
         \A d \in Client : \A h : Flow(d, h) /\ (peer[d] = "away" => h = <<>>) => FlowAfter(d, h)
  PROVE  CoroutineInv'
<1>1. \A d \in Client : Own(d)' => Own(d)
  BY OwnBefore
<1>2. ASSUME NEW d \in Client, Own(d)' PROVE Bound(d)' /\ FlowAfter(d, IF co[d] = "write" THEN buf[d] ELSE <<>>)
  <2>1. Bound(d) /\ Flow(d, IF co[d] = "write" THEN buf[d] ELSE <<>>)
    BY <1>1, <1>2 DEF CoroutineInv, InHand
  <2>2. peer[d] = "away" => co[d] # "write"
    BY DEF CoroutineInv, Waiting
  <2>3. FlowAfter(d, IF co[d] = "write" THEN buf[d] ELSE <<>>)
    BY <2>1, <2>2
  <2> QED
    BY <2>1, <2>3 DEF Bound
<1>3. \A d \in Client : Own(d)' => Bound(d)' /\ Flow(d, InHand(d))'
  BY <1>2 DEF Flow, FlowAfter, InHand
<1>4. Created' /\ OneRuns'
  BY DEF Created, OneRuns, CoroutineInv
<1> QED
  BY <1>3, <1>4 DEF CoroutineInv

\* A client that cannot be served is turned away.
LEMMA TurnedAwayKeeps ==
  ASSUME KernelInv, CoroutineInv, CoAcceptNoMemory
  PROVE  KernelInv' /\ CoroutineInv'
<1>a. PICK c : c = Head(backlog)
  OBVIOUS
<1>1. /\ backlog # <<>> /\ backlog' = Tail(backlog) /\ peer' = [peer EXCEPT ![c] = "gone"]
      /\ wire' = [wire EXCEPT ![c] = <<>>] /\ UNCHANGED <<design, limit, owner, sent, got, alive>>
      /\ UNCHANGED <<co, serves, cell, buf, created, cur>> /\ KernelType /\ Placed /\ Fresh
  BY <1>a DEF CoAcceptNoMemory, CanAccept, coroutineVars, KernelInv
<1>2. /\ backlog' \in Seq(Client) /\ Len(backlog') = Len(backlog) - 1 /\ Len(backlog) \in Nat \ {0}
      /\ c \in Client /\ c = backlog[1]
      /\ \A i \in 1 .. Len(backlog') : i + 1 \in 1 .. Len(backlog) /\ backlog'[i] = backlog[i + 1]
      /\ \A i \in 1 .. Len(backlog') : backlog'[i] # c
  BY <1>1, <1>a, TailIs
<1>b. <<>> \in Seq(Message) /\ "gone" \in PeerState /\ 1 \in 1 .. Len(backlog)
  BY <1>2 DEF PeerState
<1>3. /\ peer' \in [Client -> PeerState] /\ wire' \in [Client -> Seq(Message)] /\ peer'[c] = "gone"
      /\ \A d \in Client \ {c} : peer'[d] = peer[d] /\ wire'[d] = wire[d]
  BY <1>1, <1>2, <1>b DEF KernelType
<1>4. KernelType'
  BY <1>1, <1>2, <1>3 DEF KernelType
<1>5. peer[c] # "away" /\ OnlyTouches(c) /\ \A f \in Fd : owner[f] # c
  BY <1>1, <1>2, <1>3, <1>b DEF OnlyTouches, Placed
<1>6. Fresh' /\ \A d \in Client \ {c} : Untouched(d)
  BY <1>1, <1>2, <1>5, OthersUntouched
<1>7. Placed'
  <2>1. \A g, h \in Fd : owner'[g] # NULL /\ owner'[g] = owner'[h] => g = h
    BY <1>1 DEF Placed
  <2>2. ASSUME NEW i \in 1 .. Len(backlog'), NEW j \in 1 .. Len(backlog'), backlog'[i] = backlog'[j] PROVE i = j
    <3>1. i + 1 = j + 1
      BY <1>1, <1>2, <2>2 DEF Placed
    <3> QED
      BY <3>1, <1>2
  <2>3. ASSUME NEW i \in 1 .. Len(backlog') PROVE peer'[backlog'[i]] # "away" /\ \A g \in Fd : owner'[g] # backlog'[i]
    <3>1. backlog'[i] \in Client \ {c} /\ backlog'[i] = backlog[i + 1] /\ i + 1 \in 1 .. Len(backlog)
      BY <1>2
    <3> QED
      BY <1>1, <1>3, <3>1 DEF Placed
  <2>4. ASSUME NEW g \in Fd, owner'[g] # NULL PROVE peer'[owner'[g]] # "away"
    <3>1. owner'[g] = owner[g] /\ owner[g] \in Client \ {c} /\ peer[owner[g]] # "away"
      BY <1>1, <1>5, <2>4 DEF Placed, KernelType
    <3> QED
      BY <1>3, <3>1
  <2> QED
    BY <2>1, <2>2, <2>3, <2>4 DEF Placed
<1>8. ASSUME NEW d \in Client, Waiting(d)' PROVE Waiting(d)
  BY <1>2, <1>3, <1>8 DEF Waiting
<1>9. \A d \in Client : \A h : Flow(d, h) => FlowAfter(d, h)
  <2>1. Untouched(c)
    BY <1>1, <1>3 DEF Untouched
  <2> QED
    BY <1>1, <1>6, <2>1, FlowUntouched
<1>10. CoroutineInv'
  BY <1>1, <1>8, <1>9, CoUntouched
<1> QED
  BY <1>4, <1>6, <1>7, <1>10 DEF KernelInv

\* A step of the coroutines or threads.
LEMMA CoroutineKeeps ==
  ASSUME KernelInv, CoroutineInv, design \in CoroutineDesigns,
         CoroutineLoop \/ \E c \in Client : CoroutineBody(c)
  PROVE  KernelInv' /\ CoroutineInv'
<1>1. CASE MiniWait
  <2>1. UNCHANGED <<kernel, co, serves, cell, buf, created, cur>>
    BY <1>1 DEF MiniWait
  <2> QED
    BY <2>1, CoIdle
<1>2. CASE CoroutineLoop
  BY <1>1, <1>2, CoAcceptKeeps, TurnedAwayKeeps, ThreadAcceptKeeps, MiniAcceptKeeps, MiniResumeKeeps, MiniWakeKeeps
     DEF CoroutineLoop
<1>3. ASSUME NEW c \in Client, CoroutineBody(c) PROVE KernelInv' /\ CoroutineInv'
  BY <1>3, ThreadStartsKeeps, BodyRecvKeeps, BodySendKeeps, BodyEndsKeeps, BodyFailsKeeps, MiniYieldKeeps
     DEF CoroutineBody
<1> QED
  BY <1>2, <1>3

-----------------------------------------------------------------------------
(* The clients.                                                            *)

\* What a client does: it enters the backlog, its messages flow on, and no
\* descriptor changes.
ClientsDo ==
  /\ UNCHANGED <<design, owner>> /\ KernelInv'
  /\ \A d \in Client : (Waiting(d)' => Waiting(d)) /\ (Accepted(d)' <=> Accepted(d))
  /\ \A d \in Client : peer[d] = "dead" => peer'[d] = "dead"
  /\ \A d \in Client : \A h : Flow(d, h) /\ (peer[d] = "away" => h = <<>>) => FlowAfter(d, h)

\* A client connects and enters the backlog.
LEMMA ConnectDoes ==
  ASSUME KernelInv, NEW c \in Client, Connect(c)
  PROVE  ClientsDo
<1>1. /\ peer[c] = "away" /\ peer' = [peer EXCEPT ![c] = "open"] /\ backlog' = Append(backlog, c)
      /\ UNCHANGED <<design, limit, owner, wire, sent, got, alive>> /\ KernelType /\ Placed /\ Fresh
  BY DEF Connect, KernelInv
<1>2. peer' \in [Client -> PeerState] /\ peer'[c] = "open" /\ \A d \in Client \ {c} : peer'[d] = peer[d]
  BY <1>1 DEF KernelType, PeerState
<1>3. /\ backlog' \in Seq(Client) /\ Len(backlog') = Len(backlog) + 1 /\ Len(backlog) \in Nat /\ backlog'[Len(backlog) + 1] = c
      /\ \A i \in 1 .. Len(backlog) : backlog'[i] = backlog[i] /\ backlog[i] \in Client
  BY <1>1 DEF KernelType
<1>4. KernelType'
  BY <1>1, <1>2, <1>3 DEF KernelType
<1>5. Fresh'
  BY <1>1, <1>2 DEF Fresh
<1>6. (\A i \in 1 .. Len(backlog) : backlog[i] # c) /\ \A f \in Fd : owner[f] # c
  BY <1>1, SocketsAssumption DEF Placed
<1>7. Placed'
  <2>1. \A g, h \in Fd : owner'[g] # NULL /\ owner'[g] = owner'[h] => g = h
    BY <1>1 DEF Placed
  <2>a. \A i \in 1 .. Len(backlog') : i \in 1 .. Len(backlog) \/ i = Len(backlog) + 1
    BY <1>3
  <2>2. ASSUME NEW i \in 1 .. Len(backlog'), NEW j \in 1 .. Len(backlog'), backlog'[i] = backlog'[j] PROVE i = j
    BY <1>1, <1>3, <1>6, <2>2, <2>a DEF Placed
  <2>3. ASSUME NEW i \in 1 .. Len(backlog') PROVE peer'[backlog'[i]] # "away" /\ \A g \in Fd : owner'[g] # backlog'[i]
    BY <1>1, <1>2, <1>3, <1>6, <2>a DEF Placed
  <2>4. ASSUME NEW g \in Fd, owner'[g] # NULL PROVE peer'[owner'[g]] # "away"
    <3>1. owner'[g] = owner[g] /\ owner[g] \in Client \ {c} /\ peer[owner[g]] # "away"
      BY <1>1, <1>6, <2>4 DEF Placed, KernelType
    <3> QED
      BY <1>2, <3>1
  <2> QED
    BY <2>1, <2>2, <2>3, <2>4 DEF Placed
<1>8. ASSUME NEW d \in Client PROVE (Waiting(d)' => Waiting(d)) /\ (Accepted(d)' <=> Accepted(d))
  <2>1. CASE d = c
    BY <1>1, <2>1 DEF Waiting, Accepted
  <2>2. CASE d # c
    <3>1. \A i \in 1 .. Len(backlog') : i \in 1 .. Len(backlog) \/ i = Len(backlog) + 1
      BY <1>3
    <3> QED
      BY <1>1, <1>2, <1>3, <2>2, <3>1 DEF Waiting, Accepted
  <2> QED
    BY <2>1, <2>2
<1>9. ASSUME NEW d \in Client, NEW h, Flow(d, h), peer[d] = "away" => h = <<>> PROVE FlowAfter(d, h)
  <2>1. CASE d = c
    <3>1. wire'[c] = <<>> /\ sent'[c] = 0 /\ got'[c] = <<>> /\ h = <<>>
      BY <1>1, <1>9, <2>1 DEF Fresh
    <3> QED
      BY <2>1, <3>1, PipeEmpty DEF FlowAfter
  <2>2. CASE d # c
    BY <1>1, <1>2, <1>9, <2>2, FlowUntouched DEF Untouched
  <2> QED
    BY <2>1, <2>2
<1>10. \A d \in Client : peer[d] = "dead" => peer'[d] = "dead"
  BY <1>1, <1>2
<1> QED
  BY <1>1, <1>4, <1>5, <1>7, <1>8, <1>9, <1>10 DEF ClientsDo, KernelInv

\* A client sends its next message.
LEMMA SendMessageDoes ==
  ASSUME KernelInv, NEW c \in Client, SendMessage(c)
  PROVE  ClientsDo
<1>a. PICK n, m : n = sent[c] + 1 /\ m = Msg(c, n)
  OBVIOUS
<1>1. /\ peer[c] = "open" /\ sent' = [sent EXCEPT ![c] = n] /\ wire' = [wire EXCEPT ![c] = Append(wire[c], m)]
      /\ UNCHANGED <<design, limit, peer, backlog, owner, got, alive>> /\ KernelType /\ Placed /\ Fresh
  BY <1>a DEF SendMessage, KernelInv, Msg
<1>2. n \in Nat /\ m \in Message
  BY <1>1, <1>a DEF KernelType, Message, Msg
<1>3. Append(wire[c], m) \in Seq(Message)
  BY <1>1, <1>2 DEF KernelType
<1>4. /\ sent' \in [Client -> Nat] /\ wire' \in [Client -> Seq(Message)] /\ sent'[c] = n /\ wire'[c] = Append(wire[c], m)
      /\ \A d \in Client \ {c} : sent'[d] = sent[d] /\ wire'[d] = wire[d]
  BY <1>1, <1>2, <1>3 DEF KernelType
<1>5. KernelType' /\ OnlyTouches(c)
  BY <1>1, <1>4 DEF KernelType, OnlyTouches
<1>6. Fresh' /\ SamePlace /\ \A d \in Client \ {c} : Untouched(d)
  BY <1>1, <1>5, OthersUntouched
<1>7. Placed' /\ \A d \in Client : (Waiting(d)' => Waiting(d)) /\ (Accepted(d)' <=> Accepted(d))
  BY <1>1, <1>6, SamePlaces
<1>8. ASSUME NEW d \in Client, NEW h, Flow(d, h) PROVE FlowAfter(d, h)
  <2>1. CASE d = c
    <3>a. PICK p : p = IF design = "printing" THEN "fin" ELSE peer[c]
      OBVIOUS
    <3>1. PipeOf(c, got[c], p, wire[c], sent[c], h)
      BY <1>8, <2>1, <3>a DEF Flow
    <3>2. PipeOf(c, got[c], p, Append(wire[c], Msg(c, n)), n, h)
      BY <1>a, <3>1, PipeSent
    <3> QED
      BY <1>1, <1>4, <1>a, <2>1, <3>2, <3>a DEF FlowAfter
  <2>2. CASE d # c
    BY <1>1, <1>6, <1>8, <2>2, FlowUntouched
  <2> QED
    BY <2>1, <2>2
<1> QED
  BY <1>1, <1>5, <1>6, <1>7, <1>8 DEF ClientsDo, KernelInv

\* A client closes or resets its connection.
LEMMA HangupDoes ==
  ASSUME KernelInv, NEW c \in Client, Hangup(c)
  PROVE  ClientsDo
<1>1. /\ peer[c] = "open" /\ (wire' = wire \/ wire' = [wire EXCEPT ![c] = <<>>])
      /\ peer' = [peer EXCEPT ![c] = "fin"] \/ peer' = [peer EXCEPT ![c] = "reset"]
      /\ UNCHANGED <<design, limit, backlog, owner, sent, got, alive>> /\ KernelType /\ Placed /\ Fresh
  BY DEF Hangup, KernelInv
<1>2. peer' \in [Client -> PeerState] /\ peer'[c] \notin {"away", "open"} /\ \A d \in Client \ {c} : peer'[d] = peer[d]
  BY <1>1 DEF KernelType, PeerState
<1>b. <<>> \in Seq(Message)
  OBVIOUS
<1>3. wire' \in [Client -> Seq(Message)] /\ \A d \in Client \ {c} : wire'[d] = wire[d]
  BY <1>1, <1>b DEF KernelType
<1>4. KernelType' /\ OnlyTouches(c)
  BY <1>1, <1>2, <1>3 DEF KernelType, OnlyTouches
<1>5. Fresh' /\ SamePlace /\ \A d \in Client \ {c} : Untouched(d)
  BY <1>1, <1>4, OthersUntouched
<1>6. Placed' /\ \A d \in Client : (Waiting(d)' => Waiting(d)) /\ (Accepted(d)' <=> Accepted(d))
  BY <1>1, <1>5, SamePlaces
<1>7. \A d \in Client : Untouched(d)
  BY <1>1, <1>2, <1>5 DEF Untouched
<1>8. \A d \in Client : \A h : Flow(d, h) => FlowAfter(d, h)
  BY <1>1, <1>7, FlowUntouched
<1>9. \A d \in Client : peer[d] = "dead" => peer'[d] = "dead"
  BY <1>1, <1>2
<1> QED
  BY <1>1, <1>4, <1>5, <1>6, <1>8, <1>9 DEF ClientsDo, KernelInv

\* What clients do keeps the invariant of the select, poll and epoll servers.
LEMMA ClientsKeepReactors ==
  ASSUME KernelInv, ReactorInv, ClientsDo, UNCHANGED reactorVars
  PROVE  ReactorInv'
<1>1. /\ UNCHANGED <<design, owner, interest, ready, reply>> /\ \A d \in Client : Accepted(d)' <=> Accepted(d)
      /\ \A d \in Client : \A h : Flow(d, h) /\ (peer[d] = "away" => h = <<>>) => FlowAfter(d, h)
  BY DEF ClientsDo, reactorVars
<1>2. Watched' /\ ReadyValid' /\ ReadyOnce' /\ AnswersAtOnce'
  BY <1>1 DEF ReactorInv, Watched, ReadyValid, ReadyOnce, AnswersAtOnce
<1>3. ASSUME NEW f \in Fd, owner[f] # NULL PROVE FlowAfter(owner[f], IF interest[f] = "OUT" THEN reply[owner[f]] ELSE <<>>)
  <2>1. owner[f] \in Client /\ peer[owner[f]] # "away" /\ Flow(owner[f], IF interest[f] = "OUT" THEN reply[owner[f]] ELSE <<>>)
    BY <1>3 DEF KernelInv, KernelType, Placed, ReactorInv, KeptFlows, Kept
  <2> QED
    BY <1>1, <2>1
<1>4. KeptFlows'
  BY <1>1, <1>3 DEF KeptFlows, Kept, Flow, FlowAfter
<1>5. ASSUME NEW d \in Client, ~Accepted(d) PROVE FlowAfter(d, <<>>)
  BY <1>1, <1>5 DEF ReactorInv, IdleFlows
<1>6. IdleFlows'
  BY <1>1, <1>5 DEF IdleFlows, Flow, FlowAfter
<1> QED
  BY <1>1, <1>2, <1>4, <1>6 DEF ReactorInv

\* What clients do keeps the invariant of the coroutines and threads.
LEMMA ClientsKeepCoroutines ==
  ASSUME CoroutineInv, ClientsDo, UNCHANGED coroutineVars
  PROVE  CoroutineInv'
BY CoUntouched DEF ClientsDo, coroutineVars

-----------------------------------------------------------------------------
(* Operations on their way: from the queue to the ring, the completions    *)
(* and the program, which prepares the next one.                           *)

\* Between <<S, R, s>> and <<T, Q, t>> nothing changes for x.
SameIn(S, R, s, T, Q, t, x) ==
  /\ NoneIn(S, R, s, x) <=> NoneIn(T, Q, t, x)
  /\ SingleIn(S, R, s, x) => SingleIn(T, Q, t, x)
  /\ \A op \in T \cup Q : Of(op, x) => op \in S \cup R
  /\ \A j \in 1 .. Len(t) : Of(t[j].op, x) => \E i \in 1 .. Len(s) : s[i] = t[j]

\* x is in the operation op, or in the completion e, and in nothing else.
OnlyOp(S, R, s, x, op) ==
  /\ SingleIn(S, R, s, x) /\ ~NoneIn(S, R, s, x)
  /\ \A o \in S \cup R : Of(o, x) => o = op
  /\ \A i \in 1 .. Len(s) : ~Of(s[i].op, x)
OnlyEntry(S, R, s, x, e) ==
  /\ SingleIn(S, R, s, x) /\ ~NoneIn(S, R, s, x)
  /\ \A o \in S \cup R : ~Of(o, x)
  /\ \A i \in 1 .. Len(s) : Of(s[i].op, x) => s[i] = e

\* Steps that change nothing for x one after the other.
LEMMA SameTwice ==
  ASSUME NEW S, NEW R, NEW s, NEW T, NEW Q, NEW t, NEW U, NEW P, NEW u, NEW x,
         SameIn(S, R, s, T, Q, t, x), SameIn(T, Q, t, U, P, u, x)
  PROVE  SameIn(S, R, s, U, P, u, x)
<1>1. ASSUME NEW j \in 1 .. Len(u), Of(u[j].op, x) PROVE \E i \in 1 .. Len(s) : s[i] = u[j]
  <2>1. PICK k \in 1 .. Len(t) : t[k] = u[j]
    BY <1>1 DEF SameIn
  <2> QED
    BY <1>1, <2>1 DEF SameIn
<1> QED
  BY <1>1 DEF SameIn

\* io_uring_submit moves the queue to the ring.
LEMMA SubmitSame ==
  ASSUME NEW S, NEW R, NEW s, NEW x
  PROVE  SameIn(S, R, s, {}, R \cup S, s, x)
<1>1. InSet({}, x) = {} /\ InSet(R \cup S, x) = InSet(R, x) \cup InSet(S, x)
  BY DEF InSet
<1> QED
  BY <1>1 DEF SameIn, NoneIn, SingleIn

\* A single operation is in one place.
LEMMA SingleInRing ==
  ASSUME NEW S, NEW R, NEW s, NEW x, SingleIn(S, R, s, x), NEW op \in R, Of(op, x)
  PROVE  InSet(S, x) = {} /\ InSet(R, x) = {op} /\ InDone(s, x) = {}
BY DEF SingleIn, InSet

\* The same for an operation that has completed.
LEMMA SingleInDone ==
  ASSUME NEW S, NEW R, NEW s, NEW x, SingleIn(S, R, s, x), NEW i \in 1 .. Len(s), Of(s[i].op, x)
  PROVE  InSet(S, x) = {} /\ InSet(R, x) = {} /\ InDone(s, x) = {i}
BY DEF SingleIn, InDone

\* What one more completion changes.
LEMMA DoneAppend ==
  ASSUME NEW s \in Seq(Entry), NEW e \in Entry, NEW x
  PROVE  /\ InDone(Append(s, e), x) = InDone(s, x) \cup (IF Of(e.op, x) THEN {Len(s) + 1} ELSE {})
         /\ Len(Append(s, e)) = Len(s) + 1 /\ Len(s) \in Nat /\ Append(s, e)[Len(s) + 1] = e
         /\ \A i \in 1 .. Len(s) : Append(s, e)[i] = s[i]
<1>a. PICK t, n : t = Append(s, e) /\ n = Len(s)
  OBVIOUS
<1>1. n \in Nat /\ Len(t) = n + 1 /\ t[n + 1] = e /\ \A i \in 1 .. n : t[i] = s[i]
  BY <1>a
<1>2. \A i \in 1 .. n + 1 : i = n + 1 \/ i \in 1 .. n
  BY <1>1
<1>3. \A i \in 1 .. n : i # n + 1 /\ i \in 1 .. n + 1
  BY <1>1
<1>4. n + 1 \in 1 .. n + 1
  BY <1>1
<1>5. InDone(t, x) = {i \in 1 .. n + 1 : Of(t[i].op, x)} /\ InDone(s, x) = {i \in 1 .. n : Of(s[i].op, x)}
  BY <1>1, <1>a DEF InDone
<1>6. InDone(t, x) = InDone(s, x) \cup (IF Of(e.op, x) THEN {n + 1} ELSE {})
  BY <1>1, <1>2, <1>3, <1>4, <1>5
<1> QED
  BY <1>1, <1>6, <1>a

\* An operation of somebody else completes.
LEMMA CompleteSame ==
  ASSUME NEW S, NEW R, NEW s \in Seq(Entry), NEW e \in Entry, NEW x, ~Of(e.op, x)
  PROVE  SameIn(S, R, s, S, R \ {e.op}, Append(s, e), x)
<1>a. PICK t, Q : t = Append(s, e) /\ Q = R \ {e.op}
  OBVIOUS
<1>1. InDone(t, x) = InDone(s, x) /\ InSet(Q, x) = InSet(R, x) /\ Len(t) = Len(s) + 1 /\ Len(s) \in Nat
      /\ t[Len(s) + 1] = e /\ \A i \in 1 .. Len(s) : t[i] = s[i]
  BY <1>a, DoneAppend, ZenonT(60) DEF InSet
<1>2. 1 .. Len(s) \subseteq 1 .. Len(t)
  BY <1>1
<1>3. (NoneIn(S, R, s, x) <=> NoneIn(S, Q, t, x)) /\ (SingleIn(S, R, s, x) => SingleIn(S, Q, t, x))
  <2>1. \A op \in R : InSet(R, x) = {op} => op \in Q
    BY <1>1 DEF InSet
  <2> QED
    BY <1>1, <1>2, <2>1 DEF NoneIn, SingleIn
<1>4. ASSUME NEW j \in 1 .. Len(t), Of(t[j].op, x) PROVE \E i \in 1 .. Len(s) : s[i] = t[j]
  BY <1>1, <1>4
<1> QED
  BY <1>3, <1>4, <1>a DEF SameIn

\* The operation of x completes.
LEMMA CompleteMoves ==
  ASSUME NEW S, NEW R, NEW s \in Seq(Entry), NEW e \in Entry, NEW x, Of(e.op, x), e.op \in R, SingleIn(S, R, s, x)
  PROVE  OnlyEntry(S, R \ {e.op}, Append(s, e), x, e)
<1>a. PICK t, Q : t = Append(s, e) /\ Q = R \ {e.op}
  OBVIOUS
<1>1. InSet(S, x) = {} /\ InSet(R, x) = {e.op} /\ InDone(s, x) = {}
  BY SingleInRing
<1>2. InDone(t, x) = {Len(s) + 1} /\ InSet(Q, x) = {} /\ Len(t) = Len(s) + 1 /\ Len(s) \in Nat
      /\ t[Len(s) + 1] = e
  BY <1>1, <1>a, DoneAppend DEF InSet
<1>3. Len(s) + 1 \in 1 .. Len(t)
  BY <1>2
<1>4. SingleIn(S, Q, t, x) /\ ~NoneIn(S, Q, t, x)
  BY <1>1, <1>2, <1>3 DEF SingleIn, NoneIn
<1>5. \A o \in S \cup Q : ~Of(o, x)
  BY <1>1, <1>2 DEF InSet
<1>6. \A i \in 1 .. Len(t) : Of(t[i].op, x) => t[i] = e
  BY <1>2 DEF InDone
<1> QED
  BY <1>4, <1>5, <1>6, <1>a DEF OnlyEntry

\* What is left of the completions after the first.
LEMMA DoneTail ==
  ASSUME NEW s \in Seq(Entry), s # <<>>
  PROVE  /\ Head(s) = s[1] /\ 1 \in 1 .. Len(s) /\ Head(s) \in Entry /\ Tail(s) \in Seq(Entry)
         /\ Len(Tail(s)) = Len(s) - 1 /\ Len(s) \in Nat
         /\ \A j \in 1 .. Len(Tail(s)) : j + 1 \in 1 .. Len(s) /\ Tail(s)[j] = s[j + 1] /\ j + 1 # 1
         /\ \A i \in 1 .. Len(s) : i = 1 \/ (i - 1 \in 1 .. Len(Tail(s)) /\ s[i] = Tail(s)[i - 1] /\ (i - 1) + 1 = i)
<1>a. PICK t, n : t = Tail(s) /\ n = Len(s)
  OBVIOUS
<1>1. Head(s) = s[1] /\ Head(s) \in Entry /\ t \in Seq(Entry) /\ n \in Nat /\ n # 0 /\ Len(t) = n - 1
      /\ \A j \in 1 .. n - 1 : t[j] = s[j + 1]
  BY <1>a
<1>2. 1 \in 1 .. n /\ \A j \in 1 .. n - 1 : j + 1 \in 1 .. n /\ j + 1 # 1
  BY <1>1
<1>3. ASSUME NEW i \in 1 .. n, i # 1 PROVE i - 1 \in 1 .. n - 1 /\ (i - 1) + 1 = i
  BY <1>1, <1>3
<1> QED
  BY <1>1, <1>2, <1>3, <1>a

\* A completion of somebody else is handled.
LEMMA HandleSame ==
  ASSUME NEW S, NEW R, NEW s \in Seq(Entry), s # <<>>, NEW x, ~Of(Head(s).op, x)
  PROVE  SameIn(S, R, s, S, R, Tail(s), x)
<1>a. PICK t : t = Tail(s)
  OBVIOUS
<1>1. /\ Head(s) = s[1] /\ Len(t) = Len(s) - 1
      /\ \A j \in 1 .. Len(t) : j + 1 \in 1 .. Len(s) /\ t[j] = s[j + 1]
      /\ \A i \in 1 .. Len(s) : i = 1 \/ (i - 1 \in 1 .. Len(t) /\ s[i] = t[i - 1] /\ (i - 1) + 1 = i)
  BY <1>a, DoneTail
<1>2. ASSUME NEW j \in 1 .. Len(t) PROVE j \in InDone(t, x) <=> j + 1 \in InDone(s, x)
  BY <1>1 DEF InDone
<1>3. ASSUME NEW i \in InDone(s, x) PROVE i - 1 \in InDone(t, x) /\ (i - 1) + 1 = i
  BY <1>1 DEF InDone
<1>4. InDone(s, x) = {} <=> InDone(t, x) = {}
  <2>1. \A j \in InDone(t, x) : j \in 1 .. Len(t)
    BY DEF InDone
  <2> QED
    BY <1>2, <1>3, <2>1
<1>5. ASSUME NEW i \in 1 .. Len(s), InDone(s, x) = {i} PROVE \E j \in 1 .. Len(t) : InDone(t, x) = {j}
  <2>1. i - 1 \in InDone(t, x) /\ i - 1 \in 1 .. Len(t)
    BY <1>3, <1>5 DEF InDone
  <2>2. ASSUME NEW j \in InDone(t, x) PROVE j = i - 1
    <3>1. j \in 1 .. Len(t)
      BY DEF InDone
    <3>2. j + 1 = i
      BY <1>2, <1>5, <3>1
    <3> QED
      BY <3>1, <3>2
  <2> QED
    BY <2>1, <2>2
<1>6. (NoneIn(S, R, s, x) <=> NoneIn(S, R, t, x)) /\ (SingleIn(S, R, s, x) => SingleIn(S, R, t, x))
  BY <1>4, <1>5 DEF NoneIn, SingleIn
<1>7. ASSUME NEW j \in 1 .. Len(t), Of(t[j].op, x) PROVE \E i \in 1 .. Len(s) : s[i] = t[j]
  BY <1>1
<1> QED
  BY <1>6, <1>7, <1>a DEF SameIn

\* The completion of x is handled.
LEMMA HandleTakes ==
  ASSUME NEW S, NEW R, NEW s \in Seq(Entry), s # <<>>, NEW x, Of(Head(s).op, x), SingleIn(S, R, s, x)
  PROVE  NoneIn(S, R, Tail(s), x)
<1>a. PICK t : t = Tail(s)
  OBVIOUS
<1>1. /\ Head(s) = s[1] /\ 1 \in 1 .. Len(s)
      /\ \A j \in 1 .. Len(t) : j + 1 \in 1 .. Len(s) /\ t[j] = s[j + 1] /\ j + 1 # 1
  BY <1>a, DoneTail
<1>2. InSet(S, x) = {} /\ InSet(R, x) = {} /\ InDone(s, x) = {1}
  BY <1>1, SingleInDone
<1>3. InDone(t, x) = {}
  BY <1>1, <1>2 DEF InDone
<1> QED
  BY <1>2, <1>3, <1>a DEF NoneIn

\* An operation of somebody else is prepared.
LEMMA PrepareSame ==
  ASSUME NEW S, NEW R, NEW s, NEW op, NEW x, ~Of(op, x)
  PROVE  SameIn(S, R, s, S \cup {op}, R, s, x)
<1>1. InSet(S \cup {op}, x) = InSet(S, x)
  BY DEF InSet
<1> QED
  BY <1>1 DEF SameIn, NoneIn, SingleIn

\* The next operation of x is prepared.
LEMMA PrepareAdds ==
  ASSUME NEW S, NEW R, NEW s, NEW op, NEW x, Of(op, x), NoneIn(S, R, s, x)
  PROVE  OnlyOp(S \cup {op}, R, s, x, op)
<1>1. InSet(S \cup {op}, x) = {op} /\ InSet(R, x) = {} /\ InDone(s, x) = {} /\ InSet(S, x) = {}
  BY DEF NoneIn, InSet
<1>2. \A o \in (S \cup {op}) \cup R : Of(o, x) => o = op
  BY <1>1 DEF InSet
<1>3. \A i \in 1 .. Len(s) : ~Of(s[i].op, x)
  BY <1>1 DEF InDone
<1> QED
  BY <1>1, <1>2, <1>3 DEF OnlyOp, SingleIn, NoneIn

\* Which accepts have completed.
LEMMA PendingAppend ==
  ASSUME NEW s \in Seq(Entry), NEW e \in Entry, NEW c
  PROVE  PendingIn(Append(s, e), c) <=> PendingIn(s, c) \/ (e.op.type = "accept" /\ e.res = c)
<1>a. PICK t, n : t = Append(s, e) /\ n = Len(s)
  OBVIOUS
<1>1. n \in Nat /\ Len(t) = n + 1 /\ t[n + 1] = e /\ \A i \in 1 .. n : t[i] = s[i]
  BY <1>a
<1>2. (\A i \in 1 .. n + 1 : i = n + 1 \/ i \in 1 .. n) /\ (\A i \in 1 .. n : i \in 1 .. n + 1) /\ n + 1 \in 1 .. n + 1
  BY <1>1
<1> QED
  BY <1>1, <1>2, <1>a DEF PendingIn

\* Handling a recv or a send does not tell the program of an accept.
LEMMA PendingTail ==
  ASSUME NEW s \in Seq(Entry), s # <<>>, Head(s).op.type # "accept", NEW c
  PROVE  PendingIn(Tail(s), c) <=> PendingIn(s, c)
<1>a. PICK t : t = Tail(s)
  OBVIOUS
<1>1. /\ Head(s) = s[1]
      /\ \A j \in 1 .. Len(t) : j + 1 \in 1 .. Len(s) /\ t[j] = s[j + 1]
      /\ \A i \in 1 .. Len(s) : i = 1 \/ (i - 1 \in 1 .. Len(t) /\ s[i] = t[i - 1])
  BY <1>a, DoneTail
<1> QED
  BY <1>1, <1>a DEF PendingIn

\* Handling the one completed accept tells it of that client.
LEMMA PendingHandled ==
  ASSUME NEW S, NEW R, NEW s \in Seq(Entry), s # <<>>, Head(s).op.type = "accept", SingleIn(S, R, s, NULL), NEW c
  PROVE  ~PendingIn(Tail(s), c) /\ (PendingIn(s, c) <=> Head(s).res = c)
<1>a. PICK t : t = Tail(s)
  OBVIOUS
<1>1. /\ Head(s) = s[1] /\ 1 \in 1 .. Len(s)
      /\ \A j \in 1 .. Len(t) : j + 1 \in 1 .. Len(s) /\ t[j] = s[j + 1] /\ j + 1 # 1
  BY <1>a, DoneTail
<1>2. InDone(s, NULL) = {1}
  BY <1>1, SingleInDone DEF Of
<1>3. \A i \in 1 .. Len(s) : s[i].op.type = "accept" => i = 1
  BY <1>2 DEF InDone, Of
<1> QED
  BY <1>1, <1>3, <1>a DEF PendingIn

-----------------------------------------------------------------------------
(* The completions in the program's hands and the ones it has not seen.    *)

\* The completions, seen and unseen, are completions.
LEMMA FinishedType ==
  ASSUME ProactorInv
  PROVE  Finished \in Seq(Entry)
BY ConcatProperties DEF ProactorInv, Finished

\* The kernel adds a completion behind all others.
LEMMA FinishedGrows ==
  ASSUME ProactorInv, NEW e \in Entry, cq' = Append(cq, e), events' = events
  PROVE  Finished' = Append(Finished, e) /\ Finished' \in Seq(Entry)
<1>a. PICK s, t, u : s = events /\ t = cq /\ u = s \o t
  OBVIOUS
<1>1. s \in Seq(Entry) /\ t \in Seq(Entry)
  BY <1>a DEF ProactorInv
<1>2. s \o Append(t, e) = Append(s \o t, e) /\ Append(s \o t, e) \in Seq(Entry)
  BY <1>1
<1> QED
  BY <1>2, <1>a DEF Finished

\* The program takes the first one.
LEMMA FinishedShrinks ==
  ASSUME ProactorInv, events # <<>>, events' = Tail(events), cq' = cq
  PROVE  /\ Finished # <<>> /\ Head(Finished) = Head(events) /\ Finished' = Tail(Finished)
         /\ events' \in Seq(Entry) /\ Len(events') = Len(events) - 1 /\ Len(events) \in Nat
<1>a. PICK s, t : s = events /\ t = cq
  OBVIOUS
<1>1. s \in Seq(Entry) /\ t \in Seq(Entry) /\ s # <<>>
  BY <1>a DEF ProactorInv
<1>2. Tail(s) \o t = Tail(s \o t) /\ s \o t # <<>> /\ Head(s \o t) = Head(s)
  BY <1>1
<1>3. Tail(s) \in Seq(Entry) /\ Len(Tail(s)) = Len(s) - 1 /\ Len(s) \in Nat
  BY <1>1
<1> QED
  BY <1>2, <1>3, <1>a DEF Finished

\* io_uring_peek_batch_cqe hands over the first ones, at most BatchMax.
LEMMA FinishedMoves ==
  ASSUME ProactorInv, PeekBatch
  PROVE  /\ Finished' = Finished /\ events' \in Seq(Entry) /\ cq' \in Seq(Entry)
         /\ Len(events') \in Nat /\ Len(events') <= BatchMax
<1>a. PICK s, n, m : s = cq /\ n = Len(cq) /\ m = Min({BatchMax, Len(cq)})
  OBVIOUS
<1>1. s \in Seq(Entry) /\ n = Len(s) /\ n \in Nat /\ BatchMax \in Nat
  BY <1>a, ProactorsAssumption DEF ProactorInv
<1>2. m \in {BatchMax, n} /\ m <= BatchMax /\ m <= n
  BY <1>1, <1>a, LeastNumber
<1>3. events = <<>> /\ events' = SubSeq(s, 1, m) /\ cq' = SubSeq(s, Len(events') + 1, n)
  BY <1>a DEF PeekBatch
<1>4. m \in 0 .. n /\ Len(events') = m /\ events' \in Seq(Entry)
  BY <1>1, <1>2, <1>3
<1>5. cq' = SubSeq(s, m + 1, n)
  BY <1>3, <1>4
<1>6. cq' \in Seq(Entry) /\ Len(cq') = n - m /\ \A i \in 1 .. n - m : cq'[i] = s[m + i]
  <2>1. \A i \in m + 1 .. n : s[i] \in Entry
    BY <1>1, <1>4
  <2>2. m + 1 \in Int /\ n \in Int
    BY <1>1, <1>4
  <2>4. cq' \in Seq(Entry) /\ Len(cq') = (IF m + 1 <= n THEN n - (m + 1) + 1 ELSE 0)
        /\ \A i \in 1 .. n - (m + 1) + 1 : cq'[i] = s[(m + 1) + i - 1]
    BY <1>5, <2>1, <2>2, SubSeqProperties
  <2>5. Len(cq') = n - m
    BY <1>1, <1>4, <2>4
  <2>6. ASSUME NEW i \in 1 .. n - m PROVE cq'[i] = s[m + i]
    <3>1. i \in 1 .. n - (m + 1) + 1 /\ (m + 1) + i - 1 = m + i
      BY <1>1, <1>4
    <3> QED
      BY <2>4, <3>1
  <2> QED
    BY <2>4, <2>5, <2>6
<1>7. events' \o cq' = s
  <2>a. PICK t, u, v : t = events' /\ u = cq' /\ v = t \o u
    OBVIOUS
  <2>1. t \in Seq(Entry) /\ u \in Seq(Entry) /\ Len(t) = m /\ Len(u) = n - m
    BY <1>4, <1>6, <2>a
  <2>2. v \in Seq(Entry) /\ Len(v) = m + (n - m) /\ \A i \in 1 .. m + (n - m) : v[i] = IF i <= m THEN t[i] ELSE u[i - m]
    BY <2>1, <2>a, ConcatProperties
  <2>3. m + (n - m) = n
    BY <1>1, <1>4
  <2>4. ASSUME NEW i \in 1 .. n PROVE v[i] = s[i]
    <3>1. CASE i <= m
      <4>1. t[i] = s[i]
        BY <1>1, <1>3, <1>4, <2>a, <3>1
      <4> QED
        BY <2>2, <2>3, <3>1, <4>1
    <3>2. CASE ~(i <= m)
      <4>1. i - m \in 1 .. n - m /\ m + (i - m) = i
        BY <1>1, <1>4, <3>2
      <4>2. u[i - m] = s[i]
        BY <1>6, <2>a, <4>1
      <4> QED
        BY <2>2, <2>3, <3>2, <4>2
    <3> QED
      BY <3>1, <3>2
  <2>5. v = s
    BY <1>1, <2>2, <2>3, <2>4
  <2> QED
    BY <2>5, <2>a
<1>8. events \o cq = s
  BY <1>1, <1>3, <1>a
<1> QED
  BY <1>1, <1>2, <1>4, <1>6, <1>7, <1>8 DEF Finished

-----------------------------------------------------------------------------
(* The servers on io_uring.                                                *)

\* A client in an operation is connected.
LEMMA Engaged ==
  ASSUME ProactorInv, NEW c \in Client, ~None(c)
  PROVE  Accepted(c) /\ ~Pending(c) /\ Single(c)
BY DEF ProactorInv, Tokens, OpsOf

\* So is a client with an operation in the ring.
LEMMA EngagedInRing ==
  ASSUME ProactorInv, NEW op \in ring, NEW c \in Client, Of(op, c)
  PROVE  Accepted(c) /\ ~Pending(c) /\ Single(c)
<1>1. ~None(c)
  BY DEF None, NoneIn, InSet
<1> QED
  BY <1>1, Engaged

\* Where the buffer is shared, nobody else's messages are in it.
LEMMA OwnBuffer ==
  ASSUME KernelInv, design \in ProactorDesigns, NEW c \in Client, ~Waiting(c), NEW d \in Client, d # c, Own(d)
  PROVE  design = "proactor" /\ Buffer(d) = d /\ Buffer(c) = c
BY DEF Own, Mixes, SharedBuffer, ProactorDesigns, Buffer

\* The messages of d are where they were.
FlowsOn(d) == \A h : Flow(d, h) /\ (None(d) => h = <<>>) => FlowAfter(d, h)

\* So they are when nothing happens to d.
LEMMA UntouchedFlowsOn ==
  ASSUME design' = design, NEW d, Untouched(d)
  PROVE  FlowsOn(d)
BY FlowUntouched DEF FlowsOn

\* What is not about client d leaves its messages alone.
LEMMA OthersData ==
  ASSUME design' = design, NEW d \in Client, DataFlow(d), SameIn(sq, ring, Finished, sq', ring', Finished', d),
         FlowsOn(d), rbuf'[Buffer(d)] = rbuf[Buffer(d)], wbuf'[Buffer(d)] = wbuf[Buffer(d)]
  PROVE  DataFlow(d)'
<1>1. d # NULL /\ Buffer(d)' = Buffer(d) /\ SendFrom(d)' = SendFrom(d)
  BY SocketsAssumption DEF Buffer, SendFrom
<1>2. \A h : Flow(d, h) /\ (None(d) => h = <<>>) => FlowAfter(d, h)
  BY DEF FlowsOn
<1>3. ASSUME NEW op \in sq' \cup ring', Of(op, d)
      PROVE  FlowAfter(d, IF op.type = "send" THEN Held(SendFrom(d)', op.len) ELSE <<>>)
  <2>1. op \in sq \cup ring /\ op.who = d
    BY <1>1, <1>3 DEF SameIn, Of
  <2>2. Flow(d, IF op.type = "send" THEN Held(SendFrom(d), op.len) ELSE <<>>)
    BY <1>3, <2>1 DEF DataFlow, OpData
  <2>3. ~None(d)
    BY <1>3, <2>1 DEF None, NoneIn, InSet
  <2> QED
    BY <1>1, <1>2, <2>2, <2>3
<1>4. ASSUME NEW op \in sq' \cup ring', Of(op, d) PROVE Flow(d, OpData(op))'
  <2>1. op.who = d
    BY <1>1, <1>4 DEF Of
  <2> QED
    BY <1>3, <1>4, <2>1 DEF Flow, FlowAfter, OpData
<1>5. ASSUME NEW j \in 1 .. Len(Finished'), Of(Finished'[j].op, d) PROVE Flow(d, EntryData(Finished[j]))'
  <2>1. PICK i \in 1 .. Len(Finished) : Finished[i] = Finished'[j]
    BY <1>5 DEF SameIn
  <2>2. PICK e : e = Finished'[j]
    OBVIOUS
  <2>3. e = Finished[i] /\ Of(e.op, d) /\ e.op.who = d
    BY <1>1, <1>5, <2>1, <2>2 DEF Of
  <2>4. Flow(d, IF e.op.type = "recv" /\ e.res > 0 THEN Held(rbuf[Buffer(d)], e.res) ELSE <<>>)
    BY <2>3 DEF DataFlow, EntryData
  <2>6. ~None(d)
    BY <2>3 DEF None, NoneIn, InDone
  <2>5. FlowAfter(d, IF e.op.type = "recv" /\ e.res > 0 THEN Held(rbuf'[Buffer(d)'], e.res) ELSE <<>>)
    BY <1>1, <1>2, <2>4, <2>6
  <2> QED
    BY <2>2, <2>3, <2>5 DEF Flow, FlowAfter, EntryData
<1>6. None(d)' => Flow(d, <<>>)'
  <2>1. None(d)' => None(d)
    BY DEF SameIn, None
  <2> QED
    BY <1>2, <2>1 DEF DataFlow, Flow, FlowAfter
<1> QED
  BY <1>4, <1>5, <1>6 DEF DataFlow

\* What an entry says stays true.
LEMMA EntryStays ==
  ASSUME design' = design, NEW e, EntryFine(e),
         e.op.type = "accept" /\ e.res # -1 => Accepted(e.res)',
         e.op.type = "recv" /\ e.op.who # NULL /\ peer[e.op.who] = "dead" => peer'[e.op.who] = "dead"
  PROVE  EntryFine(e)'
BY DEF EntryFine, OpFine

\* A client in no operation and among no completion is not about to be told.
LEMMA AwayIsIdle ==
  ASSUME KernelInv, ProactorInv, NEW c \in Client, peer[c] = "away"
  PROVE  None(c)
<1>1. ~Accepted(c)
  BY SocketsAssumption DEF KernelInv, Placed, Accepted
<1> QED
  BY <1>1 DEF ProactorInv, Tokens, OpsOf

\* Operations go from the queue to the ring, completions from the kernel to the
\* program, and clients come and go: every connection stays in its operation.
LEMMA QueuesMove ==
  ASSUME KernelInv, ProactorInv, UNCHANGED <<design, conns, rbuf, wbuf>>,
         \A d \in Client : (Waiting(d)' => Waiting(d)) /\ (Accepted(d)' <=> Accepted(d)),
         \A d \in Client : peer[d] = "dead" => peer'[d] = "dead",
         \A d \in Client : \A h : Flow(d, h) /\ (peer[d] = "away" => h = <<>>) => FlowAfter(d, h),
         cq' \in Seq(Entry), events' \in Seq(Entry), Room', Finished' = Finished,
         (sq' = sq /\ ring' = ring) \/ (sq' = {} /\ ring' = ring \cup sq)
  PROVE  ProactorInv'
<1>1. \A x : SameIn(sq, ring, Finished, sq', ring', Finished', x)
  <2>1. CASE sq' = sq /\ ring' = ring
    BY <2>1 DEF SameIn
  <2>2. CASE sq' = {} /\ ring' = ring \cup sq
    BY <2>2, SubmitSame
  <2> QED
    BY <2>1, <2>2
<1>2. \A x : (None(x)' <=> None(x)) /\ (Single(x) => Single(x)') /\ (Pending(x)' <=> Pending(x))
  BY <1>1 DEF SameIn, None, Single, Pending
<1>3. Tokens'
  BY <1>2 DEF ProactorInv, Tokens, OpsOf
<1>4. Known'
  BY <1>2 DEF ProactorInv, Known
<1>5. \A op \in sq' \cup ring' : OpFine(op)'
  BY DEF ProactorInv, AllFine, OpFine
<1>6. ASSUME NEW i \in 1 .. Len(Finished) PROVE EntryFine(Finished[i])'
  <2>1. PICK e : e = Finished[i]
    OBVIOUS
  <2>2. EntryFine(e)
    BY <2>1 DEF ProactorInv, AllFine
  <2>3. /\ e.op.type = "accept" /\ e.res # -1 => Accepted(e.res)'
        /\ e.op.type = "recv" /\ e.op.who # NULL /\ peer[e.op.who] = "dead" => peer'[e.op.who] = "dead"
    BY <2>2 DEF EntryFine, OpFine, Op
  <2>4. EntryFine(e)'
    BY <2>2, <2>3, EntryStays
  <2> QED
    BY <2>1, <2>4
<1>7. AllFine'
  BY <1>5, <1>6 DEF AllFine
<1>8. \A d \in Client : Own(d)' => Own(d)
  BY OwnBefore
<1>9. ASSUME NEW d \in Client, Own(d)' PROVE DataFlow(d)'
  <2>1. DataFlow(d)
    BY <1>8, <1>9 DEF ProactorInv, DataFlows
  <2>2. FlowsOn(d)
    BY AwayIsIdle DEF FlowsOn
  <2> QED
    BY <1>1, <2>1, <2>2, OthersData
<1>10. DataFlows'
  BY <1>9 DEF DataFlows
<1> QED
  BY <1>3, <1>4, <1>7, <1>10 DEF ProactorInv

\* io_uring_submit keeps the invariant.
LEMMA SubmitKeeps ==
  ASSUME KernelInv, ProactorInv, Submit
  PROVE  KernelInv' /\ ProactorInv'
<1>1. events = <<>> /\ ring' = ring \cup sq /\ sq' = {} /\ UNCHANGED <<kernel, cq, events, conns, rbuf, wbuf>>
  BY DEF Submit
<1>2. /\ KernelInv' /\ \A d \in Client : (Waiting(d)' => Waiting(d)) /\ (Accepted(d)' <=> Accepted(d))
  BY <1>1 DEF kernel, KernelInv, KernelType, Placed, Fresh, Waiting, Accepted
<1>3. \A d \in Client : \A h : Flow(d, h) => FlowAfter(d, h)
  BY <1>1 DEF Flow, FlowAfter, kernel
<1>4. Room'
  <2>1. Len(events') = 0 /\ IsFiniteSet({}) /\ Cardinality({}) = 0
    BY <1>1, FS_EmptySet
  <2> QED
    BY <1>1, <2>1, ProactorsAssumption DEF Room
<1>5. Finished' = Finished /\ cq' \in Seq(Entry) /\ events' \in Seq(Entry) /\ design' = design /\ peer' = peer
  BY <1>1 DEF Finished, ProactorInv, kernel
<1> QED
  BY <1>1, <1>2, <1>3, <1>4, <1>5, QueuesMove

\* io_uring_wait_cqe and io_uring_peek_batch_cqe keep it.
LEMMA PeekBatchKeeps ==
  ASSUME KernelInv, ProactorInv, PeekBatch
  PROVE  KernelInv' /\ ProactorInv'
<1>1. sq = {} /\ UNCHANGED <<kernel, sq, ring, conns, rbuf, wbuf>>
  BY DEF PeekBatch
<1>2. /\ KernelInv' /\ \A d \in Client : (Waiting(d)' => Waiting(d)) /\ (Accepted(d)' <=> Accepted(d))
  BY <1>1 DEF kernel, KernelInv, KernelType, Placed, Fresh, Waiting, Accepted
<1>3. \A d \in Client : \A h : Flow(d, h) => FlowAfter(d, h)
  BY <1>1 DEF Flow, FlowAfter, kernel
<1>4. Finished' = Finished /\ events' \in Seq(Entry) /\ cq' \in Seq(Entry) /\ Len(events') \in Nat /\ Len(events') <= BatchMax
  BY FinishedMoves
<1>5. Room'
  <2>1. IsFiniteSet(sq') /\ Cardinality(sq') = 0
    BY <1>1, FS_EmptySet
  <2> QED
    BY <1>4, <2>1, ProactorsAssumption DEF Room
<1>6. design' = design /\ peer' = peer
  BY <1>1 DEF kernel
<1> QED
  BY <1>1, <1>2, <1>3, <1>4, <1>5, <1>6, QueuesMove

\* What clients do keeps the invariant of the servers on io_uring.
LEMMA ClientsKeepProactors ==
  ASSUME KernelInv, ProactorInv, ClientsDo, UNCHANGED proactorVars
  PROVE  ProactorInv'
<1>1. UNCHANGED <<sq, ring, cq, events, conns, rbuf, wbuf, design>>
  BY DEF proactorVars, ClientsDo
<1>2. /\ \A d \in Client : (Waiting(d)' => Waiting(d)) /\ (Accepted(d)' <=> Accepted(d))
      /\ \A d \in Client : peer[d] = "dead" => peer'[d] = "dead"
      /\ \A d \in Client : \A h : Flow(d, h) /\ (peer[d] = "away" => h = <<>>) => FlowAfter(d, h)
  BY DEF ClientsDo
<1>3. Room' /\ Finished' = Finished /\ cq' \in Seq(Entry) /\ events' \in Seq(Entry)
  BY <1>1 DEF Room, Finished, ProactorInv
<1> QED
  BY <1>1, <1>2, <1>3, QueuesMove

-----------------------------------------------------------------------------
(* The kernel carries out an operation.                                    *)

\* What has been written to a buffer is what it holds.
LEMMA WrittenIsHeld ==
  ASSUME NEW s \in Seq(Datum), Len(s) \in 0 .. BufMax, NEW old \in [1 .. BufMax -> Datum]
  PROVE  Held(Overwritten(old, s), Len(s)) = s /\ Overwritten(old, s) \in [1 .. BufMax -> Datum]
<1>a. PICK n : n = Len(s)
  OBVIOUS
<1>1. n \in Nat /\ n <= BufMax /\ BufMax \in Nat /\ s = [i \in 1 .. n |-> s[i]] /\ \A i \in 1 .. n : s[i] \in Datum
  BY <1>a, SocketsAssumption
<1>2. Overwritten(old, s) = [i \in 1 .. BufMax |-> IF i <= n THEN s[i] ELSE old[i]]
  BY <1>a DEF Overwritten
<1>3. \A i \in 1 .. BufMax : (IF i <= n THEN s[i] ELSE old[i]) \in Datum
  <2>1. ASSUME NEW i \in 1 .. BufMax, i <= n PROVE i \in 1 .. n
    BY <1>1, <2>1
  <2> QED
    BY <1>1, <2>1
<1>4. \A i \in 1 .. n : i \in 1 .. BufMax /\ i <= n
  BY <1>1
<1>5. Held(Overwritten(old, s), n) = [i \in 1 .. n |-> s[i]]
  BY <1>2, <1>4 DEF Held
<1> QED
  BY <1>1, <1>2, <1>3, <1>5, <1>a

\* What a buffer holds is a sequence of the length asked for.
LEMMA HeldIs ==
  ASSUME NEW b \in [1 .. BufMax -> Datum], NEW n \in 0 .. BufMax
  PROVE  Held(b, n) \in Seq(Datum) /\ Len(Held(b, n)) = n
<1>1. n \in Nat /\ \A i \in 1 .. n : b[i] \in Datum
  BY SocketsAssumption
<1> QED
  BY <1>1 DEF Held

\* The operation e.op completes: the program finds e among the completions.
LEMMA CompletionKeeps ==
  ASSUME KernelInv, ProactorInv, design' = design, NEW e, EntryFine(e)', e.op \in ring,
         ring' = ring \ {e.op}, cq' = Append(cq, e), UNCHANGED <<sq, events, conns>>,
         \A c \in Client : Accepted(c)' <=> Accepted(c) \/ (e.op.type = "accept" /\ e.res = c),
         \A c \in Client : e.op.type = "accept" /\ e.res = c => ~Accepted(c),
         \A d \in Client : peer[d] = "dead" => peer'[d] = "dead",
         rbuf' \in BufferType, wbuf' \in BufferType, DataFlows'
  PROVE  ProactorInv'
<1>1. e \in Entry
  BY DEF EntryFine
<1>2. Finished' = Append(Finished, e) /\ Finished \in Seq(Entry)
  BY <1>1, FinishedGrows, FinishedType
<1>3. ASSUME NEW x, ~Of(e.op, x) PROVE (None(x)' <=> None(x)) /\ (Single(x) => Single(x)')
  BY <1>1, <1>2, <1>3, CompleteSame DEF SameIn, None, Single
<1>4. ASSUME NEW x, Of(e.op, x) PROVE ~None(x) /\ (Single(x) => Single(x)')
  <2>1. ~None(x)
    BY <1>4 DEF None, NoneIn, InSet
  <2>2. Single(x) => Single(x)'
    BY <1>1, <1>2, <1>4, CompleteMoves DEF OnlyEntry, Single
  <2> QED
    BY <2>1, <2>2
<1>5. \A c \in Client : Pending(c)' <=> Pending(c) \/ (e.op.type = "accept" /\ e.res = c)
  BY <1>1, <1>2, PendingAppend DEF Pending
<1>6. Single(NULL)'
  BY <1>3, <1>4 DEF ProactorInv, Tokens
<1>7. ASSUME NEW c \in Client PROVE OpsOf(c)'
  <2>1. CASE e.op.type = "accept" /\ e.res = c
    <3>1. ~Of(e.op, c)
      BY <2>1, SocketsAssumption DEF Of
    <3>2. None(c)
      BY <2>1 DEF ProactorInv, Tokens, OpsOf
    <3> QED
      BY <1>3, <1>5, <2>1, <3>1, <3>2 DEF OpsOf
  <2>2. CASE ~(e.op.type = "accept" /\ e.res = c)
    <3>1. (Accepted(c)' <=> Accepted(c)) /\ (Pending(c)' <=> Pending(c))
      BY <1>5, <2>2
    <3>2. OpsOf(c)
      BY DEF ProactorInv, Tokens
    <3> QED
      BY <1>3, <1>4, <3>1, <3>2 DEF OpsOf
  <2> QED
    BY <2>1, <2>2
<1>8. Tokens'
  BY <1>6, <1>7 DEF Tokens
<1>9. Known'
  BY <1>5 DEF ProactorInv, Known
<1>10. Room'
  BY DEF ProactorInv, Room
<1>11. ASSUME NEW j \in 1 .. Len(Finished') PROVE EntryFine(Finished[j])'
  <2>0. Len(Finished) \in Nat /\ Len(Finished') = Len(Finished) + 1 /\ Finished'[Len(Finished) + 1] = e
        /\ \A i \in 1 .. Len(Finished) : Finished'[i] = Finished[i]
    BY <1>1, <1>2, DoneAppend
  <2>1. CASE j = Len(Finished) + 1
    BY <2>0, <2>1
  <2>2. CASE j # Len(Finished) + 1
    <3>1. PICK d : d = Finished'[j]
      OBVIOUS
    <3>2. j \in 1 .. Len(Finished) /\ d = Finished[j]
      BY <2>0, <2>2, <3>1
    <3>3. EntryFine(d)
      BY <3>2 DEF ProactorInv, AllFine
    <3>4. /\ d.op.type = "accept" /\ d.res # -1 => Accepted(d.res)'
          /\ d.op.type = "recv" /\ d.op.who # NULL /\ peer[d.op.who] = "dead" => peer'[d.op.who] = "dead"
      BY <3>3 DEF EntryFine, OpFine, Op
    <3>5. EntryFine(d)'
      BY <3>3, <3>4, EntryStays
    <3> QED
      BY <3>1, <3>5
  <2> QED
    BY <2>1, <2>2
<1>12. \A op \in sq' \cup ring' : OpFine(op)'
  BY DEF ProactorInv, AllFine, OpFine
<1>13. AllFine'
  BY <1>11, <1>12 DEF AllFine
<1>14. cq' \in Seq(Entry) /\ events' \in Seq(Entry)
  BY <1>1 DEF ProactorInv
<1> QED
  BY <1>8, <1>9, <1>10, <1>13, <1>14 DEF ProactorInv

\* What the completed operation of client c means for the messages.
LEMMA CompletionFlows ==
  ASSUME KernelInv, ProactorInv, design' = design, NEW e \in Entry, e.op \in ring,
         ring' = ring \ {e.op}, cq' = Append(cq, e), UNCHANGED <<sq, events>>,
         \A d \in Client : Waiting(d)' => Waiting(d),
         NEW c \in Client, Of(e.op, c),
         \A d \in Client \ {c} : Own(d) => /\ Untouched(d) /\ rbuf'[Buffer(d)] = rbuf[Buffer(d)]
                                           /\ wbuf'[Buffer(d)] = wbuf[Buffer(d)],
         Own(c) => FlowAfter(c, IF e.op.type = "recv" /\ e.res > 0 THEN Held(rbuf'[Buffer(c)], e.res) ELSE <<>>)
  PROVE  DataFlows'
<1>1. Finished' = Append(Finished, e) /\ Finished \in Seq(Entry)
  BY FinishedGrows, FinishedType
<1>2. \A d \in Client : Own(d)' => Own(d)
  BY OwnBefore
<1>3. c # NULL /\ e.op.who = c /\ Buffer(c)' = Buffer(c)
  BY SocketsAssumption DEF Of, Buffer
<1>4. ASSUME NEW d \in Client, d # c, Own(d)' PROVE DataFlow(d)'
  <2>1. ~Of(e.op, d)
    BY <1>3, <1>4, SocketsAssumption DEF Of
  <2>2. SameIn(sq, ring, Finished, sq', ring', Finished', d)
    BY <1>1, <2>1, CompleteSame
  <2>3. DataFlow(d) /\ FlowsOn(d) /\ rbuf'[Buffer(d)] = rbuf[Buffer(d)] /\ wbuf'[Buffer(d)] = wbuf[Buffer(d)]
    BY <1>2, <1>4, UntouchedFlowsOn DEF ProactorInv, DataFlows
  <2> QED
    BY <2>2, <2>3, OthersData
<1>5. ASSUME Own(c)' PROVE DataFlow(c)'
  <2>1. Single(c)
    BY EngagedInRing
  <2>2. OnlyEntry(sq', ring', Finished', c, e)
    BY <1>1, <2>1, CompleteMoves DEF Single
  <2>3. FlowAfter(c, IF e.op.type = "recv" /\ e.res > 0 THEN Held(rbuf'[Buffer(c)'], e.res) ELSE <<>>)
    BY <1>2, <1>3, <1>5
  <2>4. ASSUME NEW j \in 1 .. Len(Finished'), Of(Finished'[j].op, c) PROVE Flow(c, EntryData(Finished[j]))'
    <3>1. Finished'[j] = e
      BY <2>2, <2>4 DEF OnlyEntry
    <3> QED
      BY <1>3, <2>3, <3>1 DEF Flow, FlowAfter, EntryData
  <2> QED
    BY <2>2, <2>4 DEF DataFlow, OnlyEntry, None
<1> QED
  BY <1>4, <1>5 DEF DataFlows

\* A completion that is nobody's leaves the messages alone.
LEMMA NobodysFlows ==
  ASSUME KernelInv, ProactorInv, design' = design, NEW e \in Entry,
         ring' = ring \ {e.op}, cq' = Append(cq, e), UNCHANGED <<sq, events, rbuf, wbuf>>,
         \A d \in Client : Waiting(d)' => Waiting(d),
         \A d \in Client : ~Of(e.op, d) /\ Untouched(d)
  PROVE  DataFlows'
<1>1. Finished' = Append(Finished, e) /\ Finished \in Seq(Entry)
  BY FinishedGrows, FinishedType
<1>2. \A d \in Client : Own(d)' => Own(d)
  BY OwnBefore
<1>3. ASSUME NEW d \in Client, Own(d)' PROVE DataFlow(d)'
  <2>1. SameIn(sq, ring, Finished, sq', ring', Finished', d)
    BY <1>1, CompleteSame
  <2>2. DataFlow(d) /\ FlowsOn(d)
    BY <1>2, <1>3, UntouchedFlowsOn DEF ProactorInv, DataFlows
  <2> QED
    BY <2>1, <2>2, OthersData
<1> QED
  BY <1>3 DEF DataFlows

\* An accept completes: the client has a descriptor the program does not know.
LEMMA CompleteAcceptKeeps ==
  ASSUME KernelInv, ProactorInv, CompleteAccept
  PROVE  KernelInv' /\ ProactorInv'
<1>0. /\ AcceptOp \in ring /\ UNCHANGED <<design, limit, peer, wire, sent, got, alive, sq, events, conns, rbuf, wbuf>>
      /\ rbuf' \in BufferType /\ wbuf' \in BufferType
  BY DEF CompleteAccept, ProactorInv
<1>a. AcceptOp \in Op /\ AcceptOp.type = "accept" /\ AcceptOp.who = NULL
  BY SocketsAssumption DEF AcceptOp, Op
<1>b. \A d \in Client : ~Of(AcceptOp, d) /\ Untouched(d)
  BY <1>0, <1>a, SocketsAssumption DEF Of, Untouched
<1>1. CASE Accept /\ Completed(AcceptOp, Head(backlog))
  <2>a. PICK c, f, e : c = Head(backlog) /\ f = Min(FreeFd) /\ e = [op |-> AcceptOp, res |-> Head(backlog)]
    OBVIOUS
  <2>1. Takes(c, f) /\ ring' = ring \ {AcceptOp} /\ cq' = Append(cq, e) /\ e.op = AcceptOp /\ e.res = c
    BY <1>1, <2>a, AcceptTakes DEF Completed, KernelInv
  <2>2. c \in Client /\ c # NULL /\ c # -1
    BY <2>1, SocketsAssumption DEF Takes
  <2>3. /\ KernelType' /\ Placed' /\ ~Accepted(c)
        /\ \A d \in Client : (Accepted(d)' <=> Accepted(d) \/ d = c) /\ (Waiting(d)' => Waiting(d))
    BY <1>0, <2>1, TakenPlaces DEF KernelInv
  <2>4. Fresh'
    BY <1>0 DEF KernelInv, Fresh
  <2>5. e \in Entry /\ EntryFine(e)'
    <3>1. e \in Entry
      BY <1>a, <2>1, <2>2, <2>a DEF Entry
    <3> QED
      BY <1>a, <2>1, <2>2, <2>3, <3>1 DEF EntryFine, OpFine
  <2>6. DataFlows'
    BY <1>0, <1>b, <2>1, <2>3, <2>5, NobodysFlows
  <2>7. ProactorInv'
    <3>1. /\ \A d \in Client : Accepted(d)' <=> Accepted(d) \/ (e.op.type = "accept" /\ e.res = d)
          /\ \A d \in Client : e.op.type = "accept" /\ e.res = d => ~Accepted(d)
          /\ \A d \in Client : peer[d] = "dead" => peer'[d] = "dead"
      BY <1>0, <1>a, <2>1, <2>3
    <3> QED
      BY <1>0, <2>1, <2>5, <2>6, <3>1, CompletionKeeps
  <2> QED
    BY <2>3, <2>4, <2>7 DEF KernelInv
<1>2. CASE Completed(AcceptOp, -1) /\ UNCHANGED <<owner, backlog>>
  <2>a. PICK e : e = [op |-> AcceptOp, res |-> -1]
    OBVIOUS
  <2>1. ring' = ring \ {AcceptOp} /\ cq' = Append(cq, e) /\ e.op = AcceptOp /\ e.res = -1
    BY <1>2, <2>a DEF Completed
  <2>2. KernelInv' /\ \A d \in Client : (Accepted(d)' <=> Accepted(d)) /\ (Waiting(d)' => Waiting(d))
    BY <1>0, <1>2 DEF KernelInv, KernelType, Placed, Fresh, Waiting, Accepted
  <2>3. e \in Entry /\ EntryFine(e)'
    <3>1. -1 \in -1 .. BufMax
      BY SocketsAssumption
    <3>2. e \in Entry
      BY <1>a, <2>a, <3>1 DEF Entry
    <3> QED
      BY <1>a, <2>1, <3>1, <3>2 DEF EntryFine, OpFine
  <2>4. DataFlows'
    BY <1>0, <1>b, <2>1, <2>2, <2>3, NobodysFlows
  <2>5. /\ \A d \in Client : Accepted(d)' <=> Accepted(d) \/ (e.op.type = "accept" /\ e.res = d)
        /\ \A d \in Client : e.op.type = "accept" /\ e.res = d => ~Accepted(d)
        /\ \A d \in Client : peer[d] = "dead" => peer'[d] = "dead"
    BY <1>0, <2>1, <2>2, SocketsAssumption
  <2>6. ProactorInv'
    BY <1>0, <2>1, <2>3, <2>4, <2>5, CompletionKeeps
  <2> QED
    BY <2>2, <2>6
<1> QED
  BY <1>1, <1>2 DEF CompleteAccept

\* A recv on the descriptor -1 fails.
LEMMA CompleteBadRecvKeeps ==
  ASSUME KernelInv, ProactorInv, CompleteBadRecv
  PROVE  KernelInv' /\ ProactorInv'
<1>a. PICK op, e : op = RecvOp(NULL) /\ e = [op |-> op, res |-> -1]
  OBVIOUS
<1>1. /\ op \in ring /\ ring' = ring \ {op} /\ cq' = Append(cq, e) /\ e.op = op /\ e.res = -1
      /\ UNCHANGED <<kernel, sq, events, conns, rbuf, wbuf>>
  BY <1>a DEF CompleteBadRecv, Completed
<1>2. KernelInv' /\ design' = design /\ peer' = peer
      /\ \A d \in Client : (Accepted(d)' <=> Accepted(d)) /\ (Waiting(d)' => Waiting(d)) /\ Untouched(d)
  BY <1>1 DEF kernel, KernelInv, KernelType, Placed, Fresh, Waiting, Accepted, Untouched
<1>3. op.type = "recv" /\ op.who = NULL /\ OpFine(op) /\ op \in Op
  BY <1>1, <1>a DEF RecvOp, ProactorInv, AllFine, OpFine
<1>4. e \in Entry /\ EntryFine(e)'
  <2>1. -1 \in -1 .. BufMax
    BY SocketsAssumption
  <2>2. e \in Entry
    BY <1>3, <1>a, <2>1 DEF Entry
  <2>3. OpFine(op)'
    BY <1>2, <1>3 DEF OpFine
  <2> QED
    BY <1>1, <1>3, <2>1, <2>2, <2>3 DEF EntryFine
<1>5. \A d \in Client : ~Of(op, d)
  BY <1>3, SocketsAssumption DEF Of
<1>6. DataFlows'
  BY <1>1, <1>2, <1>4, <1>5, NobodysFlows
<1>7. /\ \A d \in Client : Accepted(d)' <=> Accepted(d) \/ (e.op.type = "accept" /\ e.res = d)
      /\ \A d \in Client : e.op.type = "accept" /\ e.res = d => ~Accepted(d)
      /\ \A d \in Client : peer[d] = "dead" => peer'[d] = "dead"
      /\ rbuf' \in BufferType /\ wbuf' \in BufferType
  BY <1>1, <1>2, <1>3 DEF ProactorInv
<1>8. ProactorInv'
  BY <1>1, <1>2, <1>4, <1>6, <1>7, CompletionKeeps
<1> QED
  BY <1>2, <1>8

\* A recv of client c completes with n messages, 0 at its end, or -1.
LEMMA CompleteRecvKeeps ==
  ASSUME KernelInv, ProactorInv, design \in ProactorDesigns, NEW c \in Client, CompleteRecv(c)
  PROVE  KernelInv' /\ ProactorInv'
<1>a. PICK op : op = RecvOp(c)
  OBVIOUS
<1>1. op \in ring /\ op.type = "recv" /\ op.who = c /\ Of(op, c) /\ c # NULL
      /\ UNCHANGED <<design, limit, backlog, owner, sent, got, alive, sq, events, conns, wbuf>>
  BY <1>a, SocketsAssumption DEF CompleteRecv, RecvOp, Of
<1>2. Accepted(c) /\ ~Waiting(c) /\ peer[c] # "away" /\ Single(c) /\ OpFine(op) /\ KernelType /\ Placed
  BY <1>1, EngagedInRing, AcceptedIsPlaced DEF KernelInv, Waiting, ProactorInv, AllFine
<1>3. Own(c) => Flow(c, <<>>)
  BY <1>1 DEF ProactorInv, DataFlows, DataFlow, OpData
<1>4. PICK res :
        /\ Completed(op, res) /\ res \in -1 .. BufMax /\ (res = -1 => peer'[c] = "dead")
        /\ wire' \in [Client -> Seq(Message)] /\ (\A d \in Client \ {c} : wire'[d] = wire[d])
        /\ peer' \in [Client -> PeerState] /\ (\A d \in Client \ {c} : peer'[d] = peer[d]) /\ peer'[c] # "away"
        /\ (peer[c] = "dead" => peer'[c] = "dead")
        /\ rbuf' \in BufferType /\ (\A b \in Client \cup {NULL} : b # Buffer(c) => rbuf'[b] = rbuf[b])
        /\ Own(c) => FlowAfter(c, IF res > 0 THEN Held(rbuf'[Buffer(c)], res) ELSE <<>>)
  <2>0. design' = design /\ design # "printing" /\ Buffer(c) \in Client \cup {NULL} /\ rbuf[Buffer(c)] \in [1 .. BufMax -> Datum]
    BY <1>1, SocketsAssumption DEF ProactorDesigns, Buffer, ProactorInv, BufferType
  <2>1. CASE Available(c) /\ TakeChunk(c) /\ UNCHANGED peer /\ Completed(op, Len(Chunk(c)))
             /\ rbuf' = [rbuf EXCEPT ![Buffer(c)] = Overwritten(@, Chunk(c))]
    <3>a. PICK h, n : h = Chunk(c) /\ n = Len(h)
      OBVIOUS
    <3>1. h \in Seq(Datum) /\ n \in 0 .. BufMax /\ n > 0 /\ Len(h) = n
      BY <1>2, <2>1, <3>a, ChunkIs
    <3>2. Held(Overwritten(rbuf[Buffer(c)], h), n) = h /\ Overwritten(rbuf[Buffer(c)], h) \in [1 .. BufMax -> Datum]
      BY <2>0, <3>1, <3>a, WrittenIsHeld
    <3>3. rbuf' = [rbuf EXCEPT ![Buffer(c)] = Overwritten(rbuf[Buffer(c)], h)]
      BY <2>1, <3>a
    <3>4. /\ rbuf' \in BufferType /\ rbuf'[Buffer(c)] = Overwritten(rbuf[Buffer(c)], h)
          /\ \A b \in Client \cup {NULL} : b # Buffer(c) => rbuf'[b] = rbuf[b]
      BY <2>0, <3>2, <3>3 DEF ProactorInv, BufferType
    <3>5. wire' \in [Client -> Seq(Message)] /\ wire'[c] = Rest(c) /\ \A d \in Client \ {c} : wire'[d] = wire[d]
      BY <1>2, <2>1, TakeChunkIs
    <3>6. ASSUME Own(c) PROVE FlowAfter(c, h)
      <4>1. PipeOf(c, got[c], peer[c], Rest(c), sent[c], h)
        BY <1>2, <1>3, <2>0, <3>6, <3>a, FlowTaken
      <4> QED
        BY <1>1, <2>0, <2>1, <3>5, <4>1 DEF FlowAfter
    <3>7. n \in -1 .. BufMax /\ n # -1
      BY <3>1, SocketsAssumption
    <3>8. Completed(op, n) /\ peer' = peer /\ peer' \in [Client -> PeerState]
      BY <1>2, <2>1, <3>a DEF KernelType
    <3> WITNESS n
    <3> QED
      BY <1>2, <3>1, <3>2, <3>4, <3>5, <3>6, <3>7, <3>8
  <2>2. CASE Ended(c) /\ Completed(op, 0) /\ UNCHANGED <<peer, wire, rbuf>>
    <3>1. 0 \in -1 .. BufMax
      BY SocketsAssumption
    <3>2. Own(c) => FlowAfter(c, <<>>)
      BY <1>1, <1>3, <2>0, <2>2, FlowUntouched DEF Untouched
    <3> WITNESS 0
    <3> QED
      BY <1>2, <2>2, <3>1, <3>2 DEF KernelType, ProactorInv
  <2>3. CASE Failed(c) /\ Completed(op, -1) /\ peer' = [peer EXCEPT ![c] = "dead"] /\ UNCHANGED <<wire, rbuf>>
    <3>1. -1 \in -1 .. BufMax
      BY SocketsAssumption
    <3>2. peer' \in [Client -> PeerState] /\ peer'[c] = "dead" /\ \A d \in Client \ {c} : peer'[d] = peer[d]
      BY <1>2, <2>3 DEF KernelType, PeerState
    <3>3. Own(c) => FlowAfter(c, <<>>)
      BY <1>1, <1>3, <2>0, <3>2, FlowClosed
    <3>4. wire' \in [Client -> Seq(Message)] /\ rbuf' \in BufferType
      BY <1>2, <2>3 DEF KernelType, ProactorInv
    <3> WITNESS -1
    <3> QED
      BY <2>3, <3>1, <3>2, <3>3, <3>4
  <2> QED
    BY <2>1, <2>2, <2>3, <1>a DEF CompleteRecv
<1>b. PICK e : e = [op |-> op, res |-> res]
  OBVIOUS
<1>5. ring' = ring \ {op} /\ cq' = Append(cq, e) /\ e.op = op /\ e.res = res
  BY <1>4, <1>b DEF Completed
<1>6. KernelType' /\ OnlyTouches(c)
  BY <1>1, <1>2, <1>4 DEF KernelType, OnlyTouches
<1>7. Fresh' /\ (\A d \in Client \ {c} : Untouched(d)) /\ SamePlace
  BY <1>1, <1>6, OthersUntouched DEF KernelInv
<1>8. Placed' /\ \A d \in Client : (Accepted(d)' <=> Accepted(d)) /\ (Waiting(d)' => Waiting(d))
  BY <1>2, <1>7, SamePlaces
<1>9. e \in Entry /\ EntryFine(e)'
  <2>1. e \in Entry
    BY <1>2, <1>4, <1>b DEF Entry, OpFine
  <2>2. OpFine(op)'
    BY <1>1, <1>2 DEF OpFine
  <2> QED
    BY <1>1, <1>4, <1>5, <2>1, <2>2 DEF EntryFine
<1>10. ASSUME NEW d \in Client \ {c}, Own(d)
       PROVE  Untouched(d) /\ rbuf'[Buffer(d)] = rbuf[Buffer(d)] /\ wbuf'[Buffer(d)] = wbuf[Buffer(d)]
  BY <1>1, <1>2, <1>4, <1>7, <1>10, OwnBuffer
<1>11. DataFlows'
  BY <1>1, <1>4, <1>5, <1>8, <1>9, <1>10, CompletionFlows
<1>12. /\ \A d \in Client : Accepted(d)' <=> Accepted(d) \/ (e.op.type = "accept" /\ e.res = d)
       /\ \A d \in Client : e.op.type = "accept" /\ e.res = d => ~Accepted(d)
       /\ \A d \in Client : peer[d] = "dead" => peer'[d] = "dead"
       /\ rbuf' \in BufferType /\ wbuf' \in BufferType
  BY <1>1, <1>4, <1>5, <1>8 DEF ProactorInv
<1>13. ProactorInv'
  BY <1>1, <1>5, <1>9, <1>11, <1>12, CompletionKeeps
<1> QED
  BY <1>6, <1>7, <1>8, <1>13 DEF KernelInv

\* A send to client c completes: it has got what was in the buffer.
LEMMA CompleteSendKeeps ==
  ASSUME KernelInv, ProactorInv, design \in ProactorDesigns, NEW c \in Client, CompleteSend(c)
  PROVE  KernelInv' /\ ProactorInv'
<1>1. PICK op \in ring :
        /\ op.type = "send" /\ op.who = c
        /\ \/ /\ Deliver(c, Held((IF design = "uring" THEN rbuf ELSE wbuf)[Buffer(c)], op.len))
              /\ Completed(op, op.len)
           \/ SendFails(c) /\ UNCHANGED got /\ Completed(op, -1)
           \/ Broken(c) /\ UNCHANGED <<got, peer>> /\ Completed(op, -1)
        /\ UNCHANGED <<design, limit, backlog, owner, wire, sent, alive, sq, events, conns, rbuf, wbuf>>
  BY DEF CompleteSend
<1>a. PICK h : h = Held(SendFrom(c), op.len)
  OBVIOUS
<1>2. Of(op, c) /\ c # NULL /\ OpFine(op) /\ op.len \in 0 .. BufMax
  BY <1>1, SocketsAssumption DEF Of, ProactorInv, AllFine, OpFine, Op
<1>3. Accepted(c) /\ ~Waiting(c) /\ peer[c] # "away" /\ KernelType /\ Placed
  BY <1>1, <1>2, EngagedInRing, AcceptedIsPlaced DEF KernelInv, Waiting
<1>4. Own(c) => Flow(c, h)
  BY <1>1, <1>2, <1>a DEF ProactorInv, DataFlows, DataFlow, OpData
<1>5. h \in Seq(Datum)
  <2>1. SendFrom(c) \in [1 .. BufMax -> Datum]
    BY SocketsAssumption DEF SendFrom, Buffer, ProactorInv, BufferType
  <2> QED
    BY <1>2, <1>a, <2>1, HeldIs
<1>6. PICK res : Completed(op, res) /\ res \in -1 .. BufMax /\ Sends(c, h)
  <2>1. (IF design = "uring" THEN rbuf ELSE wbuf)[Buffer(c)] = SendFrom(c)
    BY DEF SendFrom
  <2>2. -1 \in -1 .. BufMax /\ op.len \in -1 .. BufMax
    BY <1>2, SocketsAssumption
  <2> QED
    BY <1>1, <1>a, <2>1, <2>2 DEF Sends
<1>7. /\ peer' \in [Client -> PeerState] /\ got' \in [Client -> Seq(Datum)] /\ peer'[c] # "away"
      /\ \A d \in Client \ {c} : peer'[d] = peer[d] /\ got'[d] = got[d]
  BY <1>3, <1>5, <1>6, SendsIs
<1>8. KernelType' /\ OnlyTouches(c)
  BY <1>1, <1>3, <1>7 DEF KernelType, OnlyTouches
<1>9. Fresh' /\ (\A d \in Client \ {c} : Untouched(d)) /\ SamePlace
  BY <1>1, <1>8, OthersUntouched DEF KernelInv
<1>10. Placed' /\ \A d \in Client : (Accepted(d)' <=> Accepted(d)) /\ (Waiting(d)' => Waiting(d))
  BY <1>3, <1>9, SamePlaces
<1>11. design # "printing" /\ design' = design
  BY <1>1 DEF ProactorDesigns
<1>12. ASSUME Own(c) PROVE FlowAfter(c, <<>>)
  <2>1. PipeOf(c, got[c], peer[c], wire[c], sent[c], h)
    BY <1>4, <1>11, <1>12 DEF Flow
  <2>2. PipeOf(c, got'[c], peer'[c], wire[c], sent[c], <<>>)
    BY <1>3, <1>5, <1>6, <2>1, PipeSends
  <2> QED
    BY <1>1, <1>11, <2>2 DEF FlowAfter
<1>b. PICK e : e = [op |-> op, res |-> res]
  OBVIOUS
<1>13. ring' = ring \ {op} /\ cq' = Append(cq, e) /\ e.op = op /\ e.res = res
  BY <1>6, <1>b DEF Completed
<1>14. e \in Entry /\ EntryFine(e)'
  <2>1. e \in Entry
    BY <1>2, <1>6, <1>b DEF Entry, OpFine
  <2>2. OpFine(op)'
    BY <1>2, <1>11 DEF OpFine
  <2> QED
    BY <1>1, <1>6, <1>13, <2>1, <2>2 DEF EntryFine
<1>15. DataFlows'
  BY <1>1, <1>2, <1>9, <1>10, <1>12, <1>13, <1>14, CompletionFlows
<1>16. peer[c] = "dead" => peer'[c] = "dead"
  BY <1>6 DEF Sends, Deliver, SendFails, Broken
<1>17. /\ \A d \in Client : Accepted(d)' <=> Accepted(d) \/ (e.op.type = "accept" /\ e.res = d)
       /\ \A d \in Client : e.op.type = "accept" /\ e.res = d => ~Accepted(d)
       /\ \A d \in Client : peer[d] = "dead" => peer'[d] = "dead"
       /\ rbuf' \in BufferType /\ wbuf' \in BufferType
  BY <1>1, <1>7, <1>10, <1>13, <1>16 DEF ProactorInv
<1>18. ProactorInv'
  BY <1>1, <1>13, <1>14, <1>15, <1>17, CompletionKeeps
<1> QED
  BY <1>8, <1>9, <1>10, <1>18 DEF KernelInv

-----------------------------------------------------------------------------
(* The program handles a completion.                                       *)

\* The first completion of the batch, and the room there is for what follows.
LEMMA Handled ==
  ASSUME ProactorInv, NEW type, Handling(type), cq' = cq, NEW e, e = Head(events)
  PROVE  /\ Finished \in Seq(Entry) /\ Finished # <<>> /\ e = Head(Finished) /\ Finished' = Tail(Finished)
         /\ events' \in Seq(Entry) /\ e.op.type = type /\ EntryFine(e)
         /\ IsFiniteSet(sq) /\ Cardinality(sq) \in Nat /\ Cardinality(sq) + 2 <= Entries /\ Entries \in Nat
         /\ IsFiniteSet(sq') /\ Cardinality(sq') <= Cardinality(sq) + 2 => Room'
<1>1. events # <<>> /\ e.op.type = type /\ events' = Tail(events)
  BY DEF Handling
<1>2. /\ Finished # <<>> /\ e = Head(Finished) /\ Finished' = Tail(Finished)
      /\ events' \in Seq(Entry) /\ Len(events') = Len(events) - 1 /\ Len(events) \in Nat /\ Finished \in Seq(Entry)
  BY <1>1, FinishedShrinks, FinishedType
<1>3. e = Finished[1] /\ 1 \in 1 .. Len(Finished)
  BY <1>2, DoneTail
<1>4. EntryFine(e)
  BY <1>3 DEF ProactorInv, AllFine
<1>5. IsFiniteSet(sq) /\ Cardinality(sq) \in Nat /\ Cardinality(sq) + 2 * Len(events) <= Entries /\ Entries \in Nat
  BY FS_CardinalityType, ProactorsAssumption DEF ProactorInv, Room
<1>6. Len(events) # 0
  BY <1>1 DEF ProactorInv
<1>7. Cardinality(sq) + 2 <= Entries
  BY <1>2, <1>5, <1>6
<1>8. IsFiniteSet(sq') => Cardinality(sq') \in Nat
  BY FS_CardinalityType
<1>9. IsFiniteSet(sq') /\ Cardinality(sq') <= Cardinality(sq) + 2 => Room'
  BY <1>2, <1>5, <1>8 DEF Room
<1> QED
  BY <1>1, <1>2, <1>4, <1>5, <1>7, <1>9

\* There is an entry in the submission queue.
LEMMA PreparedIs ==
  ASSUME NEW S, IsFiniteSet(S), NEW n \in Nat, Cardinality(S) <= n, n < Entries, NEW op
  PROVE  Prepared(S, op) = S \cup {op} /\ IsFiniteSet(S \cup {op}) /\ Cardinality(S \cup {op}) <= n + 1
<1>1. Cardinality(S) \in Nat /\ IsFiniteSet(S \cup {op})
      /\ Cardinality(S \cup {op}) = IF op \in S THEN Cardinality(S) ELSE Cardinality(S) + 1
  BY FS_CardinalityType, FS_AddElement
<1>2. Cardinality(S) < Entries
  BY <1>1, ProactorsAssumption
<1> QED
  BY <1>1, <1>2 DEF Prepared

\* One operation is prepared for a completion, and the queue has room for it.
LEMMA PreparedOne ==
  ASSUME ProactorInv, NEW type, Handling(type), cq' = cq, NEW op, sq' = Prepared(sq, op)
  PROVE  sq' = sq \cup {op} /\ Room'
<1>1. /\ IsFiniteSet(sq) /\ Cardinality(sq) \in Nat /\ Cardinality(sq) + 2 <= Entries /\ Entries \in Nat
      /\ IsFiniteSet(sq') /\ Cardinality(sq') <= Cardinality(sq) + 2 => Room'
  BY Handled
<1>2. PICK n \in Nat : n = Cardinality(sq)
  BY <1>1
<1>3. n < Entries /\ Cardinality(sq) <= n
  BY <1>1, <1>2
<1>4. sq' = sq \cup {op} /\ IsFiniteSet(sq \cup {op}) /\ Cardinality(sq \cup {op}) <= n + 1
  BY <1>1, <1>3, PreparedIs
<1>5. Cardinality(sq') <= Cardinality(sq) + 2
  BY <1>2, <1>4, FS_CardinalityType
<1> QED
  BY <1>1, <1>4, <1>5

\* Two operations are prepared for a completed accept, and there is room.
LEMMA PreparedTwo ==
  ASSUME ProactorInv, NEW type, Handling(type), cq' = cq, NEW a, NEW b, sq' = Prepared(Prepared(sq, a), b)
  PROVE  sq' = (sq \cup {a}) \cup {b} /\ Room'
<1>1. /\ IsFiniteSet(sq) /\ Cardinality(sq) \in Nat /\ Cardinality(sq) + 2 <= Entries /\ Entries \in Nat
      /\ IsFiniteSet(sq') /\ Cardinality(sq') <= Cardinality(sq) + 2 => Room'
  BY Handled
<1>2. PICK n \in Nat, m \in Nat : n = Cardinality(sq) /\ m = n + 1
  BY <1>1
<1>3. n < Entries /\ Cardinality(sq) <= n /\ m < Entries
  BY <1>1, <1>2
<1>4. Prepared(sq, a) = sq \cup {a} /\ IsFiniteSet(sq \cup {a}) /\ Cardinality(sq \cup {a}) <= m
  BY <1>1, <1>2, <1>3, PreparedIs
<1>5. /\ sq' = (sq \cup {a}) \cup {b} /\ IsFiniteSet((sq \cup {a}) \cup {b})
      /\ Cardinality((sq \cup {a}) \cup {b}) <= m + 1
  BY <1>3, <1>4, PreparedIs
<1>6. Cardinality(sq') <= Cardinality(sq) + 2
  BY <1>2, <1>5, FS_CardinalityType
<1> QED
  BY <1>1, <1>5, <1>6

\* A client whose completion is handled is connected, and its messages flow.
LEMMA EngagedHandled ==
  ASSUME ProactorInv, Finished # <<>>, NEW e, e = Head(Finished), NEW c \in Client, Of(e.op, c)
  PROVE  /\ Accepted(c) /\ ~Pending(c) /\ Single(c) /\ e.op.who = c /\ e.op.type # "accept" /\ c # NULL
         /\ Own(c) => Flow(c, IF e.op.type = "recv" /\ e.res > 0 THEN Held(rbuf[Buffer(c)], e.res) ELSE <<>>)
<1>1. e = Finished[1] /\ 1 \in 1 .. Len(Finished)
  BY FinishedType, DoneTail
<1>2. ~None(c)
  BY <1>1 DEF None, NoneIn, InDone
<1>3. e.op.who = c /\ e.op.type # "accept" /\ c # NULL
  BY SocketsAssumption DEF Of
<1> QED
  BY <1>1, <1>2, <1>3, Engaged DEF ProactorInv, DataFlows, DataFlow, EntryData

\* The completions that are left and the operations prepared are in order.
LEMMA RestFine ==
  ASSUME ProactorInv, design' = design, ring' = ring, Finished # <<>>, Finished' = Tail(Finished),
         \A op \in sq' : op \in sq \/ OpFine(op),
         \A d \in Client : Pending(d)' /\ Accepted(d) => Accepted(d)',
         \A d \in Client : peer[d] = "dead" => peer'[d] = "dead" \/ None(d)'
  PROVE  AllFine'
<1>1. ASSUME NEW op \in sq' \cup ring' PROVE OpFine(op)'
  BY DEF ProactorInv, AllFine, OpFine
<1>2. ASSUME NEW j \in 1 .. Len(Finished') PROVE EntryFine(Finished[j])'
  <2>1. PICK e : e = Finished'[j]
    OBVIOUS
  <2>2. j + 1 \in 1 .. Len(Finished) /\ e = Finished[j + 1]
    BY <2>1, FinishedType, DoneTail
  <2>3. EntryFine(e)
    BY <2>2 DEF ProactorInv, AllFine
  <2>4. ASSUME e.op.type = "accept", e.res # -1 PROVE Accepted(e.res)'
    <3>1. e.res \in Client /\ Accepted(e.res)
      BY <2>3, <2>4 DEF EntryFine
    <3>2. Pending(e.res)'
      BY <2>1, <2>4 DEF Pending, PendingIn
    <3> QED
      BY <3>1, <3>2
  <2>5. ASSUME e.op.type = "recv", e.op.who # NULL, peer[e.op.who] = "dead" PROVE peer'[e.op.who] = "dead"
    <3>1. e.op.who \in Client
      BY <2>3, <2>5 DEF EntryFine, OpFine, Op
    <3>2. j \in InDone(Finished', e.op.who)
      BY <2>1, <2>5 DEF InDone, Of
    <3>3. ~None(e.op.who)'
      BY <3>2 DEF None, NoneIn
    <3> QED
      BY <2>5, <3>1, <3>3
  <2>6. EntryFine(e)'
    BY <2>3, <2>4, <2>5, EntryStays
  <2> QED
    BY <2>1, <2>6
<1> QED
  BY <1>1, <1>2 DEF AllFine

\* The kernel's side is as it was.
LEMMA KernelSame ==
  ASSUME KernelInv, UNCHANGED kernel
  PROVE  /\ KernelInv' /\ design' = design /\ peer' = peer
         /\ \A d \in Client : (Accepted(d)' <=> Accepted(d)) /\ (Waiting(d)' <=> Waiting(d)) /\ Untouched(d)
         /\ \A d \in Client : Own(d)' => Own(d)
BY DEF kernel, KernelInv, KernelType, Placed, Fresh, Waiting, Accepted, Untouched, Own, Mixes

\* A completion of client c is handled and its next operation prepared.
LEMMA NextOp ==
  ASSUME KernelInv, ProactorInv, design \in ProactorDesigns, NEW type, Handling(type), type # "accept",
         NEW c \in Client, c = Who, UNCHANGED <<kernel, ring, cq, conns, rbuf>>,
         NEW op, OpFine(op), Of(op, c), sq' = Prepared(sq, op),
         wbuf' \in BufferType, \A b \in Client \cup {NULL} : b # Buffer(c) => wbuf'[b] = wbuf[b],
         Own(c) => FlowAfter(c, IF op.type = "send" THEN Held(SendFrom(c)', op.len) ELSE <<>>)
  PROVE  KernelInv' /\ ProactorInv'
<1>a. PICK e : e = Head(events)
  OBVIOUS
<1>1. /\ Finished \in Seq(Entry) /\ Finished # <<>> /\ e = Head(Finished) /\ Finished' = Tail(Finished)
      /\ events' \in Seq(Entry) /\ e.op.type = type /\ EntryFine(e)
  BY <1>a, Handled
<1>2. sq' = sq \cup {op} /\ Room'
  BY PreparedOne
<1>3. Of(e.op, c)
  BY <1>1, <1>a, SocketsAssumption DEF Of, Who
<1>4. Accepted(c) /\ ~Pending(c) /\ Single(c) /\ c # NULL
  BY <1>1, <1>3, EngagedHandled
<1>5. /\ KernelInv' /\ design' = design /\ peer' = peer
      /\ \A d \in Client : (Accepted(d)' <=> Accepted(d)) /\ (Waiting(d)' <=> Waiting(d)) /\ Untouched(d)
      /\ \A d \in Client : Own(d)' => Own(d)
  BY KernelSame
<1>6. OnlyOp(sq', ring', Finished', c, op)
  <2>1. NoneIn(sq, ring, Tail(Finished), c)
    BY <1>1, <1>3, <1>4, HandleTakes DEF Single
  <2> QED
    BY <1>1, <1>2, <2>1, PrepareAdds
<1>7. ASSUME NEW x \in Client \cup {NULL}, x # c PROVE SameIn(sq, ring, Finished, sq', ring', Finished', x)
  <2>1. ~Of(e.op, x) /\ ~Of(op, x)
    BY <1>1, <1>3, <1>4, <1>7 DEF Of
  <2>2. SameIn(sq, ring, Finished, sq, ring, Tail(Finished), x)
    BY <1>1, <2>1, HandleSame
  <2>3. SameIn(sq, ring, Tail(Finished), sq \cup {op}, ring, Tail(Finished), x)
    BY <2>1, PrepareSame
  <2> QED
    BY <1>1, <1>2, <2>2, <2>3, SameTwice
<1>8. \A d \in Client : Pending(d)' <=> Pending(d)
  BY <1>1, PendingTail DEF Pending
<1>9. Tokens'
  <2>1. Single(NULL)'
    BY <1>4, <1>7 DEF SameIn, Single, ProactorInv, Tokens
  <2>2. ASSUME NEW d \in Client PROVE OpsOf(d)'
    <3>1. CASE d = c
      BY <1>4, <1>5, <1>6, <1>8, <3>1 DEF OpsOf, OnlyOp, Single
    <3>2. CASE d # c
      <4>1. OpsOf(d) /\ SameIn(sq, ring, Finished, sq', ring', Finished', d)
        BY <1>7, <3>2 DEF ProactorInv, Tokens
      <4> QED
        BY <1>5, <1>8, <4>1 DEF OpsOf, SameIn, Single, None
    <3> QED
      BY <3>1, <3>2
  <2> QED
    BY <2>1, <2>2 DEF Tokens
<1>10. Known'
  BY <1>5, <1>8 DEF ProactorInv, Known
<1>11. AllFine'
  BY <1>1, <1>2, <1>5, RestFine
<1>12. ASSUME NEW d \in Client, Own(d)' PROVE DataFlow(d)'
  <2>1. CASE d = c
    <3>1. FlowAfter(c, IF op.type = "send" THEN Held(SendFrom(c)', op.len) ELSE <<>>)
      BY <1>5, <1>12, <2>1
    <3>2. ASSUME NEW o \in sq' \cup ring', Of(o, c) PROVE Flow(c, OpData(o))'
      <4>1. o = op /\ op.who = c
        BY <1>4, <1>6, <3>2 DEF OnlyOp, Of
      <4> QED
        BY <3>1, <4>1 DEF Flow, FlowAfter, OpData
    <3> QED
      BY <1>6, <2>1, <3>2 DEF DataFlow, OnlyOp, None
  <2>2. CASE d # c
    <3>1. Own(d) /\ ~Waiting(c)
      BY <1>4, <1>5, <1>12, AcceptedIsPlaced DEF KernelInv
    <3>2. wbuf'[Buffer(d)] = wbuf[Buffer(d)]
      BY <2>2, <3>1, OwnBuffer
    <3>3. DataFlow(d) /\ FlowsOn(d)
      BY <1>5, <3>1, UntouchedFlowsOn DEF ProactorInv, DataFlows
    <3>4. SameIn(sq, ring, Finished, sq', ring', Finished', d)
      BY <1>7, <2>2
    <3> QED
      BY <1>5, <3>2, <3>3, <3>4, OthersData
  <2> QED
    BY <2>1, <2>2
<1>13. DataFlows'
  BY <1>12 DEF DataFlows
<1>14. cq' \in Seq(Entry) /\ rbuf' \in BufferType
  BY DEF ProactorInv
<1> QED
  BY <1>1, <1>2, <1>5, <1>9, <1>10, <1>11, <1>13, <1>14 DEF ProactorInv

\* What a client whose operation has ended leaves behind.
LEMMA Ends ==
  ASSUME KernelInv, ProactorInv, design \in ProactorDesigns, NEW type, Handling(type), type # "accept",
         NEW c \in Client, c = Who, UNCHANGED <<design, limit, backlog, sent, got, alive, sq, ring, cq, rbuf, wbuf>>,
         \/ Close(c) /\ conns' = conns \ {c}
         \/ design # "proactor" /\ Close(c)
         \/ design # "proactor" /\ peer[c] = "dead" /\ UNCHANGED <<owner, peer, wire>>
  PROVE  KernelInv' /\ ProactorInv'
<1>a. PICK e : e = Head(events)
  OBVIOUS
<1>1. /\ Finished \in Seq(Entry) /\ Finished # <<>> /\ e = Head(Finished) /\ Finished' = Tail(Finished)
      /\ events' \in Seq(Entry) /\ e.op.type = type /\ EntryFine(e)
      /\ IsFiniteSet(sq) /\ Cardinality(sq) \in Nat /\ (IsFiniteSet(sq') /\ Cardinality(sq') <= Cardinality(sq) + 2 => Room')
  BY <1>a, Handled
<1>2. Room'
  BY <1>1
<1>3. Of(e.op, c)
  BY <1>1, <1>a, SocketsAssumption DEF Of, Who
<1>4. /\ Accepted(c) /\ ~Pending(c) /\ Single(c) /\ c # NULL
      /\ \E h : Own(c) => Flow(c, h)
  BY <1>1, <1>3, EngagedHandled
<1>5. KernelType /\ Placed /\ peer[c] # "away" /\ ~Waiting(c)
  BY <1>4, AcceptedIsPlaced DEF KernelInv, Waiting
<1>6. /\ KernelType' /\ Placed' /\ peer'[c] \in {"gone", "dead"}
      /\ \A d \in Client \ {c} : peer'[d] = peer[d] /\ wire'[d] = wire[d]
      /\ \A d \in Client : d # c => (Accepted(d)' <=> Accepted(d))
      /\ \A d \in Client : Waiting(d)' => Waiting(d)
      /\ ~Accepted(c)' \/ (Accepted(c)' /\ design # "proactor" /\ peer'[c] = "dead")
  <2>1. CASE Close(c)
    BY <1>4, <1>5, <2>1, ClosedPlaces
  <2>2. CASE design # "proactor" /\ peer[c] = "dead" /\ UNCHANGED <<owner, peer, wire>>
    <3>1. UNCHANGED kernel
      BY <2>2 DEF kernel
    <3>2. KernelInv' /\ \A d \in Client : (Accepted(d)' <=> Accepted(d)) /\ (Waiting(d)' <=> Waiting(d))
      BY <3>1, KernelSame
    <3> QED
      BY <1>4, <2>2, <3>2 DEF KernelInv
  <2> QED
    BY <2>1, <2>2
<1>7. OnlyTouches(c)
  BY <1>5, <1>6 DEF OnlyTouches
<1>8. Fresh' /\ \A d \in Client \ {c} : Untouched(d)
  BY <1>7, OthersUntouched DEF KernelInv
<1>9. NoneIn(sq', ring', Finished', c)
  BY <1>1, <1>3, <1>4, HandleTakes DEF Single
<1>10. ASSUME NEW x \in Client \cup {NULL}, x # c PROVE SameIn(sq, ring, Finished, sq', ring', Finished', x)
  <2>1. ~Of(e.op, x)
    BY <1>1, <1>3, <1>4, <1>10 DEF Of
  <2> QED
    BY <1>1, <2>1, HandleSame
<1>11. \A d \in Client : Pending(d)' <=> Pending(d)
  BY <1>1, PendingTail DEF Pending
<1>12. Tokens'
  <2>1. Single(NULL)'
    BY <1>4, <1>10 DEF SameIn, Single, ProactorInv, Tokens
  <2>2. ASSUME NEW d \in Client PROVE OpsOf(d)'
    <3>1. CASE d = c
      BY <1>6, <1>9, <3>1 DEF OpsOf, None
    <3>2. CASE d # c
      <4>1. OpsOf(d) /\ SameIn(sq, ring, Finished, sq', ring', Finished', d)
        BY <1>10, <3>2 DEF ProactorInv, Tokens
      <4> QED
        BY <1>6, <1>11, <3>2, <4>1 DEF OpsOf, SameIn, Single, None
    <3> QED
      BY <3>1, <3>2
  <2> QED
    BY <2>1, <2>2 DEF Tokens
<1>13. Known'
  <2>1. CASE design # "proactor"
    BY <2>1 DEF Known
  <2>2. CASE design = "proactor"
    <3>1. conns' = conns \ {c} /\ ~Accepted(c)' /\ conns = {d \in Client : Accepted(d) /\ ~Pending(d)}
      BY <1>6, <2>2 DEF ProactorInv, Known
    <3>2. conns' = {d \in Client : Accepted(d)' /\ ~Pending(d)'}
      BY <1>6, <1>11, <3>1
    <3> QED
      BY <3>2 DEF Known
  <2> QED
    BY <2>1, <2>2
<1>14. AllFine'
  <2>1. \A d \in Client : Pending(d)' /\ Accepted(d) => Accepted(d)'
    BY <1>4, <1>6, <1>11
  <2>2. \A d \in Client : peer[d] = "dead" => peer'[d] = "dead" \/ None(d)'
    BY <1>6, <1>9 DEF None
  <2> QED
    BY <1>1, <2>1, <2>2, RestFine
<1>15. \A d \in Client : Own(d)' => Own(d)
  BY <1>6, OwnBefore
<1>16. ASSUME NEW d \in Client, Own(d)' PROVE DataFlow(d)'
  <2>1. CASE d = c
    <3>1. FlowAfter(c, <<>>)
      <4>1. PICK h : Flow(c, h)
        BY <1>4, <1>15, <1>16, <2>1
      <4> QED
        BY <1>6, <4>1, FlowClosed
    <3> QED
      BY <1>9, <2>1, <3>1 DEF DataFlow, NoneIn, InSet, InDone, Flow, FlowAfter
  <2>2. CASE d # c
    <3>1. DataFlow(d) /\ FlowsOn(d)
      BY <1>8, <1>15, <1>16, <2>2, UntouchedFlowsOn DEF ProactorInv, DataFlows
    <3>2. SameIn(sq, ring, Finished, sq', ring', Finished', d)
      BY <1>10, <2>2
    <3> QED
      BY <3>1, <3>2, OthersData
  <2> QED
    BY <2>1, <2>2
<1>17. DataFlows'
  BY <1>16 DEF DataFlows
<1>18. cq' \in Seq(Entry) /\ rbuf' \in BufferType /\ wbuf' \in BufferType
  BY DEF ProactorInv
<1> QED
  BY <1>1, <1>2, <1>6, <1>8, <1>12, <1>13, <1>14, <1>17, <1>18 DEF ProactorInv, KernelInv

\* The completion of a recv or a send is that of a connected client, except for
\* the recv on the descriptor -1.
LEMMA WhoIs ==
  ASSUME ProactorInv, NEW type, Handling(type), type \in {"recv", "send"}, cq' = cq,
         type = "send" \/ design = "proactor" \/ Res # -1
  PROVE  /\ Who \in Client /\ Res \in -1 .. BufMax /\ (type = "recv" /\ Res = -1 => peer[Who] = "dead")
         /\ Own(Who) => Flow(Who, IF type = "recv" /\ Res > 0 THEN Held(rbuf[Buffer(Who)], Res) ELSE <<>>)
<1>a. PICK e : e = Head(events)
  OBVIOUS
<1>b. e.op.who = Who /\ e.res = Res
  BY <1>a DEF Who, Res
<1>1. Finished # <<>> /\ e = Head(Finished) /\ e.op.type = type /\ EntryFine(e)
  BY <1>a, Handled
<1>2. e.op.who \in Client \cup {NULL} /\ e.op.who # NULL /\ e.res \in -1 .. BufMax
  BY <1>1, <1>b DEF EntryFine, OpFine, Op
<1>3. Of(e.op, e.op.who)
  BY <1>1, <1>2 DEF Of
<1>4. Own(e.op.who) => Flow(e.op.who, IF e.op.type = "recv" /\ e.res > 0 THEN Held(rbuf[Buffer(e.op.who)], e.res) ELSE <<>>)
  BY <1>1, <1>2, <1>3, EngagedHandled
<1>5. type = "recv" /\ e.res = -1 => peer[e.op.who] = "dead"
  BY <1>1, <1>2 DEF EntryFine
<1> QED
  BY <1>1, <1>2, <1>4, <1>5, <1>b

\* A chunk has been received: the reply to it is prepared.  The handler copies
\* it to the send buffer, except in uring_tcp_server.c.
LEMMA RecvHandled ==
  ASSUME KernelInv, ProactorInv, design \in ProactorDesigns, Handling("recv"), Res > 0,
         UNCHANGED <<kernel, ring, cq, conns, rbuf>>, sq' = Prepared(sq, SendOp(Who, Res)),
         IF design = "uring" THEN wbuf' = wbuf
         ELSE wbuf' = [wbuf EXCEPT ![Buffer(Who)] = Overwritten(@, Held(rbuf[Buffer(Who)], Res))]
  PROVE  KernelInv' /\ ProactorInv'
<1>a. PICK c, n, b, op : c = Who /\ n = Res /\ b = Buffer(c) /\ op = SendOp(c, n)
  OBVIOUS
<1>1. c \in Client /\ n \in 0 .. BufMax /\ n > 0 /\ (Own(c) => Flow(c, Held(rbuf[b], n)))
  <2>1. Res # -1
    OBVIOUS
  <2>2. c \in Client /\ n \in -1 .. BufMax /\ (Own(c) => Flow(c, Held(rbuf[b], n)))
    BY <1>a, <2>1, WhoIs
  <2> QED
    BY <1>a, <2>2, SocketsAssumption
<1>2. c # NULL /\ b \in Client \cup {NULL} /\ BufMax \in Nat
  BY <1>1, <1>a, SocketsAssumption DEF Buffer
<1>3. op.type = "send" /\ op.who = c /\ op.len = n /\ op \in Op
  BY <1>1, <1>a DEF SendOp, Op
<1>4. OpFine(op) /\ Of(op, c)
  BY <1>2, <1>3 DEF OpFine, Of
<1>5. design' = design /\ \A d \in Client : Untouched(d)
  BY KernelSame
<1>6. rbuf \in BufferType /\ wbuf \in BufferType /\ rbuf' = rbuf /\ Buffer(c)' = b
  BY <1>5, <1>a DEF ProactorInv, Buffer
<1>7. /\ wbuf' \in BufferType /\ \A x \in Client \cup {NULL} : x # b => wbuf'[x] = wbuf[x]
      /\ Held(SendFrom(c)', n) = Held(rbuf[b], n)
  <2>1. CASE design = "uring"
    BY <1>5, <1>6, <2>1 DEF SendFrom
  <2>2. CASE design # "uring"
    <3>a. PICK s, old : s = Held(rbuf[b], n) /\ old = wbuf[b]
      OBVIOUS
    <3>1. rbuf[b] \in [1 .. BufMax -> Datum] /\ old \in [1 .. BufMax -> Datum]
      BY <1>2, <1>6, <3>a DEF BufferType
    <3>2. s \in Seq(Datum) /\ Len(s) = n
      BY <1>1, <3>1, <3>a, HeldIs
    <3>3. Held(Overwritten(old, s), n) = s /\ Overwritten(old, s) \in [1 .. BufMax -> Datum]
      BY <1>1, <3>1, <3>2, WrittenIsHeld
    <3>4. wbuf' = [wbuf EXCEPT ![b] = Overwritten(old, s)]
      BY <1>a, <2>2, <3>a
    <3>5. wbuf' \in BufferType /\ wbuf'[b] = Overwritten(old, s) /\ \A x \in Client \cup {NULL} : x # b => wbuf'[x] = wbuf[x]
      BY <1>2, <1>6, <3>3, <3>4 DEF BufferType
    <3>6. SendFrom(c)' = wbuf'[b]
      BY <1>5, <1>6, <2>2 DEF SendFrom
    <3> QED
      BY <3>3, <3>5, <3>6, <3>a
  <2> QED
    BY <2>1, <2>2
<1>8. Own(c) => FlowAfter(c, IF op.type = "send" THEN Held(SendFrom(c)', op.len) ELSE <<>>)
  BY <1>1, <1>3, <1>5, <1>7, FlowUntouched
<1> QED
  BY <1>1, <1>4, <1>7, <1>8, <1>a, NextOp

\* The next recv of a client whose reply has been sent is prepared.
LEMMA SendHandled ==
  ASSUME KernelInv, ProactorInv, design \in ProactorDesigns, Handling("send"),
         UNCHANGED <<kernel, ring, cq, conns, rbuf, wbuf>>, sq' = Prepared(sq, RecvOp(Who))
  PROVE  KernelInv' /\ ProactorInv'
<1>a. PICK c, op : c = Who /\ op = RecvOp(c)
  OBVIOUS
<1>1. c \in Client /\ (Own(c) => Flow(c, <<>>))
  BY <1>a, WhoIs
<1>2. c # NULL /\ 0 \in 0 .. BufMax
  BY <1>1, SocketsAssumption
<1>3. op.type = "recv" /\ op.who = c /\ op \in Op
  BY <1>1, <1>2, <1>a DEF RecvOp, Op
<1>4. OpFine(op) /\ Of(op, c)
  BY <1>2, <1>3 DEF OpFine, Of
<1>5. design' = design /\ \A d \in Client : Untouched(d)
  BY KernelSame
<1>6. wbuf' \in BufferType /\ \A b \in Client \cup {NULL} : b # Buffer(c) => wbuf'[b] = wbuf[b]
  BY DEF ProactorInv
<1>7. Own(c) => FlowAfter(c, IF op.type = "send" THEN Held(SendFrom(c)', op.len) ELSE <<>>)
  BY <1>1, <1>3, <1>5, FlowUntouched
<1> QED
  BY <1>1, <1>4, <1>6, <1>7, <1>a, NextOp

\* The recv on the descriptor -1 has failed: nothing follows.
LEMMA NobodyEnds ==
  ASSUME KernelInv, ProactorInv, design \in SharedBuffer, Handling("recv"), Who = NULL,
         UNCHANGED <<kernel, sq, ring, cq, conns, rbuf, wbuf>>
  PROVE  KernelInv' /\ ProactorInv'
<1>a. PICK e : e = Head(events)
  OBVIOUS
<1>1. /\ Finished \in Seq(Entry) /\ Finished # <<>> /\ e = Head(Finished) /\ Finished' = Tail(Finished)
      /\ events' \in Seq(Entry) /\ e.op.type = "recv" /\ EntryFine(e)
      /\ IsFiniteSet(sq) /\ Cardinality(sq) \in Nat /\ (IsFiniteSet(sq') /\ Cardinality(sq') <= Cardinality(sq) + 2 => Room')
  BY <1>a, Handled
<1>2. Room'
  BY <1>1
<1>3. /\ KernelInv' /\ design' = design /\ peer' = peer
      /\ \A d \in Client : (Accepted(d)' <=> Accepted(d)) /\ (Waiting(d)' <=> Waiting(d)) /\ Untouched(d)
      /\ \A d \in Client : Own(d)' => Own(d)
  BY KernelSame
<1>4. ASSUME NEW x \in Client \cup {NULL} PROVE SameIn(sq, ring, Finished, sq', ring', Finished', x)
  <2>1. ~Of(e.op, x)
    BY <1>1, <1>a, SocketsAssumption DEF Of, Who
  <2> QED
    BY <1>1, <2>1, HandleSame
<1>5. \A d \in Client : Pending(d)' <=> Pending(d)
  BY <1>1, PendingTail DEF Pending
<1>6. \A x \in Client \cup {NULL} : (None(x)' <=> None(x)) /\ (Single(x) => Single(x)')
  BY <1>4 DEF SameIn, None, Single
<1>7. Tokens'
  BY <1>3, <1>5, <1>6 DEF ProactorInv, Tokens, OpsOf
<1>8. Known'
  BY <1>3, <1>5 DEF ProactorInv, Known
<1>9. AllFine'
  BY <1>1, <1>3, RestFine
<1>10. ASSUME NEW d \in Client, Own(d)' PROVE DataFlow(d)'
  <2>1. DataFlow(d) /\ FlowsOn(d)
    BY <1>3, <1>10, UntouchedFlowsOn DEF ProactorInv, DataFlows
  <2> QED
    BY <1>3, <1>4, <2>1, OthersData
<1>11. DataFlows'
  BY <1>10 DEF DataFlows
<1>12. cq' \in Seq(Entry) /\ rbuf' \in BufferType /\ wbuf' \in BufferType
  BY DEF ProactorInv
<1> QED
  BY <1>1, <1>2, <1>3, <1>7, <1>8, <1>9, <1>11, <1>12 DEF ProactorInv

\* A completed accept is handled: the next one is prepared, and with it the
\* operation op, which may be the same.
LEMMA AcceptHandled ==
  ASSUME ProactorInv, Handling("accept"), cq' = cq, ring' = ring,
         NEW op, op = AcceptOp \/ op.type = "recv", sq' = (sq \cup {AcceptOp}) \cup {op}
  PROVE  /\ Single(NULL)'
         /\ \A x \in Client : Of(op, x) \/ SameIn(sq, ring, Finished, sq', ring', Finished', x)
         /\ \A x \in Client : Of(op, x) /\ None(x) => OnlyOp(sq', ring', Finished', x, op)
         /\ \A x \in Client : ~Pending(x)' /\ (Pending(x) <=> Res = x)
         /\ Res \in Client \cup {-1} /\ (Res # -1 => Accepted(Res))
<1>a. PICK e, s, t : e = Head(events) /\ s = Finished /\ t = Tail(Finished)
  OBVIOUS
<1>1. s \in Seq(Entry) /\ s # <<>> /\ e = Head(s) /\ Finished' = t /\ e.op.type = "accept" /\ EntryFine(e) /\ t = Tail(s)
  BY <1>a, Handled
<1>2. e.res = Res /\ e.res \in Client \cup {-1} /\ (e.res # -1 => Accepted(e.res))
  BY <1>1, <1>a DEF EntryFine, Res
<1>3. AcceptOp.type = "accept" /\ Of(e.op, NULL) /\ Of(AcceptOp, NULL)
  BY <1>1 DEF Of, AcceptOp
<1>4. SingleIn(sq, ring, s, NULL)
  BY <1>a DEF ProactorInv, Tokens, Single
<1>5. \A x \in Client : ~PendingIn(t, x) /\ (PendingIn(s, x) <=> Res = x)
  BY <1>1, <1>2, <1>4, PendingHandled
<1>6. SingleIn(sq', ring', t, NULL)
  <2>1. NoneIn(sq, ring, t, NULL)
    BY <1>1, <1>3, <1>4, HandleTakes
  <2>2. SingleIn(sq \cup {AcceptOp}, ring, t, NULL)
    BY <1>3, <2>1, PrepareAdds DEF OnlyOp
  <2>3. CASE op = AcceptOp
    <3>1. sq' = sq \cup {AcceptOp}
      BY <2>3
    <3> QED
      BY <2>2, <3>1
  <2>4. CASE op.type = "recv"
    <3>1. ~Of(op, NULL)
      BY <2>4 DEF Of
    <3> QED
      BY <2>2, <3>1, PrepareSame DEF SameIn
  <2> QED
    BY <2>3, <2>4
<1>7. ASSUME NEW x \in Client PROVE SameIn(sq, ring, s, sq \cup {AcceptOp}, ring, t, x)
  <2>1. ~Of(e.op, x) /\ ~Of(AcceptOp, x)
    BY <1>1, <1>3, SocketsAssumption DEF Of
  <2>2. SameIn(sq, ring, s, sq, ring, t, x)
    BY <1>1, <2>1, HandleSame
  <2>3. SameIn(sq, ring, t, sq \cup {AcceptOp}, ring, t, x)
    BY <2>1, PrepareSame
  <2> QED
    BY <2>2, <2>3, SameTwice
<1>8. ASSUME NEW x \in Client, ~Of(op, x) PROVE SameIn(sq, ring, s, sq', ring', t, x)
  <2>1. SameIn(sq \cup {AcceptOp}, ring, t, sq', ring', t, x)
    BY <1>8, PrepareSame
  <2> QED
    BY <1>7, <2>1, SameTwice
<1>9. ASSUME NEW x \in Client, Of(op, x), None(x) PROVE OnlyOp(sq', ring', t, x, op)
  <2>1. NoneIn(sq \cup {AcceptOp}, ring, t, x)
    BY <1>7, <1>9, <1>a DEF SameIn, None
  <2> QED
    BY <1>9, <2>1, PrepareAdds
<1> QED
  BY <1>1, <1>2, <1>5, <1>6, <1>8, <1>9, <1>a DEF Single, Pending

\* A failed accept: the next is prepared, and in the lesson servers a recv on
\* the descriptor -1.
LEMMA AcceptFailed ==
  ASSUME KernelInv, ProactorInv, Handling("accept"), Res = -1, UNCHANGED <<kernel, ring, cq, conns, rbuf, wbuf>>,
         NEW op, op = AcceptOp \/ (design # "proactor" /\ op = RecvOp(NULL)),
         sq' = (sq \cup {AcceptOp}) \cup {op}, Room'
  PROVE  KernelInv' /\ ProactorInv'
<1>1. /\ KernelInv' /\ design' = design /\ peer' = peer
      /\ \A d \in Client : (Accepted(d)' <=> Accepted(d)) /\ (Waiting(d)' <=> Waiting(d)) /\ Untouched(d)
      /\ \A d \in Client : Own(d)' => Own(d)
  BY KernelSame
<1>2. Finished # <<>> /\ Finished' = Tail(Finished) /\ events' \in Seq(Entry)
  BY Handled
<1>3. op = AcceptOp \/ op.type = "recv"
  BY DEF RecvOp
<1>4. 0 \in 0 .. BufMax
  BY SocketsAssumption
<1>5. OpFine(AcceptOp) /\ OpFine(op) /\ op.who = NULL
  <2>1. AcceptOp.type = "accept" /\ AcceptOp.who = NULL /\ AcceptOp \in Op
    BY <1>4 DEF AcceptOp, Op
  <2>2. RecvOp(NULL).type = "recv" /\ RecvOp(NULL).who = NULL /\ RecvOp(NULL) \in Op
    BY <1>4 DEF RecvOp, Op
  <2> QED
    BY <2>1, <2>2 DEF OpFine
<1>6. \A x \in Client : ~Of(op, x)
  BY <1>5, SocketsAssumption DEF Of
<1>7. /\ Single(NULL)' /\ \A x \in Client : SameIn(sq, ring, Finished, sq', ring', Finished', x)
      /\ \A x \in Client : ~Pending(x)' /\ ~Pending(x)
  BY <1>3, <1>6, AcceptHandled, SocketsAssumption
<1>8. \A x \in Client : (None(x)' <=> None(x)) /\ (Single(x) => Single(x)')
  BY <1>7 DEF SameIn, None, Single
<1>9. Tokens'
  BY <1>1, <1>7, <1>8 DEF ProactorInv, Tokens, OpsOf
<1>10. Known'
  BY <1>1, <1>7 DEF ProactorInv, Known
<1>11. AllFine'
  BY <1>1, <1>2, <1>5, RestFine
<1>12. ASSUME NEW d \in Client, Own(d)' PROVE DataFlow(d)'
  <2>1. DataFlow(d) /\ FlowsOn(d)
    BY <1>1, <1>12, UntouchedFlowsOn DEF ProactorInv, DataFlows
  <2> QED
    BY <1>1, <1>7, <2>1, OthersData
<1>13. DataFlows'
  BY <1>12 DEF DataFlows
<1>14. cq' \in Seq(Entry) /\ rbuf' \in BufferType /\ wbuf' \in BufferType
  BY DEF ProactorInv
<1> QED
  BY <1>1, <1>2, <1>9, <1>10, <1>11, <1>13, <1>14 DEF ProactorInv

\* A client has been accepted: its first recv and the next accept are prepared.
LEMMA AcceptSucceeded ==
  ASSUME KernelInv, ProactorInv, Handling("accept"), Res # -1, UNCHANGED <<kernel, ring, cq, rbuf, wbuf>>,
         design = "proactor" => conns' = conns \cup {Res}, design # "proactor" => conns' = conns,
         sq' = (sq \cup {AcceptOp}) \cup {RecvOp(Res)}, Room'
  PROVE  KernelInv' /\ ProactorInv'
<1>a. PICK c, op : c = Res /\ op = RecvOp(c)
  OBVIOUS
<1>1. /\ KernelInv' /\ design' = design /\ peer' = peer
      /\ \A d \in Client : (Accepted(d)' <=> Accepted(d)) /\ (Waiting(d)' <=> Waiting(d)) /\ Untouched(d)
      /\ \A d \in Client : Own(d)' => Own(d)
  BY KernelSame
<1>2. Finished # <<>> /\ Finished' = Tail(Finished) /\ events' \in Seq(Entry)
  BY Handled
<1>3. op.type = "recv" /\ op.who = c
  BY <1>a DEF RecvOp
<1>4. /\ Single(NULL)'
      /\ \A x \in Client : Of(op, x) \/ SameIn(sq, ring, Finished, sq', ring', Finished', x)
      /\ \A x \in Client : Of(op, x) /\ None(x) => OnlyOp(sq', ring', Finished', x, op)
      /\ \A x \in Client : ~Pending(x)' /\ (Pending(x) <=> c = x)
      /\ c \in Client /\ Accepted(c)
  BY <1>3, <1>a, AcceptHandled
<1>5. 0 \in 0 .. BufMax /\ c # NULL
  BY <1>4, SocketsAssumption
<1>6. OpFine(AcceptOp) /\ OpFine(op)
  <2>1. AcceptOp.type = "accept" /\ AcceptOp.who = NULL /\ AcceptOp \in Op
    BY <1>5 DEF AcceptOp, Op
  <2>2. op \in Op
    BY <1>4, <1>5, <1>a DEF RecvOp, Op
  <2> QED
    BY <1>3, <1>5, <2>1, <2>2 DEF OpFine
<1>7. \A x \in Client : Of(op, x) <=> x = c
  BY <1>3, <1>5, SocketsAssumption DEF Of
<1>8. None(c)
  BY <1>4 DEF ProactorInv, Tokens, OpsOf
<1>9. OnlyOp(sq', ring', Finished', c, op)
  BY <1>4, <1>7, <1>8
<1>10. ASSUME NEW d \in Client PROVE OpsOf(d)'
  <2>1. CASE d = c
    BY <1>1, <1>4, <1>9, <2>1 DEF OpsOf, OnlyOp, Single
  <2>2. CASE d # c
    <3>1. OpsOf(d) /\ SameIn(sq, ring, Finished, sq', ring', Finished', d) /\ ~Pending(d)' /\ ~Pending(d)
      BY <1>4, <1>7, <2>2 DEF ProactorInv, Tokens
    <3> QED
      BY <1>1, <3>1 DEF OpsOf, SameIn, Single, None
  <2> QED
    BY <2>1, <2>2
<1>11. Tokens'
  BY <1>4, <1>10 DEF Tokens
<1>12. Known'
  <2>1. CASE design # "proactor"
    BY <1>1, <2>1 DEF Known
  <2>2. CASE design = "proactor"
    <3>1. conns = {d \in Client : Accepted(d) /\ ~Pending(d)} /\ conns' = conns \cup {c}
      BY <1>a, <2>2 DEF ProactorInv, Known
    <3>2. conns' = {d \in Client : Accepted(d)' /\ ~Pending(d)'}
      BY <1>1, <1>4, <3>1
    <3> QED
      BY <3>2 DEF Known
  <2> QED
    BY <2>1, <2>2
<1>13. AllFine'
  BY <1>1, <1>2, <1>6, <1>a, RestFine
<1>14. ASSUME NEW d \in Client, Own(d)' PROVE DataFlow(d)'
  <2>1. DataFlow(d) /\ FlowsOn(d)
    BY <1>1, <1>14, UntouchedFlowsOn DEF ProactorInv, DataFlows
  <2>2. CASE d = c
    <3>1. FlowAfter(c, <<>>)
      BY <1>1, <1>8, <2>1, <2>2, FlowUntouched DEF DataFlow
    <3>2. ASSUME NEW o \in sq' \cup ring', Of(o, c) PROVE Flow(c, OpData(o))'
      <4>1. o = op
        BY <1>9, <3>2 DEF OnlyOp
      <4> QED
        BY <1>3, <3>1, <4>1 DEF Flow, FlowAfter, OpData
    <3> QED
      BY <1>9, <2>2, <3>2 DEF DataFlow, OnlyOp, None
  <2>3. CASE d # c
    <3>1. SameIn(sq, ring, Finished, sq', ring', Finished', d)
      BY <1>4, <1>7, <2>3
    <3> QED
      BY <1>1, <2>1, <3>1, OthersData
  <2> QED
    BY <2>2, <2>3
<1>15. DataFlows'
  BY <1>14 DEF DataFlows
<1>16. cq' \in Seq(Entry) /\ rbuf' \in BufferType /\ wbuf' \in BufferType
  BY DEF ProactorInv
<1> QED
  BY <1>1, <1>2, <1>11, <1>12, <1>13, <1>15, <1>16 DEF ProactorInv

\* A client is turned away for want of memory.
LEMMA NoMemoryKeeps ==
  ASSUME KernelInv, ProactorInv, HandleAcceptNoMemory
  PROVE  KernelInv' /\ ProactorInv'
<1>a. PICK c, op : c = Res /\ op = AcceptOp
  OBVIOUS
<1>0. /\ design = "proactor" /\ Handling("accept") /\ Res # -1 /\ Close(c) /\ sq' = Prepared(sq, op)
      /\ UNCHANGED <<design, limit, backlog, sent, got, alive, ring, cq, conns, rbuf, wbuf>>
  BY <1>a DEF HandleAcceptNoMemory
<1>1. sq' = (sq \cup {AcceptOp}) \cup {op} /\ Room'
  <2>1. sq' = sq \cup {op} /\ Room'
    BY <1>0, PreparedOne
  <2> QED
    BY <1>a, <2>1
<1>2. Finished # <<>> /\ Finished' = Tail(Finished) /\ events' \in Seq(Entry)
  BY <1>0, Handled
<1>3. 0 \in 0 .. BufMax
  BY SocketsAssumption
<1>4. op.type = "accept" /\ op.who = NULL /\ OpFine(op)
  BY <1>3, <1>a DEF OpFine, AcceptOp, Op
<1>5. \A x \in Client : ~Of(op, x)
  BY <1>4, SocketsAssumption DEF Of
<1>6. /\ Single(NULL)' /\ \A x \in Client : SameIn(sq, ring, Finished, sq', ring', Finished', x)
      /\ \A x \in Client : ~Pending(x)' /\ (Pending(x) <=> c = x)
      /\ c \in Client /\ Accepted(c)
  BY <1>0, <1>1, <1>5, <1>a, AcceptHandled
<1>7. /\ KernelType' /\ Placed' /\ peer'[c] = "gone" /\ ~Accepted(c)' /\ ~Waiting(c)
      /\ \A d \in Client \ {c} : peer'[d] = peer[d] /\ wire'[d] = wire[d]
      /\ \A d \in Client : (Accepted(d)' <=> Accepted(d) /\ d # c) /\ (Waiting(d)' <=> Waiting(d))
  BY <1>0, <1>6, ClosedPlaces DEF KernelInv
<1>8. OnlyTouches(c)
  BY <1>0, <1>7 DEF OnlyTouches, Waiting
<1>9. Fresh' /\ \A d \in Client \ {c} : Untouched(d)
  BY <1>6, <1>8, OthersUntouched DEF KernelInv
<1>b. \A d \in Client : Untouched(d)
  BY <1>0, <1>7, <1>9 DEF Untouched
<1>10. \A x \in Client : (None(x)' <=> None(x)) /\ (Single(x) => Single(x)')
  BY <1>6 DEF SameIn, None, Single
<1>11. None(c)
  BY <1>6 DEF ProactorInv, Tokens, OpsOf
<1>12. ASSUME NEW d \in Client PROVE OpsOf(d)'
  <2>1. CASE d = c
    BY <1>7, <1>10, <1>11, <2>1 DEF OpsOf
  <2>2. CASE d # c
    <3>1. OpsOf(d) /\ ~Pending(d) /\ ~Pending(d)' /\ peer'[d] = peer[d] /\ (Accepted(d)' <=> Accepted(d))
      BY <1>6, <1>7, <2>2 DEF ProactorInv, Tokens
    <3> QED
      BY <1>0, <1>10, <3>1 DEF OpsOf
  <2> QED
    BY <2>1, <2>2
<1>13. Tokens'
  BY <1>6, <1>12 DEF Tokens
<1>14. Known'
  <2>1. conns = {d \in Client : Accepted(d) /\ ~Pending(d)} /\ conns' = conns
    BY <1>0 DEF ProactorInv, Known
  <2>2. conns' = {d \in Client : Accepted(d)' /\ ~Pending(d)'}
    BY <1>6, <1>7, <2>1
  <2> QED
    BY <2>2 DEF Known
<1>15. AllFine'
  <2>1. \A o \in sq' : o \in sq \/ OpFine(o)
    BY <1>1, <1>4, <1>a
  <2>2. \A d \in Client : Pending(d)' /\ Accepted(d) => Accepted(d)'
    BY <1>6
  <2>3. \A d \in Client : peer[d] = "dead" => peer'[d] = "dead" \/ None(d)'
    BY <1>7, <1>10, <1>11
  <2> QED
    BY <1>0, <1>2, <2>1, <2>2, <2>3, RestFine
<1>16. \A d \in Client : Own(d)' => Own(d)
  BY <1>0, <1>7, OwnBefore
<1>17. ASSUME NEW d \in Client, Own(d)' PROVE DataFlow(d)'
  <2>1. DataFlow(d) /\ FlowsOn(d)
    BY <1>0, <1>16, <1>17, <1>b, UntouchedFlowsOn DEF ProactorInv, DataFlows
  <2> QED
    BY <1>0, <1>6, <2>1, OthersData
<1>18. DataFlows'
  BY <1>17 DEF DataFlows
<1>19. cq' \in Seq(Entry) /\ rbuf' \in BufferType /\ wbuf' \in BufferType
  BY <1>0 DEF ProactorInv
<1> QED
  BY <1>1, <1>2, <1>7, <1>9, <1>13, <1>14, <1>15, <1>18, <1>19 DEF ProactorInv, KernelInv

\* EVENT_ACCEPT in proactor.c.
LEMMA HandleAcceptKeeps ==
  ASSUME KernelInv, ProactorInv, HandleAccept
  PROVE  KernelInv' /\ ProactorInv'
<1>0. design = "proactor" /\ Handling("accept") /\ UNCHANGED <<kernel, ring, cq, rbuf, wbuf>>
  BY DEF HandleAccept
<1>1. CASE Res = -1 /\ sq' = Prepared(sq, AcceptOp) /\ UNCHANGED conns
  <2>1. sq' = (sq \cup {AcceptOp}) \cup {AcceptOp} /\ Room'
    BY <1>0, <1>1, PreparedOne
  <2> QED
    BY <1>0, <1>1, <2>1, AcceptFailed
<1>2. CASE Res # -1 /\ sq' = Prepared(Prepared(sq, RecvOp(Res)), AcceptOp) /\ conns' = conns \cup {Res}
  <2>1. sq' = (sq \cup {RecvOp(Res)}) \cup {AcceptOp} /\ Room'
    BY <1>0, <1>2, PreparedTwo
  <2>2. sq' = (sq \cup {AcceptOp}) \cup {RecvOp(Res)}
    BY <2>1
  <2> QED
    BY <1>0, <1>2, <2>1, <2>2, AcceptSucceeded
<1> QED
  BY <1>1, <1>2 DEF HandleAccept

\* The accept of the lesson servers.
LEMMA LessonAcceptKeeps ==
  ASSUME KernelInv, ProactorInv, LessonAccept
  PROVE  KernelInv' /\ ProactorInv'
<1>0. /\ design # "proactor" /\ Handling("accept") /\ UNCHANGED <<kernel, ring, cq, conns, rbuf, wbuf>>
      /\ sq' = Prepared(Prepared(sq, AcceptOp), RecvOp(IF Res = -1 THEN NULL ELSE Res))
  BY DEF LessonAccept, SharedBuffer
<1>a. PICK op : op = RecvOp(IF Res = -1 THEN NULL ELSE Res)
  OBVIOUS
<1>1. sq' = (sq \cup {AcceptOp}) \cup {op} /\ Room'
  BY <1>0, <1>a, PreparedTwo
<1>2. CASE Res = -1
  <2>1. op = RecvOp(NULL)
    BY <1>2, <1>a
  <2> QED
    BY <1>0, <1>1, <1>2, <2>1, AcceptFailed
<1>3. CASE Res # -1
  <2>1. op = RecvOp(Res)
    BY <1>3, <1>a
  <2> QED
    BY <1>0, <1>1, <1>3, <2>1, AcceptSucceeded
<1> QED
  BY <1>2, <1>3

\* The receptions and the replies.
LEMMA HandleRecvKeeps ==
  ASSUME KernelInv, ProactorInv, HandleRecv \/ LessonRecv \/ PrecursorRecv
  PROVE  KernelInv' /\ ProactorInv'
<1>1. /\ design \in ProactorDesigns /\ Handling("recv") /\ Res > 0
      /\ UNCHANGED <<kernel, ring, cq, conns, rbuf>> /\ sq' = Prepared(sq, SendOp(Who, Res))
  BY DEF HandleRecv, LessonRecv, PrecursorRecv, ProactorDesigns
<1>2. IF design = "uring" THEN wbuf' = wbuf
      ELSE wbuf' = [wbuf EXCEPT ![Buffer(Who)] = Overwritten(@, Held(rbuf[Buffer(Who)], Res))]
  BY DEF HandleRecv, LessonRecv, PrecursorRecv, Buffer
<1> QED
  BY <1>1, <1>2, RecvHandled

\* The completed sends.
LEMMA HandleSendKeeps ==
  ASSUME KernelInv, ProactorInv, HandleSend \/ LessonSend
  PROVE  KernelInv' /\ ProactorInv'
<1>1. design \in ProactorDesigns /\ Handling("send") /\ cq' = cq
  BY DEF HandleSend, LessonSend, ProactorDesigns, SharedBuffer
<1>2. CASE sq' = Prepared(sq, RecvOp(Who)) /\ UNCHANGED <<kernel, ring, cq, conns, rbuf, wbuf>>
  BY <1>1, <1>2, SendHandled
<1>3. CASE /\ Close(Who) /\ conns' = conns \ {Who}
           /\ UNCHANGED <<design, limit, backlog, sent, got, alive, sq, ring, cq, rbuf, wbuf>>
  <2>a. PICK c : c = Who
    OBVIOUS
  <2>1. c \in Client
    BY <1>1, <2>a, WhoIs
  <2> QED
    BY <1>1, <1>3, <2>1, <2>a, Ends
<1> QED
  BY <1>2, <1>3 DEF HandleSend, LessonSend, kernel

\* The ends of connections.
LEMMA HandleEndsKeeps ==
  ASSUME KernelInv, ProactorInv, HandleRecvEnds \/ LessonEnds
  PROVE  KernelInv' /\ ProactorInv'
<1>a. PICK c : c = Who
  OBVIOUS
<1>1. /\ design \in ProactorDesigns /\ Handling("recv")
      /\ UNCHANGED <<design, limit, backlog, sent, got, alive, sq, ring, cq, rbuf, wbuf>>
  BY DEF HandleRecvEnds, LessonEnds, ProactorDesigns, SharedBuffer
<1>2. CASE HandleRecvEnds
  <2>1. design = "proactor" /\ Close(c) /\ conns' = conns \ {c}
    BY <1>2, <1>a DEF HandleRecvEnds
  <2>2. c \in Client
    BY <1>1, <1>a, <2>1, WhoIs
  <2> QED
    BY <1>1, <1>a, <2>1, <2>2, Ends
<1>3. CASE LessonEnds
  <2>1. design \in SharedBuffer /\ design # "proactor" /\ conns' = conns
        /\ (IF Res = 0 THEN Close(c) ELSE UNCHANGED <<owner, peer, wire>>) /\ Res <= 0
    BY <1>3, <1>a DEF LessonEnds, SharedBuffer
  <2>2. CASE Res = 0
    <3>1. c \in Client /\ Close(c)
      BY <1>1, <1>a, <2>1, <2>2, WhoIs
    <3> QED
      BY <1>1, <1>a, <2>1, <3>1, Ends
  <2>3. CASE Res # 0
    <3>1. UNCHANGED <<owner, peer, wire>> /\ UNCHANGED <<kernel, sq, ring, cq, conns, rbuf, wbuf>>
      BY <1>1, <2>1, <2>3 DEF kernel
    <3>b. PICK e : e = Head(events)
      OBVIOUS
    <3>2. e.op.type = "recv" /\ EntryFine(e) /\ e.op.who = c /\ e.res = Res
      BY <1>1, <1>a, <3>b, Handled DEF Who, Res
    <3>3. c \in Client \cup {NULL} /\ Res \in -1 .. BufMax
      BY <3>2 DEF EntryFine, OpFine, Op
    <3>4. Res = -1
      BY <2>1, <2>3, <3>3, SocketsAssumption
    <3>5. CASE c = NULL
      BY <1>1, <1>a, <2>1, <3>1, <3>5, NobodyEnds
    <3>6. CASE c # NULL
      <4>1. c \in Client /\ peer[c] = "dead"
        BY <3>2, <3>3, <3>4, <3>6 DEF EntryFine
      <4> QED
        BY <1>1, <1>a, <2>1, <3>1, <4>1, Ends
    <3> QED
      BY <3>5, <3>6
  <2> QED
    BY <2>2, <2>3
<1> QED
  BY <1>2, <1>3

\* Every step of a server on io_uring.
LEMMA ProactorKeeps ==
  ASSUME KernelInv, ProactorInv, design \in ProactorDesigns,
         ProactorLoop \/ CompleteAccept \/ CompleteBadRecv \/ \E c \in Client : ProactorKernel(c)
  PROVE  KernelInv' /\ ProactorInv'
<1>1. CASE Submit \/ PeekBatch
  BY <1>1, SubmitKeeps, PeekBatchKeeps
<1>2. CASE HandleAccept \/ HandleAcceptNoMemory \/ LessonAccept
  BY <1>2, HandleAcceptKeeps, NoMemoryKeeps, LessonAcceptKeeps
<1>3. CASE HandleRecv \/ LessonRecv \/ PrecursorRecv
  BY <1>3, HandleRecvKeeps
<1>4. CASE HandleSend \/ LessonSend
  BY <1>4, HandleSendKeeps
<1>5. CASE HandleRecvEnds \/ LessonEnds
  BY <1>5, HandleEndsKeeps
<1>6. CASE CompleteAccept \/ CompleteBadRecv
  BY <1>6, CompleteAcceptKeeps, CompleteBadRecvKeeps
<1>7. ASSUME NEW c \in Client, ProactorKernel(c) PROVE KernelInv' /\ ProactorInv'
  BY <1>7, CompleteRecvKeeps, CompleteSendKeeps DEF ProactorKernel
<1> QED
  BY <1>1, <1>2, <1>3, <1>4, <1>5, <1>6, <1>7 DEF ProactorLoop

-----------------------------------------------------------------------------
(* The servers together.                                                   *)

\* The families of designs have nothing in common.
LEMMA Families ==
  /\ \A d \in ProactorDesigns : d \notin ReactorDesigns /\ d \notin CoroutineDesigns
  /\ \A d \in ReactorDesigns : d \notin ProactorDesigns /\ d \notin CoroutineDesigns
  /\ \A d \in CoroutineDesigns : d \notin ProactorDesigns /\ d \notin ReactorDesigns
BY DEF ProactorDesigns, ReactorDesigns, CoroutineDesigns, Direct

\* The invariant holds when the server starts.
LEMMA InvInit == Init => Inv
<1> SUFFICES ASSUME Init PROVE Inv
  OBVIOUS
<1>0. SocketsInit /\ ProactorInit /\ ReactorInit /\ CoroutineInit /\ design \in Designs
  BY DEF Init, Designs
<1>1. KernelType
  <2>1. <<>> \in Seq(Client) /\ <<>> \in Seq(Message) /\ <<>> \in Seq(Datum)
    OBVIOUS
  <2>2. limit \in 1 .. MaxFd
    BY <1>0, SocketsAssumption DEF SocketsInit
  <2> QED
    BY <1>0, <2>1, <2>2 DEF SocketsInit, KernelType, PeerState
<1>2. backlog = <<>> /\ Len(backlog) = 0 /\ \A f \in Fd : owner[f] = NULL
  BY <1>0 DEF SocketsInit
<1>3. Placed
  BY <1>2 DEF Placed
<1>4. \A c \in Client : peer[c] = "away" /\ wire[c] = <<>> /\ sent[c] = 0 /\ got[c] = <<>>
  BY <1>0 DEF SocketsInit
<1>5. Fresh
  BY <1>4 DEF Fresh
<1>6. Quiet
  BY <1>0 DEF Quiet, ProactorInit, ReactorInit, CoroutineInit
<1>7. \A c \in Client : Flow(c, <<>>)
  BY <1>4, PipeEmpty DEF Flow
<1>8. \A c \in Client : ~Accepted(c) /\ Waiting(c)
  BY <1>2, <1>4, SocketsAssumption DEF Accepted, Waiting
<1>9. ASSUME design \in ProactorDesigns PROVE ProactorInv
  <2>1. sq = {AcceptOp} /\ ring = {} /\ cq = <<>> /\ events = <<>> /\ conns = {}
        /\ rbuf = [b \in Client \cup {NULL} |-> NoData] /\ wbuf = [b \in Client \cup {NULL} |-> NoData]
    BY <1>0, <1>9 DEF ProactorInit
  <2>2. Finished = <<>> /\ Len(Finished) = 0 /\ Len(events) = 0
    BY <2>1 DEF Finished
  <2>3. AcceptOp.type = "accept" /\ AcceptOp.who = NULL /\ OpFine(AcceptOp)
    <3>1. 0 \in 0 .. BufMax
      BY SocketsAssumption
    <3> QED
      BY <3>1 DEF AcceptOp, OpFine, Op
  <2>4. cq \in Seq(Entry) /\ events \in Seq(Entry)
    BY <2>1
  <2>5. rbuf \in BufferType /\ wbuf \in BufferType
    <3>1. NoData \in [1 .. BufMax -> Datum]
      BY DEF NoData, Datum
    <3> QED
      BY <2>1, <3>1 DEF BufferType
  <2>6. Room
    <3>1. IsFiniteSet(sq) /\ Cardinality(sq) = 1
      BY <2>1, FS_Singleton
    <3> QED
      BY <2>2, <3>1, ProactorsAssumption DEF Room
  <2>7. AllFine
    BY <2>1, <2>2, <2>3 DEF AllFine
  <2>8. ASSUME NEW c \in Client PROVE None(c) /\ ~Pending(c)
    <3>1. ~Of(AcceptOp, c)
      BY <2>3, SocketsAssumption DEF Of
    <3> QED
      BY <2>1, <2>2, <3>1 DEF None, NoneIn, InSet, InDone, Pending, PendingIn
  <2>9. Single(NULL)
    <3>1. Of(AcceptOp, NULL)
      BY <2>3 DEF Of
    <3>2. InSet(sq, NULL) = {AcceptOp} /\ InSet(ring, NULL) = {} /\ InDone(Finished, NULL) = {}
      BY <2>1, <2>2, <3>1 DEF InSet, InDone
    <3> QED
      BY <2>1, <3>2 DEF Single, SingleIn
  <2>10. Tokens /\ Known
    BY <1>8, <2>1, <2>8, <2>9 DEF Tokens, OpsOf, Known
  <2>11. ASSUME NEW c \in Client PROVE DataFlow(c)
    BY <1>7, <2>8 DEF DataFlow, None, NoneIn, InSet, InDone
  <2> QED
    BY <2>4, <2>5, <2>6, <2>7, <2>10, <2>11 DEF ProactorInv, DataFlows
<1>10. ASSUME design \in ReactorDesigns PROVE ReactorInv
  <2>1. interest = [f \in Fd |-> "NONE"] /\ ready = {} /\ reply = [c \in Client |-> <<>>]
    BY <1>0 DEF ReactorInit
  <2>2. <<>> \in Seq(Datum)
    OBVIOUS
  <2>3. interest \in [Fd -> {"NONE", "IN", "OUT"}] /\ reply \in [Client -> Seq(Datum)]
    BY <2>1, <2>2
  <2>4. Watched /\ ReadyValid /\ ReadyOnce /\ AnswersAtOnce
    BY <1>2, <2>1 DEF Watched, ReadyValid, ReadyOnce, AnswersAtOnce
  <2>5. KeptFlows /\ IdleFlows
    BY <1>2, <1>7 DEF KeptFlows, IdleFlows
  <2> QED
    BY <2>3, <2>4, <2>5 DEF ReactorInv
<1>11. ASSUME design \in CoroutineDesigns PROVE CoroutineInv
  <2>1. co = [c \in Client |-> "none"] /\ serves = [c \in Client |-> NULL] /\ cell = NULL
        /\ buf = [c \in Client |-> <<>>] /\ created = <<>> /\ cur = NULL
    BY <1>0 DEF CoroutineInit
  <2>2. <<>> \in Seq(Datum) /\ <<>> \in Seq(Client) /\ Len(created) = 0
    BY <2>1
  <2>3. /\ co \in [Client -> CoState] /\ serves \in [Client -> Client \cup {NULL}] /\ cell \in Client \cup {NULL}
        /\ buf \in [Client -> Seq(Datum)] /\ created \in Seq(Client)
    BY <2>1, <2>2 DEF CoState
  <2>4. \A c \in Client : co[c] = "none"
    BY <2>1
  <2>5. Created /\ OneRuns
    BY <2>2, <2>4 DEF Created, OneRuns
  <2>6. \A c \in Client : Bound(c) /\ Flow(c, InHand(c))
    BY <1>7, <2>4 DEF Bound, InHand
  <2> QED
    BY <2>1, <2>3, <2>4, <2>5, <2>6 DEF CoroutineInv
<1> QED
  BY <1>1, <1>3, <1>5, <1>6, <1>9, <1>10, <1>11 DEF Inv

\* The variables of the designs that do not run are not touched.
LEMMA StaysQuiet ==
  ASSUME Quiet, design' = design,
         \/ design \in ProactorDesigns /\ UNCHANGED <<reactorVars, coroutineVars>>
         \/ design \in ReactorDesigns /\ UNCHANGED <<proactorVars, coroutineVars>>
         \/ design \in CoroutineDesigns /\ UNCHANGED <<proactorVars, reactorVars>>
         \/ UNCHANGED <<proactorVars, reactorVars, coroutineVars>>
  PROVE  Quiet'
BY Families DEF Quiet, proactorVars, reactorVars, coroutineVars

\* Only the server that runs takes steps.
LEMMA WhoRuns ==
  ASSUME Quiet
  PROVE  /\ ProactorLoop \/ CompleteAccept \/ CompleteBadRecv => design \in ProactorDesigns
         /\ \A c \in Client : ProactorKernel(c) => design \in ProactorDesigns
         /\ ReactorLoop => design \in ReactorDesigns
         /\ CoroutineLoop => design \in CoroutineDesigns
         /\ \A c \in Client : CoroutineBody(c) => design \in CoroutineDesigns
<1>1. sq # {} \/ ring # {} \/ cq # <<>> \/ events # <<>> => design \in ProactorDesigns
  BY DEF Quiet
<1>2. ready # {} => design \in ReactorDesigns
  BY DEF Quiet
<1>3. \A c \in Client : co[c] # "none" => design \in CoroutineDesigns
  BY DEF Quiet
<1>4. ProactorLoop => design \in ProactorDesigns
  BY <1>1 DEF ProactorLoop, Submit, PeekBatch, Handling, HandleAccept, HandleAcceptNoMemory, HandleRecv, HandleRecvEnds,
     HandleSend, LessonAccept, LessonRecv, PrecursorRecv, LessonEnds, LessonSend
<1>5. CompleteAccept \/ CompleteBadRecv => design \in ProactorDesigns
  BY <1>1 DEF CompleteAccept, CompleteBadRecv
<1>6. \A c \in Client : ProactorKernel(c) => design \in ProactorDesigns
  BY <1>1 DEF ProactorKernel, CompleteRecv, CompleteSend
<1>7. ReactorLoop => design \in ReactorDesigns
  BY <1>2 DEF ReactorLoop, Wait
<1>8. CoroutineLoop => design \in CoroutineDesigns
  BY DEF CoroutineLoop, CoAccept, CoAcceptNoMemory, ThreadAccept, MiniWait, MiniAccept, MiniResume, MiniWake, CoroutineDesigns
<1>9. ASSUME NEW c \in Client, CoroutineBody(c) PROVE design \in CoroutineDesigns
  <2>1. co[c] # "none"
    BY <1>9 DEF CoroutineBody, ThreadStarts, BodyRecv, BodySend, BodyEnds, BodyFails, MiniYield
  <2> QED
    BY <1>3, <2>1
<1> QED
  BY <1>4, <1>5, <1>6, <1>7, <1>8, <1>9

\* No step changes the server that runs.
LEMMA DesignStays ==
  /\ ProactorLoop \/ CompleteAccept \/ CompleteBadRecv => design' = design
  /\ \A c \in Client : ProactorKernel(c) => design' = design
  /\ ReactorLoop \/ CoroutineLoop => design' = design
  /\ \A c \in Client : CoroutineBody(c) => design' = design
<1>1. ProactorLoop => design' = design
  BY DEF ProactorLoop, Submit, PeekBatch, HandleAccept, HandleAcceptNoMemory, HandleRecv, HandleRecvEnds,
     HandleSend, LessonAccept, LessonRecv, PrecursorRecv, LessonEnds, LessonSend, kernel
<1>2. CompleteAccept \/ CompleteBadRecv => design' = design
  BY DEF CompleteAccept, CompleteBadRecv, kernel
<1>3. \A c \in Client : ProactorKernel(c) => design' = design
  BY DEF ProactorKernel, CompleteRecv, CompleteSend
<1>4. ReactorLoop => design' = design
  BY DEF ReactorLoop, Wait, AcceptCb, AcceptFails, AcceptUnchecked, RecvEchoes, RecvCb, RecvPrints, RecvEnds, RecvError,
     Drop, RecvFails, SendCb, kernel
<1>5. CoroutineLoop => design' = design
  BY DEF CoroutineLoop, CoAccept, CoAcceptNoMemory, ThreadAccept, MiniWait, MiniAccept, MiniResume, MiniWake, kernel
<1>6. \A c \in Client : CoroutineBody(c) => design' = design
  BY DEF CoroutineBody, ThreadStarts, BodyRecv, BodySend, BodyEnds, BodyFails, MiniYield, kernel
<1> QED
  BY <1>1, <1>2, <1>3, <1>4, <1>5, <1>6

\* Every step keeps the invariant.
LEMMA InvStep == Inv /\ [Next]_vars => Inv'
<1> SUFFICES ASSUME Inv, [Next]_vars PROVE Inv'
  OBVIOUS
<1>0. /\ KernelInv /\ Quiet /\ (design \in ProactorDesigns => ProactorInv)
      /\ (design \in ReactorDesigns => ReactorInv) /\ (design \in CoroutineDesigns => CoroutineInv)
  BY DEF Inv, KernelInv
<1>1. ASSUME ProactorLoop \/ CompleteAccept \/ CompleteBadRecv \/ \E c \in Client : ProactorKernel(c),
             UNCHANGED <<reactorVars, coroutineVars>>
      PROVE  Inv'
  <2>1. design \in ProactorDesigns /\ design' = design
    BY <1>0, <1>1, WhoRuns, DesignStays
  <2>2. KernelInv' /\ ProactorInv'
    BY <1>0, <1>1, <2>1, ProactorKeeps
  <2>3. Quiet'
    BY <1>0, <1>1, <2>1, StaysQuiet
  <2> QED
    BY <2>1, <2>2, <2>3, Families DEF Inv, KernelInv
<1>2. ASSUME ReactorLoop, UNCHANGED <<proactorVars, coroutineVars>> PROVE Inv'
  <2>1. design \in ReactorDesigns /\ design' = design
    BY <1>0, <1>2, WhoRuns, DesignStays
  <2>2. KernelInv' /\ ReactorInv'
    BY <1>0, <1>2, <2>1, ReactorKeeps
  <2>3. Quiet'
    BY <1>0, <1>2, <2>1, StaysQuiet
  <2> QED
    BY <2>1, <2>2, <2>3, Families DEF Inv, KernelInv
<1>3. ASSUME CoroutineLoop \/ \E c \in Client : CoroutineBody(c), UNCHANGED <<proactorVars, reactorVars>> PROVE Inv'
  <2>1. design \in CoroutineDesigns /\ design' = design
    BY <1>0, <1>3, WhoRuns, DesignStays
  <2>2. KernelInv' /\ CoroutineInv'
    BY <1>0, <1>3, <2>1, CoroutineKeeps
  <2>3. Quiet'
    BY <1>0, <1>3, <2>1, StaysQuiet
  <2> QED
    BY <2>1, <2>2, <2>3, Families DEF Inv, KernelInv
<1>4. ASSUME Clients, UNCHANGED <<proactorVars, reactorVars, coroutineVars>> PROVE Inv'
  <2>1. ClientsDo
    BY <1>0, <1>4, ConnectDoes, SendMessageDoes, HangupDoes DEF Clients
  <2>2. KernelInv' /\ design' = design
    BY <2>1 DEF ClientsDo
  <2>3. UNCHANGED proactorVars /\ UNCHANGED reactorVars /\ UNCHANGED coroutineVars
    BY <1>4
  <2>4. /\ design \in ProactorDesigns => ProactorInv'
        /\ design \in ReactorDesigns => ReactorInv'
        /\ design \in CoroutineDesigns => CoroutineInv'
    BY <1>0, <2>1, <2>3, ClientsKeepProactors, ClientsKeepReactors, ClientsKeepCoroutines
  <2>5. Quiet'
    BY <1>0, <1>4, <2>2, StaysQuiet
  <2> QED
    BY <2>2, <2>4, <2>5 DEF Inv, KernelInv
<1>5. CASE UNCHANGED vars
  <2>1. UNCHANGED <<kernel, proactorVars, reactorVars, coroutineVars>>
    BY <1>5 DEF vars
  <2>2. UNCHANGED <<design, limit, peer, backlog, owner, wire, sent, got, alive>>
        /\ UNCHANGED <<sq, ring, cq, events, conns, rbuf, wbuf>> /\ UNCHANGED <<interest, ready, reply>>
        /\ UNCHANGED <<co, serves, cell, buf, created, cur>>
    BY <2>1 DEF kernel, proactorVars, reactorVars, coroutineVars
  <2>3. ClientsDo
    <3>1. KernelInv' /\ \A d \in Client : (Accepted(d)' <=> Accepted(d)) /\ (Waiting(d)' <=> Waiting(d)) /\ Untouched(d)
      BY <1>0, <2>1, KernelSame
    <3> QED
      BY <2>2, <3>1, FlowUntouched DEF ClientsDo
  <2>4. UNCHANGED proactorVars /\ UNCHANGED reactorVars /\ UNCHANGED coroutineVars
    BY <2>1
  <2>5. /\ KernelInv' /\ design' = design
        /\ design \in ProactorDesigns => ProactorInv'
        /\ design \in ReactorDesigns => ReactorInv'
        /\ design \in CoroutineDesigns => CoroutineInv'
    BY <1>0, <2>2, <2>3, <2>4, ClientsKeepProactors, ClientsKeepReactors, ClientsKeepCoroutines DEF ClientsDo
  <2>6. Quiet'
    BY <1>0, <2>1, <2>5, StaysQuiet
  <2> QED
    BY <2>5, <2>6 DEF Inv, KernelInv
<1>6. CASE Next
  BY <1>1, <1>2, <1>3, <1>4, <1>6 DEF Next, Loop, Connection
<1> QED
  BY <1>5, <1>6

\* The inductive invariant holds in every reachable state of every design.
LEMMA InvHolds == Spec => []Inv
<1> QED
  BY InvInit, InvStep, PTL DEF Spec

-----------------------------------------------------------------------------
(* What the invariant says of the clients and of the operations.           *)

\* A stream from the first message on.
LEMMA StreamIsOwn ==
  ASSUME NEW c, NEW a, NEW s, IsStream(s, c, 0, a)
  PROVE  s = [i \in 1 .. Len(s) |-> <<c, i>>]
<1>a. PICK n : n = Len(s)
  OBVIOUS
<1>1. s \in Seq(Message) /\ n \in Nat /\ \A i \in 1 .. n : s[i] = Msg(c, 0 + i)
  BY <1>a DEF IsStream
<1>2. \A i \in 1 .. n : s[i] = <<c, i>>
  BY <1>1 DEF Msg
<1>3. s = [i \in 1 .. n |-> s[i]]
  BY <1>1, <1>a
<1> QED
  BY <1>2, <1>3, <1>a

\* Whatever server runs, the messages of a client that is not mixed up flow.
LEMMA SomethingFlows ==
  ASSUME Inv, NEW c \in Client, Own(c)
  PROVE  \E h : Flow(c, h)
<1>1. CASE design \in ProactorDesigns
  <2>1. DataFlow(c)
    BY <1>1 DEF Inv, ProactorInv, DataFlows
  <2>2. CASE None(c)
    BY <2>1, <2>2 DEF DataFlow
  <2>3. CASE \E op \in sq \cup ring : Of(op, c)
    BY <2>1, <2>3 DEF DataFlow
  <2>4. CASE \E i \in 1 .. Len(Finished) : Of(Finished[i].op, c)
    BY <2>1, <2>4 DEF DataFlow
  <2> QED
    BY <2>2, <2>3, <2>4 DEF None, NoneIn, InSet, InDone
<1>2. CASE design \in ReactorDesigns
  <2>1. CASE Accepted(c)
    <3>1. PICK f \in Fd : owner[f] = c
      BY <2>1 DEF Accepted
    <3>2. Flow(owner[f], Kept(f))
      BY <1>2, <3>1, SocketsAssumption DEF Inv, ReactorInv, KeptFlows
    <3> QED
      BY <3>1, <3>2
  <2>2. CASE ~Accepted(c)
    BY <1>2, <2>2 DEF Inv, ReactorInv, IdleFlows
  <2> QED
    BY <2>1, <2>2
<1>3. CASE design \in CoroutineDesigns
  BY <1>3 DEF Inv, CoroutineInv
<1> QED
  BY <1>1, <1>2, <1>3 DEF Inv, KernelType, Designs

\* Whatever design of the repository serves it (select, poll, epoll, reactor,
\* io_uring, coroutines, threads), a client gets back its own messages, in order,
\* each once and none skipped; where connections share a buffer or a variable,
\* as long as it is alone.
THEOREM ClientsGetTheirOwn == Spec => []OwnStream
<1>1. Inv => OwnStream
  <2> SUFFICES ASSUME Inv, NEW c \in Client, Mixes => Alone(c)
               PROVE  got[c] = [i \in 1 .. Len(got[c]) |-> <<c, i>>]
    BY DEF OwnStream
  <2>1. Own(c)
    <3>1. \A d \in Range(backlog) : \E i \in 1 .. Len(backlog) : backlog[i] = d
      BY DEF Range, Inv, KernelType
    <3> QED
      BY <3>1 DEF Own, Alone, Waiting
  <2>2. PICK h : Flow(c, h)
    BY <2>1, SomethingFlows
  <2>3. PICK a \in Nat : IsStream(got[c], c, 0, a)
    BY <2>2 DEF Flow, PipeOf
  <2> QED
    BY <2>3, StreamIsOwn
<1> QED
  BY <1>1, InvHolds, PTL

\* How many completions there are of x in two queues one behind the other.
LEMMA DoneSplit ==
  ASSUME NEW s \in Seq(Entry), NEW t \in Seq(Entry), NEW x
  PROVE  /\ InDone(s \o t, x) = {} => InDone(s, x) = {} /\ InDone(t, x) = {}
         /\ \A k \in 1 .. Len(s \o t) : InDone(s \o t, x) = {k} =>
              \/ InDone(s, x) = {k} /\ InDone(t, x) = {}
              \/ InDone(s, x) = {} /\ \E j \in 1 .. Len(t) : InDone(t, x) = {j}
<1>a. PICK u, m, n : u = s \o t /\ m = Len(s) /\ n = Len(t)
  OBVIOUS
<1>1. m \in Nat /\ n \in Nat /\ Len(u) = m + n /\ \A i \in 1 .. m + n : u[i] = IF i <= m THEN s[i] ELSE t[i - m]
  BY <1>a, ConcatProperties
<1>2. ASSUME NEW i \in InDone(s, x) PROVE i \in InDone(u, x) /\ i \in Nat /\ i <= m
  <2>1. i \in 1 .. m /\ Of(s[i].op, x)
    BY <1>a DEF InDone
  <2>2. i \in 1 .. m + n /\ i <= m
    BY <1>1, <2>1
  <2> QED
    BY <1>1, <2>1, <2>2 DEF InDone
<1>3. ASSUME NEW j \in InDone(t, x) PROVE j + m \in InDone(u, x) /\ j \in 1 .. n /\ ~(j + m <= m)
  <2>1. j \in 1 .. n /\ Of(t[j].op, x)
    BY <1>a DEF InDone
  <2>2. j + m \in 1 .. m + n /\ ~(j + m <= m) /\ (j + m) - m = j
    BY <1>1, <2>1
  <2>3. u[j + m] = t[j]
    BY <1>1, <2>2
  <2> QED
    BY <1>1, <2>1, <2>2, <2>3 DEF InDone
<1>4. ASSUME NEW k \in InDone(u, x) PROVE IF k <= m THEN k \in InDone(s, x) ELSE k - m \in InDone(t, x) /\ k - m \in 1 .. n
  <2>1. k \in 1 .. m + n /\ Of(u[k].op, x)
    BY <1>1 DEF InDone
  <2>2. CASE k <= m
    <3>1. k \in 1 .. m /\ u[k] = s[k]
      BY <1>1, <2>1, <2>2
    <3> QED
      BY <1>a, <2>1, <2>2, <3>1 DEF InDone
  <2>3. CASE ~(k <= m)
    <3>1. k - m \in 1 .. n /\ u[k] = t[k - m]
      BY <1>1, <2>1, <2>3
    <3> QED
      BY <1>a, <2>1, <2>3, <3>1 DEF InDone
  <2> QED
    BY <2>2, <2>3
<1>5. InDone(u, x) = {} => InDone(s, x) = {} /\ InDone(t, x) = {}
  BY <1>2, <1>3
<1>6. ASSUME NEW k \in 1 .. Len(u), InDone(u, x) = {k}
      PROVE  \/ InDone(s, x) = {k} /\ InDone(t, x) = {}
             \/ InDone(s, x) = {} /\ \E j \in 1 .. n : InDone(t, x) = {j}
  <2>0. k \in InDone(u, x) /\ k \in Int
    BY <1>1, <1>6
  <2>1. CASE k <= m
    <3>1. k \in InDone(s, x)
      BY <1>4, <2>0, <2>1
    <3>2. \A i \in InDone(s, x) : i = k
      BY <1>2, <1>6
    <3>3. \A j \in InDone(t, x) : FALSE
      BY <1>3, <1>6, <2>1
    <3> QED
      BY <3>1, <3>2, <3>3
  <2>2. CASE ~(k <= m)
    <3>1. k - m \in InDone(t, x) /\ k - m \in 1 .. n
      BY <1>4, <2>0, <2>2
    <3>2. \A i \in InDone(s, x) : FALSE
      BY <1>2, <1>6, <2>2
    <3>3. ASSUME NEW j \in InDone(t, x) PROVE j = k - m
      <4>1. j + m = k /\ j \in Int
        BY <1>1, <1>3, <1>6
      <4> QED
        BY <1>1, <4>1
    <3> QED
      BY <3>1, <3>2, <3>3
  <2> QED
    BY <2>1, <2>2
<1> QED
  BY <1>5, <1>6, <1>a

\* The number of operations in the queue, in the ring and among the completions.
LEMMA HowMany ==
  ASSUME ProactorInv, NEW x
  PROVE  (None(x) => Awaited(x) = 0) /\ (Single(x) => Awaited(x) = 1)
<1>a. PICK s, t : s = events /\ t = cq
  OBVIOUS
<1>1. s \in Seq(Entry) /\ t \in Seq(Entry) /\ Finished = s \o t
  BY <1>a DEF ProactorInv, Finished
<1>2. DOMAIN s = 1 .. Len(s) /\ DOMAIN t = 1 .. Len(t)
  BY <1>1
<1>3. Awaited(x) = Cardinality(InSet(sq, x)) + Cardinality(InSet(ring, x)) + Cardinality(InDone(t, x)) + Cardinality(InDone(s, x))
  BY <1>2, <1>a DEF Awaited, Among, Seen, InSet, InDone
<1>4. (\A T : T = {} => Cardinality(T) = 0) /\ (\A T, k : T = {k} => Cardinality(T) = 1)
  BY FS_EmptySet, FS_Singleton
<1>5. ASSUME None(x) PROVE Awaited(x) = 0
  <2>1. InSet(sq, x) = {} /\ InSet(ring, x) = {} /\ InDone(s \o t, x) = {}
    BY <1>1, <1>5 DEF None, NoneIn
  <2>2. InDone(s, x) = {} /\ InDone(t, x) = {}
    BY <1>1, <2>1, DoneSplit
  <2> QED
    BY <1>3, <1>4, <2>1, <2>2
<1>6. ASSUME Single(x) PROVE Awaited(x) = 1
  <2>1. CASE InDone(s \o t, x) = {}
    <3>1. InDone(s, x) = {} /\ InDone(t, x) = {}
      BY <1>1, <2>1, DoneSplit
    <3>2. (\E op : InSet(sq, x) = {op} /\ InSet(ring, x) = {}) \/ (\E op : InSet(sq, x) = {} /\ InSet(ring, x) = {op})
      BY <1>1, <1>6, <2>1 DEF Single, SingleIn
    <3>3. Cardinality(InDone(s, x)) = 0 /\ Cardinality(InDone(t, x)) = 0
      BY <1>4, <3>1
    <3>4. \/ Cardinality(InSet(sq, x)) = 1 /\ Cardinality(InSet(ring, x)) = 0
          \/ Cardinality(InSet(sq, x)) = 0 /\ Cardinality(InSet(ring, x)) = 1
      BY <1>4, <3>2
    <3> QED
      BY <1>3, <3>3, <3>4
  <2>2. CASE InDone(s \o t, x) # {}
    <3>1. PICK k \in 1 .. Len(s \o t) : InSet(sq, x) = {} /\ InSet(ring, x) = {} /\ InDone(s \o t, x) = {k}
      BY <1>1, <1>6, <2>2 DEF Single, SingleIn
    <3>2. \/ InDone(s, x) = {k} /\ InDone(t, x) = {}
          \/ InDone(s, x) = {} /\ \E j \in 1 .. Len(t) : InDone(t, x) = {j}
      BY <1>1, <3>1, DoneSplit
    <3>3. Cardinality(InSet(sq, x)) = 0 /\ Cardinality(InSet(ring, x)) = 0
      BY <1>4, <3>1
    <3>4. \/ Cardinality(InDone(s, x)) = 1 /\ Cardinality(InDone(t, x)) = 0
          \/ Cardinality(InDone(s, x)) = 0 /\ Cardinality(InDone(t, x)) = 1
      BY <1>4, <3>2
    <3> QED
      BY <1>3, <3>3, <3>4
  <2> QED
    BY <2>1, <2>2
<1> QED
  BY <1>5, <1>6

\* The completions the program has and the ones it has not seen.
LEMMA AcceptingIsPending ==
  ASSUME ProactorInv, NEW c
  PROVE  Accepting(c) <=> Pending(c)
<1>a. PICK s, t, u, m, n : s = events /\ t = cq /\ u = s \o t /\ m = Len(s) /\ n = Len(t)
  OBVIOUS
<1>1. s \in Seq(Entry) /\ t \in Seq(Entry) /\ Finished = u
  BY <1>a DEF ProactorInv, Finished
<1>2. m \in Nat /\ n \in Nat /\ Len(u) = m + n /\ \A i \in 1 .. m + n : u[i] = IF i <= m THEN s[i] ELSE t[i - m]
  BY <1>1, <1>a, ConcatProperties
<1>b. DOMAIN s = 1 .. m /\ DOMAIN t = 1 .. n
  BY <1>1, <1>a
<1>3. \A e : e \in Range(s) <=> \E i \in 1 .. m : s[i] = e
  BY <1>b DEF Range
<1>4. \A e : e \in Range(t) <=> \E i \in 1 .. n : t[i] = e
  BY <1>b DEF Range
<1>5. ASSUME NEW e, e \in Range(s) \cup Range(t) PROVE \E k \in 1 .. m + n : u[k] = e
  <2>1. CASE e \in Range(s)
    <3>1. PICK i \in 1 .. m : s[i] = e
      BY <1>3, <2>1
    <3>2. i \in 1 .. m + n /\ i <= m
      BY <1>2
    <3> QED
      BY <1>2, <3>1, <3>2
  <2>2. CASE e \in Range(t)
    <3>1. PICK i \in 1 .. n : t[i] = e
      BY <1>4, <2>2
    <3>2. i + m \in 1 .. m + n /\ ~(i + m <= m) /\ (i + m) - m = i
      BY <1>2
    <3>3. u[i + m] = e
      BY <1>2, <3>1, <3>2
    <3> QED
      BY <3>2, <3>3
  <2> QED
    BY <1>5, <2>1, <2>2
<1>6. ASSUME NEW k \in 1 .. m + n PROVE u[k] \in Range(s) \cup Range(t)
  <2>1. CASE k <= m
    <3>1. k \in 1 .. m /\ u[k] = s[k]
      BY <1>2, <2>1
    <3> QED
      BY <1>3, <3>1
  <2>2. CASE ~(k <= m)
    <3>1. k - m \in 1 .. n /\ u[k] = t[k - m]
      BY <1>2, <2>2
    <3> QED
      BY <1>4, <3>1
  <2> QED
    BY <2>1, <2>2
<1>7. Pending(c) <=> \E k \in 1 .. m + n : u[k].op.type = "accept" /\ u[k].res = c
  BY <1>1, <1>2 DEF Pending, PendingIn
<1>8. Accepting(c) <=> \E e \in Range(s) \cup Range(t) : e.op.type = "accept" /\ e.res = c
  BY <1>a DEF Accepting
<1> QED
  BY <1>5, <1>6, <1>7, <1>8

\* Every connection of a server on io_uring is in exactly one operation, so that
\* no completion finds a freed io_conn_t; one accept is always on its way; and
\* the submission queue has an entry whenever one is asked for.
THEOREM OneOperationAlways == Spec => []OneOperationEach
<1>1. Inv => OneOperationEach
  <2> SUFFICES ASSUME Inv, design \in ProactorDesigns
               PROVE  /\ Awaited(NULL) = 1
                      /\ \A c \in Client :
                           IF Accepted(c) /\ ~Accepting(c)
                           THEN \/ Awaited(c) = 1
                                \/ design # "proactor" /\ peer[c] = "dead" /\ Awaited(c) = 0
                           ELSE Awaited(c) = 0
                      /\ design = "proactor" => conns = {c \in Client : Accepted(c) /\ ~Accepting(c)}
    BY DEF OneOperationEach
  <2>1. ProactorInv /\ Single(NULL) /\ Known /\ \A c \in Client : OpsOf(c)
    BY DEF Inv, ProactorInv, Tokens
  <2>2. \A c \in Client : Accepting(c) <=> Pending(c)
    BY <2>1, AcceptingIsPending
  <2>3. Awaited(NULL) = 1
    BY <2>1, HowMany
  <2>4. ASSUME NEW c \in Client
        PROVE  IF Accepted(c) /\ ~Accepting(c)
               THEN Awaited(c) = 1 \/ (design # "proactor" /\ peer[c] = "dead" /\ Awaited(c) = 0)
               ELSE Awaited(c) = 0
    BY <2>1, <2>2, HowMany DEF OpsOf
  <2>5. design = "proactor" => conns = {c \in Client : Accepted(c) /\ ~Accepting(c)}
    BY <2>1, <2>2 DEF Known
  <2> QED
    BY <2>3, <2>4, <2>5
<1> QED
  BY <1>1, InvHolds, PTL
=============================================================================
