--------------------------- MODULE KvReactorProofs ---------------------------
(***************************************************************************)
(* ReactorInv is inductive for every number of clients, descriptors and    *)
(* slots, whatever clients send and however recv cuts it up.               *)
(***************************************************************************)
EXTENDS KvReactor, SequenceTheorems, FiniteSetTheorems, WellFoundedInduction, TLAPS

\* A non-empty set of naturals has a least element.
LEMMA NatMin ==
  ASSUME NEW S, S \subseteq Nat, S # {}
  PROVE  Min(S) \in S
<1>1. PICK x \in S : \A y \in S : ~(<<y, x>> \in OpToRel(<, Nat))
  BY NatLessThanWellFounded, WFMin
<1>2. \A y \in Nat : y < x => <<y, x>> \in OpToRel(<, Nat)
  <2>1. ASSUME NEW y \in Nat, y < x PROVE <<y, x>> \in Nat \X Nat
    OBVIOUS
  <2>2. ASSUME NEW y \in Nat, y < x, <<y, x>> \in Nat \X Nat, <<y, x>>[1] = y, <<y, x>>[2] = x
        PROVE  <<y, x>> \in OpToRel(<, Nat)
    BY <2>2, Zenon DEF OpToRel
  <2> QED
    BY <2>1, <2>2
<1>3. \A y \in S : ~(y < x)
  BY <1>1, <1>2, Zenon
<1>4. \A y \in S : x =< y
  BY <1>3
<1> QED
  BY <1>4 DEF Min

\* accept returns a free descriptor when there is one.
LEMMA NewFdFree ==
  ASSUME \E f \in Fd : owner[f] = NULL
  PROVE  NewFd \in Fd /\ owner[NewFd] = NULL
<1>1. {f \in Fd : owner[f] = NULL} \subseteq Nat
  BY ReactorAssumption DEF Fd, ListenFd
<1> QED
  BY <1>1, NatMin DEF NewFd
-----------------------------------------------------------------------------
(* Types.  AnyToken, AnyStore and AnyReply are whatever kvs_split_token,   *)
(* the engine and kvs_protocol can produce from tokens clients send: no    *)
(* property below depends on what a reply says.                            *)

AnyToken == {SplitToken(q)[i] : q \in Seq(Token), i \in Nat}
AnyStore == [Key -> AnyToken \cup {NULL}]
AnyReply ==
  {NULL} \cup UNION {UNION {{d.reply : d \in Protocol(s, q)} : q \in Seq(Token)} : s \in AnyStore}

\* Every variable has its type.
TypeInv ==
  /\ conn_list \in [Slot -> [recv : {"accept_cb", "recv_cb", NULL},
                             send : {"send_cb", NULL}, wbuf : AnyReply]]
  /\ interest \in [Fd -> {"IN", "OUT", "NONE"}]
  /\ batch \subseteq [fd : Fd, ev : {"IN", "OUT"}, who : Client \cup {Listener}]
  /\ owner \in [Fd -> Client \cup {Listener, NULL}]
  /\ backlog \in Seq(Client)
  /\ peer \in [Client -> {"away", "open", "fin", "reset", "pipe", "dead"}]
  /\ wire \in [Client -> Seq(Token)]
  /\ inbox \in [Client -> Seq(AnyReply)]
  /\ due \in [Client -> 0 .. Window]
  /\ store \in AnyStore
  /\ alive \in BOOLEAN

Inv == TypeInv /\ ReactorInv

\* The slot of a connection without a reply has the null pointer for one.
LEMMA NullReply == NULL \in AnyReply
<1>1. \A R : NULL \in {NULL} \cup R
  OBVIOUS
<1> QED
  BY <1>1, Zenon DEF AnyReply

\* kvs_protocol on a typed map and message leaves a typed map and reply.
LEMMA ProtocolTypes ==
  ASSUME NEW s \in AnyStore, NEW q \in Seq(Token), NEW d \in Protocol(s, q)
  PROVE  d.map \in AnyStore /\ d.reply \in AnyReply
<1>1. d.reply \in AnyReply
  <2>1. d.reply \in {x.reply : x \in Protocol(s, q)}
    OBVIOUS
  <2>2. d.reply \in UNION {{x.reply : x \in Protocol(s, r)} : r \in Seq(Token)}
    BY <2>1, Zenon
  <2>3. \A R, x : x \in R => x \in {NULL} \cup R
    OBVIOUS
  <2>4. d.reply \in UNION {UNION {{x.reply : x \in Protocol(z, r)} : r \in Seq(Token)} : z \in AnyStore}
    BY <2>2, Zenon
  <2> QED
    BY <2>3, <2>4, Zenon DEF AnyReply
<1> DEFINE t == SplitToken(q)
<1>2. \A i \in Nat : t[i] \in AnyToken
  BY DEF AnyToken
<1>3. ASSUME NEW cmd \in Command, NEW k, NEW v \in AnyToken, NEW done \in EngineCall(s, cmd, k, v)
      PROVE  done.map \in AnyStore
  <2>1. [s EXCEPT ![k] = v] \in AnyStore /\ [s EXCEPT ![k] = NULL] \in AnyStore
    BY <1>3 DEF AnyStore
  <2>2. CASE cmd = "SET"
    <3>1. \E r : \E m \in AnyStore : done = [ret |-> r, map |-> m]
      BY <1>3, <2>1, <2>2, Zenon DEF EngineCall
    <3> QED
      BY <3>1
  <2>3. CASE cmd = "MOD"
    <3>1. \E r : \E m \in AnyStore : done = [ret |-> r, map |-> m]
      BY <1>3, <2>1, <2>3, Zenon DEF EngineCall
    <3> QED
      BY <3>1
  <2>4. CASE cmd = "DEL"
    BY <1>3, <2>1, <2>4 DEF EngineCall
  <2>5. CASE cmd = "GET"
    BY <1>3, <2>1, <2>5 DEF EngineCall
  <2>6. CASE cmd = "EXIST"
    BY <1>3, <2>1, <2>6 DEF EngineCall
  <2> QED
    BY <2>2, <2>3, <2>4, <2>5, <2>6 DEF Command
<1>4. d.map \in AnyStore
  <2> HIDE DEF t
  <2>1. d \in FilterProtocol(s, t)
    BY DEF Protocol, t
  <2>2. CASE t = <<>> \/ t[1] \notin Command \/ Len(t) # Arity(t[1])
    <3>1. \E text : d = [reply |-> text, map |-> s]
      BY <2>1, <2>2, Zenon DEF FilterProtocol
    <3> QED
      BY <3>1
  <2>3. CASE t # <<>> /\ t[1] \in Command /\ Len(t) = Arity(t[1])
    <3>1. Len(t) \in Nat
      BY <2>3 DEF Arity
    <3>2. t[Len(t)] \in AnyToken
      BY <3>1, <1>2
    <3>3. PICK done \in EngineCall(s, t[1], t[2], t[Len(t)]) :
             d = [reply |-> Response(t[1], done.ret), map |-> done.map]
      BY <2>1, <2>3, Zenon DEF FilterProtocol
    <3> QED
      BY <3>2, <3>3, <2>3, <1>3
  <2> QED
    BY <2>2, <2>3
<1> QED
  BY <1>1, <1>4

-----------------------------------------------------------------------------
(* What an event that is being dispatched says about its descriptor.       *)

\* An event is on an open descriptor that waits for it, and no other event of
\* the batch is on the same one.
LEMMA EventOpen ==
  ASSUME Inv, NEW e \in batch
  PROVE  /\ e.fd \in Fd /\ owner[e.fd] # NULL /\ interest[e.fd] = e.ev
         /\ \A g \in batch \ {e} : g.fd # e.fd
<1> USE ReactorAssumption DEF Inv, TypeInv, ReactorInv, NoStaleEvent, Listener
<1>1. /\ e.fd \in Fd /\ owner[e.fd] # NULL /\ interest[e.fd] = e.ev
  OBVIOUS
<1>2. ASSUME NEW g \in batch, g.fd = e.fd PROVE g = e
  <2>1. g.ev = e.ev /\ g.who = e.who
    BY <1>2
  <2>2. /\ g \in [fd : Fd, ev : {"IN", "OUT"}, who : Client \cup {Listener}]
        /\ e \in [fd : Fd, ev : {"IN", "OUT"}, who : Client \cup {Listener}]
    OBVIOUS
  <2> QED
    BY ONLY <1>2, <2>1, <2>2
<1> QED
  BY <1>1, <1>2

\* accept_cb is called for the listening socket only, and somebody waits.
LEMMA AcceptEvent ==
  ASSUME Inv, NEW e \in batch, e.ev = "IN", conn_list[e.fd].recv = "accept_cb"
  PROVE  e.fd = ListenFd /\ backlog # <<>>
<1>1. e.fd = ListenFd
  BY EventOpen DEF Inv, ReactorInv, SlotsFilled
<1> QED
  BY <1>1 DEF Inv, ReactorInv, SomebodyWaits

\* recv_cb and send_cb are called for a client's socket, which has a slot.
LEMMA ConnEvent ==
  ASSUME Inv, NEW e \in batch, e.ev = "OUT" \/ conn_list[e.fd].recv = "recv_cb"
  PROVE  e.fd \in Fd \ {ListenFd} /\ e.fd \in Slot /\ owner[e.fd] \in Client
<1>1. e.fd # ListenFd
  BY EventOpen DEF Inv, ReactorInv, SlotsFilled
<1> QED
  BY <1>1, EventOpen DEF Inv, ReactorInv, SlotsFilled

\* The head of a backlog is a client without a descriptor, and taking it off
\* leaves the others as they were.
LEMMA BacklogHead ==
  ASSUME Inv, backlog # <<>>
  PROVE  /\ Head(backlog) \in Client /\ Tail(backlog) \in Seq(Client)
         /\ \A f \in Fd : owner[f] # Head(backlog)
         /\ \A i \in DOMAIN Tail(backlog) :
              i + 1 \in DOMAIN backlog /\ Tail(backlog)[i] = backlog[i + 1]
                /\ Tail(backlog)[i] # Head(backlog)
         /\ \A i \in DOMAIN backlog :
              backlog[i] # Head(backlog) =>
                \E j \in DOMAIN Tail(backlog) : Tail(backlog)[j] = backlog[i]
         /\ DOMAIN Tail(backlog) \subseteq Nat
<1>1. backlog \in Seq(Client)
  BY DEF Inv, TypeInv
<1>2. /\ Head(backlog) \in Client /\ Tail(backlog) \in Seq(Client)
      /\ Len(Tail(backlog)) = Len(backlog) - 1
      /\ \A i \in 1 .. Len(Tail(backlog)) : Tail(backlog)[i] = backlog[i + 1]
  BY <1>1, HeadTailProperties
<1>3. /\ Len(backlog) \in Nat \ {0} /\ DOMAIN backlog = 1 .. Len(backlog)
      /\ DOMAIN Tail(backlog) = 1 .. Len(Tail(backlog)) /\ Head(backlog) = backlog[1]
  BY <1>1, <1>2, EmptySeq, LenProperties
<1>4. \A i \in DOMAIN Tail(backlog) :
         i + 1 \in DOMAIN backlog /\ i + 1 # 1 /\ Tail(backlog)[i] = backlog[i + 1]
  BY <1>2, <1>3
<1>5. 1 \in DOMAIN backlog
  BY <1>3
<1>6. \A i \in DOMAIN backlog :
         i # 1 => i - 1 \in DOMAIN Tail(backlog) /\ Tail(backlog)[i - 1] = backlog[i]
  BY <1>2, <1>3
<1>7. /\ \A i, j \in DOMAIN backlog : backlog[i] = backlog[j] => i = j
      /\ \A f \in Fd : \A i \in DOMAIN backlog : owner[f] # backlog[i]
  BY DEF Inv, ReactorInv, OnePlace
<1> QED
  BY <1>2, <1>3, <1>4, <1>5, <1>6, <1>7

-----------------------------------------------------------------------------
(* One lemma per action: it preserves Inv.                                 *)

\* Connect adds a client to the end of the backlog.
LEMMA ConnectStep ==
  ASSUME Inv, NEW c \in Client, Connect(c)
  PROVE  Inv'
<1> USE DEF Inv
<1>1. TypeInv'
  BY AppendProperties DEF TypeInv, Connect
<1>2. SlotsFilled'
  BY DEF ReactorInv, SlotsFilled, Connect
<1>3. /\ DOMAIN backlog' = DOMAIN backlog \cup {Len(backlog) + 1}
      /\ Len(backlog) + 1 \notin DOMAIN backlog
      /\ \A i \in DOMAIN backlog : backlog'[i] = backlog[i]
      /\ backlog'[Len(backlog) + 1] = c
  <2>1. /\ backlog \in Seq(Client) /\ backlog' = Append(backlog, c)
        /\ backlog' \in Seq(Client)
    BY <1>1 DEF TypeInv, Connect
  <2> QED
    BY <2>1, AppendProperties, LenProperties
<1>4. OnePlace'
  <2>1. /\ \A f \in Fd : owner[f] # c
        /\ \A i \in DOMAIN backlog : backlog[i] # c
    BY DEF Connect, ReactorInv, OnePlace
  <2>2. \A i, j \in DOMAIN backlog' : backlog'[i] = backlog'[j] => i = j
    BY <1>3, <2>1 DEF ReactorInv, OnePlace
  <2>3. \A f \in Fd : \A i \in DOMAIN backlog' : owner[f] # backlog'[i]
    BY <1>3, <2>1 DEF ReactorInv, OnePlace
  <2>4. \A d \in Client :
          peer'[d] # "away" <=> \/ \E f \in Fd : owner[f] = d
                                \/ \E i \in DOMAIN backlog' : backlog'[i] = d
    <3>1. \A d \in Client : peer'[d] = IF d = c THEN "open" ELSE peer[d]
      BY DEF Connect, TypeInv
    <3> QED
      BY <1>3, <2>1, <3>1 DEF ReactorInv, OnePlace
  <2> QED
    BY <2>2, <2>3, <2>4 DEF Connect, OnePlace, ReactorInv
<1>5. NothingLeft'
  BY DEF Connect, ReactorInv, NothingLeft, TypeInv
<1>6. SomebodyWaits'
  <2>1. backlog' # <<>>
    BY AppendProperties, SMTT(30) DEF Connect, TypeInv
  <2> QED
    BY <2>1 DEF SomebodyWaits
<1>7. NoStaleEvent'
  BY DEF Connect, ReactorInv, NoStaleEvent
<1> QED
  BY <1>1, <1>2, <1>4, <1>5, <1>6, <1>7 DEF ReactorInv

\* Send, Read and Hangup change only what the kernel holds of the connection.
LEMMA ClientStep ==
  ASSUME Inv, NEW c \in Client,
         Read(c) \/ Hangup(c) \/ \E m \in Message : Send(c, m)
  PROVE  Inv'
<1> USE DEF Inv
<1>1. CASE \E m \in Message : Send(c, m)
  <2>1. PICK m \in Message : Send(c, m)
    BY <1>1
  <2>2. m \in Seq(Token) /\ wire[c] \in Seq(Token) /\ peer[c] = "open"
    BY <2>1, MessageAssumption DEF Send, TypeInv
  <2>3. wire[c] \o m \in Seq(Token)
    BY <2>2, ConcatProperties
  <2>4. due[c] + 1 \in 0 .. Window
    BY <2>1, ReactorAssumption DEF Send, TypeInv
  <2>5. TypeInv'
    BY <2>1, <2>3, <2>4 DEF TypeInv, Send
  <2>6. NothingLeft'
    BY <2>1, <2>2 DEF Send, ReactorInv, NothingLeft, TypeInv
  <2>7. SlotsFilled' /\ OnePlace' /\ SomebodyWaits' /\ NoStaleEvent'
    BY <2>1 DEF Send, ReactorInv, SlotsFilled, OnePlace, SomebodyWaits, NoStaleEvent
  <2> QED
    BY <2>5, <2>6, <2>7 DEF ReactorInv
<1>2. CASE Read(c)
  <2>1. inbox[c] \in Seq(AnyReply) /\ inbox[c] # <<>>
    BY <1>2 DEF Read, TypeInv
  <2>2. Tail(inbox[c]) \in Seq(AnyReply)
    BY <2>1, HeadTailProperties
  <2>3. (IF due[c] = 0 THEN 0 ELSE due[c] - 1) \in 0 .. Window
    BY ReactorAssumption DEF TypeInv
  <2>4. TypeInv'
    BY <1>2, <2>2, <2>3 DEF TypeInv, Read
  <2>5. NothingLeft'
    BY <1>2, <2>1 DEF Read, ReactorInv, NothingLeft, TypeInv
  <2>6. SlotsFilled' /\ OnePlace' /\ SomebodyWaits' /\ NoStaleEvent'
    BY <1>2 DEF Read, ReactorInv, SlotsFilled, OnePlace, SomebodyWaits, NoStaleEvent
  <2> QED
    BY <2>4, <2>5, <2>6 DEF ReactorInv
<1>3. CASE Hangup(c)
  <2>1. <<>> \in Seq(AnyReply) /\ <<>> \in Seq(Token) /\ 0 \in 0 .. Window
    BY ReactorAssumption
  <2>2. TypeInv'
    BY <1>3, <2>1, ZenonT(60) DEF TypeInv, Hangup
  <2>3. /\ \A d \in Client : peer'[d] # "away" <=> peer[d] # "away"
        /\ \A d \in Client : peer'[d] = "open" => peer[d] = "open"
    BY <1>3 DEF Hangup, TypeInv
  <2>4. OnePlace'
    BY <1>3, <2>3 DEF Hangup, ReactorInv, OnePlace
  <2>5. NothingLeft'
    BY <1>3, <2>3 DEF Hangup, ReactorInv, NothingLeft, TypeInv
  <2>6. SlotsFilled' /\ SomebodyWaits' /\ NoStaleEvent'
    BY <1>3 DEF Hangup, ReactorInv, SlotsFilled, SomebodyWaits, NoStaleEvent
  <2> QED
    BY <2>2, <2>4, <2>5, <2>6 DEF ReactorInv
<1> QED
  BY <1>1, <1>2, <1>3

\* epoll_wait reports open descriptors with the event they wait for.
LEMMA EpollWaitStep ==
  ASSUME Inv, EpollWait
  PROVE  Inv'
<1> USE DEF Inv
<1>1. \A e \in batch' : \E f \in Fd :
        Ready(f) /\ e = [fd |-> f, ev |-> interest[f], who |-> owner[f]]
  BY DEF EpollWait
<1>2. \A f \in Fd : Ready(f) =>
        /\ interest[f] \in {"IN", "OUT"} /\ owner[f] \in Client \cup {Listener}
        /\ f = ListenFd => backlog # <<>>
  <2> TAKE f \in Fd
  <2> HAVE Ready(f)
  <2>1. CASE f = ListenFd
    BY <2>1 DEF Ready, Readable, ReactorInv, SlotsFilled
  <2>2. CASE f # ListenFd
    BY <2>2 DEF Ready, ReactorInv, SlotsFilled
  <2> QED
    BY <2>1, <2>2
<1>3. TypeInv'
  <2>1. batch' \subseteq [fd : Fd, ev : {"IN", "OUT"}, who : Client \cup {Listener}]
    BY <1>1, <1>2
  <2> QED
    BY <2>1 DEF TypeInv, EpollWait, kernel
<1>4. SlotsFilled' /\ OnePlace' /\ NothingLeft'
  BY DEF EpollWait, kernel, ReactorInv, SlotsFilled, OnePlace, NothingLeft
<1>5. SomebodyWaits' /\ NoStaleEvent'
  BY <1>1, <1>2 DEF EpollWait, kernel, SomebodyWaits, NoStaleEvent
<1> QED
  BY <1>3, <1>4, <1>5 DEF ReactorInv

\* A failed accept only drops the event.
LEMMA AcceptFailsStep ==
  ASSUME Inv, NEW e \in batch, AcceptFails(e)
  PROVE  Inv'
<1> USE DEF Inv, AcceptFails, Dispatched, kernel
<1>1. TypeInv'
  BY DEF TypeInv
<1>2. SlotsFilled' /\ OnePlace' /\ NothingLeft'
  BY DEF ReactorInv, SlotsFilled, OnePlace, NothingLeft
<1>3. SomebodyWaits' /\ NoStaleEvent'
  BY DEF ReactorInv, SomebodyWaits, NoStaleEvent
<1> QED
  BY <1>1, <1>2, <1>3 DEF ReactorInv

\* accept_cb closes a socket the table has no slot for: its client is in no
\* descriptor and, once taken off the backlog, nowhere.
LEMMA AcceptRejectsStep ==
  ASSUME Inv, NEW e \in batch, AcceptRejects(e)
  PROVE  Inv'
<1> USE DEF Inv
<1> DEFINE c == Head(backlog)
<1>1. e.fd = ListenFd /\ backlog # <<>>
  BY AcceptEvent DEF AcceptRejects
<1>2. /\ c \in Client /\ backlog' = Tail(backlog) /\ Tail(backlog) \in Seq(Client)
      /\ Disconnected(c) /\ Dispatched(e)
      /\ UNCHANGED <<conn_list, interest, owner, store, alive>>
  BY <1>1, BacklogHead DEF AcceptRejects
<1> HIDE DEF c
<1>3. TypeInv'
  <2>1. <<>> \in Seq(AnyReply) /\ <<>> \in Seq(Token) /\ 0 \in 0 .. Window
    BY ReactorAssumption
  <2> QED
    BY <1>2, <2>1 DEF TypeInv, Disconnected, Dispatched
<1>4. SlotsFilled'
  BY <1>2 DEF ReactorInv, SlotsFilled
<1>5. OnePlace'
  <2>1. \A f, g \in Fd : owner'[f] = owner'[g] /\ owner'[f] # NULL => f = g
    BY <1>2 DEF ReactorInv, OnePlace
  <2>2. /\ \A f \in Fd : owner[f] # c
        /\ \A i \in DOMAIN backlog' :
             i \in Nat /\ i + 1 \in DOMAIN backlog /\ backlog'[i] = backlog[i + 1] /\ backlog'[i] # c
        /\ \A i \in DOMAIN backlog :
             backlog[i] # c => \E j \in DOMAIN backlog' : backlog'[j] = backlog[i]
    BY <1>1, <1>2, BacklogHead DEF c
  <2>3. \A i, j \in DOMAIN backlog' : backlog'[i] = backlog'[j] => i = j
    <3> TAKE i, j \in DOMAIN backlog'
    <3> HAVE backlog'[i] = backlog'[j]
    <3>1. i + 1 = j + 1
      BY <2>2 DEF ReactorInv, OnePlace
    <3> QED
      BY <2>2, <3>1
  <2>4. \A f \in Fd : \A i \in DOMAIN backlog' : owner'[f] # backlog'[i]
    BY <1>2, <2>2 DEF ReactorInv, OnePlace
  <2>5. \A d \in Client :
          peer'[d] # "away" <=> \/ \E f \in Fd : owner'[f] = d
                                \/ \E i \in DOMAIN backlog' : backlog'[i] = d
    <3>1. \A d \in Client : peer'[d] = IF d = c THEN "away" ELSE peer[d]
      BY <1>2 DEF Disconnected, TypeInv
    <3> TAKE d \in Client
    <3>2. CASE d = c
      BY <1>2, <2>2, <3>1, <3>2
    <3>3. CASE d # c
      <4>1. peer[d] # "away" <=> \/ \E f \in Fd : owner[f] = d
                                 \/ \E i \in DOMAIN backlog : backlog[i] = d
        BY DEF ReactorInv, OnePlace
      <4>2. (\E i \in DOMAIN backlog : backlog[i] = d) <=> \E i \in DOMAIN backlog' : backlog'[i] = d
        BY <2>2, <3>3
      <4> QED
        BY <1>2, <3>1, <3>3, <4>1, <4>2
    <3> QED
      BY <3>2, <3>3
  <2> QED
    BY <2>1, <2>3, <2>4, <2>5 DEF OnePlace
<1>6. NothingLeft'
  BY <1>2 DEF Disconnected, ReactorInv, NothingLeft, TypeInv
<1>7. SomebodyWaits' /\ NoStaleEvent'
  BY <1>1, <1>2, EventOpen DEF Dispatched, ReactorInv, SomebodyWaits, NoStaleEvent
<1> QED
  BY <1>3, <1>4, <1>5, <1>6, <1>7 DEF ReactorInv

\* accept_cb fills in the slot of a descriptor that was free: no event of the
\* batch is on it, and its client leaves the backlog.
LEMMA AcceptCbStep ==
  ASSUME Inv, NEW e \in batch, AcceptCb(e)
  PROVE  Inv'
<1> USE DEF Inv
<1> DEFINE c == Head(backlog)
           n == NewFd
<1>1. e.fd = ListenFd /\ backlog # <<>>
  BY AcceptEvent DEF AcceptCb
<1>2. n \in Fd /\ owner[n] = NULL
  BY NewFdFree DEF AcceptCb
<1>3. n \in Fd \ {ListenFd} /\ n \in Slot
  <2>1. n # ListenFd
    BY <1>2, ReactorAssumption DEF ReactorInv, SlotsFilled, Listener
  <2>2. n < ConnectionSize
    BY DEF AcceptCb
  <2> QED
    BY <1>2, <2>1, <2>2, ReactorAssumption DEF Fd, Slot, ListenFd
<1>4. /\ c \in Client /\ backlog' = Tail(backlog) /\ Tail(backlog) \in Seq(Client)
      /\ owner' = [owner EXCEPT ![n] = c] /\ interest' = [interest EXCEPT ![n] = "IN"]
      /\ conn_list' = [conn_list EXCEPT ![n] = [recv |-> "recv_cb", send |-> "send_cb", wbuf |-> NULL]]
      /\ Dispatched(e)
      /\ UNCHANGED <<peer, wire, inbox, due, store, alive>>
  BY <1>1, BacklogHead DEF AcceptCb, SetEvent
<1>5. /\ \A f \in Fd : owner[f] # c
      /\ \A i \in DOMAIN backlog' :
           i \in Nat /\ i + 1 \in DOMAIN backlog /\ backlog'[i] = backlog[i + 1] /\ backlog'[i] # c
      /\ \A i \in DOMAIN backlog :
           backlog[i] # c => \E j \in DOMAIN backlog' : backlog'[j] = backlog[i]
  BY <1>1, <1>4, BacklogHead
<1>6. \E i \in DOMAIN backlog : backlog[i] = c
  <2>1. 1 \in DOMAIN backlog /\ backlog[1] = c
    BY <1>1, EmptySeq, LenProperties DEF TypeInv
  <2> QED
    BY <2>1
<1> HIDE DEF c, n
<1>7. TypeInv'
  <2>1. NULL \in AnyReply
    BY NullReply
  <2> QED
    BY <1>3, <1>4, <2>1 DEF TypeInv, Dispatched
<1>8. /\ \A f \in Fd : owner'[f] = IF f = n THEN c ELSE owner[f]
      /\ \A f \in Fd : interest'[f] = IF f = n THEN "IN" ELSE interest[f]
      /\ \A f \in Slot : conn_list'[f] = IF f = n THEN [recv |-> "recv_cb", send |-> "send_cb", wbuf |-> NULL]
                                         ELSE conn_list[f]
      /\ c # NULL
  BY <1>4, ReactorAssumption DEF TypeInv
<1>9. SlotsFilled'
  <2>1. ListenFd \in Fd /\ ListenFd \in Slot
    BY ReactorAssumption DEF Fd, Slot, ListenFd
  <2> QED
    BY <1>3, <1>4, <1>8, <2>1 DEF ReactorInv, SlotsFilled
<1>10. OnePlace'
  <2>1. \A f, g \in Fd : owner'[f] = owner'[g] /\ owner'[f] # NULL => f = g
    BY <1>5, <1>8 DEF ReactorInv, OnePlace
  <2>2. \A i, j \in DOMAIN backlog' : backlog'[i] = backlog'[j] => i = j
    <3> TAKE i, j \in DOMAIN backlog'
    <3> HAVE backlog'[i] = backlog'[j]
    <3>1. i + 1 = j + 1
      BY <1>5 DEF ReactorInv, OnePlace
    <3> QED
      BY <1>5, <3>1
  <2>3. \A f \in Fd : \A i \in DOMAIN backlog' : owner'[f] # backlog'[i]
    BY <1>5, <1>8 DEF ReactorInv, OnePlace
  <2>4. \A d \in Client :
          peer'[d] # "away" <=> \/ \E f \in Fd : owner'[f] = d
                                \/ \E i \in DOMAIN backlog' : backlog'[i] = d
    <3> TAKE d \in Client
    <3>1. peer[d] # "away" <=> \/ \E f \in Fd : owner[f] = d
                               \/ \E i \in DOMAIN backlog : backlog[i] = d
      BY DEF ReactorInv, OnePlace
    <3>2. CASE d = c
      BY <1>4, <1>6, <1>8, <1>3, <3>1, <3>2
    <3>3. CASE d # c
      <4>1. (\E i \in DOMAIN backlog : backlog[i] = d) <=> \E i \in DOMAIN backlog' : backlog'[i] = d
        BY <1>5, <3>3
      <4>2. (\E f \in Fd : owner[f] = d) <=> \E f \in Fd : owner'[f] = d
        BY <1>2, <1>8, <3>3, ReactorAssumption
      <4> QED
        BY <1>4, <3>1, <4>1, <4>2
    <3> QED
      BY <3>2, <3>3
  <2> QED
    BY <2>1, <2>2, <2>3, <2>4 DEF OnePlace
<1>11. NothingLeft'
  BY <1>4 DEF ReactorInv, NothingLeft
<1>12. NoStaleEvent' /\ SomebodyWaits'
  <2>1. \A g \in batch' : g \in batch /\ g.fd # n /\ g.fd # ListenFd /\ g.fd \in Fd
    BY <1>1, <1>2, <1>4, EventOpen DEF Dispatched
  <2> QED
    BY <1>8, <2>1 DEF ReactorInv, NoStaleEvent, SomebodyWaits
<1> QED
  BY <1>7, <1>9, <1>10, <1>11, <1>12 DEF ReactorInv

\* recv_cb takes tokens off the wire, stores the reply in the slot and waits
\* for EPOLLOUT.
LEMMA RecvCbStep ==
  ASSUME Inv, NEW e \in batch, RecvCb(e)
  PROVE  Inv'
<1> USE DEF Inv
<1> DEFINE f == e.fd
           c == owner[f]
<1>1. f \in Fd \ {ListenFd} /\ f \in Slot /\ c \in Client
  BY ConnEvent DEF RecvCb
<1>2. PICK n \in Chunk(wire[c]) : \E done \in Protocol(store, SubSeq(wire[c], 1, n)) :
         /\ wire' = [wire EXCEPT ![c] = SubSeq(@, n + 1, Len(@))]
         /\ conn_list' = [conn_list EXCEPT ![f].wbuf = done.reply]
         /\ store' = done.map
  BY DEF RecvCb
<1>3. PICK done \in Protocol(store, SubSeq(wire[c], 1, n)) :
         /\ wire' = [wire EXCEPT ![c] = SubSeq(@, n + 1, Len(@))]
         /\ conn_list' = [conn_list EXCEPT ![f].wbuf = done.reply]
         /\ store' = done.map
  BY <1>2
<1>4. /\ interest' = [interest EXCEPT ![f] = "OUT"] /\ Dispatched(e)
      /\ UNCHANGED <<owner, backlog, peer, inbox, due, alive>>
  BY DEF RecvCb, SetEvent
<1>5. /\ wire[c] \in Seq(Token) /\ Len(wire[c]) \in Nat /\ n \in 1 .. Len(wire[c]) /\ wire[c] # <<>>
      /\ \A i \in 1 .. Len(wire[c]) : wire[c][i] \in Token
  BY <1>1, EmptySeq, LenProperties, ElementOfSeq DEF Chunk, TypeInv
<1>6. SubSeq(wire[c], 1, n) \in Seq(Token)
  BY <1>5, SubSeqProperties
<1>7. SubSeq(wire[c], n + 1, Len(wire[c])) \in Seq(Token)
  BY <1>5, SubSeqProperties
<1>8. done.map \in AnyStore /\ done.reply \in AnyReply
  BY <1>6, ProtocolTypes DEF TypeInv
<1> HIDE DEF f, c
<1>9. TypeInv'
  BY <1>1, <1>3, <1>4, <1>7, <1>8 DEF TypeInv, Dispatched
<1>10. /\ \A g \in Fd : interest'[g] = IF g = f THEN "OUT" ELSE interest[g]
       /\ \A g \in Slot : conn_list'[g].recv = conn_list[g].recv /\ conn_list'[g].send = conn_list[g].send
       /\ \A d \in Client : d # c => wire'[d] = wire[d]
  BY <1>1, <1>3, <1>4 DEF TypeInv
<1>11. SlotsFilled'
  <2>1. ListenFd \in Fd /\ ListenFd \in Slot
    BY ReactorAssumption DEF Fd, Slot, ListenFd
  <2>2. owner[f] # NULL
    BY <1>1, ReactorAssumption DEF c
  <2> QED
    BY <1>1, <1>4, <1>10, <2>1, <2>2 DEF ReactorInv, SlotsFilled
<1>12. OnePlace'
  BY <1>4 DEF ReactorInv, OnePlace
<1>13. NothingLeft'
  BY <1>1, <1>4, <1>5, <1>10 DEF ReactorInv, NothingLeft
<1>14. NoStaleEvent' /\ SomebodyWaits'
  <2>1. \A g \in batch' : g \in batch /\ g.fd # f /\ g.fd \in Fd
    BY <1>4, EventOpen DEF Dispatched, f
  <2> QED
    BY <1>4, <1>10, <2>1 DEF ReactorInv, NoStaleEvent, SomebodyWaits
<1> QED
  BY <1>9, <1>11, <1>12, <1>13, <1>14 DEF ReactorInv

\* recv_cb closes a socket whose client is gone.
LEMMA RecvEndsStep ==
  ASSUME Inv, NEW e \in batch, RecvEnds(e)
  PROVE  Inv'
<1> USE DEF Inv
<1> DEFINE f == e.fd
           c == owner[f]
<1>1. f \in Fd \ {ListenFd} /\ f \in Slot /\ c \in Client
  BY ConnEvent DEF RecvEnds
<1>2. /\ Disconnected(c) /\ Dispatched(e)
      /\ owner' = [owner EXCEPT ![f] = NULL] /\ interest' = [interest EXCEPT ![f] = "NONE"]
      /\ conn_list' = [conn_list EXCEPT ![f] = NoConn]
      /\ UNCHANGED <<backlog, store, alive>>
  BY DEF RecvEnds, SetEvent
<1> HIDE DEF f, c
<1>3. TypeInv'
  <2>1. <<>> \in Seq(AnyReply) /\ <<>> \in Seq(Token) /\ 0 \in 0 .. Window
    BY ReactorAssumption
  <2>2. NULL \in AnyReply
    BY NullReply
  <2> QED
    BY <1>1, <1>2, <2>1, <2>2 DEF TypeInv, Disconnected, Dispatched, NoConn
<1>4. /\ \A g \in Fd : owner'[g] = IF g = f THEN NULL ELSE owner[g]
      /\ \A g \in Fd : interest'[g] = IF g = f THEN "NONE" ELSE interest[g]
      /\ \A g \in Slot : g # f => conn_list'[g] = conn_list[g]
      /\ \A d \in Client : peer'[d] = IF d = c THEN "away" ELSE peer[d]
      /\ \A d \in Client : wire'[d] = IF d = c THEN <<>> ELSE wire[d]
      /\ \A d \in Client : inbox'[d] = IF d = c THEN <<>> ELSE inbox[d]
  BY <1>1, <1>2 DEF TypeInv, Disconnected
<1>5. SlotsFilled'
  <2>1. ListenFd \in Fd /\ ListenFd \in Slot
    BY ReactorAssumption DEF Fd, Slot, ListenFd
  <2> QED
    BY <1>1, <1>4, <2>1 DEF ReactorInv, SlotsFilled
<1>6. OnePlace'
  <2>1. \A g \in Fd : owner'[g] # c
    BY <1>1, <1>4, ReactorAssumption DEF ReactorInv, OnePlace, c
  <2>2. \A i \in DOMAIN backlog : backlog[i] # c
    BY <1>1 DEF ReactorInv, OnePlace, c
  <2>3. \A g, h \in Fd : owner'[g] = owner'[h] /\ owner'[g] # NULL => g = h
    BY <1>4 DEF ReactorInv, OnePlace
  <2>4. \A g \in Fd : \A i \in DOMAIN backlog : owner'[g] # backlog[i]
    <3>1. \A i \in DOMAIN backlog : backlog[i] \in Client
      BY LenProperties DEF TypeInv
    <3> QED
      BY <1>4, <3>1, ReactorAssumption DEF ReactorInv, OnePlace
  <2>5. \A d \in Client :
          peer'[d] # "away" <=> \/ \E g \in Fd : owner'[g] = d
                                \/ \E i \in DOMAIN backlog : backlog[i] = d
    <3> TAKE d \in Client
    <3>1. peer[d] # "away" <=> \/ \E g \in Fd : owner[g] = d
                               \/ \E i \in DOMAIN backlog : backlog[i] = d
      BY DEF ReactorInv, OnePlace
    <3>2. CASE d = c
      BY <1>4, <2>1, <2>2, <3>2
    <3>3. CASE d # c
      <4>1. (\E g \in Fd : owner[g] = d) <=> \E g \in Fd : owner'[g] = d
        BY <1>4, <3>3, ReactorAssumption DEF c
      <4> QED
        BY <1>4, <3>1, <3>3, <4>1
    <3> QED
      BY <3>2, <3>3
  <2> QED
    BY <1>2, <2>3, <2>4, <2>5 DEF OnePlace, ReactorInv
<1>7. NothingLeft'
  BY <1>4 DEF ReactorInv, NothingLeft
<1>8. NoStaleEvent' /\ SomebodyWaits'
  <2>1. \A g \in batch' : g \in batch /\ g.fd # f /\ g.fd \in Fd
    BY <1>2, EventOpen DEF Dispatched, f
  <2> QED
    BY <1>2, <1>4, <2>1 DEF ReactorInv, NoStaleEvent, SomebodyWaits
<1> QED
  BY <1>3, <1>5, <1>6, <1>7, <1>8 DEF ReactorInv

\* send_cb, whether the reply is sent or not, waits for EPOLLIN again.
LEMMA SendStep ==
  ASSUME Inv, NEW e \in batch, SendCb(e) \/ SendUnheard(e)
  PROVE  Inv'
<1> USE DEF Inv
<1> DEFINE f == e.fd
           c == owner[f]
<1>1. f \in Fd \ {ListenFd} /\ f \in Slot /\ c \in Client
  BY ConnEvent DEF SendCb, SendUnheard
<1>2. /\ interest' = [interest EXCEPT ![f] = "IN"] /\ Dispatched(e)
      /\ UNCHANGED <<conn_list, owner, backlog, wire, due, store, alive>>
  BY DEF SendCb, SendUnheard, SetEvent
<1>3. /\ peer' \in [Client -> {"away", "open", "fin", "reset", "pipe", "dead"}]
      /\ inbox' \in [Client -> Seq(AnyReply)]
      /\ \A d \in Client : peer'[d] = "away" <=> peer[d] = "away"
      /\ \A d \in Client : peer'[d] = "open" <=> peer[d] = "open"
      /\ \A d \in Client : peer[d] # "open" => inbox'[d] = inbox[d]
  <2>1. CASE SendCb(e)
    <3>1. Append(inbox[c], conn_list[f].wbuf) \in Seq(AnyReply)
      BY <1>1, AppendProperties DEF TypeInv
    <3>2. peer' = peer /\ peer[c] = "open" /\ inbox' \in {inbox, [inbox EXCEPT ![c] = Append(@, conn_list[f].wbuf)]}
      BY <2>1 DEF SendCb
    <3> HIDE DEF f, c
    <3> QED
      BY <1>1, <3>1, <3>2 DEF TypeInv
  <2>2. CASE SendUnheard(e)
    <3>1. /\ inbox' = inbox /\ peer[c] \in {"fin", "reset"}
          /\ \E p \in {"fin", "pipe", "dead"} : peer' = [peer EXCEPT ![c] = p]
      BY <2>2 DEF SendUnheard
    <3> HIDE DEF f, c
    <3> QED
      BY <1>1, <3>1 DEF TypeInv
  <2> QED
    BY <2>1, <2>2
<1> HIDE DEF f, c
<1>4. TypeInv'
  BY <1>1, <1>2, <1>3 DEF TypeInv, Dispatched
<1>5. \A g \in Fd : interest'[g] = IF g = f THEN "IN" ELSE interest[g]
  BY <1>1, <1>2 DEF TypeInv
<1>6. SlotsFilled'
  <2>1. ListenFd \in Fd
    BY ReactorAssumption DEF Fd, ListenFd
  <2>2. owner[f] # NULL
    BY <1>1, ReactorAssumption DEF c
  <2> QED
    BY <1>1, <1>2, <1>5, <2>1, <2>2 DEF ReactorInv, SlotsFilled
<1>7. OnePlace'
  BY <1>2, <1>3 DEF ReactorInv, OnePlace
<1>8. NothingLeft'
  BY <1>2, <1>3 DEF ReactorInv, NothingLeft
<1>9. NoStaleEvent' /\ SomebodyWaits'
  <2>1. \A g \in batch' : g \in batch /\ g.fd # f /\ g.fd \in Fd
    BY <1>2, EventOpen DEF Dispatched, f
  <2> QED
    BY <1>2, <1>5, <2>1 DEF ReactorInv, NoStaleEvent, SomebodyWaits
<1> QED
  BY <1>4, <1>6, <1>7, <1>8, <1>9 DEF ReactorInv

\* SIGPIPE ends the process and changes nothing else.
LEMMA SendKillsStep ==
  ASSUME Inv, NEW e \in batch, SendKills(e)
  PROVE  Inv'
<1>1. TypeInv'
  BY DEF Inv, TypeInv, SendKills, kernel
<1>2. ReactorInv'
  BY DEF Inv, ReactorInv, SlotsFilled, OnePlace, NothingLeft, SomebodyWaits, NoStaleEvent, SendKills, kernel
<1> QED
  BY <1>1, <1>2 DEF Inv

\* Inv holds in the initial state: one listening socket and no connection.
LEMMA InvInit ==
  ASSUME Init
  PROVE  Inv
<1>1. TypeInv
  <2>1. /\ <<>> \in Seq(Client) /\ <<>> \in Seq(AnyReply) /\ <<>> \in Seq(Token)
        /\ 0 \in 0 .. Window
    BY ReactorAssumption
  <2>2. NULL \in AnyReply
    BY NullReply
  <2> QED
    BY <2>1, <2>2 DEF Init, TypeInv, NoConn, AnyStore
<1>2. ListenFd \in Fd /\ ListenFd \in Slot
  BY ReactorAssumption DEF Fd, Slot, ListenFd
<1>3. SlotsFilled
  BY <1>2 DEF Init, SlotsFilled, NoConn
<1>4. OnePlace
  <2>1. DOMAIN backlog = {}
    BY DEF Init
  <2> QED
    BY <1>2, <2>1, ReactorAssumption DEF Init, OnePlace, Listener
<1>5. NothingLeft /\ SomebodyWaits /\ NoStaleEvent
  BY DEF Init, NothingLeft, SomebodyWaits, NoStaleEvent
<1> QED
  BY <1>1, <1>3, <1>4, <1>5 DEF Inv, ReactorInv

\* Every step preserves Inv.
LEMMA InvStep ==
  ASSUME Inv, [Next]_vars
  PROVE  Inv'
<1>1. CASE EpollWait
  BY <1>1, EpollWaitStep
<1>2. CASE Dispatch
  BY <1>2, AcceptFailsStep, AcceptRejectsStep, AcceptCbStep, RecvCbStep, RecvEndsStep, SendStep, SendKillsStep
     DEF Dispatch
<1>3. CASE ClientNext
  BY <1>3, ConnectStep, ClientStep DEF ClientNext
<1>4. CASE UNCHANGED vars
  <2>1. TypeInv'
    BY <1>4 DEF Inv, TypeInv, vars
  <2>2. ReactorInv'
    BY <1>4 DEF Inv, ReactorInv, SlotsFilled, OnePlace, NothingLeft, SomebodyWaits, NoStaleEvent, vars
  <2> QED
    BY <2>1, <2>2 DEF Inv
<1> QED
  BY <1>1, <1>2, <1>3, <1>4 DEF Next

\* The invariant of the reactor holds in every reachable state.
LEMMA InvHolds == Spec => []Inv
BY InvInit, InvStep, PTL DEF Spec

-----------------------------------------------------------------------------
(* What follows from it.                                                   *)

\* An event is dispatched to the connection it was reported for, which still
\* waits for it, although callbacks of the same batch close sockets and accept
\* new ones on their descriptors.
THEOREM EventsNeverStale == Spec => []NoStaleEvent
<1>1. Inv => NoStaleEvent
  BY DEF Inv, ReactorInv
<1> QED
  BY <1>1, InvHolds, PTL

\* No descriptor leaks and no null callback is called: a socket is open exactly
\* if epoll watches it and its slot has the callback, and every connection is
\* once in the backlog or once in the table.
THEOREM DescriptorsWatched == Spec => []FdsWatched
<1>1. ASSUME Inv PROVE FdsWatched
  <2> USE <1>1 DEF Inv
  <2>1. ASSUME NEW f \in Fd
        PROVE  /\ (owner[f] # NULL) <=> (interest[f] # "NONE")
               /\ interest[f] = "IN" =>
                    conn_list[f].recv = (IF f = ListenFd THEN "accept_cb" ELSE "recv_cb")
               /\ interest[f] = "OUT" => conn_list[f].send = "send_cb"
    <3>1. CASE f = ListenFd
      BY <3>1, ReactorAssumption DEF ReactorInv, SlotsFilled, Listener
    <3>2. CASE f # ListenFd
      BY <2>1, <3>2 DEF ReactorInv, SlotsFilled
    <3> QED
      BY <3>1, <3>2
  <2>2. ASSUME NEW c \in Client
        PROVE  Cardinality({f \in Fd : owner[f] = c})
                 + Cardinality({i \in DOMAIN backlog : backlog[i] = c})
                   = (IF peer[c] = "away" THEN 0 ELSE 1)
    <3> DEFINE F == {f \in Fd : owner[f] = c}
               B == {i \in DOMAIN backlog : backlog[i] = c}
    <3>1. Cardinality({}) = 0 /\ \A x : Cardinality({x}) = 1
      BY FS_EmptySet, FS_Singleton
    <3>2. CASE F # {}
      <4>1. PICK f \in Fd : owner[f] = c
        BY <3>2
      <4>2. F = {f}
        BY <4>1, ReactorAssumption DEF ReactorInv, OnePlace
      <4>3. B = {} /\ peer[c] # "away"
        BY <4>1 DEF ReactorInv, OnePlace
      <4>4. Cardinality(F) = 1 /\ Cardinality(B) = 0
        BY <3>1, <4>2, <4>3
      <4> QED
        BY <4>3, <4>4
    <3>3. CASE F = {} /\ B # {}
      <4>1. PICK i \in DOMAIN backlog : backlog[i] = c
        BY <3>3
      <4>2. B = {i}
        BY <4>1 DEF ReactorInv, OnePlace
      <4>3. peer[c] # "away"
        BY <4>1 DEF ReactorInv, OnePlace
      <4>4. Cardinality(F) = 0 /\ Cardinality(B) = 1
        BY <3>1, <3>3, <4>2
      <4> QED
        BY <4>3, <4>4
    <3>4. CASE F = {} /\ B = {}
      <4>1. peer[c] = "away"
        BY <3>4 DEF ReactorInv, OnePlace
      <4> QED
        BY <3>1, <3>4, <4>1
    <3> QED
      BY <3>2, <3>3, <3>4
  <2> QED
    BY <2>1, <2>2 DEF FdsWatched
<1> QED
  BY <1>1, InvHolds, PTL

-----------------------------------------------------------------------------
(* Clients that wait for each reply.                                       *)

\* Nothing is left of a sequence of length 1 without its head.
LEMMA TailOfOne ==
  ASSUME NEW S, NEW s \in Seq(S), s # <<>>, Len(s) <= 1
  PROVE  Tail(s) = <<>>
<1>0. Len(s) \in Nat /\ Len(s) # 0
  BY EmptySeq
<1>1. Len(s) = 1
  BY <1>0
<1>2. Tail(s) \in Seq(S) /\ Len(Tail(s)) = 0
  BY <1>1, HeadTailProperties
<1> QED
  BY <1>2, EmptySeq

\* A step that changes nothing of the connection of any client but c keeps
\* OneUnderWay if it does so for c.
LEMMA OtherClients ==
  ASSUME OneUnderWay, NEW c \in Client, AtMostOne(c)',
         \A d \in Client \ {c} :
           /\ wire'[d] = wire[d] /\ inbox'[d] = inbox[d] /\ due'[d] = due[d] /\ peer'[d] = peer[d]
           /\ Replying(d)' <=> Replying(d)
  PROVE  OneUnderWay'
<1> SUFFICES ASSUME NEW d \in Client, d # c PROVE AtMostOne(d)'
  BY DEF OneUnderWay
<1>1. AtMostOne(d)
  BY DEF OneUnderWay
<1>2. /\ wire'[d] = wire[d] /\ inbox'[d] = inbox[d] /\ due'[d] = due[d] /\ peer'[d] = peer[d]
      /\ Replying(d)' <=> Replying(d)
  OBVIOUS
<1> QED
  BY <1>1, <1>2 DEF AtMostOne

\* A client acts: it sends only when it waits for nothing.
LEMMA UnderWayClient ==
  ASSUME Inv, OneUnderWay, Window = 1, NEW c \in Client,
         Connect(c) \/ Read(c) \/ Hangup(c) \/ \E m \in Message : Send(c, m)
  PROVE  OneUnderWay'
<1> USE DEF Inv
<1> SUFFICES AtMostOne(c)'
  <2>1. owner' = owner /\ interest' = interest
    BY DEF Connect, Read, Hangup, Send
  <2>2. \A d \in Client : Replying(d)' <=> Replying(d)
    BY <2>1 DEF Replying
  <2>3. \A d \in Client \ {c} :
           wire'[d] = wire[d] /\ inbox'[d] = inbox[d] /\ due'[d] = due[d] /\ peer'[d] = peer[d]
    BY DEF Connect, Read, Hangup, Send, TypeInv
  <2> QED
    BY <2>2, <2>3, OtherClients
<1>1. owner' = owner /\ interest' = interest
  BY DEF Connect, Read, Hangup, Send
<1>2. \A d : Replying(d)' <=> Replying(d)
  BY <1>1 DEF Replying
<1>4. AtMostOne(c)
  BY DEF OneUnderWay
<1>5. CASE Connect(c)
  <2>1. wire[c] = <<>> /\ inbox[c] = <<>> /\ ~Replying(c)
    BY <1>5 DEF Connect, ReactorInv, NothingLeft, OnePlace, Replying
  <2>2. wire'[c] = <<>> /\ inbox'[c] = <<>> /\ peer'[c] = "open" /\ ~Replying(c)'
    BY <1>2, <1>5, <2>1 DEF Connect, TypeInv
  <2> QED
    BY <2>2 DEF AtMostOne
<1>6. CASE Read(c)
  <2>1. inbox[c] \in Seq(AnyReply) /\ inbox[c] # <<>> /\ peer[c] = "open"
    BY <1>6 DEF Read, TypeInv, ReactorInv, NothingLeft
  <2>2. wire[c] = <<>> /\ ~Replying(c) /\ Len(inbox[c]) <= 1
    BY <1>4, <2>1 DEF AtMostOne
  <2>3. Tail(inbox[c]) = <<>>
    BY <2>1, <2>2, TailOfOne
  <2>4. wire'[c] = <<>> /\ inbox'[c] = <<>> /\ peer'[c] = "open" /\ ~Replying(c)'
    BY <1>2, <1>6, <2>1, <2>2, <2>3 DEF Read, TypeInv
  <2> QED
    BY <2>4 DEF AtMostOne
<1>7. CASE Hangup(c)
  <2>1. /\ inbox'[c] = <<>> /\ peer'[c] \in {"fin", "reset"}
        /\ wire'[c] = wire[c] \/ wire'[c] = <<>>
    BY <1>7 DEF Hangup, TypeInv
  <2> QED
    BY <1>2, <1>4, <2>1 DEF AtMostOne
<1>8. CASE \E m \in Message : Send(c, m)
  <2>1. PICK m \in Message : Send(c, m)
    BY <1>8
  <2>2. due[c] = 0 /\ peer[c] = "open"
    BY <2>1 DEF Send, TypeInv
  <2>3. wire[c] = <<>> /\ inbox[c] = <<>> /\ ~Replying(c)
    BY <1>4, <2>2 DEF AtMostOne
  <2>4. inbox'[c] = <<>> /\ peer'[c] = "open" /\ due'[c] = 1 /\ ~Replying(c)'
    BY <1>2, <2>1, <2>2, <2>3 DEF Send, TypeInv
  <2> QED
    BY <2>4 DEF AtMostOne
<1> QED
  BY <1>5, <1>6, <1>7, <1>8

\* accept_cb: the connection it rejects or fills in has nothing under way that
\* was not under way before.
LEMMA UnderWayAccept ==
  ASSUME Inv, OneUnderWay, NEW e \in batch, AcceptRejects(e) \/ AcceptCb(e)
  PROVE  OneUnderWay'
<1> USE DEF Inv
<1>1. e.fd = ListenFd /\ backlog # <<>>
  BY AcceptEvent DEF AcceptCb, AcceptRejects
<1>2. PICK c \in Client : c = Head(backlog)
  BY <1>1, BacklogHead
<1>3. CASE AcceptRejects(e)
  <2>1. /\ Disconnected(c) /\ UNCHANGED <<owner, interest>>
    BY <1>2, <1>3 DEF AcceptRejects
  <2>2. \A d \in Client : Replying(d)' <=> Replying(d)
    BY <2>1 DEF Replying
  <2>3. \A d \in Client : /\ wire'[d] = IF d = c THEN <<>> ELSE wire[d]
                          /\ inbox'[d] = IF d = c THEN <<>> ELSE inbox[d]
                          /\ peer'[d] = IF d = c THEN "away" ELSE peer[d]
                          /\ d # c => due'[d] = due[d]
    BY <2>1 DEF Disconnected, TypeInv
  <2>4. AtMostOne(c)'
    BY <2>3 DEF AtMostOne
  <2> QED
    BY <2>2, <2>3, <2>4, OtherClients
<1>4. CASE AcceptCb(e)
  <2>1. /\ owner' = [owner EXCEPT ![NewFd] = c] /\ interest' = [interest EXCEPT ![NewFd] = "IN"]
        /\ UNCHANGED <<peer, wire, inbox, due>>
        /\ NewFd \in Fd /\ owner[NewFd] = NULL
    BY <1>2, <1>4, NewFdFree DEF AcceptCb, SetEvent
  <2>2. \A d \in Client : Replying(d)' <=> Replying(d)
    BY <2>1, ReactorAssumption DEF Replying, TypeInv
  <2> QED
    BY <2>1, <2>2 DEF OneUnderWay, AtMostOne
<1> QED
  BY <1>3, <1>4

\* Which replies are waiting to be sent after the event of a client's socket.
LEMMA ReplyingAfter ==
  ASSUME Inv, NEW f \in Fd \ {ListenFd}, NEW c \in Client, owner[f] = c, NEW ev \in {"IN", "OUT"},
         owner' = owner, interest' = [interest EXCEPT ![f] = ev]
  PROVE  /\ \A d \in Client \ {c} : Replying(d)' <=> Replying(d)
         /\ Replying(c)' <=> ev = "OUT"
         /\ Replying(c) <=> interest[f] = "OUT"
<1>1. \A g \in Fd : owner[g] = c => g = f
  BY ReactorAssumption DEF Inv, ReactorInv, OnePlace
<1>2. \A g \in Fd : interest'[g] = IF g = f THEN ev ELSE interest[g]
  BY DEF Inv, TypeInv
<1> QED
  BY <1>1, <1>2 DEF Replying

\* recv_cb takes the one request there is and holds its reply.
LEMMA UnderWayRecv ==
  ASSUME Inv, OneUnderWay, Split = FALSE, NEW e \in batch, RecvCb(e)
  PROVE  OneUnderWay'
<1> USE DEF Inv
<1> DEFINE f == e.fd
<1>0. f \in Fd \ {ListenFd} /\ f \in Slot /\ owner[f] \in Client
  BY ConnEvent DEF RecvCb
<1>1. PICK c \in Client : c = owner[f]
  BY <1>0
<1>2. PICK n \in Chunk(wire[c]) : wire' = [wire EXCEPT ![c] = SubSeq(@, n + 1, Len(@))]
  BY <1>1 DEF RecvCb
<1>3. /\ interest' = [interest EXCEPT ![f] = "OUT"]
      /\ UNCHANGED <<owner, backlog, peer, inbox, due, alive>>
  BY DEF RecvCb, SetEvent
<1>4. wire[c] \in Seq(Token) /\ Len(wire[c]) \in Nat /\ n = Len(wire[c]) /\ wire[c] # <<>>
  BY <1>0, <1>1, EmptySeq, LenProperties DEF Chunk, TypeInv
<1>5. SubSeq(wire[c], n + 1, Len(wire[c])) = <<>>
  BY <1>4, SubSeqEmpty
<1>6. /\ \A d \in Client \ {c} : Replying(d)' <=> Replying(d)
      /\ Replying(c)'
  BY <1>0, <1>1, <1>3, ReplyingAfter
<1> HIDE DEF f
<1>7. wire'[c] = <<>> /\ \A d \in Client \ {c} : wire'[d] = wire[d]
  BY <1>0, <1>1, <1>2, <1>5 DEF TypeInv
<1>8. /\ inbox[c] = <<>> /\ Len(inbox[c]) <= 1 /\ peer[c] \notin {"pipe", "dead"}
      /\ peer[c] = "open" => due[c] = 1
  BY <1>0, <1>1, <1>4 DEF OneUnderWay, AtMostOne
<1>9. AtMostOne(c)'
  BY <1>3, <1>6, <1>7, <1>8 DEF AtMostOne
<1> QED
  BY <1>0, <1>1, <1>3, <1>6, <1>7, <1>9, OtherClients

\* recv_cb closes the connection.
LEMMA UnderWayEnds ==
  ASSUME Inv, OneUnderWay, NEW e \in batch, RecvEnds(e)
  PROVE  OneUnderWay'
<1> USE DEF Inv
<1> DEFINE f == e.fd
<1>0. f \in Fd \ {ListenFd} /\ f \in Slot /\ owner[f] \in Client
  BY ConnEvent DEF RecvEnds
<1>1. PICK c \in Client : c = owner[f]
  BY <1>0
<1>2. /\ Disconnected(c)
      /\ owner' = [owner EXCEPT ![f] = NULL] /\ interest' = [interest EXCEPT ![f] = "NONE"]
  BY <1>1 DEF RecvEnds, SetEvent
<1>3. \A g \in Fd : owner[g] = c => g = f
  BY <1>0, <1>1, ReactorAssumption DEF ReactorInv, OnePlace
<1>4. owner[f] = c
  BY <1>1
<1> HIDE DEF f
<1>5. /\ \A g \in Fd : owner'[g] = IF g = f THEN NULL ELSE owner[g]
      /\ \A g \in Fd : interest'[g] = IF g = f THEN "NONE" ELSE interest[g]
  BY <1>0, <1>1, <1>2 DEF TypeInv
<1>6. /\ \A d \in Client \ {c} : Replying(d)' <=> Replying(d)
      /\ ~Replying(c)'
  <2>1. \A d \in Client \ {c} : \A g \in Fd : owner'[g] = d <=> owner[g] = d /\ g # f
    BY <1>0, <1>1, <1>4, <1>5, ReactorAssumption
  <2>2. \A d \in Client \ {c} : owner[f] # d
    BY <1>4
  <2>3. ASSUME NEW d \in Client \ {c} PROVE Replying(d)' <=> Replying(d)
    BY <1>5, <2>1, <2>2 DEF Replying
  <2>4. \A g \in Fd : owner'[g] # c
    BY <1>0, <1>1, <1>3, <1>5, ReactorAssumption
  <2>5. ~Replying(c)'
    BY <2>4 DEF Replying
  <2> QED
    BY <2>3, <2>5
<1>7. \A d \in Client : /\ wire'[d] = IF d = c THEN <<>> ELSE wire[d]
                        /\ inbox'[d] = IF d = c THEN <<>> ELSE inbox[d]
                        /\ peer'[d] = IF d = c THEN "away" ELSE peer[d]
                        /\ d # c => due'[d] = due[d]
  BY <1>2 DEF Disconnected, TypeInv
<1>8. AtMostOne(c)'
  BY <1>0, <1>1, <1>6, <1>7 DEF AtMostOne
<1> QED
  BY <1>0, <1>1, <1>6, <1>7, <1>8, OtherClients

\* send_cb passes the reply on to the kernel, or drops it.
LEMMA UnderWaySend ==
  ASSUME Inv, OneUnderWay, NEW e \in batch, SendCb(e) \/ SendUnheard(e)
  PROVE  OneUnderWay'
<1> USE DEF Inv
<1> DEFINE f == e.fd
<1>0. f \in Fd \ {ListenFd} /\ f \in Slot /\ owner[f] \in Client
  BY ConnEvent DEF SendCb, SendUnheard
<1>1. PICK c \in Client : c = owner[f]
  BY <1>0
<1>2. interest[f] = "OUT"
  BY EventOpen DEF SendCb, SendUnheard
<1>3. /\ interest' = [interest EXCEPT ![f] = "IN"]
      /\ UNCHANGED <<owner, wire, due>>
  BY DEF SendCb, SendUnheard, SetEvent
<1>4. /\ \A d \in Client \ {c} : Replying(d)' <=> Replying(d)
      /\ ~Replying(c)' /\ Replying(c)
  BY <1>0, <1>1, <1>2, <1>3, ReplyingAfter
<1>5. /\ wire[c] = <<>> /\ inbox[c] = <<>>
      /\ peer[c] = "open" => due[c] = 1
  BY <1>0, <1>1, <1>4 DEF OneUnderWay, AtMostOne
<1>6. CASE SendCb(e)
  <2>1. /\ peer[c] = "open" /\ peer' = peer
        /\ inbox' \in {inbox, [inbox EXCEPT ![c] = Append(@, conn_list[f].wbuf)]}
    BY <1>1, <1>6 DEF SendCb
  <2>2. Len(Append(inbox[c], conn_list[f].wbuf)) = 1 /\ Len(inbox[c]) = 0
    <3>1. inbox[c] \in Seq(AnyReply) /\ conn_list[f].wbuf \in AnyReply
      BY <1>0, <1>1 DEF TypeInv
    <3> QED
      BY <1>5, <3>1, AppendProperties, EmptySeq
  <2> HIDE DEF f
  <2>3. Len(inbox'[c]) <= 1 /\ \A d \in Client \ {c} : inbox'[d] = inbox[d]
    <3>1. CASE inbox' = inbox
      BY <2>2, <3>1
    <3>2. CASE inbox' = [inbox EXCEPT ![c] = Append(@, conn_list[f].wbuf)]
      <4>1. inbox'[c] = Append(inbox[c], conn_list[f].wbuf)
        BY <1>0, <1>1, <3>2 DEF TypeInv
      <4>2. \A d \in Client \ {c} : inbox'[d] = inbox[d]
        BY <3>2 DEF TypeInv
      <4> QED
        BY <2>2, <4>1, <4>2
    <3> QED
      BY <2>1, <3>1, <3>2
  <2>4. \A d \in Client \ {c} :
           /\ wire'[d] = wire[d] /\ inbox'[d] = inbox[d] /\ due'[d] = due[d] /\ peer'[d] = peer[d]
           /\ Replying(d)' <=> Replying(d)
    BY <1>3, <1>4, <2>1, <2>3
  <2>5. /\ wire'[c] = <<>> /\ ~Replying(c)' /\ Len(inbox'[c]) <= 1
        /\ peer'[c] = "open" /\ due'[c] = 1
    BY <1>3, <1>4, <1>5, <2>1, <2>3
  <2>6. AtMostOne(c)'
    BY <2>5 DEF AtMostOne
  <2> QED
    BY <1>0, <1>1, <2>4, <2>6, OtherClients
<1>7. CASE SendUnheard(e)
  <2>1. /\ inbox' = inbox
        /\ \E p \in {"fin", "pipe", "dead"} : peer' = [peer EXCEPT ![c] = p]
    BY <1>1, <1>7 DEF SendUnheard
  <2> HIDE DEF f
  <2>2. peer'[c] # "open" /\ \A d \in Client \ {c} : peer'[d] = peer[d]
    BY <1>0, <1>1, <2>1 DEF TypeInv
  <2>3. Len(inbox[c]) <= 1
    BY <1>0, <1>1 DEF OneUnderWay, AtMostOne
  <2>4. \A d \in Client \ {c} :
           /\ wire'[d] = wire[d] /\ inbox'[d] = inbox[d] /\ due'[d] = due[d] /\ peer'[d] = peer[d]
           /\ Replying(d)' <=> Replying(d)
    BY <1>3, <1>4, <2>1, <2>2
  <2>5. /\ wire'[c] = <<>> /\ ~Replying(c)' /\ inbox'[c] = <<>> /\ Len(inbox'[c]) <= 1
        /\ peer'[c] # "open"
    BY <1>3, <1>4, <1>5, <2>1, <2>2, <2>3
  <2>6. AtMostOne(c)'
    BY <2>5 DEF AtMostOne
  <2> QED
    BY <1>0, <1>1, <2>4, <2>6, OtherClients
<1> QED
  BY <1>6, <1>7

\* send_cb never meets a broken socket: nothing is under way on one.
LEMMA NoBrokenSend ==
  ASSUME Inv, OneUnderWay, NEW e \in batch
  PROVE  ~SendKills(e)
<1> SUFFICES ASSUME SendKills(e) PROVE FALSE
  OBVIOUS
<1>1. e.fd \in Fd /\ owner[e.fd] \in Client /\ interest[e.fd] = "OUT"
  BY ConnEvent, EventOpen DEF SendKills
<1> QED
  BY <1>1 DEF SendKills, OneUnderWay, AtMostOne, Replying

\* Whatever the number of clients and whenever they disconnect: if each one
\* waits for the reply before its next request, and a recv returns the request
\* as it was sent, no send_cb raises SIGPIPE, which would end the server.
THEOREM PatientClientsNeverKill ==
  ASSUME Window = 1, Split = FALSE
  PROVE  Spec => []NeverKilled
<1>1. Init => OneUnderWay /\ NeverKilled
  BY EmptySeq DEF Init, OneUnderWay, AtMostOne, NeverKilled, Replying
<1>2. Inv /\ OneUnderWay /\ NeverKilled /\ [Next]_vars => OneUnderWay' /\ NeverKilled'
  <2> SUFFICES ASSUME Inv, OneUnderWay, NeverKilled, [Next]_vars
               PROVE  OneUnderWay' /\ NeverKilled'
    OBVIOUS
  <2>1. CASE EpollWait \/ UNCHANGED vars
    <3>1. UNCHANGED <<interest, owner, wire, inbox, due, peer, alive>>
      BY <2>1 DEF EpollWait, vars, kernel
    <3> QED
      BY <3>1 DEF OneUnderWay, AtMostOne, NeverKilled, Replying
  <2>2. CASE Dispatch
    <3>1. PICK e \in batch : \/ AcceptFails(e) \/ AcceptRejects(e) \/ AcceptCb(e)
                             \/ RecvCb(e) \/ RecvEnds(e)
                             \/ SendCb(e) \/ SendUnheard(e) \/ SendKills(e)
      BY <2>2 DEF Dispatch
    <3>2. NeverKilled'
      BY <3>1, NoBrokenSend DEF NeverKilled, AcceptFails, AcceptRejects, AcceptCb, RecvCb, RecvEnds, SendCb, SendUnheard
    <3>3. CASE AcceptFails(e)
      BY <3>2, <3>3 DEF AcceptFails, kernel, OneUnderWay, AtMostOne, Replying
    <3>4. OneUnderWay'
      BY <3>1, <3>3, NoBrokenSend, UnderWayAccept, UnderWayRecv, UnderWayEnds, UnderWaySend
    <3> QED
      BY <3>2, <3>4
  <2>3. CASE ClientNext
    <3>1. NeverKilled'
      BY <2>3 DEF ClientNext, Connect, Read, Hangup, Send, NeverKilled
    <3> QED
      BY <2>3, <3>1, UnderWayClient DEF ClientNext
  <2> QED
    BY <2>1, <2>2, <2>3 DEF Next
<1> QED
  BY <1>1, <1>2, InvHolds, PTL DEF Spec

-----------------------------------------------------------------------------
(* The reactor implements KvService.                                       *)

\* Both specifications use the same protocol layer.
LEMMA SameProtocol ==
  ASSUME NEW s, NEW q
  PROVE  Service!Protocol(s, q) = Protocol(s, q)
<1>1. Service!SplitToken(q) = SplitToken(q)
  BY Zenon DEF Service!SplitToken, SplitToken, Service!Blank, Blank
<1>2. \A cmd, k, v : Service!EngineCall(s, cmd, k, v) = EngineCall(s, cmd, k, v)
  BY Zenon DEF Service!EngineCall, EngineCall
<1>3. \A cmd, ret : Service!Response(cmd, ret) = Response(cmd, ret)
  BY Zenon DEF Service!Response, Response
<1>4. \A t : Service!FilterProtocol(s, t) = FilterProtocol(s, t)
  BY <1>2, <1>3, ZenonT(60) DEF Service!FilterProtocol, FilterProtocol, Service!Command, Command,
     Service!Arity, Arity, Service!NoLength, NoLength
<1> QED
  BY <1>1, <1>4, Zenon DEF Service!Protocol, Protocol

\* A concatenation without its first part.
LEMMA DropFirst ==
  ASSUME NEW S, NEW a \in Seq(S), NEW b \in Seq(S)
  PROVE  SubSeq(a \o b, Len(a) + 1, Len(a \o b)) = b
<1>1. /\ a \o b \in Seq(S) /\ Len(a \o b) = Len(a) + Len(b)
      /\ \A i \in 1 .. Len(a) + Len(b) : (a \o b)[i] = IF i <= Len(a) THEN a[i] ELSE b[i - Len(a)]
  BY ConcatProperties
<1>2. Len(a) \in Nat /\ Len(b) \in Nat
  BY LenProperties
<1>3. \A i \in 1 .. Len(a) + Len(b) : (a \o b)[i] \in S
  BY <1>1, ElementOfSeq
<1>4. SubSeq(a \o b, Len(a) + 1, Len(a \o b)) = b
  <2> DEFINE t == SubSeq(a \o b, Len(a) + 1, Len(a) + Len(b))
  <2>1. /\ t \in Seq(S)
        /\ Len(t) = IF Len(a) + 1 <= Len(a) + Len(b) THEN Len(a) + Len(b) - (Len(a) + 1) + 1 ELSE 0
        /\ \A i \in 1 .. (Len(a) + Len(b)) - (Len(a) + 1) + 1 : t[i] = (a \o b)[Len(a) + 1 + i - 1]
    <3>1. \A i \in Len(a) + 1 .. Len(a) + Len(b) : (a \o b)[i] \in S
      BY <1>2, <1>3
    <3> QED
      BY <1>2, <3>1, SubSeqProperties
  <2>2. Len(t) = Len(b)
    BY <1>2, <2>1
  <2>3. \A i \in 1 .. Len(b) : t[i] = b[i]
    BY <1>1, <1>2, <2>1
  <2> QED
    BY <1>1, <2>1, <2>2, <2>3, SeqEqual
<1> QED
  BY <1>4

\* The tail of a concatenation.
LEMMA TailOfConcat ==
  ASSUME NEW S, NEW a \in Seq(S), NEW b \in Seq(S), a # <<>>
  PROVE  Tail(a \o b) = Tail(a) \o b
<1>1. /\ a \o b \in Seq(S) /\ Len(a \o b) = Len(a) + Len(b)
      /\ \A i \in 1 .. Len(a) + Len(b) : (a \o b)[i] = IF i <= Len(a) THEN a[i] ELSE b[i - Len(a)]
  BY ConcatProperties
<1>2. Len(a) \in Nat /\ Len(b) \in Nat
  BY LenProperties
<1>6. Tail(a \o b) = Tail(a) \o b
  <2>1. Len(a) # 0
    BY EmptySeq
  <2>2. a \o b # <<>>
    BY <1>1, <1>2, <2>1, EmptySeq
  <2>3. /\ Tail(a) \in Seq(S) /\ Len(Tail(a)) = Len(a) - 1
        /\ \A i \in 1 .. Len(Tail(a)) : Tail(a)[i] = a[i + 1]
    BY HeadTailProperties
  <2>4. /\ Tail(a \o b) \in Seq(S) /\ Len(Tail(a \o b)) = Len(a \o b) - 1
        /\ \A i \in 1 .. Len(Tail(a \o b)) : Tail(a \o b)[i] = (a \o b)[i + 1]
    BY <1>1, <2>2, HeadTailProperties
  <2>5. /\ Tail(a) \o b \in Seq(S) /\ Len(Tail(a) \o b) = Len(Tail(a)) + Len(b)
        /\ \A i \in 1 .. Len(Tail(a)) + Len(b) :
             (Tail(a) \o b)[i] = IF i <= Len(Tail(a)) THEN Tail(a)[i] ELSE b[i - Len(Tail(a))]
    BY <2>3, ConcatProperties
  <2>6. Len(Tail(a \o b)) = Len(Tail(a) \o b)
    BY <1>1, <1>2, <2>3, <2>4, <2>5
  <2>7. \A i \in 1 .. Len(Tail(a \o b)) : Tail(a \o b)[i] = (Tail(a) \o b)[i]
    BY <1>1, <1>2, <2>1, <2>3, <2>4, <2>5
  <2> QED
    BY <2>4, <2>5, <2>6, <2>7, SeqEqual
<1> QED
  BY <1>6

\* A sequence without all of its elements, or without the last one.
LEMMA DropParts ==
  ASSUME NEW S, NEW a \in Seq(S), NEW x \in S
  PROVE  /\ SubSeq(a, Len(a) + 1, Len(a)) = <<>>
         /\ (a \o <<x>>)[Len(a \o <<x>>)] = x
         /\ SubSeq(a \o <<x>>, 1, Len(a \o <<x>>) - 1) = a
         /\ a \o <<x>> # <<>>
<1>2. Len(a) \in Nat
  BY LenProperties
<1>5. SubSeq(a, Len(a) + 1, Len(a)) = <<>>
  BY <1>2, SubSeqEmpty
<1>7. /\ (a \o <<x>>)[Len(a \o <<x>>)] = x
      /\ SubSeq(a \o <<x>>, 1, Len(a \o <<x>>) - 1) = a
      /\ a \o <<x>> # <<>>
  <2>1. a \o <<x>> = Append(a, x)
    BY AppendIsConcat
  <2>2. /\ Append(a, x) \in Seq(S) /\ Append(a, x) # <<>> /\ Len(Append(a, x)) = Len(a) + 1
        /\ \A i \in 1 .. Len(a) : Append(a, x)[i] = a[i]
        /\ Append(a, x)[Len(a) + 1] = x
    BY AppendProperties
  <2> DEFINE t == SubSeq(Append(a, x), 1, Len(a))
  <2>3. /\ t \in Seq(S) /\ Len(t) = IF 1 <= Len(a) THEN Len(a) - 1 + 1 ELSE 0
        /\ \A i \in 1 .. Len(a) - 1 + 1 : t[i] = Append(a, x)[1 + i - 1]
    <3>1. \A i \in 1 .. Len(a) : Append(a, x)[i] \in S
      BY <2>2, ElementOfSeq
    <3> QED
      BY <1>2, <3>1, SubSeqProperties
  <2>4. Len(t) = Len(a) /\ \A i \in 1 .. Len(a) : t[i] = a[i]
    BY <1>2, <2>2, <2>3
  <2>5. t = a
    BY <2>3, <2>4, SeqEqual
  <2>6. Len(Append(a, x)) - 1 = Len(a)
    BY <1>2, <2>2
  <2> QED
    BY <2>1, <2>2, <2>5, <2>6
<1> QED
  BY <1>5, <1>7

\* What a connection waits to send is nothing, or the reply in the one slot of
\* the client whose event is EPOLLOUT.
LEMMA UnsentNow ==
  ASSUME NEW c
  PROVE  /\ ~Replying(c) => Unsent(c) = <<>>
         /\ \A f \in Fd : /\ owner[f] = c /\ interest[f] = "OUT"
                          /\ \A g \in Fd : owner[g] = c => g = f
                          => Unsent(c) = <<conn_list[f].wbuf>>
<1>1. ASSUME ~Replying(c) PROVE Unsent(c) = <<>>
  BY <1>1 DEF Replying, Unsent
<1>2. ASSUME NEW f \in Fd, owner[f] = c, interest[f] = "OUT", \A g \in Fd : owner[g] = c => g = f
      PROVE  Unsent(c) = <<conn_list[f].wbuf>>
  <2>1. {g \in Fd : owner[g] = c /\ interest[g] = "OUT"} = {f}
    BY <1>2
  <2>2. (CHOOSE g \in {f} : TRUE) = f
    OBVIOUS
  <2> QED
    BY <2>1, <2>2 DEF Unsent
<1> QED
  BY <1>1, <1>2

\* The same after a step.
LEMMA UnsentNext ==
  ASSUME NEW c
  PROVE  /\ ~Replying(c)' => Unsent(c)' = <<>>
         /\ \A f \in Fd : /\ owner'[f] = c /\ interest'[f] = "OUT"
                          /\ \A g \in Fd : owner'[g] = c => g = f
                          => Unsent(c)' = <<conn_list'[f].wbuf>>
<1>1. ASSUME ~Replying(c)' PROVE Unsent(c)' = <<>>
  BY <1>1 DEF Replying, Unsent
<1>2. ASSUME NEW f \in Fd, owner'[f] = c, interest'[f] = "OUT", \A g \in Fd : owner'[g] = c => g = f
      PROVE  Unsent(c)' = <<conn_list'[f].wbuf>>
  <2>1. {g \in Fd : owner'[g] = c /\ interest'[g] = "OUT"} = {f}
    BY <1>2
  <2>2. (CHOOSE g \in {f} : TRUE) = f
    OBVIOUS
  <2> QED
    BY <2>1, <2>2 DEF Unsent
<1> QED
  BY <1>1, <1>2

\* Nothing changes for a client whose descriptor the step does not touch.
LEMMA UnsentOther ==
  ASSUME NEW d, NEW f \in Fd, owner[f] # d, owner'[f] # d,
         \A g \in Fd \ {f} : owner'[g] = owner[g] /\ interest'[g] = interest[g],
         \A g \in Fd \ {f} : owner[g] = d => conn_list'[g] = conn_list[g]
  PROVE  Unsent(d)' = Unsent(d)
<1> DEFINE fds == {g \in Fd : owner[g] = d /\ interest[g] = "OUT"}
           next == {g \in Fd : owner'[g] = d /\ interest'[g] = "OUT"}
<1>1. next = fds
  OBVIOUS
<1>2. CASE fds = {}
  BY <1>1, <1>2 DEF Unsent
<1>3. CASE fds # {}
  <2>1. (CHOOSE g \in fds : TRUE) \in fds
    BY <1>3
  <2>2. conn_list'[CHOOSE g \in fds : TRUE] = conn_list[CHOOSE g \in fds : TRUE]
    BY <2>1
  <2>3. Unsent(d) = <<conn_list[CHOOSE g \in fds : TRUE].wbuf>>
    BY <1>3 DEF Unsent
  <2>4. Unsent(d)' = <<conn_list'[CHOOSE g \in next : TRUE].wbuf>>
    BY <1>1, <1>3, Zenon DEF Unsent
  <2> HIDE DEF fds, next
  <2> QED
    BY <1>1, <2>2, <2>3, <2>4
<1> QED
  BY <1>2, <1>3

\* The refinement mapping: who is connected, and what has been answered.
Here == [c \in Client |-> peer[c] = "open"]
Answers == [c \in Client |-> inbox[c] \o Unsent(c)]

\* What is answered is a sequence of replies.
LEMMA AnswersTyped ==
  ASSUME Inv, NEW c \in Client
  PROVE  inbox[c] \in Seq(AnyReply) /\ Unsent(c) \in Seq(AnyReply)
<1>1. inbox[c] \in Seq(AnyReply)
  BY DEF Inv, TypeInv
<1>2. CASE ~Replying(c)
  BY <1>1, <1>2, UnsentNow, EmptySeq
<1>3. CASE Replying(c)
  <2>1. PICK f \in Fd : owner[f] = c /\ interest[f] = "OUT"
    BY <1>3 DEF Replying
  <2>2. f \in Slot /\ \A g \in Fd : owner[g] = c => g = f
    <3>1. f # ListenFd
      BY <2>1 DEF Inv, ReactorInv, SlotsFilled
    <3> QED
      BY <2>1, <3>1, ReactorAssumption DEF Inv, ReactorInv, SlotsFilled, OnePlace
  <2>3. Unsent(c) = <<conn_list[f].wbuf>>
    BY <2>1, <2>2, UnsentNow
  <2>4. conn_list[f].wbuf \in AnyReply
    BY <2>2 DEF Inv, TypeInv
  <2> QED
    BY <1>1, <2>3, <2>4
<1> QED
  BY <1>1, <1>2, <1>3

\* A step that changes nothing of what the clients see is a stutter.
LEMMA Stutter ==
  ASSUME UNCHANGED <<store, wire>>,
         \A d \in Client : peer'[d] = "open" <=> peer[d] = "open",
         \A d \in Client : inbox'[d] \o Unsent(d)' = inbox[d] \o Unsent(d)
  PROVE  UNCHANGED Service!svars
<1>1. Here' = Here
  BY DEF Here
<1>2. Answers' = Answers
  BY DEF Answers
<1> QED
  BY <1>1, <1>2 DEF Service!svars, Here, Answers

\* A step after which client c is gone, and has lost a prefix of what it was
\* answered and perhaps what it asked, is a Leave.
LEMMA LeaveStep ==
  ASSUME NEW c \in Client, NEW n \in 0 .. Len(inbox[c] \o Unsent(c)), UNCHANGED store,
         wire' \in {wire, [wire EXCEPT ![c] = <<>>]},
         peer'[c] # "open",
         \A d \in Client \ {c} : peer'[d] = "open" <=> peer[d] = "open",
         \A d \in Client \ {c} : inbox'[d] \o Unsent(d)' = inbox[d] \o Unsent(d),
         inbox'[c] \o Unsent(c)' = SubSeq(inbox[c] \o Unsent(c), n + 1, Len(inbox[c] \o Unsent(c)))
  PROVE  Service!Next
<1>1. Here' = [Here EXCEPT ![c] = FALSE]
  BY DEF Here
<1>2. Answers[c] = inbox[c] \o Unsent(c)
  BY DEF Answers
<1>3. Answers' = [Answers EXCEPT ![c] = SubSeq(Answers[c], n + 1, Len(Answers[c]))]
  BY <1>2 DEF Answers
<1>4. Service!Leave(c)
  BY <1>1, <1>2, <1>3 DEF Service!Leave, Here, Answers
<1> QED
  BY <1>4 DEF Service!Next

\* A client connects, sends, reads or hangs up.
LEMMA RefineClient ==
  ASSUME Inv, NEW c \in Client,
         Connect(c) \/ Read(c) \/ Hangup(c) \/ \E m \in Message : Send(c, m)
  PROVE  Service!Next
<1> USE DEF Inv
<1>1. \A d : Unsent(d)' = Unsent(d)
  <2>1. UNCHANGED <<owner, interest, conn_list>>
    BY DEF Connect, Read, Hangup, Send
  <2> QED
    BY <2>1 DEF Unsent
<1>2. CASE Connect(c)
  <2>1. wire[c] = <<>> /\ inbox[c] = <<>> /\ Unsent(c) = <<>> /\ peer[c] # "open"
    <3>1. ~Replying(c)
      BY <1>2 DEF Connect, ReactorInv, OnePlace, Replying
    <3> QED
      BY <1>2, <3>1, UnsentNow DEF Connect, ReactorInv, NothingLeft
  <2>2. Here' = [Here EXCEPT ![c] = TRUE]
    BY <1>2 DEF Here, Connect, TypeInv
  <2>3. Answers' = Answers /\ Answers[c] = <<>> /\ ~Here[c]
    <3>1. inbox' = inbox /\ <<>> \o <<>> = <<>>
      BY <1>2, ConcatEmptySeq, EmptySeq DEF Connect
    <3>2. Answers' = Answers
      BY <1>1, <3>1 DEF Answers
    <3>3. Answers[c] = <<>>
      BY <2>1, <3>1 DEF Answers
    <3>4. ~Here[c]
      BY <2>1 DEF Here
    <3> QED
      BY <3>2, <3>3, <3>4
  <2>4. Service!Join(c)
    BY <1>2, <2>1, <2>2, <2>3 DEF Service!Join, Here, Answers, Connect
  <2> QED
    BY <2>4 DEF Service!Next
<1>3. CASE Read(c)
  <2>1. inbox[c] # <<>> /\ peer[c] = "open"
    BY <1>3 DEF Read, ReactorInv, NothingLeft
  <2>2. inbox[c] \o Unsent(c) # <<>> /\ Tail(inbox[c] \o Unsent(c)) = Tail(inbox[c]) \o Unsent(c)
    <3>1. inbox[c] \in Seq(AnyReply) /\ Unsent(c) \in Seq(AnyReply) /\ NULL \in AnyReply
      BY AnswersTyped, NullReply
    <3>2. inbox[c] \o Unsent(c) # <<>>
      BY <2>1, <3>1, ConcatEqualIffEmpty
    <3> QED
      BY <2>1, <3>1, <3>2, TailOfConcat
  <2>3. Answers' = [Answers EXCEPT ![c] = Tail(@)] /\ Answers[c] # <<>>
    BY <1>1, <1>3, <2>2 DEF Answers, Read, TypeInv
  <2>4. Here' = Here /\ Here[c]
    BY <1>3, <2>1 DEF Here, Read
  <2>5. Service!Deliver(c)
    BY <1>3, <2>3, <2>4 DEF Service!Deliver, Here, Answers, Read
  <2> QED
    BY <2>5 DEF Service!Next
<1>4. CASE Hangup(c)
  <2>1. Len(inbox[c]) \in 0 .. Len(inbox[c] \o Unsent(c))
    BY AnswersTyped, ConcatProperties, LenProperties
  <2>2. SubSeq(inbox[c] \o Unsent(c), Len(inbox[c]) + 1, Len(inbox[c] \o Unsent(c))) = Unsent(c)
    <3>1. inbox[c] \in Seq(AnyReply) /\ Unsent(c) \in Seq(AnyReply) /\ NULL \in AnyReply
      BY AnswersTyped, NullReply
    <3> QED
      BY <3>1, DropFirst
  <2>3. inbox'[c] = <<>> /\ \A d \in Client \ {c} : inbox'[d] = inbox[d]
    BY <1>4 DEF Hangup, TypeInv
  <2>4. <<>> \o Unsent(c) = Unsent(c)
    BY AnswersTyped, ConcatEmptySeq
  <2>5. /\ peer'[c] # "open" /\ \A d \in Client \ {c} : peer'[d] = peer[d]
        /\ wire' \in {wire, [wire EXCEPT ![c] = <<>>]} /\ UNCHANGED store
    BY <1>4 DEF Hangup, TypeInv
  <2> QED
    BY <1>1, <2>1, <2>2, <2>3, <2>4, <2>5, LeaveStep
<1>5. CASE \E m \in Message : Send(c, m)
  <2>1. PICK m \in Message : Send(c, m)
    BY <1>5
  <2>2. Here' = Here /\ Answers' = Answers /\ Here[c]
    BY <1>1, <2>1 DEF Here, Answers, Send
  <2>3. Service!Ask(c, m)
    BY <2>1, <2>2 DEF Service!Ask, Here, Answers, Send
  <2> QED
    BY <2>3 DEF Service!Next
<1> QED
  BY <1>2, <1>3, <1>4, <1>5

\* accept_cb: a connection that is rejected ends; one that is accepted is not
\* seen to change.
LEMMA RefineAccept ==
  ASSUME Inv, NEW e \in batch, AcceptRejects(e) \/ AcceptCb(e)
  PROVE  Service!Next \/ UNCHANGED Service!svars
<1> USE DEF Inv
<1>1. e.fd = ListenFd /\ backlog # <<>>
  BY AcceptEvent DEF AcceptCb, AcceptRejects
<1>2. PICK c \in Client : c = Head(backlog)
  BY <1>1, BacklogHead
<1>3. CASE AcceptRejects(e)
  <2>1. Disconnected(c) /\ UNCHANGED <<conn_list, interest, owner, store>>
    BY <1>2, <1>3 DEF AcceptRejects
  <2>2. \A d : Unsent(d)' = Unsent(d)
    BY <2>1 DEF Unsent
  <2>3. Unsent(c) = <<>>
    <3>1. \A f \in Fd : owner[f] # c
      BY <1>1, <1>2, BacklogHead
    <3> QED
      BY <3>1, UnsentNow DEF Replying
  <2>4. /\ peer'[c] # "open" /\ \A d \in Client \ {c} : peer'[d] = peer[d]
        /\ inbox'[c] = <<>> /\ \A d \in Client \ {c} : inbox'[d] = inbox[d]
        /\ wire' \in {wire, [wire EXCEPT ![c] = <<>>]}
    BY <2>1 DEF Disconnected, TypeInv
  <2>5. /\ inbox[c] \o Unsent(c) = inbox[c] /\ <<>> \o Unsent(c)' = <<>>
        /\ Len(inbox[c]) \in 0 .. Len(inbox[c])
        /\ SubSeq(inbox[c], Len(inbox[c]) + 1, Len(inbox[c])) = <<>>
    BY <2>2, <2>3, AnswersTyped, NullReply, DropParts, ConcatEmptySeq, LenProperties
  <2> QED
    BY <2>1, <2>2, <2>4, <2>5, LeaveStep
<1>4. CASE AcceptCb(e)
  <2>1. /\ owner' = [owner EXCEPT ![NewFd] = c] /\ interest' = [interest EXCEPT ![NewFd] = "IN"]
        /\ conn_list' = [conn_list EXCEPT ![NewFd] = [recv |-> "recv_cb", send |-> "send_cb", wbuf |-> NULL]]
        /\ UNCHANGED <<peer, wire, inbox, store>>
        /\ NewFd \in Fd /\ owner[NewFd] = NULL
    BY <1>2, <1>4, NewFdFree DEF AcceptCb, SetEvent
  <2>2. \A d \in Client \ {c} : Unsent(d)' = Unsent(d)
    <3> TAKE d \in Client \ {c}
    <3>1. owner[NewFd] # d /\ owner'[NewFd] # d
      BY <2>1, ReactorAssumption DEF TypeInv
    <3>2. \A g \in Fd \ {NewFd} : owner'[g] = owner[g] /\ interest'[g] = interest[g]
      BY <2>1 DEF TypeInv
    <3>3. \A g \in Fd \ {NewFd} : owner[g] = d => conn_list'[g] = conn_list[g]
      <4>1. \A g \in Fd : owner[g] = d => g \in Slot
        BY ReactorAssumption DEF ReactorInv, SlotsFilled, Listener
      <4> QED
        BY <2>1, <4>1 DEF TypeInv
    <3> QED
      BY <2>1, <3>1, <3>2, <3>3, UnsentOther
  <2>3. Unsent(c)' = <<>> /\ Unsent(c) = <<>>
    <3>1. \A f \in Fd : owner[f] # c
      BY <1>1, <1>2, BacklogHead
    <3>2. \A f \in Fd : owner'[f] = c => interest'[f] = "IN"
      BY <2>1, <3>1 DEF TypeInv
    <3> QED
      BY <3>1, <3>2, UnsentNow, UnsentNext DEF Replying
  <2> QED
    BY <2>1, <2>2, <2>3, Stutter
<1> QED
  BY <1>3, <1>4

\* recv_cb performs one message: its reply is the only one not yet sent.
LEMMA RefineRecv ==
  ASSUME Inv, NEW e \in batch, RecvCb(e)
  PROVE  Service!Next
<1> USE DEF Inv
<1> DEFINE f == e.fd
<1>1. f \in Fd \ {ListenFd} /\ f \in Slot /\ owner[f] \in Client /\ interest[f] = "IN"
  BY ConnEvent, EventOpen DEF RecvCb
<1>2. PICK c \in Client : c = owner[f]
  BY <1>1
<1>3. PICK n \in Chunk(wire[c]) : \E done \in Protocol(store, SubSeq(wire[c], 1, n)) :
         /\ wire' = [wire EXCEPT ![c] = SubSeq(@, n + 1, Len(@))]
         /\ conn_list' = [conn_list EXCEPT ![f].wbuf = done.reply]
         /\ store' = done.map
  BY <1>2 DEF RecvCb
<1>4. PICK done \in Protocol(store, SubSeq(wire[c], 1, n)) :
         /\ wire' = [wire EXCEPT ![c] = SubSeq(@, n + 1, Len(@))]
         /\ conn_list' = [conn_list EXCEPT ![f].wbuf = done.reply]
         /\ store' = done.map
  BY <1>3
<1>5. interest' = [interest EXCEPT ![f] = "OUT"] /\ UNCHANGED <<owner, peer, inbox>>
  BY DEF RecvCb, SetEvent
<1> HIDE DEF f
<1>6. \A g \in Fd : owner[g] = c => g = f
  BY <1>1, <1>2, ReactorAssumption DEF ReactorInv, OnePlace
<1>7. Unsent(c) = <<>>
  BY <1>1, <1>6, UnsentNow DEF Replying
<1>8. Unsent(c)' = <<done.reply>>
  <2>1. owner'[f] = c /\ interest'[f] = "OUT" /\ conn_list'[f].wbuf = done.reply
    BY <1>1, <1>2, <1>4, <1>5 DEF TypeInv
  <2>2. \A g \in Fd : owner'[g] = c => g = f
    BY <1>5, <1>6
  <2> QED
    BY <1>1, <2>1, <2>2, UnsentNext
<1>9. \A d \in Client \ {c} : Unsent(d)' = Unsent(d)
  <2> TAKE d \in Client \ {c}
  <2>1. \A g \in Fd \ {f} : owner'[g] = owner[g] /\ interest'[g] = interest[g]
    BY <1>5 DEF TypeInv
  <2>2. \A g \in Fd \ {f} : owner[g] = d => conn_list'[g] = conn_list[g]
    <3>1. \A g \in Fd : owner[g] = d => g \in Slot
      BY ReactorAssumption DEF ReactorInv, SlotsFilled, Listener
    <3> QED
      BY <1>4, <3>1 DEF TypeInv
  <2> QED
    BY <1>1, <1>2, <1>5, <2>1, <2>2, UnsentOther
<1>10. Append(inbox[c] \o Unsent(c), done.reply) = inbox[c] \o Unsent(c)'
  <2>1. SubSeq(wire[c], 1, n) \in Seq(Token)
    <3>1. /\ wire[c] \in Seq(Token) /\ Len(wire[c]) \in Nat /\ n \in 1 .. Len(wire[c])
          /\ \A i \in 1 .. Len(wire[c]) : wire[c][i] \in Token
      BY LenProperties, ElementOfSeq DEF Chunk, TypeInv
    <3> QED
      BY <3>1, SubSeqProperties
  <2>2. done.reply \in AnyReply
    BY <2>1, ProtocolTypes DEF TypeInv
  <2>3. inbox[c] \in Seq(AnyReply)
    BY AnswersTyped
  <2> QED
    BY <1>7, <1>8, <2>2, <2>3, ConcatEmptySeq, AppendIsConcat
<1>11. Here' = Here
  BY <1>5 DEF Here
<1>12. Answers' = [Answers EXCEPT ![c] = Append(@, done.reply)]
  BY <1>5, <1>9, <1>10 DEF Answers
<1>13. Service!Perform(c)
  <2>1. n \in Service!Chunk(wire[c]) /\ done \in Service!Protocol(store, SubSeq(wire[c], 1, n))
    BY SameProtocol DEF Service!Chunk, Chunk
  <2> QED
    BY <1>4, <1>11, <1>12, <2>1 DEF Service!Perform, Here, Answers
<1> QED
  BY <1>13 DEF Service!Next

\* recv_cb ends a connection: nothing was waiting to be sent.
LEMMA RefineEnds ==
  ASSUME Inv, NEW e \in batch, RecvEnds(e)
  PROVE  Service!Next
<1> USE DEF Inv
<1> DEFINE f == e.fd
<1>1. f \in Fd \ {ListenFd} /\ f \in Slot /\ owner[f] \in Client /\ interest[f] = "IN"
  BY ConnEvent, EventOpen DEF RecvEnds
<1>2. PICK c \in Client : c = owner[f]
  BY <1>1
<1>3. /\ Disconnected(c) /\ UNCHANGED store
      /\ owner' = [owner EXCEPT ![f] = NULL] /\ interest' = [interest EXCEPT ![f] = "NONE"]
      /\ conn_list' = [conn_list EXCEPT ![f] = NoConn]
  BY <1>2 DEF RecvEnds, SetEvent
<1> HIDE DEF f
<1>4. \A g \in Fd : owner[g] = c => g = f
  BY <1>1, <1>2, ReactorAssumption DEF ReactorInv, OnePlace
<1>5. Unsent(c) = <<>>
  BY <1>1, <1>4, UnsentNow DEF Replying
<1>6. Unsent(c)' = <<>>
  <2>1. \A g \in Fd : owner'[g] # c
    BY <1>1, <1>3, <1>4, ReactorAssumption DEF TypeInv
  <2> QED
    BY <2>1, UnsentNext DEF Replying
<1>7. \A d \in Client \ {c} : Unsent(d)' = Unsent(d)
  <2> TAKE d \in Client \ {c}
  <2>1. \A g \in Fd \ {f} : owner'[g] = owner[g] /\ interest'[g] = interest[g]
    BY <1>3 DEF TypeInv
  <2>2. \A g \in Fd \ {f} : owner[g] = d => conn_list'[g] = conn_list[g]
    <3>1. \A g \in Fd : owner[g] = d => g \in Slot
      BY ReactorAssumption DEF ReactorInv, SlotsFilled, Listener
    <3> QED
      BY <1>3, <3>1 DEF TypeInv
  <2>3. owner'[f] # d /\ owner[f] # d
    BY <1>1, <1>2, <1>3, ReactorAssumption DEF TypeInv
  <2> QED
    BY <1>1, <2>1, <2>2, <2>3, UnsentOther
<1>8. /\ peer'[c] # "open" /\ \A d \in Client \ {c} : peer'[d] = peer[d]
      /\ inbox'[c] = <<>> /\ \A d \in Client \ {c} : inbox'[d] = inbox[d]
      /\ wire' \in {wire, [wire EXCEPT ![c] = <<>>]}
  BY <1>3 DEF Disconnected, TypeInv
<1>9. /\ inbox[c] \o Unsent(c) = inbox[c] /\ <<>> \o Unsent(c)' = <<>>
      /\ Len(inbox[c]) \in 0 .. Len(inbox[c])
      /\ SubSeq(inbox[c], Len(inbox[c]) + 1, Len(inbox[c])) = <<>>
  BY <1>5, <1>6, AnswersTyped, NullReply, DropParts, ConcatEmptySeq, LenProperties
<1> QED
  BY <1>3, <1>7, <1>8, <1>9, LeaveStep

\* send_cb: the reply is passed on unseen, or is none, or is lost with the
\* connection.
LEMMA RefineSend ==
  ASSUME Inv, NEW e \in batch, SendCb(e) \/ SendUnheard(e)
  PROVE  Service!Next \/ UNCHANGED Service!svars
<1> USE DEF Inv
<1> DEFINE f == e.fd
<1>1. f \in Fd \ {ListenFd} /\ f \in Slot /\ owner[f] \in Client /\ interest[f] = "OUT"
  BY ConnEvent, EventOpen DEF SendCb, SendUnheard
<1>2. PICK c \in Client : c = owner[f]
  BY <1>1
<1>3. /\ interest' = [interest EXCEPT ![f] = "IN"]
      /\ UNCHANGED <<conn_list, owner, wire, store>>
  BY DEF SendCb, SendUnheard, SetEvent
<1>4. \A g \in Fd : owner[g] = c => g = f
  BY <1>1, <1>2, ReactorAssumption DEF ReactorInv, OnePlace
<1>5. PICK x \in AnyReply : x = conn_list[f].wbuf
  BY <1>1 DEF TypeInv
<1>6. Unsent(c) = <<x>>
  BY <1>1, <1>2, <1>4, <1>5, UnsentNow
<1>7. Unsent(c)' = <<>>
  <2>1. \A g \in Fd : owner'[g] = c => interest'[g] = "IN"
    BY <1>1, <1>3, <1>4 DEF TypeInv
  <2> QED
    BY <2>1, UnsentNext DEF Replying
<1>8. \A d \in Client \ {c} : Unsent(d)' = Unsent(d)
  <2> HIDE DEF f
  <2> TAKE d \in Client \ {c}
  <2>1. \A g \in Fd \ {f} : owner'[g] = owner[g] /\ interest'[g] = interest[g] /\ conn_list'[g] = conn_list[g]
    BY <1>3 DEF TypeInv
  <2>2. owner'[f] # d /\ owner[f] # d
    BY <1>2, <1>3
  <2> QED
    BY <1>1, <2>1, <2>2, UnsentOther
<1>9. /\ inbox[c] \in Seq(AnyReply) /\ Append(inbox[c], x) = inbox[c] \o <<x>>
      /\ inbox[c] \o <<>> = inbox[c] /\ Append(inbox[c], x) \o <<>> = Append(inbox[c], x)
  <2>1. inbox[c] \in Seq(AnyReply)
    BY AnswersTyped
  <2>2. Append(inbox[c], x) \in Seq(AnyReply)
    BY <2>1, AppendProperties
  <2> QED
    BY <2>1, <2>2, AppendIsConcat, ConcatEmptySeq
<1>10. CASE SendCb(e) /\ inbox' = [inbox EXCEPT ![c] = Append(@, x)]
  <2>1. peer' = peer
    BY <1>10 DEF SendCb
  <2>2. inbox'[c] \o Unsent(c)' = inbox[c] \o Unsent(c)
    BY <1>6, <1>7, <1>9, <1>10 DEF TypeInv
  <2>3. \A d \in Client \ {c} : inbox'[d] = inbox[d]
    BY <1>10 DEF TypeInv
  <2> QED
    BY <1>3, <1>8, <2>1, <2>2, <2>3, Stutter
<1>11. CASE SendCb(e) /\ x = NoLength /\ inbox' = inbox
  <2>1. peer' = peer
    BY <1>11 DEF SendCb
  <2>2. /\ inbox[c] \o <<x>> # <<>> /\ (inbox[c] \o <<x>>)[Len(inbox[c] \o <<x>>)] = x
        /\ SubSeq(inbox[c] \o <<x>>, 1, Len(inbox[c] \o <<x>>) - 1) = inbox[c]
    BY <1>9, DropParts
  <2>3. Here' = Here
    BY <2>1 DEF Here
  <2>4. Answers[c] = inbox[c] \o <<x>>
    BY <1>6 DEF Answers
  <2>5. Answers' = [Answers EXCEPT ![c] = SubSeq(Answers[c], 1, Len(Answers[c]) - 1)]
    BY <1>7, <1>8, <1>9, <1>11, <2>2, <2>4 DEF Answers
  <2>6. x = Service!NoLength
    BY <1>11, Zenon DEF Service!NoLength, NoLength
  <2>7. Service!Skip(c)
    BY <1>3, <2>2, <2>3, <2>4, <2>5, <2>6 DEF Service!Skip, Here, Answers
  <2> QED
    BY <2>7 DEF Service!Next
<1>12. CASE SendUnheard(e)
  <2>1. /\ inbox' = inbox /\ peer[c] \in {"fin", "reset"}
        /\ \E p \in {"fin", "pipe", "dead"} : peer' = [peer EXCEPT ![c] = p]
    BY <1>2, <1>12 DEF SendUnheard
  <2>2. inbox[c] = <<>>
    BY <2>1 DEF ReactorInv, NothingLeft
  <2>3. /\ inbox[c] \o Unsent(c) = <<x>> /\ inbox'[c] \o Unsent(c)' = <<>>
    BY <1>6, <1>7, <1>9, <2>1, <2>2
  <2>4. 1 \in 0 .. Len(<<x>>) /\ SubSeq(<<x>>, 1 + 1, Len(<<x>>)) = <<>>
    BY SubSeqEmpty
  <2>5. peer'[c] # "open" /\ \A d \in Client \ {c} : peer'[d] = peer[d]
    BY <2>1 DEF TypeInv
  <2> QED
    BY <1>3, <1>8, <2>1, <2>3, <2>4, <2>5, LeaveStep
<1> QED
  BY <1>2, <1>5, <1>10, <1>11, <1>12 DEF SendCb

\* What clients see of the reactor is what KvService promises: bytes are taken
\* in order, each chunk is executed atomically and answered once, and replies
\* arrive in order, none lost, doubled or given to another client, whatever
\* the interleaving of events, clients and disconnections.
THEOREM ReactorImplementsService == Spec => ImplementsService
<1>1. Init => Service!Init
  <2> SUFFICES ASSUME Init PROVE Service!Init
    OBVIOUS
  <2>1. \A c \in Client : Unsent(c) = <<>>
    BY UnsentNow DEF Init, Replying
  <2>2. <<>> \o <<>> = <<>>
    BY ConcatEmptySeq, EmptySeq
  <2> QED
    BY <2>1, <2>2 DEF Init, Service!Init
<1>2. Inv /\ [Next]_vars => [Service!Next]_(Service!svars)
  <2> SUFFICES ASSUME Inv, [Next]_vars PROVE Service!Next \/ UNCHANGED Service!svars
    OBVIOUS
  <2>1. ASSUME UNCHANGED <<conn_list, interest, owner, peer, wire, inbox, store>>
        PROVE  UNCHANGED Service!svars
    <3>1. \A d : Unsent(d)' = Unsent(d)
      BY <2>1 DEF Unsent
    <3> QED
      BY <2>1, <3>1, Stutter
  <2>2. CASE EpollWait \/ UNCHANGED vars
    BY <2>1, <2>2 DEF EpollWait, vars, kernel
  <2>3. CASE Dispatch
    <3>1. PICK e \in batch : \/ AcceptFails(e) \/ AcceptRejects(e) \/ AcceptCb(e)
                             \/ RecvCb(e) \/ RecvEnds(e)
                             \/ SendCb(e) \/ SendUnheard(e) \/ SendKills(e)
      BY <2>3 DEF Dispatch
    <3>2. CASE AcceptFails(e) \/ SendKills(e)
      BY <2>1, <3>2 DEF AcceptFails, SendKills, kernel
    <3> QED
      BY <3>1, <3>2, RefineAccept, RefineRecv, RefineEnds, RefineSend
  <2>4. CASE ClientNext
    BY <2>4, RefineClient DEF ClientNext
  <2> QED
    BY <2>2, <2>3, <2>4 DEF Next
<1> QED
  BY <1>1, <1>2, InvHolds, PTL DEF Spec, ImplementsService, Service!Spec
===============================================================================
