----------------------------- MODULE WebProofs -----------------------------
(***************************************************************************)
(* The accept lock and the shared counters of the web servers are right,   *)
(* and their clients get what they are entitled to, for every number of    *)
(* clients, descriptors, processes and messages.                           *)
(***************************************************************************)
EXTENDS Web, FiniteSetTheorems, FunctionTheorems, SequenceTheorems, WellFoundedInduction, TLAPS

USE SocketsAssumption, WebSocketsAssumption

\* A non-empty set of naturals has a least element: accept takes the lowest of
\* the free descriptors.
LEMMA NatMin ==
  ASSUME NEW S, S \subseteq Nat, S # {}
  PROVE  Min(S) \in S /\ \A y \in S : Min(S) =< y
<1>1. PICK x \in S : \A y \in S : ~(<<y, x>> \in OpToRel(<, Nat))
  BY NatLessThanWellFounded, WFMin
<1>2. \A y \in Nat : y < x => <<y, x>> \in OpToRel(<, Nat)
  <2>1. ASSUME NEW y \in Nat, y < x PROVE <<y, x>> \in Nat \X Nat
    OBVIOUS
  <2>2. ASSUME NEW y \in Nat, y < x, <<y, x>> \in Nat \X Nat, <<y, x>>[1] = y, <<y, x>>[2] = x
        PROVE  <<y, x>> \in OpToRel(<, Nat)
    BY <2>2, Zenon DEF OpToRel
  <2> QED
    BY <2>1, <2>2
<1>3. \A y \in S : ~(y < x)
  BY <1>1, <1>2, Zenon
<1>4. \A y \in S : x =< y
  BY <1>3
<1> QED
  BY <1>4 DEF Min

\* A table of descriptors in which a client has one entry at most.
Single(o) == \A f, g \in Fd : o[f] # NULL /\ o[f] = o[g] => f = g

\* FdOf and At for a table o of descriptors and a server d.
Entry(o, c) == CHOOSE g \in Fd : o[g] = c
HomeOf(d, f) == IF d \in Prefork THEN 1 + (f % Workers) ELSE 1

\* FdOf finds the one descriptor of a client.
LEMMA FdIs ==
  ASSUME NEW o, Single(o), NEW f \in Fd, o[f] # NULL
  PROVE  Entry(o, o[f]) = f
<1>1. \A g \in Fd : o[g] = o[f] <=> g = f
  BY DEF Single
<1> DEFINE h == CHOOSE g \in Fd : o[g] = o[f]
<1>2. h \in Fd /\ o[h] = o[f]
  OBVIOUS
<1> QED
  BY <1>1, <1>2 DEF Entry

\* What the operators of the model say of the tables before and after a step.
LEMMA Tables ==
  /\ \A c : FdOf(c) = Entry(owner, c)
  /\ \A f : Home(f) = HomeOf(design, f)
  /\ \A c : (FdOf(c) = Entry(owner, c))'
  /\ \A f : (Home(f) = HomeOf(design, f))'
BY Zenon DEF FdOf, Entry, Home, HomeOf

\* The clients whose descriptor belongs to one of the processes ws, read from
\* the table itself.
Holders(o, d, ws) == {c \in Client : \E f \in Fd : o[f] = c /\ HomeOf(d, f) \in ws}

\* Served, before and after a step.
LEMMA ServedIs ==
  ASSUME NEW ws
  PROVE  /\ Single(owner) => Served(ws) = Holders(owner, design, ws)
         /\ Single(owner') => Served(ws)' = Holders(owner', design', ws)
<1>1. ASSUME NEW o, NEW d, Single(o), NEW c \in Client
      PROVE  (\E f \in Fd : o[f] = c) /\ HomeOf(d, Entry(o, c)) \in ws
             <=> \E f \in Fd : o[f] = c /\ HomeOf(d, f) \in ws
  BY <1>1, FdIs
<1>2. Single(owner) => Served(ws) = Holders(owner, design, ws)
  BY <1>1, Tables, ZenonT(60) DEF Served, Holders, Accepted, At
<1>3. Single(owner') => Served(ws)' = Holders(owner', design', ws)
  BY <1>1, Tables, ZenonT(60) DEF Served, Holders, Accepted, At
<1> QED
  BY <1>2, <1>3

-----------------------------------------------------------------------------
(* The system calls.                                                       *)

\* One place means one descriptor.
LEMMA OnePlaceSingle == (OnePlace => Single(owner)) /\ (OnePlace' => Single(owner'))
BY DEF OnePlace, Single

\* The descriptor and the process of a connection.
LEMMA EntryOf ==
  ASSUME TypeOK, OnePlace, NEW c \in Client, Accepted(c)
  PROVE  /\ FdOf(c) \in Fd /\ owner[FdOf(c)] = c /\ At(c) \in up
         /\ \A f \in Fd : owner[f] = c => f = FdOf(c)
<1>1. \A f \in Fd : owner[f] = c => f = FdOf(c)
  BY FdIs, Tables, OnePlaceSingle
<1> QED
  BY <1>1 DEF Accepted, At, OnePlace

\* accept takes a free descriptor of the process for the first of the backlog.
LEMMA AcceptAtStep ==
  ASSUME TypeOK, OnePlace, NEW w \in up, AcceptAt(w), UNCHANGED <<design, limit, peer, up>>
  PROVE  /\ owner' \in [Fd -> Client \cup {NULL}] /\ backlog' \in Seq(Client) /\ Head(backlog) \in Client
         /\ OnePlace'
         /\ \A ws : /\ Head(backlog) \notin Served(ws)
                    /\ Served(ws)' = IF w \in ws THEN Served(ws) \cup {Head(backlog)} ELSE Served(ws)
<1> DEFINE f == Min(Room(w))  c == Head(backlog)
<1>1. Room(w) \subseteq Nat /\ Room(w) # {}
  BY DEF AcceptAt, Room, FreeFd, TypeOK
<1>2. f \in Room(w)
  BY <1>1, NatMin
<1>3. f \in Fd /\ owner[f] = NULL /\ Home(f) = w
  BY <1>2 DEF Room, FreeFd, TypeOK, Fd
<1>4. backlog \in Seq(Client) /\ backlog # <<>>
  BY DEF TypeOK, AcceptAt
<1>5. c \in Client /\ c = backlog[1] /\ 1 \in DOMAIN backlog
  BY <1>4
<1>6. Tail(backlog) \in Seq(Client) /\ \A i \in DOMAIN Tail(backlog) :
         i + 1 \in DOMAIN backlog /\ Tail(backlog)[i] = backlog[i + 1] /\ i + 1 # 1
  BY <1>4
<1>7. owner' = [owner EXCEPT ![f] = c] /\ backlog' = Tail(backlog)
  BY DEF AcceptAt
<1> HIDE DEF f, c
<1>8. owner \in [Fd -> Client \cup {NULL}] /\ NULL \notin Client
  BY DEF TypeOK
<1>9. \A g \in Fd : owner'[g] = IF g = f THEN c ELSE owner[g]
  BY <1>3, <1>7, <1>8
<1>10. \A g \in Fd : owner[g] # c
  BY <1>5, <1>8 DEF OnePlace
<1>11. OnePlace'
  <2>1. Single(owner')
    BY <1>3, <1>9, <1>10, <1>5 DEF Single, OnePlace
  <2>2. ASSUME NEW g \in Fd, owner'[g] # NULL
        PROVE  /\ Home(g)' \in up' /\ peer'[owner'[g]] # "away"
               /\ \A i \in DOMAIN backlog' : backlog'[i] # owner'[g]
    <3>1. Home(g)' = Home(g)
      BY Tables
    <3>2. CASE g = f
      BY <1>3, <1>5, <1>6, <1>7, <1>9, <3>1, <3>2 DEF OnePlace
    <3>3. CASE g # f
      BY <2>2, <1>6, <1>7, <1>9, <3>1, <3>3 DEF OnePlace
    <3> QED
      BY <3>2, <3>3
  <2>3. \A i, j \in DOMAIN backlog' : backlog'[i] = backlog'[j] => i = j
    <3>1. SUFFICES ASSUME NEW i \in DOMAIN Tail(backlog), NEW j \in DOMAIN Tail(backlog),
                          Tail(backlog)[i] = Tail(backlog)[j]
                   PROVE  i = j
      BY <1>7
    <3>2. i + 1 = j + 1
      BY <1>6, <3>1 DEF OnePlace
    <3>3. i \in Nat /\ j \in Nat
      BY <1>6
    <3> QED
      BY <3>2, <3>3
  <2>4. \A i \in DOMAIN backlog' : peer'[backlog'[i]] # "away"
    BY <1>6, <1>7 DEF OnePlace
  <2> QED
    BY <2>1, <2>2, <2>3, <2>4 DEF OnePlace, Single
<1>12. ASSUME NEW ws
       PROVE  c \notin Served(ws) /\ Served(ws)' = IF w \in ws THEN Served(ws) \cup {c} ELSE Served(ws)
  <2>1. Served(ws) = Holders(owner, design, ws) /\ Served(ws)' = Holders(owner', design, ws)
    BY <1>11, OnePlaceSingle, ServedIs
  <2>2. HomeOf(design, f) = w
    BY <1>3, Tables
  <2> QED
    BY <2>1, <2>2, <1>3, <1>5, <1>8, <1>9, <1>10 DEF Holders
<1> QED
  BY <1>4, <1>5, <1>6, <1>7, <1>8, <1>3, <1>11, <1>12 DEF c

\* close gives the descriptor of a connection back.
LEMMA CloseStep ==
  ASSUME TypeOK, OnePlace, NEW c \in Client, Accepted(c), Close(c), UNCHANGED <<design, limit, backlog, up>>
  PROVE  /\ owner' \in [Fd -> Client \cup {NULL}] /\ peer' \in [Client -> PeerState]
         /\ wire' \in [Client -> Seq(Client \X Nat)]
         /\ OnePlace'
         /\ \A ws : /\ c \in Served(ws) <=> At(c) \in ws
                    /\ Served(ws)' = Served(ws) \ {c}
<1> DEFINE f == FdOf(c)
<1>1. f \in Fd /\ owner[f] = c /\ \A g \in Fd : owner[g] = c => g = f
  BY EntryOf
<1>2. owner' = [owner EXCEPT ![f] = NULL] /\ peer' = [peer EXCEPT ![c] = "gone"]
      /\ wire' = [wire EXCEPT ![c] = <<>>]
  BY DEF Close
<1>3. At(c) = Home(f)
  BY DEF At
<1> HIDE DEF f
<1>4. /\ owner \in [Fd -> Client \cup {NULL}] /\ NULL \notin Client /\ peer \in [Client -> PeerState]
      /\ wire \in [Client -> Seq(Client \X Nat)] /\ backlog \in Seq(Client)
  BY DEF TypeOK
<1>5. owner' \in [Fd -> Client \cup {NULL}] /\ peer' \in [Client -> PeerState]
      /\ wire' \in [Client -> Seq(Client \X Nat)]
  <2>1. <<>> \in Seq(Client \X Nat) /\ "gone" \in PeerState
    BY DEF PeerState
  <2> QED
    BY <1>2, <1>4, <2>1
<1>6. \A g \in Fd : owner'[g] = IF g = f THEN NULL ELSE owner[g]
  BY <1>1, <1>2, <1>4
<1>7. \A d \in Client : peer'[d] = IF d = c THEN "gone" ELSE peer[d]
  BY <1>2, <1>4
<1>8. OnePlace'
  <2>1. \A g, h \in Fd : owner'[g] # NULL /\ owner'[g] = owner'[h] => g = h
    BY <1>6 DEF OnePlace
  <2>2. \A g : Home(g)' = Home(g)
    BY Tables
  <2>3. \A i \in DOMAIN backlog : backlog[i] \in Client
    BY <1>4
  <2>4. \A d \in Client : peer[d] # "away" => peer'[d] # "away"
    BY <1>7
  <2>5. ASSUME NEW g \in Fd, owner'[g] # NULL
        PROVE  /\ Home(g)' \in up' /\ peer'[owner'[g]] # "away"
               /\ \A i \in DOMAIN backlog' : backlog'[i] # owner'[g]
    <3>1. owner'[g] = owner[g] /\ owner[g] # NULL /\ owner[g] \in Client
      BY <1>4, <1>6, <2>5
    <3> QED
      BY <2>2, <2>4, <3>1 DEF OnePlace
  <2>6. \A i \in DOMAIN backlog' : peer'[backlog'[i]] # "away"
    BY <2>3, <2>4 DEF OnePlace
  <2> QED
    BY <2>1, <2>5, <2>6 DEF OnePlace
<1>9. ASSUME NEW ws PROVE (c \in Served(ws) <=> At(c) \in ws) /\ Served(ws)' = Served(ws) \ {c}
  <2>1. Served(ws) = Holders(owner, design, ws) /\ Served(ws)' = Holders(owner', design, ws)
    BY <1>8, OnePlaceSingle, ServedIs
  <2>2. c \in Served(ws) <=> At(c) \in ws
    BY DEF Served
  <2> QED
    BY <2>1, <2>2, <1>1, <1>4, <1>6, SMTT(30) DEF Holders
<1> QED
  BY <1>5, <1>8, <1>9

\* The end of a process closes every descriptor that is its own.
LEMMA DiesStep ==
  ASSUME TypeOK, OnePlace, NEW w, Dies(w), UNCHANGED <<design, limit, backlog>>
  PROVE  /\ owner' \in [Fd -> Client \cup {NULL}] /\ peer' \in [Client -> PeerState]
         /\ wire' \in [Client -> Seq(Client \X Nat)] /\ alive' \in BOOLEAN /\ up' \subseteq Worker
         /\ up' = up \ {w} /\ (alive' <=> up' # {})
         /\ OnePlace'
         /\ \A ws : Served(ws)' = Served(ws \ {w})
<1> DEFINE its == {c \in Client : Accepted(c) /\ At(c) = w}
<1>1. /\ owner' = [f \in Fd |-> IF Home(f) = w THEN NULL ELSE owner[f]]
      /\ peer' = [c \in Client |-> IF c \in its THEN "gone" ELSE peer[c]]
      /\ wire' = [c \in Client |-> IF c \in its THEN <<>> ELSE wire[c]]
      /\ up' = up \ {w} /\ alive' = (up' # {})
  BY DEF Dies
<1> HIDE DEF its
<1>2. /\ owner \in [Fd -> Client \cup {NULL}] /\ NULL \notin Client /\ peer \in [Client -> PeerState]
      /\ wire \in [Client -> Seq(Client \X Nat)] /\ backlog \in Seq(Client) /\ up \subseteq Worker
  BY DEF TypeOK
<1>3. owner' \in [Fd -> Client \cup {NULL}] /\ peer' \in [Client -> PeerState]
      /\ wire' \in [Client -> Seq(Client \X Nat)]
  <2>1. <<>> \in Seq(Client \X Nat) /\ "gone" \in PeerState
    BY DEF PeerState
  <2> QED
    BY <1>1, <1>2, <2>1
<1>4. OnePlace'
  <2>1. \A g, h \in Fd : owner'[g] # NULL /\ owner'[g] = owner'[h] => g = h
    BY <1>1 DEF OnePlace
  <2>2. \A g : Home(g)' = Home(g)
    BY Tables
  <2>3. \A i \in DOMAIN backlog : backlog[i] \in Client
    BY <1>2
  <2>4. \A d \in Client : peer[d] # "away" => peer'[d] # "away"
    BY <1>1
  <2>5. ASSUME NEW g \in Fd, owner'[g] # NULL
        PROVE  /\ Home(g)' \in up' /\ peer'[owner'[g]] # "away"
               /\ \A i \in DOMAIN backlog' : backlog'[i] # owner'[g]
    <3>1. owner'[g] = owner[g] /\ owner[g] # NULL /\ owner[g] \in Client /\ Home(g) # w
      BY <1>1, <1>2, <2>5
    <3> QED
      BY <1>1, <2>2, <2>4, <3>1 DEF OnePlace
  <2>6. \A i \in DOMAIN backlog' : peer'[backlog'[i]] # "away"
    BY <2>3, <2>4 DEF OnePlace
  <2> QED
    BY <2>1, <2>5, <2>6 DEF OnePlace
<1>5. ASSUME NEW ws PROVE Served(ws)' = Served(ws \ {w})
  <2>1. Served(ws \ {w}) = Holders(owner, design, ws \ {w}) /\ Served(ws)' = Holders(owner', design, ws)
    BY <1>4, OnePlaceSingle, ServedIs
  <2>2. \A f \in Fd : owner'[f] = IF HomeOf(design, f) = w THEN NULL ELSE owner[f]
    BY <1>1, Tables
  <2>3. ASSUME NEW c \in Client
        PROVE  (\E f \in Fd : owner'[f] = c /\ HomeOf(design, f) \in ws)
               <=> \E f \in Fd : owner[f] = c /\ HomeOf(design, f) \in ws \ {w}
    <3>1. \A f \in Fd : owner'[f] = c <=> owner[f] = c /\ HomeOf(design, f) # w
      BY <1>2, <2>2
    <3> QED
      BY <3>1
  <2>4. Holders(owner', design, ws) = Holders(owner, design, ws \ {w})
    BY <2>3 DEF Holders
  <2> QED
    BY <2>1, <2>4
<1>6. alive' \in BOOLEAN /\ (alive' <=> up' # {})
  BY <1>1
<1> QED
  BY <1>1, <1>2, <1>3, <1>4, <1>5, <1>6

\* A step that changes no table but perhaps the state of clients.
LEMMA SameTables ==
  ASSUME TypeOK, OnePlace, UNCHANGED <<design, backlog, owner, up>>,
         peer' \in [Client -> PeerState],
         \A c \in Client : peer[c] # "away" => peer'[c] # "away"
  PROVE  OnePlace' /\ \A ws : Served(ws)' = Served(ws)
<1>1. \A g : Home(g)' = Home(g)
  BY Tables
<1>2. /\ owner \in [Fd -> Client \cup {NULL}] /\ NULL \notin Client
      /\ \A i \in DOMAIN backlog : backlog[i] \in Client
  BY DEF TypeOK
<1>3. OnePlace'
  BY <1>1, <1>2 DEF OnePlace
<1> QED
  BY <1>3, OnePlaceSingle, ServedIs

\* send and write: the reply goes out or is lost, or the process ends.
LEMMA SendsStep ==
  ASSUME TypeOK, OnePlace, NEW c \in Client, Accepted(c), NEW reply, Sends(c, reply),
         UNCHANGED <<design, limit, backlog>>
  PROVE  /\ owner' \in [Fd -> Client \cup {NULL}] /\ peer' \in [Client -> PeerState]
         /\ wire' \in [Client -> Seq(Client \X Nat)] /\ alive' \in BOOLEAN /\ up' \subseteq Worker
         /\ OnePlace'
         /\ \/ ~Broken(c) /\ UNCHANGED <<owner, up, alive, wire>> /\ \A ws : Served(ws)' = Served(ws)
            \/ /\ Broken(c) /\ up' = up \ {At(c)} /\ (alive' <=> up' # {})
               /\ \A ws : Served(ws)' = Served(ws \ {At(c)})
<1>1. peer \in [Client -> PeerState]
  BY DEF TypeOK
<1>2. CASE Broken(c) /\ Dies(At(c))
  BY <1>2, DiesStep
<1>3. CASE Deliver(c, reply) /\ UNCHANGED <<up, alive, owner, wire>>
  <2>1. peer' \in [Client -> PeerState] /\ \A d \in Client : peer[d] # "away" => peer'[d] # "away"
    BY <1>1, <1>3 DEF Deliver, PeerState
  <2>2. ~Broken(c)
    BY <1>3 DEF Deliver, Broken
  <2> QED
    BY <1>3, <2>1, <2>2, SameTables DEF TypeOK
<1>4. CASE SendFails(c) /\ UNCHANGED <<up, alive, owner, wire>>
  <2>1. peer' \in [Client -> PeerState] /\ \A d \in Client : peer[d] # "away" => peer'[d] # "away"
    BY <1>1, <1>4 DEF SendFails, PeerState
  <2>2. ~Broken(c)
    BY <1>4 DEF SendFails, Broken
  <2> QED
    BY <1>4, <2>1, <2>2, SameTables DEF TypeOK
<1> QED
  BY <1>2, <1>3, <1>4 DEF Sends

\* recv leaves a rest of what the client has sent.
LEMMA TakeChunkType ==
  ASSUME TypeOK, NEW c \in Client, TakeChunk(c)
  PROVE  wire' \in [Client -> Seq(Client \X Nat)]
<1> DEFINE q == wire[c]  n == Min({BufMax, Len(wire[c])})
<1>1. wire \in [Client -> Seq(Client \X Nat)] /\ q \in Seq(Client \X Nat) /\ Len(q) \in Nat /\ BufMax \in Nat
  BY DEF TypeOK
<1>2. {BufMax, Len(q)} \subseteq Nat /\ {BufMax, Len(q)} # {}
  BY <1>1
<1>3. n \in {BufMax, Len(q)} /\ n =< Len(q)
  BY <1>2, NatMin
<1>4. n \in Nat
  BY <1>1, <1>3
<1> HIDE DEF n
<1>5. Chunk(c) = SubSeq(q, 1, n)
  BY DEF Chunk, n
<1>6. Len(SubSeq(q, 1, n)) = n
  BY <1>1, <1>3, <1>4
<1>7. SubSeq(q, n + 1, Len(q)) \in Seq(Client \X Nat)
  BY <1>1, <1>3, <1>4
<1> QED
  BY <1>1, <1>5, <1>6, <1>7 DEF TakeChunk

-----------------------------------------------------------------------------
(* What a step does to the processes, the counters and the lock.           *)

Base == TypeOK /\ OnePlace /\ Processes

\* The types of what the system calls leave alone.
Rest ==
  /\ design \in WebDesigns /\ limit \in Fd
  /\ sent \in [Client -> Nat]
  /\ kind \in [Client -> HttpKind \cup WsKind]
  /\ watch \in [Client -> {"NONE", "IN", "OUT"}]
  /\ phase \in [Client -> {"none", "recv", "lines", "send", "left"}]
  /\ status \in [Fd -> 0 .. 2] /\ used \subseteq Fd
  /\ hand \in Client \cup {NULL} /\ total \in [Slot -> Int]
  /\ pc \in [Worker -> {"idle", "woken", "accept", "done"}]
  /\ accept_mtx \in {0, 1} /\ slot \in [Worker -> Slot]
  /\ hand # NULL => design = "wsco"

SameServed == \A ws : Served(ws)' = Served(ws)

\* A process takes a client on and counts it, loses one and counts it off, ends,
\* or counts off a client that stays.
TakesOn(w, c) ==
  /\ up' = up /\ total' = [total EXCEPT ![slot[w]] = @ + 1]
  /\ \A ws : c \notin Served(ws) /\ Served(ws)' = IF w \in ws THEN Served(ws) \cup {c} ELSE Served(ws)
Loses(w, c) ==
  /\ up' = up /\ total' = [total EXCEPT ![slot[w]] = @ + -1]
  /\ \A ws : (c \in Served(ws) <=> w \in ws) /\ Served(ws)' = Served(ws) \ {c}
Ends(w) == up' = up \ {w} /\ total' = total /\ \A ws : Served(ws)' = Served(ws \ {w})
CountsOff(w) == up' = up /\ SameServed /\ total' = [total EXCEPT ![slot[w]] = @ + -1]

CountStep ==
  design \in Prefork \cup {"counted"} =>
    \/ up' = up /\ total' = total /\ SameServed
    \/ \E w \in up, c \in Client : TakesOn(w, c) \/ Loses(w, c)
    \/ \E w \in up : Ends(w)
    \/ design = "preepoll" /\ \E w \in up : CountsOff(w)

\* A process of nty_http_epoll.c that ends on a connection is not in accept.
ConnStep ==
  /\ UNCHANGED <<design, pc, accept_mtx, slot>>
  /\ design = "preepoll" => up' = up \/ \E w \in up : up' = up \ {w} /\ pc[w] = "idle"

StepOK == Base' /\ CountStep /\ ConnStep

\* A step that touches no table.
LEMMA QuietStep ==
  ASSUME Base, Rest', UNCHANGED <<design, limit, backlog, owner, up, alive, total, pc, accept_mtx, slot>>,
         peer' \in [Client -> PeerState], wire' \in [Client -> Seq(Client \X Nat)],
         \A c \in Client : peer[c] # "away" => peer'[c] # "away"
  PROVE  StepOK
<1>1. OnePlace' /\ SameServed
  BY SameTables DEF Base, SameServed
<1>2. TypeOK'
  BY DEF Base, TypeOK, Rest
<1>3. Processes'
  BY DEF Base, Processes, Rest
<1> QED
  BY <1>1, <1>2, <1>3 DEF StepOK, Base, CountStep, ConnStep

\* A step that sends, and counts nothing.
LEMMA SendStep ==
  ASSUME Base, Rest', UNCHANGED <<design, limit, backlog, total, pc, accept_mtx, slot>>,
         NEW c \in Client, Accepted(c), NEW reply, Sends(c, reply),
         design = "preepoll" => pc[At(c)] = "idle"
  PROVE  StepOK
<1>1. TypeOK /\ OnePlace /\ Processes
  BY DEF Base
<1>2. At(c) \in up
  BY <1>1, EntryOf
<1>3. /\ owner' \in [Fd -> Client \cup {NULL}] /\ peer' \in [Client -> PeerState]
      /\ wire' \in [Client -> Seq(Client \X Nat)] /\ alive' \in BOOLEAN /\ up' \subseteq Worker
      /\ OnePlace'
      /\ \/ UNCHANGED <<up, alive>> /\ \A ws : Served(ws)' = Served(ws)
         \/ /\ up' = up \ {At(c)} /\ (alive' <=> up' # {})
            /\ \A ws : Served(ws)' = Served(ws \ {At(c)})
  BY <1>1, SendsStep
<1>4. TypeOK'
  BY <1>1, <1>3 DEF TypeOK, Rest
<1>5. Processes'
  BY <1>1, <1>3 DEF Processes, Rest
<1>6. CountStep
  BY <1>2, <1>3 DEF CountStep, SameServed, Ends
<1>7. ConnStep
  BY <1>2, <1>3 DEF ConnStep
<1> QED
  BY <1>3, <1>4, <1>5, <1>6, <1>7 DEF StepOK, Base

\* The end of a server of one process that counts nothing.
LEMMA EndStep ==
  ASSUME Base, Rest', UNCHANGED <<design, limit, backlog, pc, accept_mtx, slot>>,
         design \notin Prefork \cup {"counted"}, Dies(1)
  PROVE  StepOK
<1>1. TypeOK /\ OnePlace /\ Processes
  BY DEF Base
<1>2. /\ owner' \in [Fd -> Client \cup {NULL}] /\ peer' \in [Client -> PeerState]
      /\ wire' \in [Client -> Seq(Client \X Nat)] /\ alive' \in BOOLEAN /\ up' \subseteq Worker
      /\ up' = up \ {1} /\ (alive' <=> up' # {}) /\ OnePlace'
  BY <1>1, DiesStep
<1>3. TypeOK'
  BY <1>1, <1>2 DEF TypeOK, Rest
<1>4. Processes'
  BY <1>1, <1>2 DEF Processes, Rest
<1> QED
  BY <1>2, <1>3, <1>4 DEF StepOK, Base, CountStep, ConnStep, Prefork

\* accept, with the count of the servers that keep one.
LEMMA AcceptStep ==
  ASSUME Base, Rest', NEW w \in up, AcceptAt(w),
         UNCHANGED <<design, limit, peer, wire, alive, up, slot>>,
         design \in Prefork \cup {"counted"} => total' = [total EXCEPT ![slot[w]] = @ + 1]
  PROVE  TypeOK' /\ OnePlace' /\ CountStep
<1>1. TypeOK /\ OnePlace
  BY DEF Base
<1>2. /\ owner' \in [Fd -> Client \cup {NULL}] /\ backlog' \in Seq(Client) /\ Head(backlog) \in Client
      /\ OnePlace'
      /\ \A ws : /\ Head(backlog) \notin Served(ws)
                 /\ Served(ws)' = IF w \in ws THEN Served(ws) \cup {Head(backlog)} ELSE Served(ws)
  BY <1>1, AcceptAtStep
<1>3. TypeOK'
  BY <1>1, <1>2 DEF TypeOK, Rest
<1>4. CountStep
  BY <1>2 DEF CountStep, TakesOn
<1> QED
  BY <1>2, <1>3, <1>4

\* close, with the count of the servers that keep one.
LEMMA LeaveStep ==
  ASSUME Base, Rest', UNCHANGED <<design, limit, backlog, alive, up, pc, accept_mtx, slot>>,
         NEW c \in Client, Accepted(c), Close(c),
         design \in Prefork \cup {"counted"} => total' = [total EXCEPT ![slot[At(c)]] = @ + -1]
  PROVE  StepOK
<1>1. TypeOK /\ OnePlace /\ Processes
  BY DEF Base
<1>2. At(c) \in up
  BY <1>1, EntryOf
<1>3. /\ owner' \in [Fd -> Client \cup {NULL}] /\ peer' \in [Client -> PeerState]
      /\ wire' \in [Client -> Seq(Client \X Nat)]
      /\ OnePlace'
      /\ \A ws : /\ c \in Served(ws) <=> At(c) \in ws
                 /\ Served(ws)' = Served(ws) \ {c}
  BY <1>1, CloseStep
<1>4. TypeOK'
  BY <1>1, <1>3 DEF TypeOK, Rest
<1>5. Processes'
  BY <1>1, <1>3 DEF Processes, Rest
<1>6. CountStep
  BY <1>2, <1>3 DEF CountStep, Loses
<1> QED
  BY <1>3, <1>4, <1>5, <1>6 DEF StepOK, Base, ConnStep

-----------------------------------------------------------------------------
(* The actions.                                                            *)

\* conn_list[fd].status takes the value 0, 1 or 2.
LEMMA StatusType ==
  ASSUME NEW s \in [Fd -> 0 .. 2], NEW f, NEW v \in 0 .. 2
  PROVE  [s EXCEPT ![f] = v] \in [Fd -> 0 .. 2]
OBVIOUS

\* A counter goes up or down by one.
LEMMA TotalType ==
  ASSUME NEW t \in [Slot -> Int], NEW n
  PROVE  [t EXCEPT ![n] = @ + 1] \in [Slot -> Int] /\ [t EXCEPT ![n] = @ + -1] \in [Slot -> Int]
<1>1. ASSUME NEW v, n \in Slot => v \in Int PROVE [t EXCEPT ![n] = v] \in [Slot -> Int]
  BY <1>1
<1>2. n \in Slot => t[n] + 1 \in Int /\ t[n] + -1 \in Int
  OBVIOUS
<1> QED
  BY <1>1, <1>2

\* The handlers of 03_Webserver and 04_Websocket.
LEMMA ReactorSteps ==
  ASSUME Base, NEW c \in Client, WebReactorConn(c), UNCHANGED <<coroutineVars, workerVars>>
  PROVE  StepOK
<1>0. TypeOK /\ OnePlace /\ Processes /\ Rest /\ UNCHANGED <<hand, total, pc, accept_mtx, slot>>
  BY DEF Base, TypeOK, Rest, Processes, coroutineVars, workerVars
<1>1. CASE WebRecv(c)
  <2>1. Rest'
    BY <1>1, <1>0, StatusType DEF WebRecv, Serves, WatchFor, Rest
  <2>2. wire' \in [Client -> Seq(Client \X Nat)]
    BY <1>1, <1>0, TakeChunkType DEF WebRecv, Serves, WatchFor, TypeOK
  <2>3. /\ UNCHANGED <<design, limit, backlog, owner, up, alive, total, pc, accept_mtx, slot>>
        /\ peer' \in [Client -> PeerState] /\ \A d \in Client : peer[d] # "away" => peer'[d] # "away"
    BY <1>1, <1>0 DEF WebRecv, Serves, WatchFor, TypeOK
  <2> QED
    BY <2>1, <2>2, <2>3, QuietStep
<1>2. CASE WebRecvEnds(c)
  <2>1. Rest'
    BY <1>2, <1>0, EntryOf, StatusType DEF WebRecvEnds, Serves, WatchFor, Close, Rest
  <2>2. Accepted(c) /\ Close(c) /\ UNCHANGED <<design, limit, backlog, alive, up, pc, accept_mtx, slot>>
        /\ (design \in Prefork \cup {"counted"} => total' = [total EXCEPT ![slot[At(c)]] = @ + -1])
    BY <1>2, <1>0 DEF WebRecvEnds, Serves, WatchFor, Close, Prefork
  <2> QED
    BY <2>1, <2>2, LeaveStep
<1>3. CASE WebHeader(c)
  <2>1. Rest'
    BY <1>3, <1>0, StatusType DEF WebHeader, Reports, Serves, Rest
  <2>2. Accepted(c) /\ UNCHANGED <<design, limit, backlog, total, pc, accept_mtx, slot>>
        /\ (design = "preepoll" => pc[At(c)] = "idle")
    BY <1>3, <1>0 DEF WebHeader, Reports, Serves
  <2>3. PICK reply : Sends(c, reply)
    BY <1>3, Zenon DEF WebHeader
  <2> QED
    BY <2>1, <2>2, <2>3, SendStep
<1>4. CASE WebBody(c)
  <2>1. Rest'
    BY <1>4, <1>0, StatusType DEF WebBody, Reports, Serves, Rest
  <2>2. Accepted(c) /\ UNCHANGED <<design, limit, backlog, total, pc, accept_mtx, slot>>
        /\ (design = "preepoll" => pc[At(c)] = "idle")
    BY <1>4, <1>0 DEF WebBody, Reports, Serves
  <2>3. CASE \E reply : Sends(c, reply)
    BY <2>1, <2>2, <2>3, SendStep
  <2>4. CASE UNCHANGED <<owner, peer, wire, got, alive, up>>
    BY <2>1, <2>2, <2>4, <1>0, QuietStep DEF TypeOK
  <2> QED
    BY <1>4, <2>3, <2>4, Zenon DEF WebBody
<1>5. CASE WebEnd(c)
  <2>1. Rest'
    BY <1>5, <1>0, StatusType DEF WebEnd, Reports, Serves, WatchFor, kernel, Rest
  <2>2. wire' \in [Client -> Seq(Client \X Nat)]
    BY <1>5, <1>0 DEF WebEnd, Reports, Serves, WatchFor, kernel, TypeOK
  <2>3. /\ UNCHANGED <<design, limit, backlog, owner, up, alive, total, pc, accept_mtx, slot>>
        /\ peer' \in [Client -> PeerState] /\ \A d \in Client : peer[d] # "away" => peer'[d] # "away"
    BY <1>5, <1>0 DEF WebEnd, Reports, Serves, WatchFor, kernel, TypeOK
  <2> QED
    BY <2>1, <2>2, <2>3, QuietStep
<1>6. CASE WsRecv(c)
  <2>1. Rest'
    BY <1>6, <1>0, StatusType DEF WsRecv, Serves, WatchFor, Rest
  <2>2. wire' \in [Client -> Seq(Client \X Nat)]
    BY <1>6, <1>0, TakeChunkType DEF WsRecv, Serves, WatchFor, TypeOK
  <2>3. /\ UNCHANGED <<design, limit, backlog, owner, up, alive, total, pc, accept_mtx, slot>>
        /\ peer' \in [Client -> PeerState] /\ \A d \in Client : peer[d] # "away" => peer'[d] # "away"
    BY <1>6, <1>0 DEF WsRecv, Serves, WatchFor, TypeOK
  <2> QED
    BY <2>1, <2>2, <2>3, QuietStep
<1>7. CASE WsRecvEnds(c)
  <2>1. Rest'
    BY <1>7, <1>0, EntryOf DEF WsRecvEnds, Serves, WatchFor, Close, Rest
  <2>2. Accepted(c) /\ Close(c) /\ UNCHANGED <<design, limit, backlog, alive, up, pc, accept_mtx, slot>>
        /\ (design \in Prefork \cup {"counted"} => total' = [total EXCEPT ![slot[At(c)]] = @ + -1])
    BY <1>7, <1>0 DEF WsRecvEnds, Serves, WatchFor, Close, Prefork
  <2> QED
    BY <2>1, <2>2, LeaveStep
<1>8. CASE WsSend(c)
  <2>1. Rest'
    BY <1>8, <1>0 DEF WsSend, Serves, WatchFor, Rest
  <2>2. Accepted(c) /\ UNCHANGED <<design, limit, backlog, total, pc, accept_mtx, slot>>
        /\ (design = "preepoll" => pc[At(c)] = "idle")
    BY <1>8, <1>0 DEF WsSend, Serves, WatchFor
  <2>3. CASE \E reply : Sends(c, reply)
    BY <2>1, <2>2, <2>3, SendStep
  <2>4. CASE UNCHANGED <<owner, peer, wire, got, alive, up>>
    BY <2>1, <2>2, <2>4, <1>0, QuietStep DEF TypeOK
  <2> QED
    BY <1>8, <2>3, <2>4, Zenon DEF WsSend
<1> QED
  BY <1>1, <1>2, <1>3, <1>4, <1>5, <1>6, <1>7, <1>8 DEF WebReactorConn

\* The coroutines of nty_http_server.c, nty_server_mulcore.c and nty_websocket_server.c.
LEMMA CoroutineSteps ==
  ASSUME Base, NEW c \in Client, WebCoroutineConn(c), UNCHANGED <<statusVars, workerVars>>
  PROVE  StepOK
<1>0. TypeOK /\ OnePlace /\ Processes /\ Rest /\ UNCHANGED <<status, used, pc, accept_mtx, slot>>
  BY DEF Base, TypeOK, Rest, Processes, statusVars, workerVars
<1>1. CASE HttpRequest(c)
  <2>1. Rest'
    BY <1>1, <1>0 DEF HttpRequest, Decides, Turn, Serves, GoesTo, Rest
  <2>2. wire' \in [Client -> Seq(Client \X Nat)]
    BY <1>1, <1>0, TakeChunkType DEF HttpRequest, Decides, Turn, Serves, GoesTo, TypeOK
  <2>3. /\ UNCHANGED <<design, limit, backlog, owner, up, alive, total, pc, accept_mtx, slot>>
        /\ peer' \in [Client -> PeerState] /\ \A d \in Client : peer[d] # "away" => peer'[d] # "away"
    BY <1>1, <1>0 DEF HttpRequest, Decides, Turn, Serves, GoesTo, TypeOK
  <2> QED
    BY <2>1, <2>2, <2>3, QuietStep
<1>2. CASE HttpUnset(c)
  <2>1. Rest'
    BY <1>2, <1>0 DEF HttpUnset, Decides, TakeError, HttpKind, Turn, Serves, GoesTo, Rest
  <2>2. wire' \in [Client -> Seq(Client \X Nat)]
    BY <1>2, <1>0 DEF HttpUnset, Decides, TakeError, HttpKind, Turn, Serves, GoesTo, TypeOK
  <2>3. /\ UNCHANGED <<design, limit, backlog, owner, up, alive, total, pc, accept_mtx, slot>>
        /\ peer' \in [Client -> PeerState] /\ \A d \in Client : peer[d] # "away" => peer'[d] # "away"
    BY <1>2, <1>0 DEF HttpUnset, Decides, TakeError, HttpKind, Turn, Serves, GoesTo, TypeOK, PeerState
  <2> QED
    BY <2>1, <2>2, <2>3, QuietStep
<1>3. CASE HttpLines(c)
  <2>1. Rest'
    BY <1>3, <1>0 DEF HttpLines, TakeError, Turn, Serves, GoesTo, Rest
  <2>2. wire' \in [Client -> Seq(Client \X Nat)]
    BY <1>3, <1>0, TakeChunkType DEF HttpLines, TakeError, Turn, Serves, GoesTo, TypeOK
  <2>3. /\ UNCHANGED <<design, limit, backlog, owner, up, alive, total, pc, accept_mtx, slot>>
        /\ peer' \in [Client -> PeerState] /\ \A d \in Client : peer[d] # "away" => peer'[d] # "away"
    BY <1>3, <1>0 DEF HttpLines, TakeError, Turn, Serves, GoesTo, TypeOK, PeerState
  <2> QED
    BY <2>1, <2>2, <2>3, QuietStep
<1>4. CASE HttpSend(c)
  <2>1. Rest'
    BY <1>4, <1>0 DEF HttpSend, OneRequest, Turn, Serves, GoesTo, Rest
  <2>2. Accepted(c) /\ UNCHANGED <<design, limit, backlog, total, pc, accept_mtx, slot>>
        /\ (design = "preepoll" => pc[At(c)] = "idle")
    BY <1>4, <1>0 DEF HttpSend, OneRequest, Turn, Serves, GoesTo
  <2>3. PICK reply : Sends(c, reply)
    BY <1>4, Zenon DEF HttpSend
  <2> QED
    BY <2>1, <2>2, <2>3, SendStep
<1>5. CASE HttpDone(c)
  <2>1. Rest' /\ Accepted(c) /\ design \notin Prefork \cup {"counted"}
        /\ UNCHANGED <<design, limit, backlog, total, pc, accept_mtx, slot>>
    BY <1>5, <1>0 DEF HttpDone, Turn, Serves, GoesTo, Rest, OneRequest, Prefork
  <2>2. CASE UNCHANGED <<owner, peer, wire, alive, up>>
    BY <2>1, <2>2, <1>0, QuietStep DEF TypeOK
  <2>3. CASE Dies(1)
    BY <2>1, <2>3, EndStep
  <2>4. CASE Close(c) /\ UNCHANGED <<alive, up>>
    BY <2>1, <2>4, LeaveStep
  <2> QED
    BY <1>5, <2>2, <2>3, <2>4 DEF HttpDone
<1>6. CASE ReaderRecv(c)
  <2>1. Rest'
    BY <1>6, <1>0 DEF ReaderRecv, Turn, Serves, GoesTo, Rest
  <2>2. wire' \in [Client -> Seq(Client \X Nat)]
    BY <1>6, <1>0, TakeChunkType DEF ReaderRecv, Turn, Serves, GoesTo, TypeOK
  <2>3. /\ UNCHANGED <<design, limit, backlog, owner, up, alive, total, pc, accept_mtx, slot>>
        /\ peer' \in [Client -> PeerState] /\ \A d \in Client : peer[d] # "away" => peer'[d] # "away"
    BY <1>6, <1>0 DEF ReaderRecv, Turn, Serves, GoesTo, TypeOK
  <2> QED
    BY <2>1, <2>2, <2>3, QuietStep
<1>7. CASE ReaderSend(c)
  <2>1. Rest'
    BY <1>7, <1>0 DEF ReaderSend, Turn, Serves, GoesTo, Rest
  <2>2. Accepted(c) /\ UNCHANGED <<design, limit, backlog, total, pc, accept_mtx, slot>>
        /\ (design = "preepoll" => pc[At(c)] = "idle")
    BY <1>7, <1>0 DEF ReaderSend, Turn, Serves, GoesTo
  <2>3. PICK reply : Sends(c, reply)
    BY <1>7, Zenon DEF ReaderSend
  <2> QED
    BY <2>1, <2>2, <2>3, SendStep
<1>8. CASE ReaderEnds(c)
  <2>1. Rest'
    BY <1>8, <1>0, EntryOf, TotalType DEF ReaderEnds, Counts, Close, Turn, Serves, GoesTo, Rest
  <2>2. Accepted(c) /\ Close(c) /\ UNCHANGED <<design, limit, backlog, alive, up, pc, accept_mtx, slot>>
        /\ (design \in Prefork \cup {"counted"} => total' = [total EXCEPT ![slot[At(c)]] = @ + -1])
    BY <1>8, <1>0 DEF ReaderEnds, Counts, Close, Turn, Serves, GoesTo, Prefork, At, Home, Processes
  <2> QED
    BY <2>1, <2>2, LeaveStep
<1>9. CASE ReaderError(c)
  <2>1. Rest'
    BY <1>9, <1>0 DEF ReaderError, TakeError, Turn, Serves, GoesTo, Rest
  <2>2. wire' \in [Client -> Seq(Client \X Nat)]
    BY <1>9, <1>0 DEF ReaderError, TakeError, Turn, Serves, GoesTo, TypeOK
  <2>3. /\ UNCHANGED <<design, limit, backlog, owner, up, alive, total, pc, accept_mtx, slot>>
        /\ peer' \in [Client -> PeerState] /\ \A d \in Client : peer[d] # "away" => peer'[d] # "away"
    BY <1>9, <1>0 DEF ReaderError, TakeError, Turn, Serves, GoesTo, TypeOK, PeerState
  <2> QED
    BY <2>1, <2>2, <2>3, QuietStep
<1>10. CASE Handshake(c)
  <2>1. Rest'
    BY <1>10, <1>0 DEF Handshake, Deliver, SendFails, Serves, Rest
  <2>2. wire' \in [Client -> Seq(Client \X Nat)]
    BY <1>10, <1>0, TakeChunkType DEF Handshake, Deliver, SendFails, Serves, TypeOK
  <2>3. /\ UNCHANGED <<design, limit, backlog, owner, up, alive, total, pc, accept_mtx, slot>>
        /\ peer' \in [Client -> PeerState] /\ \A d \in Client : peer[d] # "away" => peer'[d] # "away"
    BY <1>10, <1>0 DEF Handshake, Deliver, SendFails, Serves, TypeOK, PeerState
  <2> QED
    BY <2>1, <2>2, <2>3, QuietStep
<1>11. CASE HandshakeUnset(c)
  <2>1. Rest' /\ UNCHANGED <<design, limit, backlog, total, pc, accept_mtx, slot>>
    BY <1>11, <1>0 DEF HandshakeUnset, Rest
  <2>2. design \notin Prefork \cup {"counted"}
    BY <1>11, <1>0 DEF HandshakeUnset, Processes, Prefork
  <2>3. CASE Dies(1)
    BY <2>1, <2>2, <2>3, EndStep
  <2>4. CASE ~Dies(1)
    <3>1. /\ UNCHANGED <<owner, wire, alive, up>> /\ peer' \in [Client -> PeerState]
          /\ \A d \in Client : peer[d] # "away" => peer'[d] # "away"
      BY <1>11, <1>0, <2>4 DEF HandshakeUnset, TakeError, TypeOK, PeerState
    <3> QED
      BY <2>1, <3>1, <1>0, QuietStep DEF TypeOK
  <2> QED
    BY <2>3, <2>4
<1> QED
  BY <1>1, <1>2, <1>3, <1>4, <1>5, <1>6, <1>7, <1>8, <1>9, <1>10, <1>11 DEF WebCoroutineConn

\* The connections of nty_http_epoll.c and ntyco_httpd.c.
LEMMA WorkerSteps ==
  ASSUME Base, NEW c \in Client, WebWorkerConn(c), UNCHANGED statusVars
  PROVE  StepOK
<1>0. TypeOK /\ OnePlace /\ Processes /\ Rest /\ UNCHANGED <<status, used>>
  BY DEF Base, TypeOK, Rest, Processes, statusVars
<1>1. CASE EpollRequest(c)
  <2>1. Rest'
    BY <1>1, <1>0 DEF EpollRequest, EpollTurn, Serves, workerVars, Rest
  <2>2. wire' \in [Client -> Seq(Client \X Nat)]
    BY <1>1, <1>0, TakeChunkType DEF EpollRequest, EpollTurn, Serves, workerVars, TypeOK
  <2>3. /\ UNCHANGED <<design, limit, backlog, owner, up, alive, total, pc, accept_mtx, slot>>
        /\ peer' \in [Client -> PeerState] /\ \A d \in Client : peer[d] # "away" => peer'[d] # "away"
    BY <1>1, <1>0 DEF EpollRequest, EpollTurn, Serves, workerVars, TypeOK
  <2> QED
    BY <2>1, <2>2, <2>3, QuietStep
<1>2. CASE EpollEnds(c)
  <2>1. Rest'
    BY <1>2, <1>0, EntryOf, TotalType DEF EpollEnds, Counts, Close, EpollTurn, Serves, workerVars, Rest
  <2>2. Accepted(c) /\ Close(c) /\ UNCHANGED <<design, limit, backlog, alive, up, pc, accept_mtx, slot>>
        /\ (design \in Prefork \cup {"counted"} => total' = [total EXCEPT ![slot[At(c)]] = @ + -1])
    BY <1>2, <1>0 DEF EpollEnds, Counts, Close, EpollTurn, Serves, workerVars, Prefork
  <2> QED
    BY <2>1, <2>2, LeaveStep
<1>3. CASE EpollServe(c)
  <2>1. Accepted(c) /\ design = "preepoll" /\ pc[At(c)] = "idle"
        /\ UNCHANGED <<design, limit, backlog, pc, accept_mtx, slot>>
    BY <1>3 DEF EpollServe, EpollTurn, Serves, workerVars
  <2>2. PICK reply : Sends(c, reply)
    BY <1>3, Zenon DEF EpollServe
  <2>3. Rest'
    BY <1>3, <1>0 DEF EpollServe, EpollTurn, Serves, workerVars, Counts, Rest
  <2>4. CASE Broken(c)
    BY <1>3, <2>1, <2>2, <2>3, <2>4, SendStep DEF EpollServe
  <2>5. CASE ~Broken(c)
    <3>1. At(c) \in up
      BY <1>0, <2>1, EntryOf
    <3>2. /\ owner' \in [Fd -> Client \cup {NULL}] /\ peer' \in [Client -> PeerState]
          /\ wire' \in [Client -> Seq(Client \X Nat)] /\ OnePlace' /\ UNCHANGED <<up, alive>> /\ SameServed
      BY <1>0, <2>1, <2>2, <2>5, SendsStep DEF SameServed
    <3>3. total' = [total EXCEPT ![slot[At(c)]] = @ + -1]
      BY <1>3, <2>5 DEF EpollServe, Counts
    <3>4. TypeOK'
      BY <1>0, <2>1, <2>3, <3>2 DEF TypeOK, Rest
    <3>5. Processes'
      BY <1>0, <2>1, <2>3, <3>2 DEF Processes, Rest
    <3> QED
      BY <2>1, <3>1, <3>2, <3>3, <3>4, <3>5 DEF StepOK, Base, CountStep, ConnStep, CountsOff
  <2> QED
    BY <2>4, <2>5
<1>4. CASE WorkerRequest(c)
  <2>1. Rest'
    BY <1>4, <1>0 DEF WorkerRequest, TakeError, Turn, Serves, GoesTo, workerVars, Rest
  <2>2. wire' \in [Client -> Seq(Client \X Nat)]
    BY <1>4, <1>0, TakeChunkType DEF WorkerRequest, TakeError, Turn, Serves, GoesTo, workerVars, TypeOK
  <2>3. /\ UNCHANGED <<design, limit, backlog, owner, up, alive, total, pc, accept_mtx, slot>>
        /\ peer' \in [Client -> PeerState] /\ \A d \in Client : peer[d] # "away" => peer'[d] # "away"
    BY <1>4, <1>0 DEF WorkerRequest, TakeError, Turn, Serves, GoesTo, workerVars, TypeOK, PeerState
  <2> QED
    BY <2>1, <2>2, <2>3, QuietStep
<1>5. CASE WorkerServe(c)
  <2>1. Rest'
    BY <1>5, <1>0 DEF WorkerServe, Turn, Serves, GoesTo, workerVars, Rest
  <2>2. Accepted(c) /\ UNCHANGED <<design, limit, backlog, total, pc, accept_mtx, slot>>
        /\ (design = "preepoll" => pc[At(c)] = "idle")
    BY <1>5, <1>0 DEF WorkerServe, Turn, Serves, GoesTo, workerVars
  <2>3. PICK reply : Sends(c, reply)
    BY <1>5, Zenon DEF WorkerServe
  <2> QED
    BY <2>1, <2>2, <2>3, SendStep
<1>6. CASE WorkerEnds(c)
  <2>1. Rest'
    BY <1>6, <1>0, EntryOf, TotalType DEF WorkerEnds, Counts, Close, Turn, Serves, GoesTo, workerVars, Rest
  <2>2. Accepted(c) /\ Close(c) /\ UNCHANGED <<design, limit, backlog, alive, up, pc, accept_mtx, slot>>
        /\ (design \in Prefork \cup {"counted"} => total' = [total EXCEPT ![slot[At(c)]] = @ + -1])
    BY <1>6, <1>0 DEF WorkerEnds, Counts, Close, Turn, Serves, GoesTo, workerVars, Prefork
  <2> QED
    BY <2>1, <2>2, LeaveStep
<1> QED
  BY <1>1, <1>2, <1>3, <1>4, <1>5, <1>6 DEF WebWorkerConn

\* The clients.
LEMMA PeerSteps ==
  ASSUME Base, Peers
  PROVE  StepOK
<1>0. TypeOK /\ OnePlace /\ Processes /\ Rest
  BY DEF Base, TypeOK, Rest, Processes
<1>1. PICK c \in Client :
        \/ WebConnect(c) /\ UNCHANGED <<statusVars, coroutineVars, workerVars>>
        \/ (SendMessage(c) \/ Hangup(c)) /\ UNCHANGED <<webVars, statusVars, coroutineVars, workerVars>>
  BY DEF Peers
<1>2. CASE WebConnect(c) /\ UNCHANGED <<statusVars, coroutineVars, workerVars>>
  <2>1. /\ peer[c] = "away" /\ peer' = [peer EXCEPT ![c] = "open"] /\ backlog' = Append(backlog, c)
        /\ UNCHANGED <<design, limit, owner, wire, sent, got, alive, up, watch, phase, status, used,
                       hand, total, pc, accept_mtx, slot>>
    BY <1>2 DEF WebConnect, Connect, statusVars, coroutineVars, workerVars
  <2>2. \E k \in HttpKind \cup WsKind : kind' = [kind EXCEPT ![c] = k]
    BY <1>2 DEF WebConnect, Kinds, HttpKind
  <2>3. Rest'
    BY <1>0, <2>1, <2>2 DEF Rest
  <2>4. /\ peer' \in [Client -> PeerState] /\ backlog' \in Seq(Client)
        /\ owner \in [Fd -> Client \cup {NULL}] /\ NULL \notin Client
    BY <1>0, <2>1 DEF TypeOK, PeerState
  <2>5. \A i \in DOMAIN backlog' : \/ i \in DOMAIN backlog /\ backlog'[i] = backlog[i] /\ backlog[i] \in Client
                                   \/ i = Len(backlog) + 1 /\ backlog'[i] = c
    BY <1>0, <2>1 DEF TypeOK
  <2>6. \A d \in Client : peer[d] # "away" => peer'[d] # "away"
    BY <1>0, <2>1 DEF TypeOK
  <2>7. peer'[c] # "away" /\ (\A f \in Fd : owner[f] # c) /\ (\A i \in DOMAIN backlog : backlog[i] # c)
    BY <1>0, <2>1 DEF TypeOK, OnePlace
  <2>8. \A g : Home(g)' = Home(g)
    BY <2>1, Tables
  <2>9. OnePlace'
    <3>1. \A f \in Fd : owner[f] # NULL =>
            Home(f)' \in up' /\ peer'[owner[f]] # "away" /\ \A i \in DOMAIN backlog' : backlog'[i] # owner[f]
      BY <1>0, <2>1, <2>4, <2>5, <2>6, <2>7, <2>8 DEF OnePlace
    <3>2. \A i, j \in DOMAIN backlog' : backlog'[i] = backlog'[j] => i = j
      BY <1>0, <2>5, <2>7 DEF OnePlace
    <3>3. \A i \in DOMAIN backlog' : peer'[backlog'[i]] # "away"
      BY <1>0, <2>5, <2>6, <2>7 DEF OnePlace
    <3> QED
      BY <1>0, <2>1, <3>1, <3>2, <3>3 DEF OnePlace
  <2>10. SameServed
    BY <1>0, <2>1, <2>9, OnePlaceSingle, ServedIs DEF SameServed
  <2>11. TypeOK'
    BY <1>0, <2>1, <2>3, <2>4 DEF TypeOK, Rest
  <2>12. Processes'
    BY <1>0, <2>1, <2>3 DEF Processes, Rest
  <2> QED
    BY <2>1, <2>9, <2>10, <2>11, <2>12 DEF StepOK, Base, CountStep, ConnStep
<1>3. CASE SendMessage(c) /\ UNCHANGED <<webVars, statusVars, coroutineVars, workerVars>>
  <2>1. Rest'
    BY <1>0, <1>3 DEF SendMessage, webVars, statusVars, coroutineVars, workerVars, Rest
  <2>2. wire' \in [Client -> Seq(Client \X Nat)]
    <3>1. <<c, sent[c] + 1>> \in Client \X Nat /\ wire[c] \in Seq(Client \X Nat)
      BY <1>0 DEF TypeOK
    <3>2. Append(wire[c], <<c, sent[c] + 1>>) \in Seq(Client \X Nat)
      BY <3>1, AppendProperties
    <3> QED
      BY <1>0, <1>3, <3>2 DEF SendMessage, TypeOK
  <2>3. UNCHANGED <<design, limit, peer, backlog, owner, up, alive, total, pc, accept_mtx, slot>>
    BY <1>3 DEF SendMessage, webVars, statusVars, coroutineVars, workerVars
  <2> QED
    BY <1>0, <2>1, <2>2, <2>3, QuietStep DEF TypeOK
<1>4. CASE Hangup(c) /\ UNCHANGED <<webVars, statusVars, coroutineVars, workerVars>>
  <2>1. Rest'
    BY <1>0, <1>4 DEF Hangup, webVars, statusVars, coroutineVars, workerVars, Rest
  <2>2. wire' \in [Client -> Seq(Client \X Nat)] /\ peer' \in [Client -> PeerState]
        /\ \A d \in Client : peer[d] # "away" => peer'[d] # "away"
    <3>1. wire \in [Client -> Seq(Client \X Nat)] /\ peer \in [Client -> PeerState]
          /\ <<>> \in Seq(Client \X Nat)
      BY <1>0 DEF TypeOK
    <3>2. wire' \in [Client -> Seq(Client \X Nat)]
      BY <1>4, <3>1 DEF Hangup
    <3>3. \E p \in {"fin", "reset"} : peer' = [peer EXCEPT ![c] = p]
      BY <1>4 DEF Hangup
    <3> QED
      BY <3>1, <3>2, <3>3 DEF PeerState
  <2>3. UNCHANGED <<design, limit, backlog, owner, up, alive, total, pc, accept_mtx, slot>>
    BY <1>4 DEF Hangup, webVars, statusVars, coroutineVars, workerVars
  <2> QED
    BY <2>1, <2>2, <2>3, QuietStep
<1> QED
  BY <1>1, <1>2, <1>3, <1>4

\* accept of the servers of one process.
LEMMA AcceptSteps ==
  ASSUME Base, Accepts
  PROVE  StepOK
<1>0. TypeOK /\ OnePlace /\ Processes /\ Rest /\ alive
  BY DEF Base, TypeOK, Rest, Processes, Accepts
<1>1. ASSUME design \notin Prefork PROVE 1 \in up
  BY <1>0, <1>1 DEF Processes
<1>2. Head(backlog) \in Client \/ backlog = <<>>
  BY <1>0 DEF TypeOK
<1>3. ASSUME AcceptAt(1), design \notin Prefork, Rest',
             UNCHANGED <<design, limit, peer, wire, alive, up, pc, accept_mtx, slot>>,
             design = "counted" => total' = [total EXCEPT ![1] = @ + 1]
      PROVE  StepOK
  <2>1. slot[1] = 1
    BY <1>0 DEF Processes
  <2>2. TypeOK' /\ OnePlace' /\ CountStep
    BY <1>1, <1>3, <2>1, AcceptStep
  <2>3. Processes'
    BY <1>0, <1>3 DEF Processes, Rest
  <2> QED
    BY <1>3, <2>2, <2>3 DEF StepOK, Base, ConnStep
<1>4. CASE SiteAccept /\ UNCHANGED <<coroutineVars, workerVars>>
  <2>1. Rest' /\ design \notin Prefork
    BY <1>0, <1>2, <1>4 DEF SiteAccept, WatchFor, coroutineVars, workerVars, Rest, Prefork
  <2> QED
    BY <1>3, <1>4, <2>1 DEF SiteAccept, coroutineVars, workerVars
<1>5. CASE SiteCoAccept /\ UNCHANGED <<statusVars, workerVars>>
  <2>1. Rest' /\ design \notin Prefork /\ design # "counted"
    BY <1>0, <1>2, <1>5 DEF SiteCoAccept, NewCoroutine, GoesTo, statusVars, workerVars, Rest, Prefork, OneRequest
  <2> QED
    BY <1>3, <1>5, <2>1 DEF SiteCoAccept, NewCoroutine, workerVars
<1>6. CASE CountedAccept /\ UNCHANGED <<statusVars, workerVars>>
  <2>1. Rest' /\ design \notin Prefork
    BY <1>0, <1>2, <1>6, TotalType DEF CountedAccept, Counts, NewCoroutine, GoesTo, statusVars, workerVars, Rest, Prefork
  <2> QED
    BY <1>3, <1>6, <2>1 DEF CountedAccept, Counts, NewCoroutine, workerVars
<1>7. CASE WsCoAccept /\ UNCHANGED <<statusVars, workerVars>>
  <2>1. Head(backlog) \in Client
    BY <1>2, <1>7 DEF WsCoAccept, NewCoroutine, AcceptAt
  <2>2. Rest' /\ design \notin Prefork /\ design # "counted"
    BY <1>0, <2>1, <1>7 DEF WsCoAccept, NewCoroutine, GoesTo, statusVars, workerVars, Rest, Prefork
  <2> QED
    BY <1>3, <1>7, <2>2 DEF WsCoAccept, NewCoroutine, workerVars
<1>8. CASE SiteCoAcceptDies /\ UNCHANGED <<statusVars, workerVars>>
  <2>1. Rest' /\ design \notin Prefork \cup {"counted"}
    BY <1>0, <1>8 DEF SiteCoAcceptDies, statusVars, workerVars, Rest, Prefork, OneRequest
  <2> QED
    BY <1>8, <2>1, EndStep DEF SiteCoAcceptDies, workerVars
<1> QED
  BY <1>4, <1>5, <1>6, <1>7, <1>8 DEF Accepts, WebCoroutineAccept

\* The acceptors of nty_http_epoll.c and ntyco_httpd.c.
LEMMA AcceptorSteps ==
  ASSUME Base, NEW w \in Worker, Acceptor(w), UNCHANGED statusVars
  PROVE  Base' /\ CountStep /\ UNCHANGED <<design, slot>> /\ design \in Prefork /\ w \in up
<1>0. TypeOK /\ OnePlace /\ Processes /\ Rest /\ UNCHANGED <<status, used>>
  BY DEF Base, TypeOK, Rest, Processes, statusVars
<1>1. design \in Prefork /\ w \in up
  <2>1. Woken(w) => design = "preepoll" /\ w \in up
    BY DEF Woken
  <2>2. Lock(w) => design \in Prefork /\ w \in up
    BY DEF Lock, Prefork
  <2>3. LockBusy(w) \/ LockedAccept(w) \/ LockedAgain(w) \/ LockedFails(w) => w \in up /\ pc[w] # "idle"
    BY DEF LockBusy, LockedAccept, LockedAgain, LockedFails
  <2>4. pc[w] # "idle" => design \in Prefork
    BY <1>0 DEF Processes
  <2> QED
    BY <2>1, <2>2, <2>3, <2>4 DEF Acceptor, Prefork
<1>2. CASE Woken(w) \/ Lock(w) \/ LockBusy(w) \/ LockedAgain(w)
  <2>1. /\ UNCHANGED <<kernel, webVars, hand, total, slot>>
        /\ accept_mtx' \in {0, 1} /\ \E p \in {"woken", "accept", "idle"} : Does(w, p)
    BY <1>0, <1>2 DEF Woken, Lock, LockBusy, LockedAgain, Exchange, Unlock, Rest
  <2>2. Rest'
    BY <1>0, <2>1 DEF Rest, Does, kernel, webVars
  <2>3. OnePlace' /\ SameServed
    BY <1>0, <2>1, SameTables DEF kernel, webVars, TypeOK, SameServed
  <2>4. TypeOK'
    BY <1>0, <2>1, <2>2 DEF TypeOK, Rest, kernel, webVars
  <2>5. Processes'
    BY <1>0, <1>1, <2>1, <2>2 DEF Processes, Rest, kernel, webVars
  <2> QED
    BY <1>1, <2>1, <2>3, <2>4, <2>5 DEF Base, CountStep, kernel, webVars
<1>3. CASE LockedAccept(w)
  <2>1. Head(backlog) \in Client
    BY <1>0, <1>3 DEF LockedAccept, AcceptAt, TypeOK
  <2>2. Rest'
    BY <1>0, <1>3, <2>1, TotalType DEF LockedAccept, Unlock, Does, Counts, GoesTo, Rest
  <2>3. TypeOK' /\ OnePlace' /\ CountStep
    BY <1>1, <1>3, <2>2, AcceptStep DEF LockedAccept, Counts
  <2>4. Processes'
    BY <1>0, <1>1, <1>3, <2>2 DEF LockedAccept, Processes, Rest
  <2> QED
    BY <1>1, <1>3, <2>3, <2>4 DEF LockedAccept, Base
<1>4. CASE LockedFails(w)
  <2>1. Rest'
    BY <1>0, <1>4 DEF LockedFails, Unlock, Does, Rest
  <2>2. UNCHANGED <<design, limit, backlog, total, slot>>
    BY <1>4 DEF LockedFails
  <2>3. CASE Dies(w)
    <3>1. /\ owner' \in [Fd -> Client \cup {NULL}] /\ peer' \in [Client -> PeerState]
          /\ wire' \in [Client -> Seq(Client \X Nat)] /\ alive' \in BOOLEAN /\ up' \subseteq Worker
          /\ OnePlace' /\ up' = up \ {w} /\ (alive' <=> up' # {})
          /\ \A ws : Served(ws)' = Served(ws \ {w})
      BY <1>0, <2>2, <2>3, DiesStep
    <3>2. TypeOK'
      BY <1>0, <2>1, <2>2, <3>1 DEF TypeOK, Rest
    <3>3. Processes'
      BY <1>0, <1>1, <2>1, <2>2, <3>1 DEF Processes, Rest
    <3> QED
      BY <1>1, <2>2, <3>1, <3>2, <3>3 DEF Base, CountStep, Ends
  <2>4. CASE UNCHANGED <<up, alive, owner, peer, wire>>
    <3>1. OnePlace' /\ SameServed
      BY <1>0, <2>2, <2>4, SameTables DEF TypeOK, SameServed
    <3>2. TypeOK'
      BY <1>0, <2>1, <2>2, <2>4 DEF TypeOK, Rest
    <3>3. Processes'
      BY <1>0, <1>1, <2>1, <2>2, <2>4 DEF Processes, Rest
    <3> QED
      BY <1>1, <2>2, <2>4, <3>1, <3>2, <3>3 DEF Base, CountStep
  <2> QED
    BY <1>4, <2>3, <2>4 DEF LockedFails
<1> QED
  BY <1>2, <1>3, <1>4 DEF Acceptor
-----------------------------------------------------------------------------
(* The accept lock.                                                        *)

\* AcceptLockSound without cardinalities.
LockInv ==
  /\ \A v, w \in Worker : pc[v] = "accept" /\ pc[w] = "accept" => v = w
  /\ accept_mtx = 1 <=> \E w \in Worker : pc[w] = "accept"
  /\ design = "preepoll" => \A w \in Worker : pc[w] = "accept" => w \in up

\* A step of a connection or a client leaves the lock alone.
LEMMA LockKept ==
  ASSUME TypeOK, LockInv, ConnStep
  PROVE  LockInv'
BY DEF TypeOK, LockInv, ConnStep

\* The acceptors hand the lock on.
LEMMA LockStep ==
  ASSUME Base, LockInv, NEW w \in Worker, Acceptor(w)
  PROVE  LockInv'
<1>0. pc \in [Worker -> {"idle", "woken", "accept", "done"}] /\ accept_mtx \in {0, 1} /\ up \subseteq Worker
  BY DEF Base, TypeOK
<1>1. \A p : Does(w, p) => \A v \in Worker : pc'[v] = IF v = w THEN p ELSE pc[v]
  BY <1>0 DEF Does
<1>2. CASE Woken(w)
  BY <1>0, <1>1, <1>2 DEF Woken, LockInv, kernel, webVars
<1>3. CASE Lock(w)
  BY <1>0, <1>1, <1>3 DEF Lock, Exchange, LockInv, kernel, webVars
<1>4. CASE LockBusy(w)
  BY <1>0, <1>1, <1>4 DEF LockBusy, LockInv, kernel, webVars
<1>5. CASE LockedAccept(w)
  BY <1>0, <1>1, <1>5 DEF LockedAccept, Unlock, LockInv
<1>6. CASE LockedAgain(w)
  BY <1>0, <1>1, <1>6 DEF LockedAgain, Unlock, LockInv, kernel, webVars
<1>7. CASE LockedFails(w)
  <2>1. design' = design /\ (up' = up \/ up' = up \ {w})
    BY <1>7 DEF LockedFails, Dies
  <2> QED
    BY <1>0, <1>1, <1>7, <2>1 DEF LockedFails, Unlock, LockInv
<1> QED
  BY <1>2, <1>3, <1>4, <1>5, <1>6, <1>7 DEF Acceptor

\* The number of processes inside.
LEMMA LockSound ==
  ASSUME TypeOK, LockInv
  PROVE  AcceptLockSound
<1>1. Cardinality(Inside) = accept_mtx
  <2>1. CASE accept_mtx = 0
    <3>1. Inside = {}
      BY <2>1 DEF LockInv, Inside
    <3> QED
      BY <2>1, <3>1, FS_EmptySet
  <2>2. CASE accept_mtx = 1
    <3>1. PICK w \in Worker : pc[w] = "accept"
      BY <2>2 DEF LockInv
    <3>2. Inside = {w}
      BY <3>1 DEF LockInv, Inside
    <3> QED
      BY <2>2, <3>2, FS_Singleton
  <2> QED
    BY <2>1, <2>2 DEF TypeOK
<1> QED
  BY <1>1 DEF AcceptLockSound, LockInv, Inside

-----------------------------------------------------------------------------
(* The counters.                                                           *)

\* A process serves as many clients as it has descriptors at most.
LEMMA ServedFinite ==
  ASSUME TypeOK, OnePlace, NEW ws
  PROVE  IsFiniteSet(Served(ws)) /\ Open(ws) \in Nat
<1> DEFINE S == Served(ws)
           h == [c \in S |-> FdOf(c)]
<1>1. \A c \in S : c \in Client /\ FdOf(c) \in Fd /\ owner[FdOf(c)] = c
  BY EntryOf DEF Served
<1> HIDE DEF S
<1>2. h \in [S -> Fd] /\ \A a, b \in S : h[a] = h[b] => a = b
  BY <1>1
<1>3. h \in Injection(S, Fd)
  BY <1>2 DEF Injection, IsInjective
<1>4. IsFiniteSet(Fd)
  BY FS_Interval DEF Fd
<1>5. IsFiniteSet(S)
  BY <1>3, <1>4, FS_Injection
<1> QED
  BY <1>5, FS_CardinalityType DEF S, Open

\* The processes of a counter.
Group(s) == {w \in Worker : slot[w] = s}

\* CountsSound in terms of the numbers alone.
CountInv ==
  /\ design = "counted" /\ alive => total[1] = Open({1})
  /\ \A s \in Slot :
       /\ design = "preco" => total[s] >= Open(Group(s))
       /\ design = "preco" /\ Group(s) \subseteq up => total[s] = Open(Group(s))
       /\ design = "preepoll" /\ Group(s) \subseteq up => total[s] <= Open(Group(s))

\* The counters are right after every step.
LEMMA CountKept ==
  ASSUME Base, Base', CountInv, CountStep, UNCHANGED <<design, slot>>
  PROVE  CountInv'
<1>0. /\ TypeOK /\ OnePlace /\ Processes /\ Processes' /\ up \subseteq Worker /\ up' \subseteq Worker
      /\ total \in [Slot -> Int] /\ slot \in [Worker -> Slot] /\ slot[1] = 1 /\ 1 \in Slot /\ 1 \in Worker
  <2>1. 1 \in Slot /\ 1 \in Worker
    BY DEF Slot, Worker
  <2> QED
    BY <2>1 DEF Base, TypeOK, Processes
<1>1. /\ \A ws : IsFiniteSet(Served(ws)) /\ Open(ws) = Cardinality(Served(ws)) /\ Open(ws) \in Nat
      /\ \A ws : Open(ws)' = Cardinality(Served(ws)')
  BY <1>0, ServedFinite DEF Open
<1>2. \A s : Group(s)' = Group(s)
  BY DEF Group
<1>3. \A s \in Slot : \A w \in Worker : w \in Group(s) <=> slot[w] = s
  BY DEF Group
<1>4. CASE up' = up /\ total' = total /\ SameServed
  <2>1. \A ws : Open(ws)' = Open(ws)
    BY <1>1, <1>4 DEF SameServed
  <2> QED
    BY <1>0, <1>2, <1>4, <2>1 DEF CountInv, Processes
<1>5. ASSUME NEW w \in up, NEW c \in Client, TakesOn(w, c)
      PROVE  CountInv'
  <2>1. \A ws : Open(ws)' = IF w \in ws THEN Open(ws) + 1 ELSE Open(ws)
    BY <1>1, <1>5, FS_AddElement DEF TakesOn
  <2>2. \A s \in Slot : total'[s] = IF s = slot[w] THEN total[s] + 1 ELSE total[s]
    BY <1>0, <1>5 DEF TakesOn
  <2>3. \A s \in Slot : total[s] \in Int /\ Open(Group(s)) \in Nat
    BY <1>0, <1>1
  <2>4. design = "counted" => w = 1
    BY <1>0 DEF Processes, Prefork
  <2>5. design = "counted" /\ alive' => total'[1] = Open({1})'
    BY <1>0, <1>5, <2>1, <2>2, <2>4 DEF CountInv, Processes, TakesOn
  <2>6. ASSUME NEW s \in Slot
        PROVE  /\ design = "preco" => total'[s] >= Open(Group(s))'
               /\ design = "preco" /\ Group(s) \subseteq up' => total'[s] = Open(Group(s))'
               /\ design = "preepoll" /\ Group(s) \subseteq up' => total'[s] <= Open(Group(s))'
    <3>1. Open(Group(s))' = IF s = slot[w] THEN Open(Group(s)) + 1 ELSE Open(Group(s))
      BY <1>0, <1>2, <1>3, <2>1
    <3> QED
      BY <1>5, <2>2, <2>3, <3>1 DEF CountInv, TakesOn
  <2> QED
    BY <1>2, <2>5, <2>6 DEF CountInv
<1>6. ASSUME NEW w \in up, NEW c \in Client, Loses(w, c)
      PROVE  CountInv'
  <2>1. \A ws : Open(ws)' = IF w \in ws THEN Open(ws) - 1 ELSE Open(ws)
    BY <1>1, <1>6, FS_RemoveElement DEF Loses
  <2>2. \A s \in Slot : total'[s] = IF s = slot[w] THEN total[s] - 1 ELSE total[s]
    BY <1>0, <1>6 DEF Loses
  <2>3. \A s \in Slot : total[s] \in Int /\ Open(Group(s)) \in Nat
    BY <1>0, <1>1
  <2>4. design = "counted" => w = 1
    BY <1>0 DEF Processes, Prefork
  <2>5. design = "counted" /\ alive' => total'[1] = Open({1})'
    BY <1>0, <1>6, <2>1, <2>2, <2>4 DEF CountInv, Processes, Loses
  <2>6. ASSUME NEW s \in Slot
        PROVE  /\ design = "preco" => total'[s] >= Open(Group(s))'
               /\ design = "preco" /\ Group(s) \subseteq up' => total'[s] = Open(Group(s))'
               /\ design = "preepoll" /\ Group(s) \subseteq up' => total'[s] <= Open(Group(s))'
    <3>1. Open(Group(s))' = IF s = slot[w] THEN Open(Group(s)) - 1 ELSE Open(Group(s))
      BY <1>0, <1>2, <1>3, <2>1
    <3> QED
      BY <1>6, <2>2, <2>3, <3>1 DEF CountInv, Loses
  <2> QED
    BY <1>2, <2>5, <2>6 DEF CountInv
<1>7. ASSUME NEW w \in up, Ends(w)
      PROVE  CountInv'
  <2>1. \A ws : Open(ws)' = Open(ws \ {w})
    BY <1>1, <1>7 DEF Ends
  <2>2. \A ws : Open(ws \ {w}) <= Open(ws)
    <3>1. \A ws : Served(ws \ {w}) \in SUBSET Served(ws)
      BY DEF Served
    <3> QED
      BY <1>1, <3>1, FS_Subset
  <2>3. design = "counted" => ~alive'
    BY <1>0, <1>7 DEF Processes, Ends, Prefork
  <2>4. ASSUME NEW s \in Slot
        PROVE  /\ design = "preco" => total'[s] >= Open(Group(s))'
               /\ design = "preco" /\ Group(s) \subseteq up' => total'[s] = Open(Group(s))'
               /\ design = "preepoll" /\ Group(s) \subseteq up' => total'[s] <= Open(Group(s))'
    <3>1. Open(Group(s))' = Open(Group(s) \ {w}) /\ Open(Group(s) \ {w}) <= Open(Group(s))
      BY <1>2, <2>1, <2>2
    <3>2. Group(s) \subseteq up' => Group(s) \ {w} = Group(s) /\ Group(s) \subseteq up
      BY <1>7 DEF Ends
    <3>3. total'[s] = total[s] /\ total[s] \in Int /\ Open(Group(s)) \in Nat /\ Open(Group(s) \ {w}) \in Nat
      BY <1>0, <1>1, <1>7 DEF Ends
    <3>4. /\ design = "preco" => total[s] >= Open(Group(s))
          /\ design = "preco" /\ Group(s) \subseteq up => total[s] = Open(Group(s))
          /\ design = "preepoll" /\ Group(s) \subseteq up => total[s] <= Open(Group(s))
      BY DEF CountInv
    <3>5. design = "preco" => total'[s] >= Open(Group(s))'
      BY <3>1, <3>3, <3>4
    <3>6. Group(s) \subseteq up' => Open(Group(s))' = Open(Group(s)) /\ Group(s) \subseteq up
      BY <3>1, <3>2
    <3> QED
      BY <3>3, <3>4, <3>5, <3>6
  <2> QED
    BY <1>2, <2>3, <2>4 DEF CountInv
<1>8. ASSUME design = "preepoll", NEW w \in up, CountsOff(w)
      PROVE  CountInv'
  <2>1. \A ws : Open(ws)' = Open(ws)
    BY <1>1, <1>8 DEF CountsOff, SameServed
  <2>2. \A s \in Slot : total'[s] = IF s = slot[w] THEN total[s] - 1 ELSE total[s]
    BY <1>0, <1>8 DEF CountsOff
  <2>3. \A s \in Slot : total[s] \in Int /\ Open(Group(s)) \in Nat
    BY <1>0, <1>1
  <2>4. \A s \in Slot : Group(s) \subseteq up => total'[s] <= Open(Group(s))
    BY <1>8, <2>2, <2>3 DEF CountInv
  <2> QED
    BY <1>2, <1>8, <2>1, <2>4 DEF CountInv, CountsOff
<1>9. CASE design \notin Prefork \cup {"counted"}
  BY <1>9 DEF CountInv, Prefork
<1> QED
  BY <1>4, <1>5, <1>6, <1>7, <1>8, <1>9 DEF CountStep

\* What the counters are for.
LEMMA CountSound == CountInv => CountsSound
BY DEF CountInv, CountsSound, Group
-----------------------------------------------------------------------------
(* The theorems.                                                           *)

Inv == Base /\ LockInv /\ CountInv

\* No server has a client before it listens.
LEMMA InvInit == Init => Inv
<1> SUFFICES ASSUME Init PROVE Inv
  OBVIOUS
<1> USE DEF Init, SocketsInit, WebInit, WebReactorInit, WebCoroutineInit, WebWorkerInit
<1>1. TypeOK
  <2>1. /\ 1 \in Worker /\ 1 \in Slot /\ 1 \in Fd /\ MaxFd \in Fd
        /\ <<>> \in Seq(Client) /\ <<>> \in Seq(Client \X Nat)
    BY DEF Worker, Slot, Fd
  <2>2. slot \in [Worker -> Slot]
    BY <2>1
  <2> QED
    BY <2>1, <2>2 DEF TypeOK, PeerState, HttpKind
<1>2. OnePlace
  BY DEF OnePlace
<1>3. Processes
  <2>1. 1 \in Worker
    BY DEF Worker
  <2> QED
    BY <2>1 DEF Processes
<1>4. LockInv
  BY DEF LockInv
<1>5. CountInv
  <2>1. \A ws : Served(ws) = {}
    BY DEF Served, Accepted
  <2>2. \A ws : Open(ws) = 0
    BY <2>1, FS_EmptySet DEF Open
  <2>3. 1 \in Slot
    BY DEF Slot
  <2> QED
    BY <2>2, <2>3 DEF CountInv
<1> QED
  BY <1>1, <1>2, <1>3, <1>4, <1>5 DEF Inv, Base

\* Every step of every server and client.
LEMMA InvStep == Inv /\ [Next]_vars => Inv'
<1> SUFFICES ASSUME Inv, [Next]_vars PROVE Inv'
  OBVIOUS
<1>0. Base /\ LockInv /\ CountInv /\ TypeOK
  BY DEF Inv, Base
<1>1. ASSUME StepOK PROVE Inv'
  <2>1. Base' /\ CountStep /\ ConnStep /\ UNCHANGED <<design, slot>>
    BY <1>1 DEF StepOK, ConnStep
  <2> QED
    BY <1>0, <2>1, LockKept, CountKept DEF Inv
<1>2. ASSUME NEW c \in Client, Conn(c) PROVE StepOK
  BY <1>0, <1>2, ReactorSteps, CoroutineSteps, WorkerSteps DEF Conn
<1>3. ASSUME NEW w \in Worker, Acceptor(w), UNCHANGED statusVars PROVE Inv'
  <2>1. Base' /\ CountStep /\ UNCHANGED <<design, slot>>
    BY <1>0, <1>3, AcceptorSteps
  <2> QED
    BY <1>0, <1>3, <2>1, LockStep, CountKept DEF Inv
<1>4. CASE UNCHANGED vars
  <2>1. Rest' /\ UNCHANGED <<design, limit, peer, wire, backlog, owner, up, alive, total, pc, accept_mtx, slot>>
    BY <1>0, <1>4 DEF vars, kernel, webVars, statusVars, coroutineVars, workerVars, Rest, TypeOK, Base, Processes
  <2>2. StepOK
    BY <1>0, <2>1, QuietStep DEF TypeOK
  <2> QED
    BY <1>1, <2>2
<1> QED
  BY <1>0, <1>1, <1>2, <1>3, <1>4, PeerSteps, AcceptSteps DEF Next

\* The invariant of the web servers.
LEMMA InvHolds == Spec => []Inv
BY InvInit, InvStep, PTL DEF Spec

\* lock and unlock of nty_http_epoll.c and ntyco_httpd.c keep all but one process
\* out of accept, however many there are and whichever of them end, and a
\* process of nty_http_epoll.c never ends with the lock in its hands.
THEOREM AcceptLockHolds == Spec => []AcceptLockSound
<1>1. Inv => AcceptLockSound
  BY LockSound DEF Inv, Base
<1> QED
  BY <1>1, InvHolds, PTL

\* The counters in shared memory agree with the connections of their processes
\* as far as CountsSound says: add_shmvalue and sub_shmvalue match accept and
\* close on every path of nty_server_mulcore.c and ntyco_httpd.c.
THEOREM CountsHold == Spec => []CountsSound
<1>1. Inv => CountsSound
  BY CountSound DEF Inv
<1> QED
  BY <1>1, InvHolds, PTL

-----------------------------------------------------------------------------
(* What a client has got.                                                  *)

\* The messages of a client that were received, and the rest of them in order.
Taken(c) == sent[c] - Len(wire[c])
InOrder(c) == Taken(c) >= 0 /\ \A i \in 1 .. Len(wire[c]) : wire[c][i][2] = Taken(c) + i

\* 03_Webserver: header and body in turn, two pieces for each request at most.
Roomy == IsFiniteSet(Client) /\ limit > Cardinality(Client)
Bodies(s) == \A i \in 1 .. Len(s) : s[i] = "body" => i > 1 /\ s[i - 1] # "body"
SiteProgress(c, st) ==
  /\ Bodies(got[c])
  /\ Roomy => Alternates(got[c], "header", "body")
  /\ watch[c] = "IN" => st = 0
  /\ st # 1 => /\ Len(got[c]) <= 2 * Taken(c) - (IF st = 0 /\ watch[c] = "OUT" THEN 2 ELSE 0)
               /\ Roomy => Len(got[c]) % 2 = 0
  /\ st = 1 => /\ got[c] # <<>> /\ got[c][Len(got[c])] # "body" /\ Len(got[c]) <= 2 * Taken(c) - 1
               /\ Roomy => Len(got[c]) % 2 = 1

\* nty_http_server.c: what was sent and what is to be sent is the one reply.
RequestProgress(c) ==
  /\ phase[c] \in {"none", "recv"} => got[c] = <<>>
  /\ phase[c] \in {"lines", "send"} => got[c] \o out[c] = Reply(kind[c])
  /\ phase[c] = "left" => IsPrefix(got[c], Reply(kind[c]))

\* The Websocket servers after the handshake: got holds the switch of protocols
\* and then frames, or noise, of messages that were received.
Packets == {"101", "101x", "frame", "noise"} \X Nat
Talks(c) == kind[c] # "nokey"
FirstOf(k) == <<IF k = "zero" THEN "101x" ELSE "101", 0>>
FramedBy(k, n, s) ==
  /\ s \in Seq(Packets)
  /\ k # "nokey" /\ s # <<>> => s[1] = FirstOf(k)
  /\ \A i \in 1 .. Len(s) : s[i][2] <= n
  /\ \A i, j \in 1 .. Len(s) : i < j /\ s[j][1] = "frame" => s[i][2] < s[j][2]
  /\ k \in {"upgrade", "zero"} => \A i \in 1 .. Len(s) : s[i][1] # "noise"
Framed(c, s) == FramedBy(kind[c], Taken(c), s)
WsProgress(c, st) ==
  /\ st \in {0, 1}
  /\ st = 0 => got[c] = <<>> /\ out[c] = <<>> /\ Taken(c) = 0 /\ watch[c] = "IN"
  /\ st # 0 => /\ Taken(c) > 0 /\ Framed(c, got[c])
               /\ watch[c] = "IN" => (Talks(c) => got[c] # <<>>)
               /\ watch[c] = "OUT" => Framed(c, got[c] \o out[c]) /\ (Talks(c) => out[c] # <<>>)
WsCoProgress(c) ==
  /\ hand = c => got[c] = <<>> /\ Taken(c) = 0 /\ phase[c] = "recv"
  /\ hand # c => /\ Taken(c) > 0 /\ Framed(c, got[c]) /\ (Talks(c) => got[c] # <<>>)
                 /\ phase[c] = "send" => Framed(c, got[c] \o out[c])

\* The servers that answer every request with the same page.
Answering(c) == IF design = "preepoll" THEN watch[c] = "OUT" ELSE phase[c] = "send"
PageProgress(c) ==
  /\ Alternates(got[c], "200", "page") /\ Len(got[c]) % 2 = 0
  /\ Len(got[c]) <= 2 * Taken(c) - (IF Answering(c) THEN 2 ELSE 0)
  /\ design = "counted" /\ Answering(c) => out[c] = <<"200", "page">>

\* What the server of descriptor f says of its client c.
Serving(c, f) ==
  /\ design = "web" => SiteProgress(c, status[f])
  /\ design \in OneRequest => RequestProgress(c)
  /\ design = "ws" /\ f \notin used => WsProgress(c, status[f])
  /\ design = "wsco" => WsCoProgress(c)
  /\ design \in Prefork \cup {"counted"} => PageProgress(c)

\* A client that has not come has sent and got nothing; one that waits in the
\* backlog has got nothing; one that is served has got what its server says.
Progress(c) ==
  /\ peer[c] = "away" => got[c] = <<>> /\ wire[c] = <<>> /\ sent[c] = 0
  /\ peer[c] = "open" =>
       /\ InOrder(c)
       /\ (\A f \in Fd : owner[f] # c) => got[c] = <<>> /\ Taken(c) = 0
       /\ \A f \in Fd : owner[f] = c => Serving(c, f)

\* The slots of 03_Webserver that are free, and those of 04_Websocket that never
\* were used, have the status 0.
SlotsClear ==
  alive => \A f \in Fd : owner[f] = NULL /\ (design = "web" \/ (design = "ws" /\ f \notin used)) => status[f] = 0

Piece == {"header", "unsized", "body", "200", "page", "404", "501", "text"} \cup Packets
ProgressInv ==
  /\ got \in [Client -> Seq(Piece)] /\ out \in [Client -> Seq(Piece)]
  /\ SlotsClear
  /\ \A c \in Client : Progress(c) /\ (phase[c] = "lines" => design \in OneRequest)

\* What a step leaves alone of client d: its connection, and the rest.
SameConn(d) == peer'[d] = peer[d] /\ wire'[d] = wire[d] /\ \A f \in Fd : owner'[f] = d <=> owner[f] = d
SameLocal(d) ==
  /\ sent'[d] = sent[d] /\ kind'[d] = kind[d] /\ out'[d] = out[d] /\ phase'[d] = phase[d]
  /\ watch'[d] = watch[d] /\ (hand' = d <=> hand = d)
  /\ \A f \in Fd : owner[f] = d => status'[f] = status[f] /\ (f \in used' <=> f \in used)
Same(d) == SameConn(d) /\ got'[d] = got[d] /\ SameLocal(d)
Gone(d) == peer'[d] \notin {"away", "open"}

\* A step that leaves the connection of c and what was received of it alone.
LEMMA ServingKept ==
  ASSUME NEW d, NEW f, Serving(d, f), UNCHANGED <<design, limit>>,
         Taken(d)' = Taken(d), got'[d] = got[d], kind'[d] = kind[d], out'[d] = out[d],
         phase'[d] = phase[d], watch'[d] = watch[d], hand' = d <=> hand = d,
         status'[f] = status[f], f \in used' <=> f \in used
  PROVE  Serving(d, f)'
<1>3. \A st : SiteProgress(d, st) => SiteProgress(d, st)'
  BY DEF SiteProgress, Roomy, Bodies, Alternates
<1>4. RequestProgress(d) => RequestProgress(d)'
  BY DEF RequestProgress, Reply
<1>6. \A st : WsProgress(d, st) => WsProgress(d, st)'
  BY DEF WsProgress, Talks, Framed
<1>7. WsCoProgress(d) => WsCoProgress(d)'
  BY DEF WsCoProgress, Talks, Framed
<1>8. PageProgress(d) => PageProgress(d)'
  BY DEF PageProgress, Answering, Alternates
<1> QED
  BY <1>3, <1>4, <1>6, <1>7, <1>8 DEF Serving

\* A client the step does not touch, or whose connection it ends.
LEMMA ProgressKept ==
  ASSUME NEW d \in Client, Progress(d), UNCHANGED <<design, limit>>, Same(d) \/ Gone(d)
  PROVE  Progress(d)'
<1>1. CASE Gone(d)
  BY <1>1 DEF Gone, Progress
<1>2. CASE Same(d)
  <2>1. /\ peer'[d] = peer[d] /\ wire'[d] = wire[d] /\ got'[d] = got[d] /\ sent'[d] = sent[d]
        /\ kind'[d] = kind[d] /\ out'[d] = out[d] /\ phase'[d] = phase[d] /\ watch'[d] = watch[d]
        /\ (hand' = d <=> hand = d)
        /\ \A f \in Fd : (owner'[f] = d <=> owner[f] = d)
             /\ (owner[f] = d => status'[f] = status[f] /\ (f \in used' <=> f \in used))
    BY <1>2 DEF Same, SameConn, SameLocal
  <2>2. Taken(d)' = Taken(d) /\ (InOrder(d) => InOrder(d)')
    BY <2>1 DEF Taken, InOrder
  <2>3. ASSUME NEW f \in Fd, owner[f] = d, Serving(d, f) PROVE Serving(d, f)'
    BY <2>1, <2>2, <2>3, ServingKept
  <2> QED
    BY <2>1, <2>2, <2>3 DEF Progress
<1> QED
  BY <1>1, <1>2

\* A client that is served before the step.
LEMMA ProgressIn ==
  ASSUME NEW c \in Client, Progress(c), peer[c] = "open", NEW f \in Fd, owner[f] = c
  PROVE  InOrder(c) /\ Serving(c, f)
BY DEF Progress

\* A client that is served after the step.
LEMMA ProgressOut ==
  ASSUME NEW c \in Client, NEW f \in Fd, \A g \in Fd : owner'[g] = c <=> g = f,
         peer'[c] = "open", InOrder(c)', Serving(c, f)'
  PROVE  Progress(c)'
BY DEF Progress

\* It is enough to look at the client a step is about.
LEMMA ProgressOfOne ==
  ASSUME ProgressInv, UNCHANGED <<design, limit>>, NEW c \in Client,
         got' \in [Client -> Seq(Piece)], out' \in [Client -> Seq(Piece)], SlotsClear',
         \A d \in Client \ {c} : (SameConn(d) \/ Gone(d)) /\ got'[d] = got[d] /\ SameLocal(d),
         Progress(c)', phase'[c] = "lines" => design \in OneRequest
  PROVE  ProgressInv'
<1>1. ASSUME NEW d \in Client PROVE Progress(d)'
  BY ProgressKept DEF ProgressInv, Same
<1>2. ASSUME NEW d \in Client PROVE phase'[d] = "lines" => design \in OneRequest
  BY DEF ProgressInv, SameLocal
<1> QED
  BY <1>1, <1>2 DEF ProgressInv

\* recv takes the first messages that are left.
LEMMA RecvTakes ==
  ASSUME TypeOK, NEW c \in Client, Available(c), TakeChunk(c), InOrder(c), sent' = sent
  PROVE  /\ InOrder(c)' /\ Taken(c) \in Nat /\ Taken(c)' \in Nat /\ Taken(c)' > Taken(c)
         /\ Head(Chunk(c))[2] = Taken(c) + 1
<1> DEFINE q == wire[c]  n == Min({BufMax, Len(wire[c])})
<1>1. wire \in [Client -> Seq(Client \X Nat)] /\ q \in Seq(Client \X Nat) /\ Len(q) \in Nat /\ BufMax \in Nat \ {0}
      /\ q # <<>> /\ sent[c] \in Nat
  BY DEF TypeOK, Available
<1>2. {BufMax, Len(q)} \subseteq Nat /\ {BufMax, Len(q)} # {}
  BY <1>1
<1>3. n \in {BufMax, Len(q)} /\ n =< Len(q)
  BY <1>2, NatMin
<1>4. n \in Nat \ {0}
  BY <1>1, <1>3
<1> HIDE DEF n
<1>5. Chunk(c) = SubSeq(q, 1, n)
  BY DEF Chunk, n
<1>6. Len(SubSeq(q, 1, n)) = n /\ Head(SubSeq(q, 1, n)) = q[1]
  BY <1>1, <1>3, <1>4
<1>7. PICK r : r = SubSeq(q, n + 1, Len(q))
  OBVIOUS
<1>8. r \in Seq(Client \X Nat) /\ Len(r) = Len(q) - n /\ \A i \in 1 .. Len(r) : r[i] = q[i + n]
  BY <1>1, <1>3, <1>4, <1>7
<1>9. wire'[c] = r
  BY <1>1, <1>5, <1>6, <1>7 DEF TakeChunk
<1>10. Taken(c) = sent[c] - Len(q) /\ Taken(c)' = sent[c] - Len(r) /\ Taken(c) >= 0
  BY <1>9 DEF Taken, InOrder
<1>a. \A i \in 1 .. Len(q) : q[i][2] = Taken(c) + i
  BY DEF InOrder
<1>11. Taken(c) \in Nat /\ Taken(c)' = Taken(c) + n /\ Taken(c)' \in Nat
  <2>1. PICK a, b, k, m : a = sent[c] /\ b = Len(q) /\ k = Len(r) /\ m = n
    OBVIOUS
  <2>2. a \in Nat /\ b \in Nat /\ k = b - m /\ m \in Nat /\ Taken(c) = a - b /\ Taken(c)' = a - k /\ Taken(c) >= 0
    BY <1>1, <1>4, <1>8, <1>10, <2>1
  <2> QED
    BY <2>1, <2>2, SMTT(30)
<1>12. ASSUME NEW i \in 1 .. Len(r) PROVE r[i][2] = Taken(c)' + i
  <2>1. i + n \in 1 .. Len(q) /\ r[i] = q[i + n]
    BY <1>1, <1>4, <1>8
  <2> QED
    BY <2>1, <1>4, <1>a, <1>11
<1>13. InOrder(c)'
  BY <1>9, <1>11, <1>12 DEF InOrder
<1>14. Head(Chunk(c)) = q[1] /\ 1 \in 1 .. Len(q)
  <2>1. Head(Chunk(c)) = q[1]
    BY <1>5, <1>6
  <2>2. Len(q) # 0
    BY <1>1
  <2> QED
    BY <2>1, <2>2, <1>1
<1>15. Head(Chunk(c))[2] = Taken(c) + 1
  BY <1>14, <1>a
<1> QED
  BY <1>4, <1>11, <1>13, <1>15

\* The number of messages received is a number.
LEMMA TakenType ==
  ASSUME TypeOK, NEW c \in Client, InOrder(c)
  PROVE  Taken(c) \in Nat
<1>1. wire[c] \in Seq(Client \X Nat) /\ sent[c] \in Nat
  BY DEF TypeOK
<1>2. PICK n : n = Len(wire[c])
  OBVIOUS
<1>3. n \in Nat /\ Taken(c) = sent[c] - n /\ Taken(c) >= 0
  BY <1>1, <1>2 DEF Taken, InOrder
<1> QED
  BY <1>1, <1>3

\* The connections of all clients but c are as they were, or ended.
Others(c) == \A d \in Client \ {c} : (SameConn(d) \/ Gone(d)) /\ got'[d] = got[d]
LocalsKept(c) == \A d \in Client \ {c} : SameLocal(d)

\* What comes of the connection of c: nothing, its end, or a reply.
Replies(c, reply) ==
  Gone(c) \/ (peer[c] = "open" /\ SameConn(c) /\ got'[c] = got[c] \o reply)

\* A step that touches no descriptor, and c's end at most.
LEMMA QuietOthers ==
  ASSUME TypeOK, got' = got, owner' = owner, NEW c \in Client,
         peer' = peer \/ \E p : peer' = [peer EXCEPT ![c] = p],
         wire' = wire \/ TakeChunk(c) \/ wire' = [wire EXCEPT ![c] = <<>>]
  PROVE  Others(c)
<1>1. peer \in [Client -> PeerState] /\ wire \in [Client -> Seq(Client \X Nat)]
  BY DEF TypeOK
<1>2. ASSUME NEW d \in Client \ {c} PROVE peer'[d] = peer[d] /\ wire'[d] = wire[d]
  BY <1>1 DEF TakeChunk
<1> QED
  BY <1>2 DEF Others, SameConn

\* close ends the one connection.
LEMMA CloseOthers ==
  ASSUME TypeOK, OnePlace, got' = got, NEW c \in Client, Accepted(c), Close(c)
  PROVE  Others(c) /\ Gone(c) /\ \A f \in Fd : owner'[f] = NULL <=> owner[f] = NULL \/ f = FdOf(c)
<1>1. FdOf(c) \in Fd /\ owner[FdOf(c)] = c /\ NULL \notin Client
  BY EntryOf
<1>2. /\ peer \in [Client -> PeerState] /\ wire \in [Client -> Seq(Client \X Nat)]
      /\ owner \in [Fd -> Client \cup {NULL}]
  BY DEF TypeOK
<1>3. \A f \in Fd : owner'[f] = IF f = FdOf(c) THEN NULL ELSE owner[f]
  BY <1>1, <1>2 DEF Close
<1>4. peer'[c] = "gone" /\ \A d \in Client \ {c} : peer'[d] = peer[d] /\ wire'[d] = wire[d]
  BY <1>2 DEF Close
<1>5. \A d \in Client \ {c} : SameConn(d)
  BY <1>1, <1>3, <1>4 DEF SameConn
<1> QED
  BY <1>1, <1>3, <1>4, <1>5 DEF Others, Gone

\* The end of a process ends its connections and leaves the others alone.
LEMMA DiesOthers ==
  ASSUME TypeOK, OnePlace, Processes, got' = got, NEW w \in up, Dies(w)
  PROVE  /\ \A d \in Client : SameConn(d) \/ Gone(d)
         /\ \A d \in Client : Accepted(d) /\ At(d) = w => Gone(d)
         /\ design \notin Prefork => ~alive'
<1> DEFINE its == {c \in Client : Accepted(c) /\ At(c) = w}
<1>1. /\ owner' = [f \in Fd |-> IF Home(f) = w THEN NULL ELSE owner[f]]
      /\ peer' = [c \in Client |-> IF c \in its THEN "gone" ELSE peer[c]]
      /\ wire' = [c \in Client |-> IF c \in its THEN <<>> ELSE wire[c]]
      /\ up' = up \ {w} /\ alive' = (up' # {})
  BY DEF Dies
<1>2. \A d \in Client, f \in Fd : owner[f] = d /\ Home(f) = w => d \in its
  BY EntryOf DEF Accepted, At
<1>3. ASSUME NEW d \in Client, d \notin its PROVE SameConn(d)
  <2>1. peer'[d] = peer[d] /\ wire'[d] = wire[d]
    BY <1>1, <1>3
  <2>2. ASSUME NEW f \in Fd PROVE owner'[f] = d <=> owner[f] = d
    BY <1>1, <1>2, <1>3
  <2> QED
    BY <2>1, <2>2 DEF SameConn
<1>4. \A d \in its : Gone(d)
  BY <1>1 DEF Gone
<1>5. design \notin Prefork => ~alive'
  BY <1>1 DEF Processes
<1> QED
  BY <1>3, <1>4, <1>5

\* send reaches the one client, if anybody.
LEMMA SendsOthers ==
  ASSUME Base, got \in [Client -> Seq(Piece)], NEW c \in Client, Accepted(c), peer[c] # "away",
         NEW reply \in Seq(Piece), Sends(c, reply)
  PROVE  /\ Others(c) /\ Replies(c, reply) /\ got' \in [Client -> Seq(Piece)]
         /\ (owner' = owner /\ alive' = alive) \/ (design \notin Prefork => ~alive')
<1>0. TypeOK /\ OnePlace /\ Processes /\ At(c) \in up
  BY EntryOf DEF Base
<1>1. peer \in [Client -> PeerState] /\ wire \in [Client -> Seq(Client \X Nat)]
  BY <1>0 DEF TypeOK
<1>2. CASE Deliver(c, reply) /\ UNCHANGED <<up, alive, owner, wire>>
  <2>1. CASE peer[c] = "open" /\ got' = [got EXCEPT ![c] = @ \o reply] /\ UNCHANGED peer
    <3>1. got[c] \o reply \in Seq(Piece)
      OBVIOUS
    <3> QED
      BY <1>2, <2>1, <3>1 DEF Others, Replies, SameConn
  <2>2. CASE peer[c] = "fin" /\ UNCHANGED got /\ \E p \in {"fin", "pipe"} : peer' = [peer EXCEPT ![c] = p]
    <3>1. Gone(c)
      BY <1>1, <2>2 DEF Gone
    <3> QED
      BY <1>0, <1>2, <2>2, <3>1, QuietOthers DEF Replies
  <2> QED
    BY <1>2, <2>1, <2>2 DEF Deliver
<1>3. CASE SendFails(c) /\ UNCHANGED <<got, up, alive, owner, wire>>
  <2>1. Gone(c)
    BY <1>1, <1>3 DEF Gone, SendFails
  <2> QED
    BY <1>0, <1>3, <2>1, QuietOthers DEF Replies, SendFails
<1>4. CASE Broken(c) /\ Dies(At(c)) /\ UNCHANGED got
  BY <1>0, <1>4, DiesOthers DEF Replies, Others
<1> QED
  BY <1>2, <1>3, <1>4 DEF Sends

\* accept gives the first of the backlog a descriptor, and nobody else.
LEMMA AcceptOthers ==
  ASSUME TypeOK, OnePlace, UNCHANGED <<got, peer, wire>>, NEW w, AcceptAt(w)
  PROVE  /\ Head(backlog) \in Client /\ Others(Head(backlog))
         /\ \A f \in Fd : owner[f] # Head(backlog)
         /\ \A f \in Fd : owner'[f] = NULL => owner[f] = NULL
         /\ \E f \in Fd : owner[f] = NULL /\ \A g \in Fd : owner'[g] = Head(backlog) <=> g = f
<1> DEFINE f == Min(Room(w))  c == Head(backlog)
<1>1. Room(w) \subseteq Nat /\ Room(w) # {}
  BY DEF AcceptAt, Room, FreeFd, TypeOK
<1>2. f \in Room(w)
  BY <1>1, NatMin
<1>3. f \in Fd /\ owner[f] = NULL
  BY <1>2 DEF Room, FreeFd, TypeOK, Fd
<1>4. backlog \in Seq(Client) /\ backlog # <<>>
  BY DEF TypeOK, AcceptAt
<1>5. c \in Client /\ c = backlog[1] /\ 1 \in DOMAIN backlog
  BY <1>4
<1>6. owner' = [owner EXCEPT ![f] = c]
  BY DEF AcceptAt
<1> HIDE DEF f, c
<1>7. owner \in [Fd -> Client \cup {NULL}] /\ NULL \notin Client
  BY DEF TypeOK
<1>8. \A g \in Fd : owner'[g] = IF g = f THEN c ELSE owner[g]
  BY <1>3, <1>6, <1>7
<1>9. \A g \in Fd : owner[g] # c
  BY <1>5, <1>7 DEF OnePlace
<1>10. Others(c)
  BY <1>3, <1>5, <1>7, <1>8 DEF Others, SameConn
<1>11. \A g \in Fd : owner'[g] = c <=> g = f
  BY <1>3, <1>8, <1>9
<1> QED
  BY <1>3, <1>5, <1>7, <1>8, <1>9, <1>10, <1>11 DEF c

\* With more descriptors than clients there is one for the file.
LEMMA RoomForFile ==
  ASSUME TypeOK, OnePlace, Roomy
  PROVE  FreeFd # {}
<1>1. SUFFICES ASSUME FreeFd = {} PROVE FALSE
  OBVIOUS
<1> DEFINE S == 1 .. limit  h == [f \in S |-> owner[f]]
<1>2. limit \in Nat /\ S \subseteq Fd /\ owner \in [Fd -> Client \cup {NULL}]
  BY DEF TypeOK, Fd
<1>3. \A f \in S : owner[f] \in Client
  BY <1>1, <1>2 DEF FreeFd
<1>4. h \in [S -> Client] /\ \A a, b \in S : h[a] = h[b] => a = b
  BY <1>2, <1>3 DEF OnePlace
<1>5. h \in Injection(S, Client)
  BY <1>4 DEF Injection, IsInjective
<1>6. IsFiniteSet(Client) /\ limit > Cardinality(Client) /\ Cardinality(Client) \in Nat
  BY FS_CardinalityType DEF Roomy
<1>7. Cardinality(S) <= Cardinality(Client)
  BY <1>5, <1>6, FS_Injection
<1>8. Cardinality(S) = limit
  BY <1>2, FS_Interval
<1> QED
  BY <1>2, <1>6, <1>7, <1>8

-----------------------------------------------------------------------------
(* 03_Webserver.                                                           *)

\* A sequence with one more element.
LEMMA OneMore ==
  ASSUME NEW S, NEW s \in Seq(S), NEW x \in S
  PROVE  /\ s \o <<x>> \in Seq(S) /\ Len(s \o <<x>>) = Len(s) + 1 /\ Len(s) \in Nat
         /\ \A i \in 1 .. Len(s) : (s \o <<x>>)[i] = s[i]
         /\ (s \o <<x>>)[Len(s) + 1] = x
OBVIOUS

\* A sequence with two more elements.
LEMMA TwoMore ==
  ASSUME NEW S, NEW s \in Seq(S), NEW x \in S, NEW y \in S
  PROVE  /\ s \o <<x, y>> \in Seq(S) /\ Len(s \o <<x, y>>) = Len(s) + 2 /\ Len(s) \in Nat
         /\ \A i \in 1 .. Len(s) : (s \o <<x, y>>)[i] = s[i]
         /\ (s \o <<x, y>>)[Len(s) + 1] = x /\ (s \o <<x, y>>)[Len(s) + 2] = y
OBVIOUS

\* Odd and even numbers take turns.
LEMMA OddEven ==
  \A n \in Nat : (n % 2 = 0 <=> (n + 1) % 2 = 1) /\ (n % 2 = 1 <=> (n + 1) % 2 = 0)
OBVIOUS

\* A header or a body at the end of what a browser has got.
LEMMA PieceMore ==
  ASSUME NEW s \in Seq(Piece), NEW x \in Piece, Bodies(s),
         x = "body" => s # <<>> /\ s[Len(s)] # "body"
  PROVE  /\ Bodies(s \o <<x>>)
         /\ Alternates(s, "header", "body") /\ x = (IF Len(s) % 2 = 0 THEN "header" ELSE "body") =>
              Alternates(s \o <<x>>, "header", "body")
<1>1. PICK t : t = s \o <<x>>
  OBVIOUS
<1>2. /\ t \in Seq(Piece) /\ Len(t) = Len(s) + 1 /\ Len(s) \in Nat
      /\ \A i \in 1 .. Len(s) : t[i] = s[i]
      /\ t[Len(s) + 1] = x
  BY <1>1, OneMore
<1>3. Bodies(t)
  <2>1. SUFFICES ASSUME NEW i \in 1 .. Len(t), t[i] = "body" PROVE i > 1 /\ t[i - 1] # "body"
    BY DEF Bodies
  <2>2. CASE i \in 1 .. Len(s)
    BY <1>2, <2>1, <2>2 DEF Bodies
  <2>3. CASE i = Len(s) + 1
    <3>1. x = "body" /\ Len(s) # 0
      BY <1>2, <2>1, <2>3
    <3> QED
      BY <1>2, <2>3, <3>1
  <2> QED
    BY <1>2, <2>2, <2>3
<1>4. ASSUME Alternates(s, "header", "body"), x = (IF Len(s) % 2 = 0 THEN "header" ELSE "body")
      PROVE  Alternates(t, "header", "body")
  <2>1. SUFFICES ASSUME NEW i \in 1 .. Len(t) PROVE t[i] = IF i % 2 = 1 THEN "header" ELSE "body"
    BY <1>2 DEF Alternates
  <2>2. CASE i \in 1 .. Len(s)
    BY <1>2, <1>4, <2>2 DEF Alternates
  <2>3. CASE i = Len(s) + 1
    <3>1. i % 2 = 1 <=> Len(s) % 2 = 0
      BY <1>2, <2>3
    <3> QED
      BY <1>2, <1>4, <2>3, <3>1
  <2> QED
    BY <1>2, <2>2, <2>3
<1> QED
  BY <1>1, <1>3, <1>4

\* recv_cb: the answer to one more request is due.
LEMMA SiteRecv ==
  ASSUME NEW c \in Client, SiteProgress(c, 0), Taken(c) \in Nat, Taken(c)' \in Nat, Taken(c)' > Taken(c),
         got \in [Client -> Seq(Piece)],
         got'[c] = got[c], watch[c] = "IN", watch'[c] = "OUT", UNCHANGED limit
  PROVE  SiteProgress(c, 0)'
<1>1. Len(got[c]) \in Nat /\ Len(got[c]) <= 2 * Taken(c)
  BY DEF SiteProgress
<1>2. Len(got[c]) <= 2 * Taken(c)' - 2
  BY <1>1
<1> QED
  BY <1>2 DEF SiteProgress, Roomy, Bodies, Alternates

\* send_cb: the header.
LEMMA SiteHeader ==
  ASSUME NEW c \in Client, SiteProgress(c, 0), Taken(c) \in Nat, Taken(c)' = Taken(c),
         got \in [Client -> Seq(Piece)], NEW x \in {"header", "unsized"}, Roomy => x = "header",
         got'[c] = got[c] \o <<x>>, watch[c] = "OUT", watch'[c] = "OUT", UNCHANGED limit
  PROVE  SiteProgress(c, 1)'
<1>1. PICK s : s = got[c]
  OBVIOUS
<1>2. s \in Seq(Piece) /\ x \in Piece /\ x # "body" /\ Bodies(s) /\ Len(s) <= 2 * Taken(c) - 2
      /\ (Roomy => Alternates(s, "header", "body") /\ Len(s) % 2 = 0)
  BY <1>1 DEF SiteProgress, Piece
<1>3. PICK t : t = s \o <<x>>
  OBVIOUS
<1>4. Bodies(t) /\ (Roomy => Alternates(t, "header", "body"))
  BY <1>2, <1>3, PieceMore
<1>5. Len(t) = Len(s) + 1 /\ Len(s) \in Nat /\ t[Len(s) + 1] = x
  BY <1>2, <1>3, OneMore
<1>6. Len(t) <= 2 * Taken(c)' - 1 /\ t # <<>> /\ t[Len(t)] # "body" /\ (Roomy => Len(t) % 2 = 1)
  <2>1. PICK n, m : n = Len(s) /\ m = Len(t)
    OBVIOUS
  <2>2. n \in Nat /\ m = n + 1 /\ n <= 2 * Taken(c) - 2 /\ (Roomy => n % 2 = 0)
    BY <2>1, <1>2, <1>5
  <2>3. m <= 2 * Taken(c)' - 1 /\ m # 0 /\ (Roomy => m % 2 = 1)
    BY <2>2, OddEven
  <2>4. t # <<>>
    BY <2>1, <2>3
  <2> QED
    BY <1>2, <1>5, <2>1, <2>3, <2>4
<1> QED
  BY <1>1, <1>3, <1>4, <1>6, SMTT(30) DEF SiteProgress, Roomy, Bodies, Alternates

\* send_cb: the body, if the file can be opened.
LEMMA SiteBody ==
  ASSUME NEW c \in Client, SiteProgress(c, 1), Taken(c) \in Nat, Taken(c)' = Taken(c),
         got \in [Client -> Seq(Piece)],
         got'[c] = got[c] \o <<"body">> \/ (~Roomy /\ got'[c] = got[c]),
         watch[c] = "OUT", watch'[c] = "OUT", UNCHANGED limit
  PROVE  SiteProgress(c, 2)'
<1>1. PICK s : s = got[c]
  OBVIOUS
<1>2. s \in Seq(Piece) /\ "body" \in Piece /\ Bodies(s) /\ Len(s) <= 2 * Taken(c) - 1
      /\ s # <<>> /\ s[Len(s)] # "body"
      /\ (Roomy => Alternates(s, "header", "body") /\ Len(s) % 2 = 1)
  BY <1>1 DEF SiteProgress, Piece
<1>3. CASE ~Roomy /\ got'[c] = s
  <2>1. Len(s) <= 2 * Taken(c)'
    BY <1>2
  <2> QED
    BY <1>2, <1>3, <2>1 DEF SiteProgress, Roomy, Bodies
<1>4. CASE got'[c] = s \o <<"body">>
  <2>1. PICK t : t = s \o <<"body">>
    OBVIOUS
  <2>2. Bodies(t) /\ (Roomy => Alternates(t, "header", "body"))
    BY <1>2, <2>1, PieceMore
  <2>3. Len(t) = Len(s) + 1 /\ Len(s) \in Nat
    BY <1>2, <2>1, OneMore
  <2>4. Len(t) <= 2 * Taken(c)' /\ (Roomy => Len(t) % 2 = 0)
    <3>1. PICK n, m : n = Len(s) /\ m = Len(t)
      OBVIOUS
    <3>2. n \in Nat /\ m = n + 1 /\ n <= 2 * Taken(c) - 1 /\ (Roomy => n % 2 = 1)
      BY <3>1, <1>2, <2>3
    <3>3. m <= 2 * Taken(c)' /\ (Roomy => m % 2 = 0)
      BY <3>2, OddEven
    <3> QED
      BY <3>1, <3>3
  <2> QED
    BY <1>4, <2>1, <2>2, <2>4, SMTT(30) DEF SiteProgress, Roomy, Bodies, Alternates
<1> QED
  BY <1>1, <1>3, <1>4

\* The status of the one slot changes.
Slots(f, v) == \A g \in Fd : status'[g] = IF g = f THEN v ELSE status[g]

\* A handler that stores a status.
LEMMA StatusAt ==
  ASSUME TypeOK, NEW f \in Fd, NEW v, status' = [status EXCEPT ![f] = v]
  PROVE  Slots(f, v)
BY DEF TypeOK, Slots

\* The handlers of 03_Webserver.
LEMMA SiteSteps ==
  ASSUME Base, ProgressInv, NEW c \in Client,
         WebRecv(c) \/ WebRecvEnds(c) \/ WebHeader(c) \/ WebBody(c) \/ WebEnd(c),
         UNCHANGED <<coroutineVars, workerVars>>
  PROVE  ProgressInv'
<1>1. PICK f : f = FdOf(c)
  OBVIOUS
<1>2. design = "web" /\ Accepted(c)
  BY DEF WebRecv, WebRecvEnds, WebHeader, WebBody, WebEnd, Reports, Serves
<1>3. /\ TypeOK /\ OnePlace /\ f \in Fd /\ owner[f] = c /\ (\A g \in Fd : owner[g] = c <=> g = f)
      /\ peer[c] # "away" /\ NULL \notin Client
  BY <1>1, <1>2, EntryOf DEF Base, OnePlace
<1>4. /\ got \in [Client -> Seq(Piece)] /\ out \in [Client -> Seq(Piece)] /\ SlotsClear /\ Progress(c)
      /\ sent \in [Client -> Nat] /\ watch \in [Client -> {"NONE", "IN", "OUT"}]
  BY <1>3 DEF ProgressInv, TypeOK
<1>5. /\ UNCHANGED <<design, limit, sent, kind, phase, out, hand>>
      /\ watch' = watch \/ \E ev : watch' = [watch EXCEPT ![c] = ev]
      /\ used' = used \/ used' = used \cup {f}
      /\ \E v : status' = [status EXCEPT ![f] = v]
  BY <1>1 DEF WebRecv, WebRecvEnds, WebHeader, WebBody, WebEnd, WatchFor, coroutineVars, kernel
<1>6. PICK v : status' = [status EXCEPT ![f] = v]
  BY <1>5
<1>7. Slots(f, v)
  BY <1>3, <1>6, StatusAt
<1>8. LocalsKept(c)
  BY <1>3, <1>4, <1>5, <1>7 DEF LocalsKept, SameLocal, Slots
<1>9. ASSUME Others(c), got' \in [Client -> Seq(Piece)], Progress(c)', SlotsClear' PROVE ProgressInv'
  <2>1. phase'[c] = "lines" => design \in OneRequest
    BY <1>5 DEF ProgressInv
  <2> QED
    BY <1>4, <1>5, <1>8, <1>9, <2>1, ProgressOfOne DEF Others, LocalsKept
<1>10. ASSUME \/ owner' = owner /\ alive' = alive
              \/ ~alive'
              \/ v = 0 /\ alive' = alive /\ \A g \in Fd : owner'[g] = NULL <=> owner[g] = NULL \/ g = f
       PROVE  SlotsClear'
  BY <1>2, <1>3, <1>4, <1>5, <1>7, <1>10 DEF SlotsClear, Slots
<1>11. ASSUME peer[c] = "open" PROVE InOrder(c) /\ SiteProgress(c, status[f]) /\ Taken(c) \in Nat
  <2>1. InOrder(c) /\ SiteProgress(c, status[f])
    BY <1>2, <1>3, <1>4, <1>11, ProgressIn DEF Serving
  <2> QED
    BY <1>3, <2>1, TakenType
<1>12. ASSUME peer'[c] = "open", InOrder(c)', \A g \in Fd : owner'[g] = c <=> owner[g] = c,
              SiteProgress(c, v)'
       PROVE  Progress(c)'
  <2>1. status'[f] = v
    BY <1>3, <1>7 DEF Slots
  <2>2. Serving(c, f)'
    BY <1>2, <1>5, <1>12, <2>1 DEF Serving, OneRequest, Prefork
  <2> QED
    BY <1>3, <1>12, <2>2, ProgressOut
<1>13. ASSUME NEW p, SameConn(c), peer[c] = "open", got'[c] = got[c] \o p,
              SiteProgress(c, v)'
       PROVE  Progress(c)'
  <2>1. InOrder(c)'
    BY <1>5, <1>11, <1>13 DEF SameConn, InOrder, Taken
  <2> QED
    BY <1>12, <1>13, <2>1 DEF SameConn
<1>14. ASSUME Gone(c) PROVE Progress(c)'
  BY <1>4, <1>5, <1>14, ProgressKept
<1>21. CASE WebRecv(c)
  <2>0. /\ UNCHANGED <<peer, owner, got, alive>> /\ TakeChunk(c) /\ Available(c) /\ v = 0
        /\ watch[c] = "IN" /\ watch' = [watch EXCEPT ![c] = "OUT"]
    BY <1>3, <1>6, <1>21, <1>1 DEF WebRecv, WatchFor, TypeOK
  <2>1. Others(c) /\ SlotsClear'
    BY <1>3, <1>10, <2>0, QuietOthers
  <2>2. CASE peer[c] = "open"
    <3>1. status[f] = 0
      BY <1>11, <2>0, <2>2 DEF SiteProgress
    <3>2. InOrder(c)' /\ Taken(c)' \in Nat /\ Taken(c)' > Taken(c)
      BY <1>3, <1>5, <1>11, <2>0, <2>2, RecvTakes
    <3>3. SiteProgress(c, 0)'
      BY <1>4, <1>5, <1>11, <2>0, <2>2, <3>1, <3>2, SiteRecv
    <3> QED
      BY <1>4, <1>9, <1>12, <2>0, <2>1, <2>2, <3>2, <3>3
  <2>3. CASE peer[c] # "open"
    BY <1>3, <1>4, <1>9, <1>14, <2>0, <2>1, <2>3 DEF Gone
  <2> QED
    BY <2>2, <2>3
<1>22. CASE WebRecvEnds(c)
  <2>0. UNCHANGED <<got, alive>> /\ Close(c) /\ v = 0
    BY <1>3, <1>6, <1>22, <1>1 DEF WebRecvEnds, TypeOK
  <2>1. Others(c) /\ Gone(c) /\ SlotsClear'
    BY <1>1, <1>2, <1>3, <1>10, <2>0, CloseOthers
  <2> QED
    BY <1>4, <1>9, <1>14, <2>0, <2>1
<1>23. CASE WebHeader(c)
  <2>0. /\ status[f] = 0 /\ v = 1 /\ watch[c] = "OUT" /\ watch' = watch
    BY <1>3, <1>6, <1>23, <1>1 DEF WebHeader, Reports, TypeOK
  <2>1. PICK x \in {"header", "unsized"} : Sends(c, <<x>>) /\ (FreeFd # {} => x = "header")
    BY <1>23 DEF WebHeader
  <2>2. <<x>> \in Seq(Piece)
    BY DEF Piece
  <2>3. /\ Others(c) /\ Replies(c, <<x>>) /\ got' \in [Client -> Seq(Piece)] /\ SlotsClear'
    BY <1>2, <1>3, <1>4, <1>10, <2>1, <2>2, SendsOthers DEF Prefork
  <2>4. CASE peer[c] = "open" /\ SameConn(c) /\ got'[c] = got[c] \o <<x>>
    <3>1. Roomy => x = "header"
      BY <1>3, <2>1, RoomForFile
    <3>2. Taken(c)' = Taken(c)
      BY <1>5, <2>4 DEF Taken, SameConn
    <3>3. SiteProgress(c, 1)'
      BY <1>4, <1>5, <1>11, <2>0, <2>4, <3>1, <3>2, SiteHeader
    <3> QED
      BY <1>9, <1>13, <2>0, <2>3, <2>4, <3>3
  <2> QED
    BY <1>9, <1>14, <2>3, <2>4 DEF Replies
<1>24. CASE WebBody(c)
  <2>0. /\ status[f] = 1 /\ v = 2 /\ watch[c] = "OUT" /\ watch' = watch
    BY <1>3, <1>6, <1>24, <1>1 DEF WebBody, Reports, TypeOK
  <2>1. CASE FreeFd # {}
    <3>1. Sends(c, <<"body">>) /\ <<"body">> \in Seq(Piece)
      BY <1>24, <2>1 DEF WebBody, Piece
    <3>2. /\ Others(c) /\ Replies(c, <<"body">>) /\ got' \in [Client -> Seq(Piece)] /\ SlotsClear'
      BY <1>2, <1>3, <1>4, <1>10, <3>1, SendsOthers DEF Prefork
    <3>3. CASE peer[c] = "open" /\ SameConn(c) /\ got'[c] = got[c] \o <<"body">>
      <4>1. Taken(c)' = Taken(c)
        BY <1>5, <3>3 DEF Taken, SameConn
      <4>2. SiteProgress(c, 2)'
        BY <1>4, <1>5, <1>11, <2>0, <3>3, <4>1, SiteBody
      <4> QED
        BY <1>9, <1>13, <2>0, <3>2, <3>3, <4>2
    <3> QED
      BY <1>9, <1>14, <3>2, <3>3 DEF Replies
  <2>2. CASE FreeFd = {}
    <3>1. UNCHANGED <<owner, peer, wire, got, alive>>
      BY <1>24, <2>2 DEF WebBody
    <3>2. Others(c) /\ SlotsClear'
      BY <1>3, <1>10, <3>1, QuietOthers
    <3>3. CASE peer[c] = "open"
      <4>1. Taken(c)' = Taken(c) /\ InOrder(c)'
        BY <1>5, <1>11, <3>1, <3>3 DEF Taken, InOrder
      <4>2. ~Roomy
        BY <1>3, <2>2, RoomForFile
      <4>3. SiteProgress(c, 2)'
        BY <1>4, <1>5, <1>11, <2>0, <3>1, <3>3, <4>1, <4>2, SiteBody
      <4> QED
        BY <1>4, <1>9, <1>12, <2>0, <3>1, <3>2, <3>3, <4>1, <4>3
    <3>4. CASE peer[c] # "open"
      BY <1>3, <1>4, <1>9, <1>14, <3>1, <3>2, <3>4 DEF Gone
    <3> QED
      BY <3>3, <3>4
  <2> QED
    BY <2>1, <2>2
<1>25. CASE WebEnd(c)
  <2>0. /\ status[f] = 2 /\ v = 0 /\ watch[c] = "OUT" /\ watch' = [watch EXCEPT ![c] = "IN"]
        /\ UNCHANGED <<owner, peer, wire, got, alive>>
    BY <1>3, <1>6, <1>25, <1>1 DEF WebEnd, Reports, TypeOK, WatchFor, kernel
  <2>1. Others(c) /\ SlotsClear'
    BY <1>3, <1>10, <2>0, QuietOthers
  <2>2. CASE peer[c] = "open"
    <3>1. Taken(c)' = Taken(c) /\ InOrder(c)'
      BY <1>5, <1>11, <2>0, <2>2 DEF Taken, InOrder
    <3>2. SiteProgress(c, 2)
      BY <1>11, <2>0, <2>2
    <3>3. SiteProgress(c, 0)'
      BY <1>4, <1>5, <2>0, <3>1, <3>2 DEF SiteProgress, Roomy, Bodies, Alternates
    <3> QED
      BY <1>4, <1>9, <1>12, <2>0, <2>1, <2>2, <3>1, <3>3
  <2>3. CASE peer[c] # "open"
    BY <1>3, <1>4, <1>9, <1>14, <2>0, <2>1, <2>3 DEF Gone
  <2> QED
    BY <2>2, <2>3
<1> QED
  BY <1>21, <1>22, <1>23, <1>24, <1>25

-----------------------------------------------------------------------------
(* The Websocket servers.                                                  *)

\* What is known of a client that is served.
LEMMA ServedFacts ==
  ASSUME Base, ProgressInv, NEW c \in Client, Accepted(c), NEW f, f = FdOf(c)
  PROVE  /\ TypeOK /\ OnePlace /\ Processes /\ f \in Fd /\ owner[f] = c
         /\ \A g \in Fd : owner[g] = c <=> g = f
         /\ peer[c] # "away" /\ NULL \notin Client
         /\ got \in [Client -> Seq(Piece)] /\ out \in [Client -> Seq(Piece)] /\ SlotsClear /\ Progress(c)
         /\ peer[c] = "open" => InOrder(c) /\ Serving(c, f) /\ Taken(c) \in Nat
<1>1. /\ TypeOK /\ OnePlace /\ Processes /\ f \in Fd /\ owner[f] = c /\ (\A g \in Fd : owner[g] = c <=> g = f)
      /\ peer[c] # "away" /\ NULL \notin Client
  BY EntryOf DEF Base, OnePlace
<1>2. /\ got \in [Client -> Seq(Piece)] /\ out \in [Client -> Seq(Piece)] /\ SlotsClear /\ Progress(c)
  BY DEF ProgressInv
<1> QED
  BY <1>1, <1>2, ProgressIn, TakenType

\* What is to be shown of a step about it.
LEMMA ServedStep ==
  ASSUME ProgressInv, UNCHANGED <<design, limit>>, NEW c \in Client, NEW f \in Fd,
         \A g \in Fd : owner[g] = c <=> g = f,
         got' \in [Client -> Seq(Piece)], out' \in [Client -> Seq(Piece)], SlotsClear',
         Others(c), LocalsKept(c), phase'[c] = "lines" => design \in OneRequest,
         \/ Gone(c)
         \/ /\ peer'[c] = "open" /\ (\A g \in Fd : owner'[g] = c <=> owner[g] = c)
            /\ InOrder(c)' /\ Serving(c, f)'
  PROVE  ProgressInv'
<1>1. Progress(c)'
  BY ProgressKept, ProgressOut DEF ProgressInv
<1> QED
  BY <1>1, ProgressOfOne DEF Others, LocalsKept

\* Only 03_Webserver and 04_Websocket have slots.
LEMMA NoSlots ==
  ASSUME design \notin {"web", "ws"}, design' = design
  PROVE  SlotsClear'
BY DEF SlotsClear

\* What a connection has got stays framed as more is received.
LEMMA FramedLonger ==
  ASSUME NEW k, NEW s, NEW n \in Nat, NEW l \in Nat, l >= n, FramedBy(k, n, s)
  PROVE  FramedBy(k, l, s)
<1>1. s \in Seq(Packets) /\ \A i \in 1 .. Len(s) : s[i] \in Packets
  BY DEF FramedBy
<1>2. \A i \in 1 .. Len(s) : s[i][2] \in Nat
  BY <1>1 DEF Packets
<1>3. \A i \in 1 .. Len(s) : s[i][2] <= l
  BY <1>2 DEF FramedBy
<1> QED
  BY <1>3 DEF FramedBy

\* The switch of protocols comes first.
LEMMA FramedFirst ==
  ASSUME NEW k, NEW n \in Nat
  PROVE  FirstOf(k) \in Packets /\ FramedBy(k, n, <<>>) /\ FramedBy(k, n, <<FirstOf(k)>>)
<1>1. PICK x : x = FirstOf(k)
  OBVIOUS
<1>2. x \in Packets /\ x[2] = 0 /\ x[1] \in {"101", "101x"}
  BY <1>1 DEF FirstOf, Packets
<1>3. PICK s : s = <<x>>
  OBVIOUS
<1>4. s \in Seq(Packets) /\ Len(s) = 1 /\ s[1] = x
  BY <1>2, <1>3
<1>5. \A i \in 1 .. Len(s) : i = 1 /\ s[i] = x
  BY <1>4
<1>6. FramedBy(k, n, s)
  BY <1>1, <1>2, <1>4, <1>5 DEF FramedBy
<1>7. FramedBy(k, n, <<>>)
  BY DEF FramedBy
<1> QED
  BY <1>1, <1>2, <1>3, <1>6, <1>7

\* encode_packet: the next frame, or noise, comes after those before it.
LEMMA FramedMore ==
  ASSUME NEW k, NEW s, NEW n \in Nat \ {0}, NEW l \in Nat, l > n, FramedBy(k, n, s),
         k # "nokey" => s # <<>>,
         NEW x \in Packets, x = <<"frame", n + 1>> \/ (x = <<"noise", 0>> /\ k \notin {"upgrade", "zero"})
  PROVE  FramedBy(k, l, s \o <<x>>)
<1>2. /\ x[2] \in {0, n + 1} /\ x[1] \in {"frame", "noise"}
      /\ x[1] = "frame" => x[2] = n + 1
      /\ k \in {"upgrade", "zero"} => x[1] = "frame"
  OBVIOUS
<1>3. s \in Seq(Packets) /\ \A i \in 1 .. Len(s) : s[i] \in Packets
  BY DEF FramedBy
<1>4. \A i \in 1 .. Len(s) : s[i][2] \in Nat
  BY <1>3 DEF Packets
<1>5. PICK t : t = s \o <<x>>
  OBVIOUS
<1>6. /\ t \in Seq(Packets) /\ Len(t) = Len(s) + 1 /\ Len(s) \in Nat
      /\ (\A i \in 1 .. Len(s) : t[i] = s[i]) /\ t[Len(s) + 1] = x
  BY <1>2, <1>3, <1>5, OneMore
<1>7. \A i \in 1 .. Len(s) : s[i][2] <= n /\ s[i][2] < n + 1
  BY <1>4 DEF FramedBy
<1>8. \A i \in 1 .. Len(t) : i \in 1 .. Len(s) \/ i = Len(s) + 1
  BY <1>6
<1>9. ASSUME k # "nokey" PROVE t[1] = FirstOf(k)
  <2>1. s # <<>> /\ s[1] = FirstOf(k)
    BY <1>9 DEF FramedBy
  <2>2. 1 \in 1 .. Len(s)
    BY <2>1, <1>3
  <2> QED
    BY <2>1, <2>2, <1>6
<1>10. \A i \in 1 .. Len(t) : t[i][2] <= l
  <2>1. x[2] <= l
    BY <1>2
  <2>2. \A i \in 1 .. Len(s) : s[i][2] <= l
    BY <1>4, <1>7
  <2> QED
    BY <2>1, <2>2, <1>6, <1>8
<1>11. ASSUME NEW i \in 1 .. Len(t), NEW j \in 1 .. Len(t), i < j, t[j][1] = "frame"
       PROVE  t[i][2] < t[j][2]
  <2>1. i \in 1 .. Len(s) /\ t[i] = s[i]
    BY <1>6, <1>8, <1>11
  <2>2. CASE j \in 1 .. Len(s)
    BY <1>6, <1>11, <2>1, <2>2 DEF FramedBy
  <2>3. CASE j = Len(s) + 1
    BY <1>2, <1>6, <1>7, <1>11, <2>1, <2>3
  <2> QED
    BY <1>8, <2>2, <2>3
<1>12. k \in {"upgrade", "zero"} => \A i \in 1 .. Len(t) : t[i][1] # "noise"
  BY <1>2, <1>6, <1>8 DEF FramedBy
<1> QED
  BY <1>5, <1>6, <1>9, <1>10, <1>11, <1>12 DEF FramedBy

\* decode_packet finds a frame in everything but the first message of a client
\* whose frames are short.
LEMMA PacketIs ==
  ASSUME NEW c, NEW n \in Nat, NEW m, m[2] = n + 1
  PROVE  /\ Packet(c, m) \in Packets
         /\ n > 0 => \/ Packet(c, m) = <<"frame", n + 1>>
                     \/ Packet(c, m) = <<"noise", 0>> /\ kind[c] \notin {"upgrade", "zero"}
<1>1. <<"frame", n + 1>> \in Packets /\ <<"noise", 0>> \in Packets
  BY DEF Packets
<1>2. n > 0 => m[2] > 1
  OBVIOUS
<1> QED
  BY <1>1, <1>2 DEF Packet, Decoded

\* The first message that recv returns.
LEMMA FirstMessage ==
  ASSUME TypeOK, NEW c \in Client, Available(c)
  PROVE  \E n \in Nat : Head(Chunk(c))[2] = n
<1>1. wire[c] \in Seq(Client \X Nat) /\ wire[c] # <<>> /\ BufMax \in Nat \ {0} /\ Len(wire[c]) \in Nat
  BY DEF TypeOK, Available
<1>2. Min({BufMax, Len(wire[c])}) \in {BufMax, Len(wire[c])} /\ Min({BufMax, Len(wire[c])}) <= Len(wire[c])
  BY <1>1, NatMin
<1>3. PICK n : n = Min({BufMax, Len(wire[c])})
  OBVIOUS
<1>4. Len(wire[c]) # 0
  BY <1>1
<1>5. n \in Nat \ {0} /\ n <= Len(wire[c])
  BY <1>1, <1>2, <1>3, <1>4
<1>6. Head(Chunk(c)) = wire[c][1]
  BY <1>1, <1>3, <1>5 DEF Chunk
<1>7. Head(Chunk(c)) \in Client \X Nat
  BY <1>1, <1>4, <1>6
<1> QED
  BY <1>7

\* What a frame or the switch of protocols is made of.
LEMMA PacketPieces ==
  ASSUME TypeOK, NEW c \in Client, Available(c)
  PROVE  /\ Switch(c) = FirstOf(kind[c])
         /\ <<Switch(c)>> \in Seq(Piece) /\ <<Packet(c, Head(Chunk(c)))>> \in Seq(Piece)
<1>1. PICK n \in Nat : Head(Chunk(c))[2] = n
  BY FirstMessage
<1>2. Packet(c, Head(Chunk(c))) \in Packets
  BY <1>1 DEF Packet, Packets
<1>3. Switch(c) = FirstOf(kind[c]) /\ Switch(c) \in Packets
  BY FramedFirst DEF Switch, FirstOf, Packets
<1> QED
  BY <1>2, <1>3 DEF Piece

\* The handlers of 04_Websocket.
LEMMA WsSteps ==
  ASSUME Base, ProgressInv, NEW c \in Client, WsRecv(c) \/ WsRecvEnds(c) \/ WsSend(c),
         UNCHANGED <<coroutineVars, workerVars>>
  PROVE  ProgressInv'
<1>1. PICK f : f = FdOf(c)
  OBVIOUS
<1>2. design = "ws" /\ Accepted(c) /\ UNCHANGED <<design, limit, sent, kind, phase, hand>>
  BY DEF WsRecv, WsRecvEnds, WsSend, Serves, coroutineVars
<1>3. /\ TypeOK /\ OnePlace /\ Processes /\ f \in Fd /\ owner[f] = c
      /\ \A g \in Fd : owner[g] = c <=> g = f
      /\ peer[c] # "away" /\ NULL \notin Client
      /\ got \in [Client -> Seq(Piece)] /\ out \in [Client -> Seq(Piece)] /\ SlotsClear
      /\ peer[c] = "open" => InOrder(c) /\ Serving(c, f) /\ Taken(c) \in Nat
  BY <1>1, <1>2, ServedFacts
<1>4. watch \in [Client -> {"NONE", "IN", "OUT"}] /\ status \in [Fd -> 0 .. 2]
  BY <1>3 DEF TypeOK
<1>5. phase'[c] = "lines" => design \in OneRequest
  BY <1>2 DEF ProgressInv
<1>6. ASSUME peer[c] = "open", f \notin used PROVE WsProgress(c, status[f])
  BY <1>2, <1>3, <1>6 DEF Serving
<1>7. ASSUME f \notin used' => WsProgress(c, status[f])' PROVE Serving(c, f)'
  BY <1>2, <1>7 DEF Serving, OneRequest, Prefork
<1>8. ASSUME (owner' = owner /\ alive' = alive) \/ ~alive', used' = used, status' = status \/ Slots(f, 1)
      PROVE  SlotsClear'
  BY <1>2, <1>3, <1>8 DEF SlotsClear, Slots
<1>11. CASE WsRecv(c)
  <2>1. PICK m : m = Head(Chunk(c))
    OBVIOUS
  <2>2. /\ UNCHANGED <<peer, owner, got, alive, used>> /\ TakeChunk(c) /\ Available(c)
        /\ watch[c] = "IN" /\ watch' = [watch EXCEPT ![c] = "OUT"]
        /\ status' = [status EXCEPT ![f] = 1]
    BY <1>1, <1>11 DEF WsRecv, WatchFor
  <2>3. /\ status[f] = 1 => out' = [out EXCEPT ![c] = <<Packet(c, m)>>]
        /\ status[f] # 1 /\ HasKey(c, m) => out' = [out EXCEPT ![c] = <<Switch(c)>>]
        /\ status[f] # 1 /\ ~HasKey(c, m) => out' = out
    <3>1. out' = CASE status[f] = 1 -> [out EXCEPT ![c] = <<Packet(c, m)>>]
                   [] status[f] # 1 /\ HasKey(c, m) -> [out EXCEPT ![c] = <<Switch(c)>>]
                   [] OTHER -> out
      BY <1>1, <1>11, <2>1, Zenon DEF WsRecv
    <3> QED
      BY <3>1
  <2>4. Slots(f, 1) /\ SlotsClear' /\ Others(c)
    BY <1>3, <1>8, <2>2, StatusAt, QuietOthers
  <2>6. out' \in [Client -> Seq(Piece)] /\ \A d \in Client \ {c} : out'[d] = out[d]
    <3>1. <<Switch(c)>> \in Seq(Piece) /\ <<Packet(c, m)>> \in Seq(Piece)
      BY <1>3, <2>1, <2>2, PacketPieces
    <3>2. ASSUME NEW s \in Seq(Piece), out' = [out EXCEPT ![c] = s]
          PROVE  out' \in [Client -> Seq(Piece)] /\ \A d \in Client \ {c} : out'[d] = out[d]
      BY <1>3, <3>2
    <3>3. CASE status[f] = 1
      BY <2>3, <3>1, <3>2, <3>3
    <3>4. CASE status[f] # 1 /\ HasKey(c, m)
      BY <2>3, <3>1, <3>2, <3>4
    <3>5. CASE status[f] # 1 /\ ~HasKey(c, m)
      BY <1>3, <2>3, <3>5
    <3> QED
      BY <3>3, <3>4, <3>5
  <2>7. LocalsKept(c)
    BY <1>2, <1>3, <1>4, <2>2, <2>4, <2>6 DEF LocalsKept, SameLocal, Slots
  <2>8. CASE peer[c] = "open"
    <3>1. InOrder(c)' /\ Taken(c) \in Nat /\ Taken(c)' \in Nat /\ Taken(c)' > Taken(c) /\ m[2] = Taken(c) + 1
      BY <1>2, <1>3, <2>1, <2>2, <2>8, RecvTakes
    <3>2. status'[f] = 1 /\ watch'[c] = "OUT" /\ got'[c] = got[c]
      BY <1>3, <1>4, <2>2
    <3>3. ASSUME f \notin used PROVE WsProgress(c, 1)'
      <4>1. WsProgress(c, status[f])
        BY <1>6, <2>8, <3>3
      <4>2. CASE status[f] = 0
        <5>1. got[c] = <<>> /\ out[c] = <<>> /\ Taken(c) = 0
          BY <4>1, <4>2 DEF WsProgress
        <5>2. HasKey(c, m) <=> Talks(c)
          BY <3>1, <5>1 DEF HasKey, Talks
        <5>3. out'[c] = IF Talks(c) THEN <<FirstOf(kind[c])>> ELSE <<>>
          BY <1>3, <2>2, <2>3, <4>2, <5>1, <5>2, PacketPieces
        <5>4. FramedBy(kind[c], Taken(c)', <<>>) /\ FramedBy(kind[c], Taken(c)', <<FirstOf(kind[c])>>)
          BY <3>1, FramedFirst
        <5>5. got'[c] \o out'[c] = out'[c]
          <6>1. \A y : <<>> \o <<y>> = <<y>>
            OBVIOUS
          <6> QED
            BY <3>2, <5>1, <5>3, <6>1
        <5>6. Talks(c) => out'[c] # <<>>
          BY <5>3
        <5> QED
          BY <1>2, <3>1, <3>2, <5>1, <5>3, <5>4, <5>5, <5>6 DEF WsProgress, Talks, Framed
      <4>3. CASE status[f] = 1
        <5>1. Taken(c) > 0 /\ FramedBy(kind[c], Taken(c), got[c]) /\ (Talks(c) => got[c] # <<>>)
          BY <2>2, <4>1, <4>3 DEF WsProgress, Framed
        <5>2. PICK x : x = Packet(c, m)
          OBVIOUS
        <5>3. Taken(c) \in Nat \ {0} /\ out'[c] = <<x>>
          BY <1>3, <2>3, <3>1, <4>3, <5>1, <5>2
        <5>4. x \in Packets /\ (x = <<"frame", Taken(c) + 1>> \/ (x = <<"noise", 0>> /\ kind[c] \notin {"upgrade", "zero"}))
          BY <3>1, <5>1, <5>2, PacketIs
        <5>5. FramedBy(kind[c], Taken(c)', got[c] \o <<x>>)
          BY <3>1, <5>1, <5>3, <5>4, FramedMore DEF Talks
        <5>6. FramedBy(kind[c], Taken(c)', got[c])
          BY <3>1, <5>1, FramedLonger
        <5>7. <<x>> # <<>>
          OBVIOUS
        <5> QED
          BY <1>2, <3>1, <3>2, <5>3, <5>5, <5>6, <5>7 DEF WsProgress, Framed
      <4> QED
        BY <4>1, <4>2, <4>3 DEF WsProgress
    <3>4. Serving(c, f)'
      BY <1>7, <2>2, <3>2, <3>3
    <3> QED
      BY <1>2, <1>3, <1>5, <2>2, <2>4, <2>6, <2>7, <2>8, <3>1, <3>4, ServedStep
  <2>9. CASE peer[c] # "open"
    <3>1. Gone(c)
      BY <1>3, <2>2, <2>9 DEF Gone
    <3> QED
      BY <1>2, <1>3, <1>5, <2>2, <2>4, <2>6, <2>7, <3>1, ServedStep
  <2> QED
    BY <2>8, <2>9
<1>12. CASE WsRecvEnds(c)
  <2>1. /\ UNCHANGED <<got, alive, out, status>> /\ Close(c) /\ watch' = [watch EXCEPT ![c] = "NONE"]
        /\ used' = used \cup {f}
    BY <1>1, <1>12 DEF WsRecvEnds, WatchFor
  <2>2. Others(c) /\ Gone(c) /\ \A g \in Fd : owner'[g] = NULL <=> owner[g] = NULL \/ g = f
    BY <1>1, <1>2, <1>3, <2>1, CloseOthers
  <2>3. SlotsClear'
    BY <1>2, <1>3, <2>1, <2>2 DEF SlotsClear
  <2>4. LocalsKept(c)
    BY <1>2, <1>3, <1>4, <2>1 DEF LocalsKept, SameLocal
  <2> QED
    BY <1>2, <1>3, <1>5, <2>1, <2>2, <2>3, <2>4, ServedStep
<1>13. CASE WsSend(c)
  <2>1. /\ UNCHANGED <<out, status, used>> /\ watch[c] = "OUT" /\ watch' = [watch EXCEPT ![c] = "IN"]
    BY <1>13 DEF WsSend, WatchFor
  <2>2. LocalsKept(c)
    BY <1>2, <1>3, <1>4, <2>1 DEF LocalsKept, SameLocal
  <2>3. ASSUME peer[c] = "open", SameConn(c), got'[c] = got[c] \o out[c]
        PROVE  InOrder(c)' /\ Serving(c, f)'
    <3>1. InOrder(c)' /\ Taken(c)' = Taken(c)
      BY <1>2, <1>3, <2>3 DEF InOrder, Taken, SameConn
    <3>2. ASSUME f \notin used PROVE WsProgress(c, status[f])'
      <4>1. WsProgress(c, status[f]) /\ status[f] # 0
        BY <1>6, <2>1, <2>3, <3>2 DEF WsProgress
      <4>2. Taken(c) > 0 /\ Framed(c, got[c] \o out[c]) /\ (Talks(c) => out[c] # <<>>) /\ status[f] \in {0, 1}
        BY <2>1, <4>1 DEF WsProgress
      <4>3. FramedBy(kind'[c], Taken(c)', got'[c])
        BY <1>2, <2>3, <3>1, <4>2 DEF Framed
      <4>4. Talks(c) => got[c] \o out[c] # <<>>
        <5>1. got[c] \in Seq(Piece) /\ out[c] \in Seq(Piece)
          BY <1>3
        <5>2. out[c] # <<>> => Len(out[c]) # 0
          BY <5>1
        <5>3. Len(got[c] \o out[c]) = Len(got[c]) + Len(out[c]) /\ Len(got[c]) \in Nat /\ Len(out[c]) \in Nat
          BY <5>1
        <5>4. out[c] # <<>> => Len(got[c] \o out[c]) # 0
          <6>1. PICK a, b : a = Len(got[c]) /\ b = Len(out[c])
            OBVIOUS
          <6>2. a \in Nat /\ b \in Nat /\ Len(got[c] \o out[c]) = a + b /\ (out[c] # <<>> => b # 0)
            BY <5>2, <5>3, <6>1
          <6> QED
            BY <6>2
        <5> QED
          BY <4>2, <5>4
      <4>5. watch'[c] = "IN" /\ status'[f] = status[f] /\ (Talks(c)' <=> Talks(c))
        BY <1>2, <1>4, <2>1 DEF Talks
      <4> QED
        BY <2>3, <3>1, <4>1, <4>2, <4>3, <4>4, <4>5 DEF WsProgress, Framed
    <3> QED
      BY <1>7, <2>1, <3>1, <3>2
  <2>4. CASE out[c] = <<>>
    <3>1. UNCHANGED <<owner, peer, wire, got, alive>>
      BY <1>13, <2>4 DEF WsSend
    <3>2. Others(c) /\ SlotsClear' /\ SameConn(c)
      BY <1>3, <1>8, <2>1, <3>1, QuietOthers DEF SameConn
    <3>3. got[c] \o out[c] = got[c]
      BY <1>3, <2>4
    <3>4. peer[c] = "open" \/ Gone(c)
      BY <1>3, <3>1 DEF Gone
    <3> QED
      BY <1>2, <1>3, <1>5, <2>1, <2>2, <2>3, <3>1, <3>2, <3>3, <3>4, ServedStep
  <2>5. CASE out[c] # <<>>
    <3>1. Sends(c, out[c]) /\ out[c] \in Seq(Piece)
      BY <1>3, <1>13, <2>5 DEF WsSend
    <3>2. /\ Others(c) /\ Replies(c, out[c]) /\ got' \in [Client -> Seq(Piece)]
          /\ (owner' = owner /\ alive' = alive) \/ (design \notin Prefork => ~alive')
      BY <1>2, <1>3, <3>1, SendsOthers
    <3>3. SlotsClear'
      BY <1>2, <1>8, <2>1, <3>2 DEF Prefork
    <3>4. Gone(c) \/ (peer[c] = "open" /\ SameConn(c) /\ InOrder(c)' /\ Serving(c, f)')
      BY <2>3, <3>2 DEF Replies
    <3> QED
      BY <1>2, <1>3, <1>5, <2>1, <2>2, <3>2, <3>3, <3>4, ServedStep DEF SameConn
  <2> QED
    BY <2>4, <2>5
<1> QED
  BY <1>11, <1>12, <1>13

-----------------------------------------------------------------------------
(* The servers with coroutines.                                            *)

\* A reply that goes out in two parts is the same reply.
LEMMA SplitReply ==
  ASSUME NEW s \in Seq(Piece), NEW t \in Seq(Piece), NEW n \in 1 .. Len(t)
  PROVE  /\ SubSeq(t, 1, n) \in Seq(Piece) /\ SubSeq(t, n + 1, Len(t)) \in Seq(Piece)
         /\ (s \o SubSeq(t, 1, n)) \o SubSeq(t, n + 1, Len(t)) = s \o t
<1>1. Len(t) \in Nat /\ Len(s) \in Nat /\ n \in Nat /\ n <= Len(t)
  OBVIOUS
<1>2. PICK a : a = SubSeq(t, 1, n)
  OBVIOUS
<1>3. PICK b : b = SubSeq(t, n + 1, Len(t))
  OBVIOUS
<1>4. a \in Seq(Piece) /\ Len(a) = n /\ \A i \in 1 .. n : a[i] = t[i]
  BY <1>1, <1>2
<1>5. b \in Seq(Piece) /\ Len(b) = Len(t) - n /\ \A i \in 1 .. (Len(t) - n) : b[i] = t[n + i]
  BY <1>1, <1>3
<1>6. PICK u : u = (s \o a) \o b
  OBVIOUS
<1>7. s \o a \in Seq(Piece) /\ Len(s \o a) = Len(s) + n
      /\ \A i \in 1 .. Len(s) + n : (s \o a)[i] = IF i <= Len(s) THEN s[i] ELSE t[i - Len(s)]
  BY <1>1, <1>4
<1>8. u \in Seq(Piece) /\ Len(u) = Len(s) + Len(t)
  <2>1. PICK v : v = s \o a
    OBVIOUS
  <2>2. u = v \o b /\ v \in Seq(Piece) /\ b \in Seq(Piece)
    BY <1>5, <1>6, <1>7, <2>1
  <2>3. u \in Seq(Piece) /\ Len(u) = Len(v) + Len(b)
    BY <2>2
  <2>4. PICK x, y, z : x = Len(s) /\ y = Len(t) /\ z = Len(u)
    OBVIOUS
  <2>5. x \in Nat /\ y \in Nat /\ n \in Nat /\ z = (x + n) + (y - n)
    BY <1>1, <1>5, <1>7, <2>1, <2>3, <2>4
  <2>6. z = x + y
    BY <2>5
  <2> QED
    BY <2>3, <2>4, <2>6
<1>9. ASSUME NEW i \in 1 .. Len(u) PROVE u[i] = IF i <= Len(s) THEN s[i] ELSE t[i - Len(s)]
  <2>1. CASE i <= Len(s) + n
    <3>1. u[i] = (s \o a)[i]
      BY <1>1, <1>5, <1>6, <1>7, <1>8, <2>1
    <3> QED
      BY <1>1, <1>7, <1>8, <2>1, <3>1
  <2>2. CASE i > Len(s) + n
    <3>1. u[i] = b[i - (Len(s) + n)]
      BY <1>1, <1>5, <1>6, <1>7, <1>8, <2>2
    <3>2. i - (Len(s) + n) \in 1 .. (Len(t) - n) /\ n + (i - (Len(s) + n)) = i - Len(s) /\ ~(i <= Len(s))
      BY <1>1, <1>8, <2>2
    <3> QED
      BY <1>5, <3>1, <3>2
  <2>3. i \in Int /\ Len(s) + n \in Int
    BY <1>1, <1>8
  <2> QED
    BY <2>1, <2>2, <2>3
<1>10. s \o t \in Seq(Piece) /\ Len(s \o t) = Len(s) + Len(t)
       /\ \A i \in 1 .. Len(s \o t) : (s \o t)[i] = IF i <= Len(s) THEN s[i] ELSE t[i - Len(s)]
  BY <1>1
<1>11. u = s \o t
  <2>1. \A i \in 1 .. Len(u) : u[i] = (s \o t)[i]
    BY <1>8, <1>9, <1>10
  <2> QED
    BY <1>8, <1>10, <2>1
<1> QED
  BY <1>2, <1>3, <1>4, <1>5, <1>6, <1>11

\* What accept_request answers.
LEMMA ReplyIs == \A k : Reply(k) \in Seq(Piece) /\ Len(Reply(k)) = 2 /\ (design' = design => Reply(k)' = Reply(k))
<1>1. \A k : /\ Reply(k) \in {<<"501", "text">>, <<"404", "text">>, <<"200", "page">>}
             /\ design' = design => Reply(k)' = Reply(k)
  BY DEF Reply
<1>2. \A r \in {<<"501", "text">>, <<"404", "text">>, <<"200", "page">>} : r \in Seq(Piece) /\ Len(r) = 2
  <2>1. "501" \in Piece /\ "404" \in Piece /\ "200" \in Piece /\ "text" \in Piece /\ "page" \in Piece
    BY DEF Piece
  <2>2. \A a, b \in Piece : <<a, b>> \in Seq(Piece) /\ Len(<<a, b>>) = 2
    OBVIOUS
  <2> QED
    BY <2>1, <2>2
<1> QED
  BY <1>1, <1>2


\* A send of what was asked for, and what comes of it.
LEMMA ReplyStep ==
  ASSUME Base, ProgressInv, UNCHANGED <<design, limit, sent>>, NEW c \in Client, NEW f, Accepted(c), f = FdOf(c),
         design \notin {"web", "ws"},
         NEW reply \in Seq(Piece), Sends(c, reply), out' \in [Client -> Seq(Piece)], LocalsKept(c),
         phase'[c] = "lines" => design \in OneRequest,
         peer[c] = "open" /\ Taken(c)' = Taken(c) /\ got'[c] = got[c] \o reply => Serving(c, f)'
  PROVE  ProgressInv'
<1>1. /\ TypeOK /\ OnePlace /\ Processes /\ f \in Fd /\ owner[f] = c
      /\ \A g \in Fd : owner[g] = c <=> g = f
      /\ peer[c] # "away" /\ NULL \notin Client
      /\ got \in [Client -> Seq(Piece)] /\ out \in [Client -> Seq(Piece)] /\ SlotsClear
      /\ peer[c] = "open" => InOrder(c) /\ Serving(c, f) /\ Taken(c) \in Nat
  BY ServedFacts
<1>2. Others(c) /\ Replies(c, reply) /\ got' \in [Client -> Seq(Piece)] /\ SlotsClear'
  BY <1>1, SendsOthers, NoSlots
<1>3. CASE Gone(c)
  BY <1>1, <1>2, <1>3, ServedStep
<1>4. CASE peer[c] = "open" /\ SameConn(c) /\ got'[c] = got[c] \o reply
  <2>1. InOrder(c)' /\ Taken(c)' = Taken(c)
    BY <1>1, <1>4 DEF InOrder, Taken, SameConn
  <2>2. peer'[c] = "open" /\ (\A g \in Fd : owner'[g] = c <=> owner[g] = c) /\ Serving(c, f)'
    BY <1>4, <2>1 DEF SameConn
  <2> QED
    BY <1>1, <1>2, <2>1, <2>2, ServedStep
<1> QED
  BY <1>2, <1>3, <1>4 DEF Replies

\* A recv of something.
LEMMA TakeStep ==
  ASSUME Base, ProgressInv, UNCHANGED <<design, limit, sent, owner, peer, got>>,
         NEW c \in Client, NEW f, Accepted(c), f = FdOf(c),
         design \notin {"web", "ws"},
         Available(c), TakeChunk(c), out' \in [Client -> Seq(Piece)], LocalsKept(c),
         phase'[c] = "lines" => design \in OneRequest,
         peer[c] = "open" /\ Taken(c) \in Nat /\ Taken(c)' \in Nat /\ Taken(c)' > Taken(c)
           /\ Head(Chunk(c))[2] = Taken(c) + 1 => Serving(c, f)'
  PROVE  ProgressInv'
<1>1. /\ TypeOK /\ OnePlace /\ Processes /\ f \in Fd /\ owner[f] = c
      /\ \A g \in Fd : owner[g] = c <=> g = f
      /\ peer[c] # "away" /\ NULL \notin Client
      /\ got \in [Client -> Seq(Piece)] /\ out \in [Client -> Seq(Piece)] /\ SlotsClear
      /\ peer[c] = "open" => InOrder(c) /\ Serving(c, f) /\ Taken(c) \in Nat
  BY ServedFacts
<1>2. Others(c) /\ got' \in [Client -> Seq(Piece)] /\ SlotsClear'
  BY <1>1, QuietOthers, NoSlots
<1>3. CASE peer[c] # "open"
  <2>1. Gone(c)
    BY <1>1, <1>3 DEF Gone
  <2> QED
    BY <1>1, <1>2, <2>1, ServedStep
<1>4. CASE peer[c] = "open"
  <2>1. InOrder(c)' /\ Serving(c, f)'
    BY <1>1, <1>4, RecvTakes
  <2> QED
    BY <1>1, <1>2, <1>4, <2>1, ServedStep
<1> QED
  BY <1>3, <1>4

\* A step that ends the connection of c, or leaves it ended.
LEMMA EndedStep ==
  ASSUME Base, ProgressInv, UNCHANGED <<design, limit, got>>, NEW c \in Client, Accepted(c),
         design \notin {"web", "ws"}, out' \in [Client -> Seq(Piece)],
         LocalsKept(c), phase'[c] = "lines" => design \in OneRequest,
         \/ Close(c)
         \/ peer[c] # "open" /\ peer' = peer /\ UNCHANGED <<owner, wire>>
         \/ (\E p \in {"dead", "pipe"} : peer' = [peer EXCEPT ![c] = p]) /\ UNCHANGED <<owner, wire>>
         \/ At(c) \in up /\ Dies(At(c))
  PROVE  ProgressInv'
<1>0. PICK f : f = FdOf(c)
  OBVIOUS
<1>1. /\ TypeOK /\ OnePlace /\ Processes /\ f \in Fd /\ owner[f] = c
      /\ \A g \in Fd : owner[g] = c <=> g = f
      /\ peer[c] # "away" /\ NULL \notin Client
      /\ got \in [Client -> Seq(Piece)] /\ out \in [Client -> Seq(Piece)] /\ SlotsClear
  BY <1>0, ServedFacts
<1>2. got' \in [Client -> Seq(Piece)] /\ SlotsClear' /\ peer \in [Client -> PeerState]
  BY <1>1, NoSlots DEF TypeOK
<1>3. Others(c) /\ Gone(c)
  <2>1. CASE Close(c)
    BY <1>1, <2>1, CloseOthers
  <2>2. CASE peer[c] # "open" /\ peer' = peer /\ UNCHANGED <<owner, wire>>
    BY <1>1, <2>2, QuietOthers DEF Gone
  <2>3. CASE (\E p \in {"dead", "pipe"} : peer' = [peer EXCEPT ![c] = p]) /\ UNCHANGED <<owner, wire>>
    BY <1>1, <1>2, <2>3, QuietOthers DEF Gone
  <2>4. CASE At(c) \in up /\ Dies(At(c))
    BY <1>1, <2>4, DiesOthers DEF Others
  <2> QED
    BY <2>1, <2>2, <2>3, <2>4
<1> QED
  BY <1>1, <1>2, <1>3, ServedStep

\* accept_request of nty_http_server.c and of its mulcore variant.
LEMMA HttpSteps ==
  ASSUME Base, ProgressInv, NEW c \in Client,
         HttpRequest(c) \/ HttpUnset(c) \/ HttpLines(c) \/ HttpSend(c) \/ HttpDone(c),
         UNCHANGED <<statusVars, workerVars>>
  PROVE  ProgressInv'
<1>1. PICK f : f = FdOf(c)
  OBVIOUS
<1>2. Accepted(c) /\ UNCHANGED <<design, limit, sent, watch, hand, status, used>>
  BY DEF HttpRequest, HttpUnset, HttpLines, HttpSend, HttpDone, Turn, Serves, statusVars
<1>3. design \in OneRequest /\ design \notin {"web", "ws"}
  <2>1. design \in OneRequest
    BY DEF HttpRequest, HttpUnset, HttpLines, HttpSend, HttpDone, Turn, ProgressInv
  <2> QED
    BY <2>1 DEF OneRequest
<1>4. /\ TypeOK /\ OnePlace /\ Processes /\ f \in Fd /\ owner[f] = c
      /\ \A g \in Fd : owner[g] = c <=> g = f
      /\ peer[c] # "away" /\ NULL \notin Client
      /\ got \in [Client -> Seq(Piece)] /\ out \in [Client -> Seq(Piece)] /\ SlotsClear
      /\ peer[c] = "open" => InOrder(c) /\ Serving(c, f) /\ Taken(c) \in Nat
  BY <1>1, <1>2, ServedFacts
<1>5. /\ phase \in [Client -> {"none", "recv", "lines", "send", "left"}]
      /\ kind \in [Client -> HttpKind \cup WsKind] /\ peer \in [Client -> PeerState] /\ At(c) \in up
  BY <1>2, <1>4, EntryOf DEF TypeOK
<1>6. ASSUME RequestProgress(c)' PROVE Serving(c, f)'
  BY <1>2, <1>3, <1>6 DEF Serving, OneRequest, Prefork
<1>7. peer[c] = "open" => RequestProgress(c)
  BY <1>3, <1>4 DEF Serving
<1>8. ASSUME \A d \in Client \ {c} : kind'[d] = kind[d] /\ out'[d] = out[d] /\ phase'[d] = phase[d]
      PROVE  LocalsKept(c)
  BY <1>2, <1>8 DEF LocalsKept, SameLocal
<1>9. \A k : Reply(k) \in Seq(Piece) /\ Len(Reply(k)) = 2 /\ Reply(k)' = Reply(k)
  BY <1>2, ReplyIs
<1>10. kind' = kind => Reply(kind[c])' = Reply(kind[c])
  BY <1>2 DEF Reply
<1>11. CASE HttpRequest(c)
  <2>1. /\ UNCHANGED <<peer, owner, got, kind>> /\ TakeChunk(c) /\ Available(c) /\ phase[c] = "recv"
        /\ out' = [out EXCEPT ![c] = Reply(kind[c])]
        /\ \E p \in {"lines", "send"} : phase' = [phase EXCEPT ![c] = p]
    BY <1>11 DEF HttpRequest, Decides, GoesTo, Turn
  <2>2. out' \in [Client -> Seq(Piece)] /\ LocalsKept(c)
    BY <1>4, <1>5, <1>8, <1>9, <2>1
  <2>3. ASSUME peer[c] = "open" PROVE Serving(c, f)'
    <3>1. got'[c] = <<>> /\ out'[c] = Reply(kind[c]) /\ phase'[c] \in {"lines", "send"}
      BY <1>4, <1>5, <1>7, <2>1, <2>3 DEF RequestProgress
    <3>2. PICK r : r = Reply(kind[c])
      OBVIOUS
    <3>3. r \in Seq(Piece) /\ Reply(kind[c])' = r
      BY <1>9, <1>10, <2>1, <3>2
    <3>4. <<>> \o r = r
      BY <3>3
    <3> QED
      BY <1>6, <3>1, <3>2, <3>3, <3>4 DEF RequestProgress
  <2> QED
    BY <1>1, <1>2, <1>3, <2>1, <2>2, <2>3, TakeStep
<1>12. CASE HttpUnset(c)
  <2>1. /\ UNCHANGED <<owner, wire, got>>
        /\ ((Ended(c) /\ UNCHANGED peer) \/ TakeError(c))
        /\ \E k \in HttpKind : /\ out' = [out EXCEPT ![c] = Reply(k)] /\ kind' = [kind EXCEPT ![c] = k]
                               /\ \E p : phase' = [phase EXCEPT ![c] = p]
    BY <1>12 DEF HttpUnset, Decides, GoesTo
  <2>2. out' \in [Client -> Seq(Piece)] /\ LocalsKept(c)
    BY <1>4, <1>5, <1>8, <1>9, <2>1
  <2> QED
    BY <1>1, <1>2, <1>3, <2>1, <2>2, EndedStep DEF Ended, TakeError
<1>13. CASE HttpLines(c)
  <2>1. /\ UNCHANGED <<owner, got, kind, out>> /\ phase[c] = "lines" /\ phase' = [phase EXCEPT ![c] = "send"]
        /\ \/ Available(c) /\ TakeChunk(c) /\ UNCHANGED peer
           \/ Ended(c) /\ UNCHANGED <<peer, wire>>
           \/ TakeError(c) /\ UNCHANGED wire
    BY <1>13 DEF HttpLines, GoesTo, Turn
  <2>2. out' \in [Client -> Seq(Piece)] /\ LocalsKept(c)
    BY <1>4, <1>5, <1>8, <2>1
  <2>3. ASSUME peer[c] = "open" PROVE Serving(c, f)'
    BY <1>5, <1>6, <1>7, <1>9, <2>1, <2>3 DEF RequestProgress
  <2>4. CASE Available(c) /\ TakeChunk(c) /\ UNCHANGED peer
    BY <1>1, <1>2, <1>3, <2>1, <2>2, <2>3, <2>4, TakeStep
  <2>5. CASE (Ended(c) /\ UNCHANGED <<peer, wire>>) \/ (TakeError(c) /\ UNCHANGED wire)
    BY <1>1, <1>2, <1>3, <2>1, <2>2, <2>5, EndedStep DEF Ended, TakeError
  <2> QED
    BY <2>1, <2>4, <2>5
<1>14. CASE HttpSend(c)
  <2>1. PICK n : n = IF design = "mulcore" /\ out[c][1] # "200" THEN Len(out[c]) ELSE 1
    OBVIOUS
  <2>2. PICK o : o = out[c]
    OBVIOUS
  <2>3. /\ UNCHANGED <<kind, phase>> /\ phase[c] = "send" /\ o # <<>>
        /\ Sends(c, SubSeq(o, 1, n))
        /\ out' = [out EXCEPT ![c] = SubSeq(o, n + 1, Len(o))]
    BY <1>14, <1>4, <2>1, <2>2 DEF HttpSend, Turn
  <2>4. n \in 1 .. Len(o) /\ o \in Seq(Piece) /\ got[c] \in Seq(Piece)
    <3>1. o \in Seq(Piece) /\ Len(o) \in Nat /\ Len(o) # 0
      BY <1>4, <2>2, <2>3
    <3> QED
      BY <1>4, <2>1, <2>2, <3>1
  <2>5. /\ SubSeq(o, 1, n) \in Seq(Piece) /\ SubSeq(o, n + 1, Len(o)) \in Seq(Piece)
        /\ (got[c] \o SubSeq(o, 1, n)) \o SubSeq(o, n + 1, Len(o)) = got[c] \o o
    BY <2>4, SplitReply
  <2>6. out' \in [Client -> Seq(Piece)] /\ LocalsKept(c) /\ out'[c] = SubSeq(o, n + 1, Len(o))
    BY <1>4, <1>8, <2>3, <2>5
  <2>7. ASSUME peer[c] = "open", got'[c] = got[c] \o SubSeq(o, 1, n) PROVE Serving(c, f)'
    <3>1. got[c] \o o = Reply(kind[c]) /\ Reply(kind[c])' = Reply(kind[c])
      BY <1>7, <1>10, <2>2, <2>3, <2>7 DEF RequestProgress
    <3>2. got'[c] \o out'[c] = Reply(kind[c])'
      BY <2>5, <2>6, <2>7, <3>1
    <3>3. phase'[c] = "send"
      BY <2>3
    <3> QED
      BY <1>6, <3>2, <3>3 DEF RequestProgress
  <2>8. phase'[c] = "lines" => design \in OneRequest
    BY <1>3
  <2> QED
    BY <1>1, <1>2, <1>3, <2>3, <2>5, <2>6, <2>7, <2>8, ReplyStep
<1>15. CASE HttpDone(c)
  <2>1. /\ UNCHANGED <<got, kind, out>> /\ phase[c] = "send" /\ out[c] = <<>>
        /\ \/ kind[c] = "other" /\ phase' = [phase EXCEPT ![c] = "left"] /\ UNCHANGED <<owner, peer, wire, alive, up>>
           \/ Dies(1) /\ UNCHANGED phase
           \/ Close(c) /\ phase' = [phase EXCEPT ![c] = "none"]
    BY <1>15 DEF HttpDone, GoesTo, Turn
  <2>2. out' \in [Client -> Seq(Piece)] /\ LocalsKept(c)
    BY <1>4, <1>5, <1>8, <2>1
  <2>3. CASE Dies(1)
    <3>1. At(c) = 1
      BY <1>3, <1>4 DEF At, Home, OneRequest, Prefork
    <3> QED
      BY <1>1, <1>2, <1>3, <1>5, <2>1, <2>2, <2>3, <3>1, EndedStep
  <2>4. CASE Close(c)
    BY <1>1, <1>2, <1>3, <2>1, <2>2, <2>4, EndedStep
  <2>5. CASE kind[c] = "other" /\ phase' = [phase EXCEPT ![c] = "left"] /\ UNCHANGED <<owner, peer, wire, alive, up>>
    <3>1. CASE peer[c] # "open"
      BY <1>1, <1>2, <1>3, <2>1, <2>2, <2>5, <3>1, EndedStep
    <3>2. CASE peer[c] = "open"
      <4>1. Others(c) /\ SlotsClear'
        BY <1>2, <1>3, <1>4, <2>1, <2>5, QuietOthers, NoSlots
      <4>2. InOrder(c)'
        BY <1>2, <1>4, <2>5, <3>2 DEF InOrder, Taken
      <4>3. got[c] = Reply(kind[c])
        <5>1. got[c] \o <<>> = got[c]
          BY <1>4
        <5> QED
          BY <1>7, <2>1, <3>2, <5>1 DEF RequestProgress
      <4>4. IsPrefix(got'[c], Reply(kind[c])') /\ phase'[c] = "left"
        BY <1>5, <1>9, <1>10, <2>1, <2>5, <4>3 DEF IsPrefix
      <4>5. Serving(c, f)'
        BY <1>6, <4>4 DEF RequestProgress
      <4> QED
        BY <1>2, <1>3, <1>4, <2>1, <2>2, <2>5, <3>2, <4>1, <4>2, <4>5, ServedStep
    <3> QED
      BY <3>1, <3>2
  <2> QED
    BY <2>1, <2>3, <2>4, <2>5
<1> QED
  BY <1>11, <1>12, <1>13, <1>14, <1>15

\* A page at the end of what a browser has got.
LEMMA PageMore ==
  ASSUME NEW s \in Seq(Piece), Alternates(s, "200", "page"), Len(s) % 2 = 0
  PROVE  LET t == s \o <<"200", "page">> IN
         Alternates(t, "200", "page") /\ Len(t) = Len(s) + 2 /\ Len(t) % 2 = 0
<1>1. PICK t : t = s \o <<"200", "page">>
  OBVIOUS
<1>2. "200" \in Piece /\ "page" \in Piece
  BY DEF Piece
<1>3. /\ t \in Seq(Piece) /\ Len(t) = Len(s) + 2 /\ Len(s) \in Nat
      /\ \A i \in 1 .. Len(s) : t[i] = s[i]
      /\ t[Len(s) + 1] = "200" /\ t[Len(s) + 2] = "page"
  BY <1>1, <1>2, TwoMore
<1>4. PICK n : n = Len(s)
  OBVIOUS
<1>5. n \in Nat /\ n % 2 = 0 /\ (n + 1) % 2 = 1 /\ (n + 2) % 2 = 0
  BY <1>3, <1>4
<1>6. ASSUME NEW i \in 1 .. Len(t) PROVE t[i] = IF i % 2 = 1 THEN "200" ELSE "page"
  <2>1. i \in 1 .. n \/ i = n + 1 \/ i = n + 2
    BY <1>3, <1>4
  <2>2. CASE i \in 1 .. n
    BY <1>3, <1>4, <2>2 DEF Alternates
  <2>3. CASE i = n + 1
    BY <1>3, <1>4, <1>5, <2>3
  <2>4. CASE i = n + 2
    BY <1>3, <1>4, <1>5, <2>4
  <2> QED
    BY <2>1, <2>2, <2>3, <2>4
<1>7. Alternates(t, "200", "page")
  BY <1>3, <1>6 DEF Alternates
<1> QED
  BY <1>1, <1>3, <1>4, <1>5, <1>7

\* A request is taken: its page is due.
LEMMA PageRecv ==
  ASSUME NEW c \in Client, got \in [Client -> Seq(Piece)], PageProgress(c), ~Answering(c), design' = design,
         Taken(c) \in Nat, Taken(c)' \in Nat, Taken(c)' > Taken(c), got'[c] = got[c],
         design = "counted" => out'[c] = <<"200", "page">>
  PROVE  PageProgress(c)'
<1>1. Len(got[c]) \in Nat /\ Len(got[c]) <= 2 * Taken(c)
  BY DEF PageProgress
<1>2. Len(got[c]) <= 2 * Taken(c)' - 2 /\ Len(got[c]) <= 2 * Taken(c)' - 0
  BY <1>1
<1> QED
  BY <1>2 DEF PageProgress, Alternates

\* The page that is due is sent.
LEMMA PageSend ==
  ASSUME NEW c \in Client, got \in [Client -> Seq(Piece)], PageProgress(c), Answering(c), ~Answering(c)',
         design' = design, Taken(c) \in Nat, Taken(c)' = Taken(c), got'[c] = got[c] \o <<"200", "page">>
  PROVE  PageProgress(c)'
<1>1. PICK s : s = got[c]
  OBVIOUS
<1>a. s \in Seq(Piece) /\ Alternates(s, "200", "page") /\ Len(s) % 2 = 0
  BY <1>1 DEF PageProgress
<1>b. Len(s) <= 2 * Taken(c) - 2
  BY <1>1 DEF PageProgress
<1>c. Len(s) \in Nat
  BY <1>a
<1>2. s \in Seq(Piece) /\ Len(s) \in Nat /\ Alternates(s, "200", "page") /\ Len(s) % 2 = 0 /\ Len(s) <= 2 * Taken(c) - 2
  BY <1>a, <1>b, <1>c
<1>3. PICK t : t = s \o <<"200", "page">>
  OBVIOUS
<1>4. Alternates(t, "200", "page") /\ Len(t) = Len(s) + 2 /\ Len(t) % 2 = 0
  BY <1>2, <1>3, PageMore
<1>5. Len(t) <= 2 * Taken(c)' - 0
  BY <1>2, <1>4
<1> QED
  BY <1>1, <1>3, <1>4, <1>5 DEF PageProgress, Alternates

\* The coroutines of nty_server_mulcore.c and nty_websocket_server.c, and the
\* handshake of the latter.
LEMMA ReaderSteps ==
  ASSUME Base, ProgressInv, NEW c \in Client,
         ReaderRecv(c) \/ ReaderSend(c) \/ ReaderEnds(c) \/ ReaderError(c) \/ Handshake(c) \/ HandshakeUnset(c),
         UNCHANGED <<statusVars, workerVars>>
  PROVE  ProgressInv'
<1>1. PICK f : f = FdOf(c)
  OBVIOUS
<1>2. Accepted(c) /\ UNCHANGED <<design, limit, sent, watch, kind, status, used>>
  BY DEF ReaderRecv, ReaderSend, ReaderEnds, ReaderError, Handshake, HandshakeUnset, Turn, Serves, statusVars
<1>4. /\ TypeOK /\ OnePlace /\ Processes /\ f \in Fd /\ owner[f] = c
      /\ \A g \in Fd : owner[g] = c <=> g = f
      /\ peer[c] # "away" /\ NULL \notin Client
      /\ got \in [Client -> Seq(Piece)] /\ out \in [Client -> Seq(Piece)] /\ SlotsClear
      /\ peer[c] = "open" => InOrder(c) /\ Serving(c, f) /\ Taken(c) \in Nat
  BY <1>1, <1>2, ServedFacts
<1>3. design \in {"counted", "wsco"} /\ design \notin {"web", "ws"}
  <2>1. hand = c => design = "wsco"
    BY <1>4 DEF Processes
  <2>2. design \in {"counted", "wsco"}
    BY <2>1 DEF ReaderRecv, ReaderSend, ReaderEnds, ReaderError, Handshake, HandshakeUnset
  <2> QED
    BY <2>2
<1>5. /\ phase \in [Client -> {"none", "recv", "lines", "send", "left"}]
      /\ kind \in [Client -> HttpKind \cup WsKind] /\ peer \in [Client -> PeerState] /\ At(c) \in up
  BY <1>2, <1>4, EntryOf DEF TypeOK
<1>6. ASSUME design = "wsco" => WsCoProgress(c)', design = "counted" => PageProgress(c)' PROVE Serving(c, f)'
  BY <1>2, <1>3, <1>6 DEF Serving, OneRequest, Prefork
<1>7. peer[c] = "open" => (design = "wsco" => WsCoProgress(c)) /\ (design = "counted" => PageProgress(c))
  BY <1>4 DEF Serving
<1>8. ASSUME \A d \in Client \ {c} : out'[d] = out[d] /\ phase'[d] = phase[d], hand' = hand \/ (hand = c /\ hand' = NULL)
      PROVE  LocalsKept(c)
  BY <1>2, <1>4, <1>8 DEF LocalsKept, SameLocal
<1>9. design = "counted" => (Answering(c) <=> phase[c] = "send") /\ (Answering(c)' <=> phase'[c] = "send")
  BY <1>2 DEF Answering
<1>a. phase[c] # "lines"
  BY <1>3 DEF ProgressInv, OneRequest
<1>11. CASE ReaderRecv(c)
  <2>1. PICK m : m = Head(Chunk(c))
    OBVIOUS
  <2>2. PICK o : o = IF design = "wsco" THEN <<Packet(c, m)>> ELSE <<"200", "page">>
    OBVIOUS
  <2>3. /\ UNCHANGED <<peer, owner, got, hand>> /\ TakeChunk(c) /\ Available(c) /\ phase[c] = "recv" /\ hand = NULL
        /\ out' = [out EXCEPT ![c] = o] /\ phase' = [phase EXCEPT ![c] = "send"]
    BY <1>11, <2>1, <2>2 DEF ReaderRecv, GoesTo, Turn
  <2>4. o \in Seq(Piece)
    <3>1. "200" \in Piece /\ "page" \in Piece
      BY DEF Piece
    <3>2. <<"200", "page">> \in Seq(Piece)
      BY <3>1
    <3> QED
      BY <1>4, <2>1, <2>2, <2>3, <3>2, PacketPieces
  <2>5. out' \in [Client -> Seq(Piece)] /\ LocalsKept(c) /\ out'[c] = o /\ phase'[c] = "send"
    BY <1>4, <1>5, <1>8, <2>3, <2>4
  <2>6. ASSUME peer[c] = "open", Taken(c) \in Nat, Taken(c)' \in Nat, Taken(c)' > Taken(c), m[2] = Taken(c) + 1
        PROVE  Serving(c, f)'
    <3>1. CASE design = "counted"
      <4>1. PageProgress(c)'
        BY <1>2, <1>4, <1>7, <1>9, <2>2, <2>3, <2>5, <2>6, <3>1, PageRecv
      <4> QED
        BY <1>6, <3>1, <4>1
    <3>2. CASE design = "wsco"
      <4>0. hand # c /\ hand' # c
        BY <1>4, <2>3
      <4>1. Taken(c) > 0 /\ FramedBy(kind[c], Taken(c), got[c]) /\ (Talks(c) => got[c] # <<>>)
        BY <1>7, <2>6, <3>2, <4>0 DEF WsCoProgress, Framed
      <4>2. PICK x : x = Packet(c, m)
        OBVIOUS
      <4>3. Taken(c) \in Nat \ {0} /\ out'[c] = <<x>>
        BY <2>2, <2>5, <2>6, <3>2, <4>1, <4>2
      <4>4. x \in Packets /\ (x = <<"frame", Taken(c) + 1>> \/ (x = <<"noise", 0>> /\ kind[c] \notin {"upgrade", "zero"}))
        BY <2>6, <4>1, <4>2, PacketIs
      <4>5. FramedBy(kind[c], Taken(c)', got[c] \o <<x>>)
        BY <2>6, <4>1, <4>3, <4>4, FramedMore DEF Talks
      <4>6. FramedBy(kind[c], Taken(c)', got[c])
        BY <2>6, <4>1, FramedLonger
      <4>7. WsCoProgress(c)'
        BY <1>2, <2>3, <2>6, <4>0, <4>1, <4>3, <4>5, <4>6 DEF WsCoProgress, Framed, Talks
      <4> QED
        BY <1>6, <3>2, <4>7
    <3> QED
      BY <1>3, <3>1, <3>2
  <2>7. phase'[c] = "lines" => design \in OneRequest
    BY <2>5
  <2> QED
    BY <1>1, <1>2, <1>3, <2>1, <2>3, <2>5, <2>6, <2>7, TakeStep
<1>12. CASE ReaderSend(c)
  <2>1. /\ UNCHANGED <<out, hand>> /\ phase[c] = "send" /\ phase' = [phase EXCEPT ![c] = "recv"] /\ hand = NULL
        /\ Sends(c, out[c])
    BY <1>12 DEF ReaderSend, GoesTo, Turn
  <2>2. PICK o : o = out[c]
    OBVIOUS
  <2>3. o \in Seq(Piece) /\ out' \in [Client -> Seq(Piece)] /\ LocalsKept(c) /\ phase'[c] = "recv"
    BY <1>4, <1>5, <1>8, <2>1, <2>2
  <2>4. ASSUME peer[c] = "open", Taken(c)' = Taken(c), got'[c] = got[c] \o o
        PROVE  Serving(c, f)'
    <3>1. CASE design = "counted"
      <4>1. PageProgress(c) /\ Answering(c) /\ ~Answering(c)' /\ Taken(c) \in Nat
        BY <1>4, <1>7, <1>9, <2>1, <2>3, <2>4, <3>1
      <4>2. o = <<"200", "page">>
        BY <2>2, <3>1, <4>1 DEF PageProgress
      <4>3. PageProgress(c)'
        BY <1>2, <1>4, <2>4, <4>1, <4>2, PageSend
      <4> QED
        BY <1>6, <3>1, <4>3
    <3>2. CASE design = "wsco"
      <4>0. hand # c /\ hand' # c
        BY <1>4, <2>1
      <4>1. Taken(c) > 0 /\ FramedBy(kind[c], Taken(c), got[c] \o o) /\ (Talks(c) => got[c] # <<>>)
        BY <1>7, <2>1, <2>2, <2>4, <3>2, <4>0 DEF WsCoProgress, Framed
      <4>2. got[c] # <<>> => got[c] \o o # <<>>
        <5>1. PICK s : s = got[c]
          OBVIOUS
        <5>2. s \in Seq(Piece) /\ o \in Seq(Piece)
          BY <1>4, <2>3, <5>1
        <5>3. PICK a, b, l : a = Len(s) /\ b = Len(o) /\ l = Len(s \o o)
          OBVIOUS
        <5>4. a \in Nat /\ b \in Nat /\ l = a + b /\ (s # <<>> => a # 0)
          BY <5>2, <5>3
        <5>5. s # <<>> => l # 0
          BY <5>4
        <5> QED
          BY <5>1, <5>3, <5>5
      <4>3. WsCoProgress(c)'
        BY <1>2, <2>3, <2>4, <4>0, <4>1, <4>2 DEF WsCoProgress, Framed, Talks
      <4> QED
        BY <1>6, <3>2, <4>3
    <3> QED
      BY <1>3, <3>1, <3>2
  <2>5. phase'[c] = "lines" => design \in OneRequest
    BY <2>3
  <2> QED
    BY <1>1, <1>2, <1>3, <2>1, <2>2, <2>3, <2>4, <2>5, ReplyStep
<1>13. CASE ReaderEnds(c)
  <2>1. UNCHANGED <<got, out, hand>> /\ Close(c) /\ phase' = [phase EXCEPT ![c] = "none"]
    BY <1>13 DEF ReaderEnds, GoesTo
  <2>2. LocalsKept(c) /\ phase'[c] = "none" /\ out' \in [Client -> Seq(Piece)]
    BY <1>4, <1>5, <1>8, <2>1
  <2>3. phase'[c] = "lines" => design \in OneRequest
    BY <2>2
  <2> QED
    BY <1>2, <1>3, <2>1, <2>2, <2>3, EndedStep
<1>14. CASE ReaderError(c)
  <2>1. UNCHANGED <<got, out, hand, phase, owner, wire>> /\ TakeError(c)
    BY <1>14 DEF ReaderError
  <2>2. LocalsKept(c) /\ out' \in [Client -> Seq(Piece)] /\ (phase'[c] = "lines" => design \in OneRequest)
    BY <1>4, <1>8, <1>a, <2>1
  <2> QED
    BY <1>2, <1>3, <2>1, <2>2, EndedStep DEF TakeError
<1>15. CASE Handshake(c)
  <2>1. /\ UNCHANGED <<owner, phase, out>> /\ hand = c /\ hand' = NULL /\ Available(c) /\ TakeChunk(c)
        /\ \/ HasKey(c, Head(Chunk(c))) /\ Deliver(c, <<Switch(c)>>)
           \/ HasKey(c, Head(Chunk(c))) /\ SendFails(c) /\ UNCHANGED got
           \/ ~HasKey(c, Head(Chunk(c))) /\ UNCHANGED <<peer, got>>
    BY <1>15 DEF Handshake
  <2>2. design = "wsco" /\ LocalsKept(c) /\ out' \in [Client -> Seq(Piece)]
        /\ (phase'[c] = "lines" => design \in OneRequest) /\ SlotsClear'
    BY <1>2, <1>3, <1>4, <1>8, <1>a, <2>1, NoSlots DEF Processes
  <2>3. CASE peer[c] # "open"
    <3>1. got' = got /\ (peer' = peer \/ \E p \in {"fin", "pipe", "dead"} : peer' = [peer EXCEPT ![c] = p])
      BY <2>1, <2>3 DEF Deliver, SendFails
    <3>2. Gone(c)
      BY <1>4, <1>5, <2>3, <3>1 DEF Gone
    <3>3. Others(c)
      BY <1>4, <2>1, <3>1, QuietOthers
    <3> QED
      BY <1>2, <1>4, <2>1, <2>2, <3>1, <3>2, <3>3, ServedStep
  <2>4. CASE peer[c] = "open"
    <3>1. InOrder(c)' /\ Taken(c) \in Nat /\ Taken(c)' \in Nat /\ Taken(c)' > Taken(c)
          /\ Head(Chunk(c))[2] = Taken(c) + 1
      BY <1>2, <1>4, <2>1, <2>4, RecvTakes
    <3>2. got[c] = <<>> /\ Taken(c) = 0 /\ phase[c] = "recv"
      BY <1>7, <2>1, <2>2, <2>4 DEF WsCoProgress
    <3>3. HasKey(c, Head(Chunk(c))) <=> Talks(c)
      BY <3>1, <3>2 DEF HasKey, Talks
    <3>4. Switch(c) = FirstOf(kind[c]) /\ <<Switch(c)>> \in Seq(Piece)
      BY <1>4, <2>1, PacketPieces
    <3>5. peer' = peer /\ got' = [got EXCEPT ![c] = IF Talks(c) THEN <<FirstOf(kind[c])>> ELSE <<>>]
      <4>1. CASE Talks(c)
        <5>1. got' = [got EXCEPT ![c] = got[c] \o <<Switch(c)>>] /\ peer' = peer
          BY <2>1, <2>4, <3>3, <4>1 DEF Deliver, SendFails
        <5>2. \A y : <<>> \o <<y>> = <<y>>
          OBVIOUS
        <5> QED
          BY <3>2, <3>4, <4>1, <5>1, <5>2
      <4>2. CASE ~Talks(c)
        BY <1>4, <2>1, <3>2, <3>3, <4>2
      <4> QED
        BY <4>1, <4>2
    <3>6. got' \in [Client -> Seq(Piece)] /\ got'[c] = IF Talks(c) THEN <<FirstOf(kind[c])>> ELSE <<>>
      <4>1. <<>> \in Seq(Piece) /\ <<FirstOf(kind[c])>> \in Seq(Piece)
        BY <3>4
      <4> QED
        BY <1>4, <3>5, <4>1
    <3>7. Others(c)
      <4>1. wire \in [Client -> Seq(Client \X Nat)]
        BY <1>4 DEF TypeOK
      <4>2. \A d \in Client \ {c} : wire'[d] = wire[d] /\ got'[d] = got[d]
        BY <1>4, <2>1, <3>5, <4>1 DEF TakeChunk
      <4> QED
        BY <2>1, <3>5, <4>2 DEF Others, SameConn
    <3>8. FramedBy(kind[c], Taken(c)', <<>>) /\ FramedBy(kind[c], Taken(c)', <<FirstOf(kind[c])>>)
      BY <3>1, FramedFirst
    <3>9. hand' # c /\ phase'[c] = "recv" /\ (Talks(c) => got'[c] # <<>>)
      BY <1>4, <2>1, <3>2, <3>6
    <3>10. WsCoProgress(c)'
      BY <1>2, <3>1, <3>2, <3>6, <3>8, <3>9 DEF WsCoProgress, Framed, Talks
    <3>11. Serving(c, f)'
      BY <1>6, <2>2, <3>10
    <3> QED
      BY <1>2, <1>4, <2>1, <2>2, <2>4, <3>1, <3>5, <3>6, <3>7, <3>11, ServedStep
  <2> QED
    BY <2>3, <2>4
<1>16. CASE HandshakeUnset(c)
  <2>1. /\ UNCHANGED <<got, phase, out>> /\ hand = c /\ hand' = NULL
        /\ \/ Ended(c) /\ peer' \in {peer, [peer EXCEPT ![c] = "pipe"]} /\ UNCHANGED <<owner, wire>>
           \/ TakeError(c) /\ UNCHANGED <<owner, wire>>
           \/ Dies(1)
    BY <1>16 DEF HandshakeUnset
  <2>2. LocalsKept(c) /\ out' \in [Client -> Seq(Piece)] /\ (phase'[c] = "lines" => design \in OneRequest)
    BY <1>4, <1>8, <1>a, <2>1
  <2>3. At(c) = 1
    BY <1>3, <1>4 DEF At, Home, Prefork
  <2>4. \/ peer[c] # "open" /\ peer' = peer /\ UNCHANGED <<owner, wire>>
        \/ (\E p \in {"dead", "pipe"} : peer' = [peer EXCEPT ![c] = p]) /\ UNCHANGED <<owner, wire>>
        \/ At(c) \in up /\ Dies(At(c))
    BY <1>5, <2>1, <2>3 DEF Ended, TakeError
  <2> QED
    BY <1>2, <1>3, <2>1, <2>2, <2>4, EndedStep
<1> QED
  BY <1>11, <1>12, <1>13, <1>14, <1>15, <1>16

-----------------------------------------------------------------------------
(* The servers that fork, the acceptors and the clients.                   *)

\* The pages of nty_http_epoll.c and ntyco_httpd.c.
LEMMA ForkedSteps ==
  ASSUME Base, ProgressInv, NEW c \in Client, WebWorkerConn(c), UNCHANGED statusVars
  PROVE  ProgressInv'
<1>1. PICK f : f = FdOf(c)
  OBVIOUS
<1>2. /\ Accepted(c) /\ UNCHANGED <<design, limit, sent, kind, out, hand, status, used>>
      /\ design \in Prefork
  BY DEF WebWorkerConn, EpollRequest, EpollEnds, EpollServe, WorkerRequest, WorkerServe, WorkerEnds,
         EpollTurn, Turn, Serves, statusVars, Prefork
<1>3. design \notin {"web", "ws"} /\ design \notin OneRequest /\ (design = "preepoll" \/ design = "preco")
  BY <1>2 DEF Prefork, OneRequest
<1>4. /\ TypeOK /\ OnePlace /\ Processes /\ f \in Fd /\ owner[f] = c
      /\ \A g \in Fd : owner[g] = c <=> g = f
      /\ peer[c] # "away" /\ NULL \notin Client
      /\ got \in [Client -> Seq(Piece)] /\ out \in [Client -> Seq(Piece)] /\ SlotsClear
      /\ peer[c] = "open" => InOrder(c) /\ Serving(c, f) /\ Taken(c) \in Nat
  BY <1>1, <1>2, ServedFacts
<1>5. /\ phase \in [Client -> {"none", "recv", "lines", "send", "left"}]
      /\ watch \in [Client -> {"NONE", "IN", "OUT"}] /\ peer \in [Client -> PeerState]
      /\ out' \in [Client -> Seq(Piece)]
  BY <1>2, <1>4 DEF TypeOK
<1>6. ASSUME PageProgress(c)' PROVE Serving(c, f)'
  BY <1>2, <1>3, <1>6 DEF Serving
<1>7. peer[c] = "open" => PageProgress(c)
  BY <1>2, <1>4 DEF Serving
<1>8. ASSUME \A d \in Client \ {c} : watch'[d] = watch[d] /\ phase'[d] = phase[d]
      PROVE  LocalsKept(c)
  BY <1>2, <1>8 DEF LocalsKept, SameLocal
<1>9. /\ Answering(c) <=> IF design = "preepoll" THEN watch[c] = "OUT" ELSE phase[c] = "send"
      /\ Answering(c)' <=> IF design = "preepoll" THEN watch'[c] = "OUT" ELSE phase'[c] = "send"
  BY <1>2 DEF Answering
<1>a. phase[c] # "lines"
  BY <1>3 DEF ProgressInv
<1>b. <<"200", "page">> \in Seq(Piece)
  <2>1. "200" \in Piece /\ "page" \in Piece
    BY DEF Piece
  <2> QED
    BY <2>1
<1>10. ASSUME Available(c), TakeChunk(c), UNCHANGED <<peer, owner, got>>, LocalsKept(c), phase'[c] # "lines",
              ~Answering(c)
       PROVE  ProgressInv'
  <2>1. ASSUME peer[c] = "open", Taken(c) \in Nat, Taken(c)' \in Nat, Taken(c)' > Taken(c)
        PROVE  Serving(c, f)'
    BY <1>2, <1>3, <1>4, <1>6, <1>7, <1>10, <2>1, PageRecv
  <2> QED
    BY <1>1, <1>2, <1>3, <1>5, <1>10, <2>1, TakeStep
<1>11. ASSUME Sends(c, <<"200", "page">>), LocalsKept(c), phase'[c] # "lines", Answering(c), ~Answering(c)'
       PROVE  ProgressInv'
  <2>1. ASSUME peer[c] = "open", Taken(c)' = Taken(c), got'[c] = got[c] \o <<"200", "page">>
        PROVE  Serving(c, f)'
    BY <1>2, <1>4, <1>6, <1>7, <1>11, <2>1, PageSend
  <2> QED
    BY <1>1, <1>2, <1>3, <1>5, <1>b, <1>11, <2>1, ReplyStep
<1>21. CASE EpollRequest(c)
  <2>1. /\ design = "preepoll" /\ UNCHANGED <<peer, owner, got, phase>> /\ Available(c) /\ TakeChunk(c)
        /\ watch[c] = "IN" /\ watch' = [watch EXCEPT ![c] = "OUT"]
    BY <1>21 DEF EpollRequest, EpollTurn
  <2> QED
    BY <1>5, <1>8, <1>9, <1>10, <1>a, <2>1
<1>22. CASE EpollEnds(c)
  <2>1. UNCHANGED <<got, phase>> /\ Close(c) /\ watch' = [watch EXCEPT ![c] = "NONE"]
    BY <1>22 DEF EpollEnds
  <2>2. LocalsKept(c) /\ (phase'[c] = "lines" => design \in OneRequest)
    BY <1>5, <1>8, <1>a, <2>1
  <2> QED
    BY <1>2, <1>3, <1>5, <2>1, <2>2, EndedStep
<1>23. CASE EpollServe(c)
  <2>1. /\ design = "preepoll" /\ UNCHANGED phase /\ Sends(c, <<"200", "page">>)
        /\ watch[c] = "OUT" /\ watch' = [watch EXCEPT ![c] = "IN"]
    BY <1>23 DEF EpollServe, EpollTurn
  <2>2. watch'[c] = "IN" /\ LocalsKept(c)
    BY <1>5, <1>8, <2>1
  <2> QED
    BY <1>9, <1>11, <1>a, <2>1, <2>2
<1>24. CASE WorkerRequest(c)
  <2>1. /\ design = "preco" /\ UNCHANGED <<owner, got, watch>>
        /\ phase[c] = "recv" /\ phase' = [phase EXCEPT ![c] = "send"]
        /\ (Available(c) /\ TakeChunk(c) /\ UNCHANGED peer) \/ (TakeError(c) /\ UNCHANGED wire)
    BY <1>24 DEF WorkerRequest, Turn, GoesTo
  <2>2. phase'[c] = "send" /\ LocalsKept(c) /\ ~Answering(c)
    BY <1>5, <1>8, <1>9, <2>1
  <2>3. CASE Available(c) /\ TakeChunk(c) /\ UNCHANGED peer
    BY <1>10, <2>1, <2>2, <2>3
  <2>4. CASE TakeError(c) /\ UNCHANGED wire
    BY <1>2, <1>3, <1>5, <2>1, <2>2, <2>4, EndedStep DEF TakeError
  <2> QED
    BY <2>1, <2>3, <2>4
<1>25. CASE WorkerServe(c)
  <2>1. /\ design = "preco" /\ UNCHANGED watch /\ Sends(c, <<"200", "page">>)
        /\ phase[c] = "send" /\ phase' = [phase EXCEPT ![c] = "recv"]
    BY <1>25 DEF WorkerServe, Turn, GoesTo
  <2>2. phase'[c] = "recv" /\ LocalsKept(c)
    BY <1>5, <1>8, <2>1
  <2> QED
    BY <1>9, <1>11, <2>1, <2>2
<1>26. CASE WorkerEnds(c)
  <2>1. UNCHANGED <<got, watch>> /\ Close(c) /\ phase' = [phase EXCEPT ![c] = "none"]
    BY <1>26 DEF WorkerEnds, GoesTo
  <2>2. LocalsKept(c) /\ phase'[c] = "none"
    BY <1>5, <1>8, <2>1
  <2> QED
    BY <1>2, <1>3, <1>5, <2>1, <2>2, EndedStep
<1> QED
  BY <1>21, <1>22, <1>23, <1>24, <1>25, <1>26 DEF WebWorkerConn

\* A client that is taken on has got nothing yet.
LEMMA WelcomeStep ==
  ASSUME Base, ProgressInv, NEW w, AcceptAt(w), NEW c, c = Head(backlog), alive' = alive, alive,
         UNCHANGED <<design, limit, got, peer, wire, sent, kind, status, used>>,
         out' \in [Client -> Seq(Piece)], \A d \in Client \ {c} :
           out'[d] = out[d] /\ phase'[d] = phase[d] /\ watch'[d] = watch[d] /\ (hand' = d <=> hand = d),
         phase'[c] # "lines",
         design = "web" => watch'[c] = "IN",
         design = "ws" => watch'[c] = "IN" /\ out'[c] = <<>>,
         design \in OneRequest => phase'[c] = "recv",
         design = "wsco" => phase'[c] = "recv" /\ hand' = c,
         design \in Prefork \cup {"counted"} =>
           IF design = "preepoll" THEN watch'[c] = "IN" ELSE phase'[c] = "recv"
  PROVE  ProgressInv'
<1>1. TypeOK /\ OnePlace
  BY DEF Base
<1>2. /\ c \in Client /\ Others(c)
      /\ \A f \in Fd : owner[f] # c
      /\ \A f \in Fd : owner'[f] = NULL => owner[f] = NULL
      /\ \E f \in Fd : owner[f] = NULL /\ \A g \in Fd : owner'[g] = c <=> g = f
  BY <1>1, AcceptOthers
<1>3. PICK f \in Fd : owner[f] = NULL /\ \A g \in Fd : owner'[g] = c <=> g = f
  BY <1>2
<1>4. SlotsClear /\ SlotsClear' /\ Progress(c) /\ got' \in [Client -> Seq(Piece)]
  BY <1>2 DEF ProgressInv, SlotsClear
<1>5. \A d \in Client \ {c} : (SameConn(d) \/ Gone(d)) /\ got'[d] = got[d] /\ SameLocal(d)
  BY <1>2 DEF Others, SameLocal
<1>6. Progress(c)'
  <2>1. CASE peer[c] # "open"
    <3>1. peer[c] # "away"
      <4>1. backlog \in Seq(Client) /\ backlog # <<>>
        BY <1>1 DEF TypeOK, AcceptAt
      <4>2. c = backlog[1] /\ 1 \in DOMAIN backlog
        BY <4>1
      <4> QED
        BY <1>1, <4>2 DEF OnePlace
    <3> QED
      BY <2>1, <3>1 DEF Progress
  <2>2. CASE peer[c] = "open"
    <3>1. InOrder(c) /\ got[c] = <<>> /\ Taken(c) = 0
      BY <1>2, <1>4, <2>2 DEF Progress
    <3>2. InOrder(c)' /\ Taken(c)' = 0 /\ got'[c] = <<>> /\ Len(got'[c]) = 0
      BY <3>1 DEF InOrder, Taken
    <3>3. design = "web" => SiteProgress(c, status[f])'
      <4>1. SUFFICES ASSUME design = "web" PROVE SiteProgress(c, status[f])'
        OBVIOUS
      <4>2. status'[f] = 0 /\ watch'[c] = "IN"
        BY <1>3, <1>4, <4>1 DEF SlotsClear
      <4>3. Bodies(<<>>) /\ Alternates(<<>>, "header", "body") /\ Len(<<>>) % 2 = 0
        BY DEF Bodies, Alternates
      <4>4. 0 <= 2 * Taken(c)' - 0
        BY <3>2
      <4> QED
        BY <3>2, <4>2, <4>3, <4>4 DEF SiteProgress, Bodies, Alternates, Roomy
    <3>4. design \in OneRequest => RequestProgress(c)'
      BY <3>2 DEF RequestProgress
    <3>5. design = "ws" /\ f \notin used => WsProgress(c, status[f])'
      <4>1. SUFFICES ASSUME design = "ws", f \notin used PROVE WsProgress(c, status[f])'
        OBVIOUS
      <4>2. status'[f] = 0 /\ watch'[c] = "IN" /\ out'[c] = <<>>
        BY <1>3, <1>4, <4>1 DEF SlotsClear
      <4> QED
        BY <3>2, <4>2 DEF WsProgress
    <3>6. design = "wsco" => WsCoProgress(c)'
      BY <3>2 DEF WsCoProgress
    <3>7. design \in Prefork \cup {"counted"} => PageProgress(c)'
      <4>1. SUFFICES ASSUME design \in Prefork \cup {"counted"} PROVE PageProgress(c)'
        OBVIOUS
      <4>2. ~Answering(c)'
        BY <4>1 DEF Answering
      <4>3. Alternates(<<>>, "200", "page") /\ Len(<<>>) % 2 = 0 /\ Len(<<>>) = 0
        BY DEF Alternates
      <4>4. 0 <= 2 * Taken(c)' - 0
        BY <3>2
      <4> QED
        BY <3>2, <4>2, <4>3, <4>4 DEF PageProgress, Alternates
    <3>8. Serving(c, f)'
      BY <3>3, <3>4, <3>5, <3>6, <3>7 DEF Serving
    <3> QED
      BY <1>2, <1>3, <2>2, <3>2, <3>8, ProgressOut
  <2> QED
    BY <2>1, <2>2
<1> QED
  BY <1>2, <1>4, <1>5, <1>6, ProgressOfOne

\* The end of a process is the end of its connections.
LEMMA ProcessEnds ==
  ASSUME Base, ProgressInv, NEW w \in up, Dies(w), design \notin {"web", "ws"},
         UNCHANGED <<design, limit, sent, got, kind, watch, phase, out, hand, status, used>>
  PROVE  ProgressInv'
<1>1. \A d \in Client : SameConn(d) \/ Gone(d)
  BY DiesOthers DEF Base
<1>2. ASSUME NEW d \in Client PROVE Progress(d)' /\ (phase'[d] = "lines" => design' \in OneRequest)
  BY <1>1, ProgressKept DEF Same, SameLocal, ProgressInv
<1> QED
  BY <1>2, NoSlots DEF ProgressInv

\* A step that no client notices.
LEMMA StutterStep ==
  ASSUME ProgressInv,
         UNCHANGED <<design, limit, sent, got, kind, watch, phase, out, hand, status, used, alive, owner, peer, wire>>
  PROVE  ProgressInv'
<1>1. ASSUME NEW d \in Client PROVE Progress(d)' /\ (phase'[d] = "lines" => design' \in OneRequest)
  BY ProgressKept DEF Same, SameConn, SameLocal, ProgressInv
<1> QED
  BY <1>1 DEF ProgressInv, SlotsClear

\* The servers that accept without a lock.
LEMMA WelcomeSteps ==
  ASSUME Base, ProgressInv, Accepts
  PROVE  ProgressInv'
<1>0. TypeOK /\ OnePlace /\ Processes /\ alive
  BY DEF Base, Accepts
<1>1. /\ phase \in [Client -> {"none", "recv", "lines", "send", "left"}]
      /\ watch \in [Client -> {"NONE", "IN", "OUT"}]
      /\ out \in [Client -> Seq(Piece)] /\ NULL \notin Client
  BY <1>0 DEF TypeOK, ProgressInv
<1>2. \A d \in Client : phase[d] = "lines" => design \in OneRequest
  BY DEF ProgressInv
<1>3. PICK c : c = Head(backlog)
  OBVIOUS
<1>4. ASSUME NEW w, AcceptAt(w) PROVE c \in Client
  <2>1. backlog \in Seq(Client) /\ backlog # <<>>
    BY <1>0, <1>4 DEF TypeOK, AcceptAt
  <2> QED
    BY <1>3, <2>1
<1>5. CASE SiteAccept /\ UNCHANGED <<coroutineVars, workerVars>>
  <2>1. /\ design \in {"web", "ws"} /\ AcceptAt(1) /\ watch' = [watch EXCEPT ![c] = "IN"]
        /\ out' = [out EXCEPT ![c] = <<>>]
        /\ UNCHANGED <<design, limit, peer, wire, sent, got, alive, kind, phase, status, used, hand>>
    BY <1>3, <1>5 DEF SiteAccept, WatchFor, coroutineVars
  <2>2. c \in Client /\ watch'[c] = "IN" /\ out'[c] = <<>> /\ out' \in [Client -> Seq(Piece)]
    <3>1. <<>> \in Seq(Piece)
      OBVIOUS
    <3> QED
      BY <1>1, <1>4, <2>1, <3>1
  <2>3. \A d \in Client \ {c} :
           out'[d] = out[d] /\ phase'[d] = phase[d] /\ watch'[d] = watch[d] /\ (hand' = d <=> hand = d)
    BY <1>1, <2>1
  <2>4. /\ design \notin OneRequest /\ design \notin Prefork \cup {"counted"} /\ design # "wsco"
        /\ phase'[c] # "lines"
    BY <1>2, <2>1, <2>2 DEF OneRequest, Prefork
  <2> QED
    BY <1>0, <1>3, <2>1, <2>2, <2>3, <2>4, WelcomeStep
<1>6. ASSUME NewCoroutine, design \in OneRequest \cup {"counted", "wsco"}, UNCHANGED <<status, used>>,
             hand' = IF design = "wsco" THEN c ELSE hand
      PROVE  ProgressInv'
  <2>1. /\ AcceptAt(1) /\ phase' = [phase EXCEPT ![c] = "recv"] /\ hand = NULL
        /\ UNCHANGED <<design, limit, peer, wire, sent, got, alive, kind, watch, out>>
    BY <1>3, <1>6 DEF NewCoroutine, GoesTo
  <2>2. c \in Client /\ phase'[c] = "recv" /\ out' \in [Client -> Seq(Piece)]
    BY <1>1, <1>4, <2>1
  <2>3. \A d \in Client \ {c} :
           out'[d] = out[d] /\ phase'[d] = phase[d] /\ watch'[d] = watch[d] /\ (hand' = d <=> hand = d)
    BY <1>1, <1>6, <2>1, <2>2
  <2>4. design \notin {"web", "ws", "preepoll"}
    BY <1>6 DEF OneRequest
  <2>5. /\ alive' = alive /\ alive /\ phase'[c] # "lines" /\ (design = "wsco" => hand' = c)
        /\ UNCHANGED <<design, limit, got, peer, wire, sent, kind, status, used>>
        /\ design \in Prefork \cup {"counted"} =>
             IF design = "preepoll" THEN watch'[c] = "IN" ELSE phase'[c] = "recv"
    BY <1>0, <1>6, <2>1, <2>2, <2>4
  <2> QED
    BY <1>3, <2>1, <2>2, <2>3, <2>4, <2>5, WelcomeStep
<1>7. CASE WebCoroutineAccept /\ UNCHANGED <<statusVars, workerVars>>
  <2>0. UNCHANGED <<status, used>>
    BY <1>7 DEF statusVars
  <2>1. CASE SiteCoAccept
    BY <1>6, <2>0, <2>1 DEF SiteCoAccept, OneRequest
  <2>2. CASE CountedAccept
    BY <1>6, <2>0, <2>2 DEF CountedAccept
  <2>3. CASE WsCoAccept
    BY <1>3, <1>6, <2>0, <2>3 DEF WsCoAccept
  <2>4. CASE SiteCoAcceptDies
    <3>1. /\ design \in OneRequest /\ Dies(1) /\ UNCHANGED <<design, limit, sent, got, kind, watch, phase, out, hand>>
      BY <2>4 DEF SiteCoAcceptDies
    <3>2. design \notin Prefork /\ design \notin {"web", "ws"}
      BY <3>1 DEF OneRequest, Prefork
    <3>3. 1 \in up
      BY <1>0, <3>2 DEF Processes
    <3> QED
      BY <1>0, <2>0, <3>1, <3>2, <3>3, ProcessEnds
  <2> QED
    BY <1>7, <2>1, <2>2, <2>3, <2>4 DEF WebCoroutineAccept
<1> QED
  BY <1>5, <1>7 DEF Accepts

\* The acceptors of the servers that fork.
LEMMA ForkedWelcome ==
  ASSUME Base, ProgressInv, NEW w \in Worker, Acceptor(w), UNCHANGED statusVars, design \in Prefork, w \in up
  PROVE  ProgressInv'
<1>0. TypeOK /\ OnePlace /\ Processes /\ alive /\ UNCHANGED <<status, used>>
  BY DEF Base, Processes, statusVars
<1>1. /\ phase \in [Client -> {"none", "recv", "lines", "send", "left"}]
      /\ watch \in [Client -> {"NONE", "IN", "OUT"}]
      /\ out \in [Client -> Seq(Piece)] /\ NULL \notin Client
  BY <1>0 DEF TypeOK, ProgressInv
<1>2. design \notin OneRequest /\ design \notin {"web", "ws", "wsco", "counted"}
  BY DEF OneRequest, Prefork
<1>3. CASE LockedAccept(w)
  <2>1. PICK c : c = Head(backlog)
    OBVIOUS
  <2>2. /\ AcceptAt(w)
        /\ UNCHANGED <<design, limit, peer, wire, sent, got, alive, kind, out, hand>>
        /\ IF design = "preepoll" THEN watch' = [watch EXCEPT ![c] = "IN"] /\ UNCHANGED phase
           ELSE phase' = [phase EXCEPT ![c] = "recv"] /\ UNCHANGED watch
    BY <1>3, <2>1 DEF LockedAccept, GoesTo
  <2>3. c \in Client
    <3>1. backlog \in Seq(Client) /\ backlog # <<>>
      BY <1>0, <2>2 DEF TypeOK, AcceptAt
    <3> QED
      BY <2>1, <3>1
  <2>4. /\ out' \in [Client -> Seq(Piece)]
        /\ \A d \in Client \ {c} :
             out'[d] = out[d] /\ phase'[d] = phase[d] /\ watch'[d] = watch[d] /\ (hand' = d <=> hand = d)
        /\ IF design = "preepoll" THEN watch'[c] = "IN" ELSE phase'[c] = "recv"
        /\ phase'[c] # "lines"
    BY <1>1, <1>2, <2>2, <2>3 DEF ProgressInv
  <2> QED
    BY <1>0, <1>2, <2>1, <2>2, <2>4, WelcomeStep
<1>4. CASE LockedFails(w)
  <2>1. /\ UNCHANGED <<design, limit, sent, got, kind, watch, phase, out, hand>>
        /\ Dies(w) \/ UNCHANGED <<alive, owner, peer, wire>>
    BY <1>4 DEF LockedFails
  <2> QED
    BY <1>0, <1>2, <2>1, ProcessEnds, StutterStep
<1>5. CASE Woken(w) \/ Lock(w) \/ LockBusy(w) \/ LockedAgain(w)
  <2>1. UNCHANGED <<design, limit, sent, got, kind, watch, phase, out, hand, alive, owner, peer, wire>>
    BY <1>5 DEF Woken, Lock, LockBusy, LockedAgain, kernel, webVars
  <2> QED
    BY <1>0, <2>1, StutterStep
<1> QED
  BY <1>3, <1>4, <1>5 DEF Acceptor

\* The clients.
LEMMA ClientSteps ==
  ASSUME Base, ProgressInv, Peers
  PROVE  ProgressInv'
<1>0. TypeOK /\ OnePlace /\ Processes
  BY DEF Base
<1>1. PICK c \in Client :
        \/ WebConnect(c) /\ UNCHANGED <<statusVars, coroutineVars, workerVars>>
        \/ (SendMessage(c) \/ Hangup(c)) /\ UNCHANGED <<webVars, statusVars, coroutineVars, workerVars>>
  BY DEF Peers
<1>2. /\ peer \in [Client -> PeerState] /\ wire \in [Client -> Seq(Client \X Nat)] /\ sent \in [Client -> Nat]
      /\ kind \in [Client -> HttpKind \cup WsKind] /\ NULL \notin Client
  BY <1>0 DEF TypeOK
<1>3. /\ got \in [Client -> Seq(Piece)] /\ out \in [Client -> Seq(Piece)] /\ SlotsClear /\ Progress(c)
      /\ phase[c] = "lines" => design \in OneRequest
  BY DEF ProgressInv
<1>4. CASE WebConnect(c) /\ UNCHANGED <<statusVars, coroutineVars, workerVars>>
  <2>1. /\ peer[c] = "away" /\ peer' = [peer EXCEPT ![c] = "open"]
        /\ UNCHANGED <<design, limit, owner, wire, sent, got, alive, watch, phase, out, status, used, hand>>
        /\ \E k : kind' = [kind EXCEPT ![c] = k]
    BY <1>4 DEF WebConnect, Connect, statusVars, coroutineVars
  <2>2. Others(c) /\ SlotsClear'
    BY <1>0, <1>3, <2>1, QuietOthers DEF SlotsClear
  <2>3. LocalsKept(c)
    BY <1>2, <2>1 DEF LocalsKept, SameLocal
  <2>4. \A f \in Fd : owner[f] # c
    BY <1>0, <1>2, <2>1 DEF OnePlace
  <2>5. got[c] = <<>> /\ wire[c] = <<>> /\ sent[c] = 0
    BY <1>3, <2>1 DEF Progress
  <2>6. Progress(c)'
    <3>1. sent'[c] = 0 /\ Len(wire'[c]) = 0
      BY <2>1, <2>5
    <3>2. Taken(c)' = 0
      BY <3>1 DEF Taken
    <3>3. InOrder(c)'
      BY <3>1, <3>2 DEF InOrder
    <3> QED
      BY <1>2, <2>1, <2>4, <2>5, <3>2, <3>3 DEF Progress
  <2> QED
    BY <1>3, <2>1, <2>2, <2>3, <2>6, ProgressOfOne DEF Others, LocalsKept
<1>5. CASE SendMessage(c) /\ UNCHANGED <<webVars, statusVars, coroutineVars, workerVars>>
  <2>1. /\ peer[c] = "open" /\ sent' = [sent EXCEPT ![c] = @ + 1]
        /\ wire' = [wire EXCEPT ![c] = Append(@, <<c, sent[c] + 1>>)]
        /\ UNCHANGED <<design, limit, owner, peer, got, alive, kind, watch, phase, out, status, used, hand>>
    BY <1>5 DEF SendMessage, webVars, statusVars, coroutineVars
  <2>2. PICK q, n : q = wire[c] /\ n = sent[c]
    OBVIOUS
  <2>3. q \in Seq(Client \X Nat) /\ n \in Nat
    BY <1>2, <2>2
  <2>4. PICK r : r = Append(q, <<c, n + 1>>)
    OBVIOUS
  <2>5. Len(r) = Len(q) + 1 /\ Len(q) \in Nat /\ (\A i \in 1 .. Len(q) : r[i] = q[i]) /\ r[Len(q) + 1] = <<c, n + 1>>
    BY <2>3, <2>4
  <2>6. wire'[c] = r /\ sent'[c] = n + 1 /\ \A d \in Client \ {c} : wire'[d] = wire[d] /\ sent'[d] = sent[d]
    BY <1>2, <2>1, <2>2, <2>4
  <2>7. /\ Taken(c)' = (n + 1) - Len(r) /\ Taken(c) = n - Len(q)
    BY <2>2, <2>6 DEF Taken
  <2>8. Taken(c)' = Taken(c)
    BY <2>3, <2>5, <2>7
  <2>9. Others(c) /\ LocalsKept(c) /\ SlotsClear'
    BY <1>3, <2>1, <2>6 DEF Others, SameConn, LocalsKept, SameLocal, SlotsClear
  <2>10. ASSUME InOrder(c) PROVE InOrder(c)'
    <3>1. Taken(c) >= 0 /\ \A i \in 1 .. Len(q) : q[i][2] = Taken(c) + i
      BY <2>2, <2>10 DEF InOrder
    <3>2. r[Len(q) + 1][2] = Taken(c) + (Len(q) + 1)
      BY <2>3, <2>5, <2>7
    <3>3. \A i \in 1 .. Len(r) : r[i][2] = Taken(c) + i
      BY <2>5, <3>1, <3>2
    <3> QED
      BY <2>6, <2>8, <3>1, <3>3 DEF InOrder
  <2>11. ASSUME NEW f \in Fd, owner[f] = c PROVE Serving(c, f)'
    BY <1>3, <2>1, <2>8, <2>11, ProgressIn, ServingKept
  <2>12. Progress(c)'
    BY <1>3, <2>1, <2>8, <2>10, <2>11 DEF Progress
  <2> QED
    BY <1>3, <2>1, <2>9, <2>12, ProgressOfOne DEF Others, LocalsKept
<1>6. CASE Hangup(c) /\ UNCHANGED <<webVars, statusVars, coroutineVars, workerVars>>
  <2>1. /\ \E p \in {"fin", "reset"} : peer' = [peer EXCEPT ![c] = p]
        /\ wire' = wire \/ wire' = [wire EXCEPT ![c] = <<>>]
        /\ UNCHANGED <<design, limit, owner, sent, got, alive, kind, watch, phase, out, status, used, hand>>
    BY <1>6 DEF Hangup, webVars, statusVars, coroutineVars
  <2>2. Others(c) /\ LocalsKept(c) /\ SlotsClear' /\ Gone(c)
    BY <1>0, <1>2, <1>3, <2>1, QuietOthers DEF LocalsKept, SameLocal, SlotsClear, Gone
  <2> QED
    BY <1>3, <2>1, <2>2, ProgressOfOne, ProgressKept DEF Others, LocalsKept
<1> QED
  BY <1>1, <1>4, <1>5, <1>6

\* Nobody has got anything before a server listens.
LEMMA ProgressInit == Init => ProgressInv
<1> SUFFICES ASSUME Init PROVE ProgressInv
  OBVIOUS
<1>1. /\ peer = [c \in Client |-> "away"] /\ wire = [c \in Client |-> <<>>] /\ sent = [c \in Client |-> 0]
      /\ got = [c \in Client |-> <<>>] /\ out = [c \in Client |-> <<>>] /\ status = [f \in Fd |-> 0]
      /\ phase = [c \in Client |-> "none"]
  BY DEF Init, SocketsInit, WebInit, WebReactorInit
<1>2. <<>> \in Seq(Piece)
  OBVIOUS
<1>3. got \in [Client -> Seq(Piece)] /\ out \in [Client -> Seq(Piece)]
  BY <1>1, <1>2
<1>4. SlotsClear
  BY <1>1 DEF SlotsClear
<1>5. \A c \in Client : Progress(c) /\ phase[c] # "lines"
  BY <1>1 DEF Progress
<1> QED
  BY <1>3, <1>4, <1>5 DEF ProgressInv

\* Every step.
LEMMA ProgressStep == Base /\ ProgressInv /\ [Next]_vars => ProgressInv'
<1> SUFFICES ASSUME Base, ProgressInv, [Next]_vars PROVE ProgressInv'
  OBVIOUS
<1>1. ASSUME NEW c \in Client, Conn(c) PROVE ProgressInv'
  <2>1. CASE WebReactorConn(c) /\ UNCHANGED <<coroutineVars, workerVars>>
    BY <2>1, SiteSteps, WsSteps DEF WebReactorConn
  <2>2. CASE WebCoroutineConn(c) /\ UNCHANGED <<statusVars, workerVars>>
    BY <2>2, HttpSteps, ReaderSteps DEF WebCoroutineConn
  <2>3. CASE WebWorkerConn(c) /\ UNCHANGED statusVars
    BY <2>3, ForkedSteps
  <2> QED
    BY <1>1, <2>1, <2>2, <2>3 DEF Conn
<1>2. ASSUME NEW w \in Worker, Acceptor(w), UNCHANGED statusVars PROVE ProgressInv'
  <2>1. design \in Prefork /\ w \in up
    BY <1>2, AcceptorSteps
  <2> QED
    BY <1>2, <2>1, ForkedWelcome
<1>3. CASE UNCHANGED vars
  BY <1>3, StutterStep DEF vars, kernel, webVars, statusVars, coroutineVars
<1> QED
  BY <1>1, <1>2, <1>3, ClientSteps, WelcomeSteps DEF Next

\* What its server says of a client is what the client is entitled to.
LEMMA ResponsesFollow ==
  ASSUME Base, ProgressInv
  PROVE  ResponsesSound
<1>1. SUFFICES ASSUME NEW c \in Client, peer[c] = "open"
      PROVE  CASE design = "web" ->
                    /\ IsFiniteSet(Client) /\ limit > Cardinality(Client) =>
                         Alternates(got[c], "header", "body")
                    /\ \A i \in DOMAIN got[c] : got[c][i] = "body" => i > 1 /\ got[c][i - 1] # "body"
                    /\ Len(got[c]) <= 2 * sent[c]
               [] design \in OneRequest -> IsPrefix(got[c], Reply(kind[c]))
               [] design \in Websocket ->
                    ~Stale(c) =>
                      /\ got[c] # <<>> /\ kind[c] # "nokey" => got[c][1] = Switch(c)
                      /\ \A i, j \in DOMAIN got[c] :
                           i < j /\ got[c][j][1] = "frame" => got[c][i][2] < got[c][j][2]
                      /\ kind[c] \in {"upgrade", "zero"} =>
                           \A i \in DOMAIN got[c] : got[c][i][1] # "noise"
               [] OTHER -> Alternates(got[c], "200", "page") /\ Len(got[c]) <= 2 * sent[c]
  BY DEF ResponsesSound
<1>2. TypeOK /\ OnePlace /\ Processes /\ design \in WebDesigns /\ sent[c] \in Nat /\ wire[c] \in Seq(Client \X Nat)
  BY DEF Base, TypeOK
<1>3. /\ got[c] \in Seq(Piece) /\ out[c] \in Seq(Piece) /\ Progress(c) /\ InOrder(c)
      /\ DOMAIN got[c] = 1 .. Len(got[c]) /\ Len(got[c]) \in Nat
  <2>1. got[c] \in Seq(Piece) /\ out[c] \in Seq(Piece) /\ Progress(c) /\ InOrder(c)
    BY <1>1 DEF ProgressInv, Progress
  <2> QED
    BY <2>1
<1>4. Taken(c) \in Nat /\ Taken(c) <= sent[c]
  <2>1. Taken(c) \in Nat
    BY <1>2, <1>3, TakenType
  <2>2. PICK n : n = Len(wire[c])
    OBVIOUS
  <2>3. n \in Nat /\ Taken(c) = sent[c] - n
    BY <1>2, <2>2 DEF Taken
  <2> QED
    BY <1>2, <2>1, <2>3
<1>5. \A k \in Nat : k <= 2 * Taken(c) => k <= 2 * sent[c]
  BY <1>2, <1>4
<1>6. design = "web" =>
        /\ IsFiniteSet(Client) /\ limit > Cardinality(Client) => Alternates(got[c], "header", "body")
        /\ \A i \in DOMAIN got[c] : got[c][i] = "body" => i > 1 /\ got[c][i - 1] # "body"
        /\ Len(got[c]) <= 2 * sent[c]
  <2>1. SUFFICES ASSUME design = "web"
        PROVE  (Roomy => Alternates(got[c], "header", "body")) /\ Bodies(got[c]) /\ Len(got[c]) <= 2 * Taken(c)
    BY <1>3, <1>5 DEF Roomy, Bodies
  <2>2. CASE \A f \in Fd : owner[f] # c
    BY <1>1, <1>3, <2>2 DEF Progress, Alternates, Bodies
  <2>3. CASE \E f \in Fd : owner[f] = c
    <3>1. PICK f \in Fd : owner[f] = c
      BY <2>3
    <3>2. SiteProgress(c, status[f])
      BY <1>1, <1>3, <2>1, <3>1, ProgressIn DEF Serving
    <3>3. Len(got[c]) <= 2 * Taken(c) - 0 \/ Len(got[c]) <= 2 * Taken(c) - 1 \/ Len(got[c]) <= 2 * Taken(c) - 2
      BY <3>2 DEF SiteProgress
    <3>4. Len(got[c]) <= 2 * Taken(c)
      BY <1>3, <1>4, <3>3
    <3> QED
      BY <3>2, <3>4 DEF SiteProgress
  <2> QED
    BY <2>2, <2>3
<1>7. design \in OneRequest => IsPrefix(got[c], Reply(kind[c]))
  <2>1. SUFFICES ASSUME design \in OneRequest PROVE IsPrefix(got[c], Reply(kind[c]))
    OBVIOUS
  <2>2. PICK s, r : s = got[c] /\ r = Reply(kind[c])
    OBVIOUS
  <2>3. s \in Seq(Piece) /\ r \in Seq(Piece) /\ Len(r) \in Nat /\ Len(s) \in Nat
    BY <1>3, <2>2, ReplyIs
  <2>4. CASE s = <<>>
    <3>1. Len(s) = 0 /\ SubSeq(s, 1, 0) = <<>> /\ SubSeq(r, 1, 0) = <<>>
      BY <2>3, <2>4
    <3> QED
      BY <2>2, <2>3, <3>1 DEF IsPrefix
  <2>5. CASE s \o out[c] = r
    <3>1. PICK t : t = out[c]
      OBVIOUS
    <3>2. t \in Seq(Piece) /\ Len(t) \in Nat /\ r = s \o t
      BY <1>3, <2>5, <3>1
    <3>3. Len(r) = Len(s) + Len(t) /\ \A i \in 1 .. Len(s) : r[i] = s[i]
      BY <2>3, <3>2
    <3>4. Len(s) <= Len(r)
      BY <2>3, <3>2, <3>3
    <3>5. SubSeq(s, 1, Len(s)) = SubSeq(r, 1, Len(s))
      <4>1. PICK a, b : a = SubSeq(s, 1, Len(s)) /\ b = SubSeq(r, 1, Len(s))
        OBVIOUS
      <4>2. a \in Seq(Piece) /\ Len(a) = Len(s) /\ \A i \in 1 .. Len(s) : a[i] = s[i]
        BY <2>3, <4>1
      <4>3. b \in Seq(Piece) /\ Len(b) = Len(s) /\ \A i \in 1 .. Len(s) : b[i] = r[i]
        BY <2>3, <3>4, <4>1
      <4>4. a = b
        BY <3>3, <4>2, <4>3, SeqEqual
      <4> QED
        BY <4>1, <4>4
    <3> QED
      BY <2>2, <3>4, <3>5 DEF IsPrefix
  <2>6. CASE \A f \in Fd : owner[f] # c
    BY <1>1, <1>3, <2>2, <2>4, <2>6 DEF Progress
  <2>7. CASE \E f \in Fd : owner[f] = c
    <3>1. PICK f \in Fd : owner[f] = c
      BY <2>7
    <3>2. RequestProgress(c)
      BY <1>1, <1>3, <2>1, <3>1, ProgressIn DEF Serving
    <3>3. phase[c] \in {"none", "recv", "lines", "send", "left"}
      BY <1>2 DEF TypeOK
    <3> QED
      BY <2>2, <2>4, <2>5, <3>2, <3>3 DEF RequestProgress
  <2> QED
    BY <2>6, <2>7
<1>8. design \in Websocket /\ ~Stale(c) =>
        /\ got[c] # <<>> /\ kind[c] # "nokey" => got[c][1] = Switch(c)
        /\ \A i, j \in DOMAIN got[c] : i < j /\ got[c][j][1] = "frame" => got[c][i][2] < got[c][j][2]
        /\ kind[c] \in {"upgrade", "zero"} => \A i \in DOMAIN got[c] : got[c][i][1] # "noise"
  <2>1. SUFFICES ASSUME design \in Websocket, ~Stale(c) PROVE got[c] = <<>> \/ FramedBy(kind[c], Taken(c), got[c])
    <3>1. Switch(c) = FirstOf(kind[c])
      BY DEF Switch, FirstOf
    <3>2. ASSUME got[c] = <<>>
          PROVE  /\ got[c] # <<>> /\ kind[c] # "nokey" => got[c][1] = Switch(c)
                 /\ \A i, j \in DOMAIN got[c] : i < j /\ got[c][j][1] = "frame" => got[c][i][2] < got[c][j][2]
                 /\ kind[c] \in {"upgrade", "zero"} => \A i \in DOMAIN got[c] : got[c][i][1] # "noise"
      BY <3>2
    <3>3. ASSUME FramedBy(kind[c], Taken(c), got[c])
          PROVE  /\ got[c] # <<>> /\ kind[c] # "nokey" => got[c][1] = Switch(c)
                 /\ \A i, j \in DOMAIN got[c] : i < j /\ got[c][j][1] = "frame" => got[c][i][2] < got[c][j][2]
                 /\ kind[c] \in {"upgrade", "zero"} => \A i \in DOMAIN got[c] : got[c][i][1] # "noise"
      BY <1>3, <3>1, <3>3 DEF FramedBy
    <3> QED
      BY <2>1, <3>2, <3>3
  <2>2. CASE \A f \in Fd : owner[f] # c
    BY <1>1, <1>3, <2>2 DEF Progress
  <2>3. CASE Accepted(c)
    <3>1. PICK f : f = FdOf(c)
      OBVIOUS
    <3>2. f \in Fd /\ owner[f] = c
      BY <1>2, <2>3, <3>1, EntryOf
    <3>3. Serving(c, f) /\ (design = "ws" => f \notin used)
      BY <1>1, <1>3, <2>1, <2>3, <3>1, <3>2, ProgressIn DEF Stale
    <3>4. CASE design = "ws"
      BY <3>3, <3>4 DEF Serving, WsProgress, Framed
    <3>5. CASE design = "wsco"
      BY <3>3, <3>5 DEF Serving, WsCoProgress, Framed
    <3> QED
      BY <2>1, <3>4, <3>5 DEF Websocket
  <2> QED
    BY <2>2, <2>3 DEF Accepted
<1>9. design \in Prefork \cup {"counted"} => Alternates(got[c], "200", "page") /\ Len(got[c]) <= 2 * sent[c]
  <2>1. SUFFICES ASSUME design \in Prefork \cup {"counted"}
        PROVE  Alternates(got[c], "200", "page") /\ Len(got[c]) <= 2 * Taken(c)
    BY <1>3, <1>5
  <2>2. CASE \A f \in Fd : owner[f] # c
    BY <1>1, <1>3, <2>2 DEF Progress, Alternates
  <2>3. CASE \E f \in Fd : owner[f] = c
    <3>1. PICK f \in Fd : owner[f] = c
      BY <2>3
    <3>2. PageProgress(c)
      BY <1>1, <1>3, <2>1, <3>1, ProgressIn DEF Serving
    <3>3. Len(got[c]) <= 2 * Taken(c) - 2 \/ Len(got[c]) <= 2 * Taken(c) - 0
      BY <3>2 DEF PageProgress
    <3>4. Len(got[c]) <= 2 * Taken(c)
      BY <1>3, <1>4, <3>3
    <3> QED
      BY <3>2, <3>4 DEF PageProgress
  <2> QED
    BY <2>2, <2>3
<1>10. design \in OneRequest \cup Websocket \cup Prefork \cup {"web", "counted"} /\ "web" \notin OneRequest \cup Websocket
       /\ (design \in OneRequest => design \notin Websocket)
  BY <1>2 DEF WebDesigns, OneRequest, Websocket
<1> QED
  BY <1>6, <1>7, <1>8, <1>9, <1>10

\* What the clients of the web servers get is what they are entitled to, for any
\* number of clients, descriptors, processes and messages: header and body in
\* turn from http_response and sendfile of 03_Webserver, the one reply of
\* accept_request, the switch of protocols of handshake before the frames of
\* encode_packet in order, and one page for each request.
THEOREM ResponsesHold == Spec => []ResponsesSound
<1>1. Init => Inv /\ ProgressInv
  BY InvInit, ProgressInit
<1>2. Inv /\ ProgressInv /\ [Next]_vars => (Inv /\ ProgressInv)'
  BY InvStep, ProgressStep DEF Inv
<1>3. Inv /\ ProgressInv => ResponsesSound
  BY ResponsesFollow DEF Inv
<1> QED
  BY <1>1, <1>2, <1>3, PTL DEF Spec
=============================================================================
