------------------------------ MODULE Sockets ------------------------------
(***************************************************************************)
(* What the servers of the repository share: clients that connect, send a  *)
(* few messages and hang up, and the kernel's side of their sockets.  All  *)
(* of it is external to the servers.                                       *)
(*                                                                         *)
(* peer[c] is what the kernel knows of client c's end:                     *)
(*   "away"   not connected yet      "open"   established                  *)
(*   "fin"    the client closed      "reset"  reset, ECONNRESET pending    *)
(*   "pipe"   reset after a close    "dead"   reset, the error reported    *)
(*   "gone"   the server closed its end as well                            *)
(* A client connects once.  Its i-th message is <<c, i>>, and the reply to *)
(* what one recv returned is that chunk: an echo, or the answer to it.     *)
(***************************************************************************)
EXTENDS Integers, Sequences, SequencesExt, FiniteSetsExt

CONSTANTS
  Client,    \* the clients
  MaxFd,     \* the descriptors a server may have at most
  MaxSend,   \* the messages a client sends
  FewSend,   \* and to a server whose connections share a buffer, where the
             \* mixtures of messages multiply the states
  BufMax,    \* the messages one recv has room for
  NULL

ASSUME SocketsAssumption ==
  /\ MaxFd \in Nat \ {0} /\ MaxSend \in Nat \ {0} /\ FewSend \in 1 .. MaxSend /\ BufMax \in Nat \ {0}
  /\ NULL \notin Client /\ -1 \notin Client

VARIABLES
  design,    \* the server that runs
  limit,     \* the last descriptor (RLIMIT_NOFILE)
  peer,      \* the state of each client's end
  backlog,   \* the clients waiting to be accepted
  owner,     \* the client whose socket each descriptor is
  wire,      \* messages of each client the server has not received
  sent,      \* the number of messages each client has sent
  got,       \* what each client has got back
  alive      \* FALSE once a signal has ended the process

kernel == <<design, limit, peer, backlog, owner, wire, sent, got, alive>>

Fd == 1 .. MaxFd
SharedBuffer == {"precursor", "uring"}
Quota == IF design \in SharedBuffer THEN FewSend ELSE MaxSend

SocketsInit ==
  /\ limit \in {1, MaxFd}
  /\ peer = [c \in Client |-> "away"]
  /\ backlog = <<>>
  /\ owner = [f \in Fd |-> NULL]
  /\ wire = [c \in Client |-> <<>>]
  /\ sent = [c \in Client |-> 0]
  /\ got = [c \in Client |-> <<>>]
  /\ alive = TRUE
-----------------------------------------------------------------------------
(* The clients.                                                            *)

Connect(c) ==
  /\ alive /\ peer[c] = "away"
  /\ peer' = [peer EXCEPT ![c] = "open"]
  /\ backlog' = Append(backlog, c)
  /\ UNCHANGED <<design, limit, owner, wire, sent, got, alive>>

SendMessage(c) ==
  /\ alive /\ peer[c] = "open" /\ sent[c] < Quota
  /\ sent' = [sent EXCEPT ![c] = @ + 1]
  /\ wire' = [wire EXCEPT ![c] = Append(@, <<c, sent[c] + 1>>)]
  /\ UNCHANGED <<design, limit, peer, backlog, owner, got, alive>>

\* The client closes, or its connection is reset, which may overtake what
\* was sent before.
Hangup(c) ==
  /\ alive /\ peer[c] = "open"
  /\ \/ peer' = [peer EXCEPT ![c] = "fin"] /\ UNCHANGED wire
     \/ /\ peer' = [peer EXCEPT ![c] = "reset"]
        /\ wire' \in {wire, [wire EXCEPT ![c] = <<>>]}
  /\ UNCHANGED <<design, limit, backlog, owner, sent, got, alive>>

Clients == \E c \in Client : Connect(c) \/ SendMessage(c) \/ Hangup(c)
-----------------------------------------------------------------------------
(* The system calls, as parts of a server's actions.  A call that takes    *)
(* part in an action leaves alone what it does not mention.                *)

FreeFd == {f \in 1 .. limit : owner[f] = NULL}
Accepted(c) == \E f \in Fd : owner[f] = c
FdOf(c) == CHOOSE f \in Fd : owner[f] = c

\* accept gives the first client of the backlog the lowest free descriptor.
CanAccept == backlog # <<>> /\ FreeFd # {}
Accept ==
  /\ CanAccept
  /\ owner' = [owner EXCEPT ![Min(FreeFd)] = Head(backlog)]
  /\ backlog' = Tail(backlog)

\* recv returns the first bytes, 0 after the peer's end, or -1 once after a
\* reset.
Available(c) == wire[c] # <<>>
Ended(c) == wire[c] = <<>> /\ peer[c] \in {"fin", "pipe", "dead"}
Failed(c) == wire[c] = <<>> /\ peer[c] = "reset"
Chunk(c) == SubSeq(wire[c], 1, Min({BufMax, Len(wire[c])}))
TakeChunk(c) == wire' = [wire EXCEPT ![c] = SubSeq(@, Len(Chunk(c)) + 1, Len(@))]

\* send to a living peer, to one that has closed (its kernel answers with a
\* reset, sooner or later), and to one whose reset is still to be reported.
Deliver(c, reply) ==
  \/ peer[c] = "open" /\ got' = [got EXCEPT ![c] = @ \o reply] /\ UNCHANGED peer
  \/ /\ peer[c] = "fin" /\ UNCHANGED got
     /\ \E p \in {"fin", "pipe"} : peer' = [peer EXCEPT ![c] = p]
SendFails(c) == peer[c] = "reset" /\ peer' = [peer EXCEPT ![c] = "dead"]
Broken(c) == peer[c] \in {"pipe", "dead"}

\* close of c's descriptor.
Close(c) ==
  /\ owner' = [owner EXCEPT ![FdOf(c)] = NULL]
  /\ peer' = [peer EXCEPT ![c] = "gone"]
  /\ wire' = [wire EXCEPT ![c] = <<>>]

\* SIGPIPE, or an access outside of every mapping, ends the process.
Killed == alive' = FALSE
=============================================================================
