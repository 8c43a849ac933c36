------------------------------ MODULE Servers ------------------------------
(***************************************************************************)
(* The echo and request-reply servers of the repository, one of which runs *)
(* in each behaviour, and what their clients may rely on.                  *)
(***************************************************************************)
EXTENDS Proactors, Reactors, Coroutines

vars == <<kernel, proactorVars, reactorVars, coroutineVars>>

\* A loop that accepts in a blocking call would create threads for ever once it
\* is out of descriptors: "thread" runs with enough of them.
Init ==
  /\ design \in ProactorDesigns \cup ReactorDesigns \cup CoroutineDesigns
  /\ SocketsInit /\ ProactorInit /\ ReactorInit /\ CoroutineInit
  /\ design = "thread" => limit = MaxFd

\* The steps of the program and of the kernel on its behalf: those that follow
\* one another in the main loop, and those of each connection.
Loop ==
  \/ alive /\ ProactorLoop /\ UNCHANGED <<reactorVars, coroutineVars>>
  \/ alive /\ CompleteAccept /\ UNCHANGED <<reactorVars, coroutineVars>>
  \/ alive /\ CompleteBadRecv /\ UNCHANGED <<reactorVars, coroutineVars>>
  \/ ReactorLoop /\ UNCHANGED <<proactorVars, coroutineVars>>
  \/ alive /\ CoroutineLoop /\ UNCHANGED <<proactorVars, reactorVars>>

Connection(c) ==
  \/ alive /\ ProactorKernel(c) /\ UNCHANGED <<reactorVars, coroutineVars>>
  \/ alive /\ CoroutineBody(c) /\ UNCHANGED <<proactorVars, reactorVars>>

Next ==
  \/ Clients /\ UNCHANGED <<proactorVars, reactorVars, coroutineVars>>
  \/ Loop
  \/ \E c \in Client : Connection(c)

Spec == Init /\ [][Next]_vars

\* The loop goes on, the kernel carries out what can be carried out, coroutines
\* and threads run on; no client has to do anything.
FairSpec == Spec /\ WF_vars(Loop) /\ \A c \in Client : WF_vars(Connection(c))
-----------------------------------------------------------------------------
\* Two servers mix up their connections: the ones on io_uring whose connections
\* share a buffer, and the one whose threads share the variable clientfd.
Mixes == design \in SharedBuffer \cup {"thread"}
Alone(c) == \A d \in Client \ {c} : peer[d] = "away" \/ d \in Range(backlog)

\* A client gets its own messages back, in order, each once and none skipped,
\* whatever the other connections do: no buffer, slot, descriptor or argument
\* of one connection reaches another.  Where Mixes, this needs a single client.
OwnStream ==
  \A c \in Client :
    (Mixes => Alone(c)) =>
      got[c] = [i \in 1 .. Len(got[c]) |-> <<c, i>>]

\* A client the server can serve and that is owed an answer.  A connection
\* behind another one in mini_ntyco.c is not run before that one has ended; an
\* edge-triggered server leaves unread what did not fit into its buffer.
Behind(c) == co[c] = "new" /\ Living # {} /\ c # First
Owed(c) ==
  /\ alive /\ peer[c] = "open"
  /\ Accepted(c) \/ (c \in Range(backlog) /\ FreeFd # {})
  /\ CASE design = "printing" -> Available(c) /\ sent[c] <= BufMax
       [] design = "mini" -> Len(got[c]) < sent[c] /\ ~Behind(c)
       [] design = "thread" -> Len(got[c]) < sent[c] /\ Alone(c)
       [] OTHER -> Len(got[c]) < sent[c]

\* Every client the server can serve is answered, however its neighbours come,
\* go, stay silent or reset: nobody waits for ever.
Served == \A c \in Client : Owed(c) ~> ~Owed(c)
=============================================================================
