----------------------------- MODULE KvService -----------------------------
(***************************************************************************)
(* What the server promises its clients, whichever network layer is        *)
(* compiled in.  A client's bytes are taken in order; whatever is taken at *)
(* once is one message, executed atomically on the one map and answered    *)
(* by one reply; replies reach the client in order, none lost, doubled or  *)
(* given to another client, until the client or the server hangs up.       *)
(***************************************************************************)
EXTENDS KvProtocol

CONSTANTS
  Client,     \* the clients
  Message,    \* what a client may send in one go: sequences of tokens
  Split       \* TRUE: a read may return part of what has arrived

VARIABLES
  store,      \* the map; NULL where a key has no value
  here,       \* here[c]: client c is connected
  asked,      \* asked[c]: the tokens sent and not yet taken
  answers     \* answers[c]: the replies given and not yet seen by the client

svars == <<store, here, asked, answers>>

Init ==
  /\ store = [k \in Key |-> NULL]
  /\ here = [c \in Client |-> FALSE]
  /\ asked = [c \in Client |-> <<>>]
  /\ answers = [c \in Client |-> <<>>]

Join(c) ==
  /\ ~here[c] /\ asked[c] = <<>> /\ answers[c] = <<>>
  /\ here' = [here EXCEPT ![c] = TRUE]
  /\ UNCHANGED <<store, asked, answers>>

Ask(c, m) ==
  /\ here[c]
  /\ asked' = [asked EXCEPT ![c] = @ \o m]
  /\ UNCHANGED <<store, here, answers>>

\* The chunks one read may return: all that is there or, Split, a part of it.
Chunk(stream) ==
  {n \in 1 .. Len(stream) : Split \/ n = Len(stream)}

\* One message is executed and answered.  The client may be gone by then.
Perform(c) ==
  \E n \in Chunk(asked[c]) :
    \E done \in Protocol(store, SubSeq(asked[c], 1, n)) :
      /\ store' = done.map
      /\ asked' = [asked EXCEPT ![c] = SubSeq(@, n + 1, Len(@))]
      /\ answers' = [answers EXCEPT ![c] = Append(@, done.reply)]
      /\ UNCHANGED here

Deliver(c) ==
  /\ here[c] /\ answers[c] # <<>>
  /\ answers' = [answers EXCEPT ![c] = Tail(@)]
  /\ UNCHANGED <<store, here, asked>>

\* A message without tokens has no reply; its place stays empty.
Skip(c) ==
  /\ answers[c] # <<>> /\ answers[c][Len(answers[c])] = NoLength
  /\ answers' = [answers EXCEPT ![c] = SubSeq(@, 1, Len(@) - 1)]
  /\ UNCHANGED <<store, here, asked>>

\* Either side hangs up: what was not taken and what was not seen may be lost.
Leave(c) ==
  /\ here' = [here EXCEPT ![c] = FALSE]
  /\ asked' \in {asked, [asked EXCEPT ![c] = <<>>]}
  /\ \E n \in 0 .. Len(answers[c]) :
       answers' = [answers EXCEPT ![c] = SubSeq(@, n + 1, Len(@))]
  /\ UNCHANGED store

Next ==
  \E c \in Client :
    \/ Join(c) \/ Perform(c) \/ Deliver(c) \/ Skip(c) \/ Leave(c)
    \/ \E m \in Message : Ask(c, m)

Spec == Init /\ [][Next]_svars
=============================================================================
