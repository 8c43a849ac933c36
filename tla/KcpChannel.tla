----------------------------- MODULE KcpChannel -----------------------------
(***************************************************************************)
(* What a KCP session promises its two users: a message stream in each     *)
(* direction that delivers what was sent, once and in order.  The promise  *)
(* ends when the server forgets the session (keep-alive timeout) while the *)
(* client goes on with its own: from then on messages may be missing or    *)
(* come twice, but none is invented.                                       *)
(***************************************************************************)
EXTENDS Sequences, SequencesExt

CONSTANTS Client, Way

VARIABLES
  sent,    \* sent[c][w]: the messages accepted for way w of client c
  got,     \* got[c][w]: the messages handed to the user there
  broken   \* the clients whose session was forgotten

vars == <<sent, got, broken>>

Init ==
  /\ sent = [c \in Client |-> [w \in Way |-> <<>>]]
  /\ got = [c \in Client |-> [w \in Way |-> <<>>]]
  /\ broken = {}

\* s' continues s.
Extends(new, old) == IsPrefix(old, new)

\* Any number of messages is sent and delivered: what is delivered now was
\* sent before or is sent now, and is the next of its stream.
Exchange ==
  /\ \A c \in Client, w \in Way :
       /\ Extends(sent'[c][w], sent[c][w])
       /\ Extends(got'[c][w], got[c][w])
       /\ c \notin broken => IsPrefix(got'[c][w], sent[c][w])
       /\ ToSet(got'[c][w]) \subseteq ToSet(sent[c][w])
  /\ UNCHANGED broken

Break ==
  /\ \E c \in Client : broken' = broken \union {c}
  /\ \A c \in Client, w \in Way : Extends(sent'[c][w], sent[c][w])
  /\ UNCHANGED got

Next == Exchange \/ Break

Spec == Init /\ [][Next]_vars
=============================================================================
