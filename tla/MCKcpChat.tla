----------------------------- MODULE MCKcpChat -----------------------------
(***************************************************************************)
(* One client; lines of one, two and three fragments (the last is refused).*)
(* Sequence numbers about to wrap while lines are echoed, and fresh        *)
(* sessions that time out; two messages of the demonstration.              *)
(***************************************************************************)
EXTENDS KcpChat

CONSTANTS c1, short, other, medium, long
MCClient == {c1}
MCLine == {short, other, medium, long}
MCFrags == (short :> 1) @@ (other :> 1) @@ (medium :> 2) @@ (long :> 3)

B(app, base, lines, alive, timeout, fault, expiry) ==
  [app |-> app, base |-> base, lines |-> lines, alive |-> alive, timeout |-> timeout,
   fault |-> fault, expiry |-> expiry]

MCBudget ==
  {B("chat", SnMod - 1, {medium}, 0, 0, 1, 1), B("chat", SnMod - 1, {short, long}, 0, 0, 2, 2),
   B("chat", 0, {}, 2, 1, 1, 1), B("chat", 0, {short}, 0, 1, 0, 1),
   B("demo", 0, {short, other}, 0, 0, 1, 1)}
=============================================================================
