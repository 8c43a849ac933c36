------------------------------ MODULE MCUstack ------------------------------
(***************************************************************************)
(* Two peers: one connects and hangs up, the other sends two units in one  *)
(* segment, which overruns the server's buffer, or in two.                 *)
(***************************************************************************)
EXTENDS UstackServer

CONSTANTS p1, p2
MCPeer == {p1, p2}
MCMaxUnits == (p1 :> 2) @@ (p2 :> 0)
MCMaxResend == (p1 :> 0) @@ (p2 :> 1)
=============================================================================
