---------------------------- MODULE MCKvEngines ----------------------------
(***************************************************************************)
(* A small instance of KvEngines: three keys, two of which share a bucket, *)
(* and an array with room for fewer keys than there are.                   *)
(***************************************************************************)
EXTENDS KvEngines, TLC

CONSTANTS k1, k2, k3

MCByteSum == k1 :> 1 @@ k2 :> 3 @@ k3 :> 2

ValueSymmetry == Permutations(Value)
=============================================================================
