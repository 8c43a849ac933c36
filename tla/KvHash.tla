------------------------------- MODULE KvHash -------------------------------
(***************************************************************************)
(* The hash engine, kvs_hash.c: one chain of nodes for every bucket, newest*)
(* node first.  A value whose memory has been freed while the node still   *)
(* points to it is FREED.                                                  *)
(***************************************************************************)
EXTENDS Integers, SequencesExt

CONSTANTS
  TableSize,   \* MAX_TABLE_SIZE
  ByteSum,     \* the sum of the bytes of each key
  NULL,        \* the null pointer
  FREED        \* a pointer to memory that was freed

VARIABLES
  nodes,       \* hash->nodes[idx]: the chain of bucket idx
  count,       \* hash->count
  hret         \* what the last operation returned

Slot == 0 .. (TableSize - 1)

\* _hash
Bucket(k) == ByteSum[k] % TableSize

\* kvs_hash_create
Init == nodes = [b \in Slot |-> <<>>] /\ count = 0 /\ hret = 0

\* The chain a key belongs to, and the position of its node; 0 is no node.
Chain(k) == nodes[Bucket(k)]
PlaceOf(k) == SelectInSeq(Chain(k), LAMBDA node : node.key = k)
Lookup(k) == IF PlaceOf(k) = 0 THEN NULL ELSE Chain(k)[PlaceOf(k)].val

\* Mutant of Set: the new node does not point to the rest of the chain.
SetDropsChain(k, v) ==
  \/ /\ PlaceOf(k) # 0
     /\ hret' = 1 /\ UNCHANGED <<nodes, count>>
  \/ /\ PlaceOf(k) = 0
     /\ nodes' = [nodes EXCEPT ![Bucket(k)] = <<[key |-> k, val |-> v]>>]
     /\ count' = count + 1
     /\ hret' = 0

\* kvs_hash_set: a new node goes to the front of its chain.
Set(k, v) ==
  \/ /\ PlaceOf(k) # 0
     /\ hret' = 1 /\ UNCHANGED <<nodes, count>>
  \/ /\ PlaceOf(k) = 0
     /\ nodes' = [nodes EXCEPT ![Bucket(k)] = <<[key |-> k, val |-> v]>> \o @]
     /\ count' = count + 1
     /\ hret' = 0

\* _create_node fails.
SetNoMemory(k) ==
  /\ PlaceOf(k) = 0
  /\ hret' = -2 /\ UNCHANGED <<nodes, count>>

Get(k) == hret' = Lookup(k) /\ UNCHANGED <<nodes, count>>

Exist(k) == hret' = (IF Lookup(k) = NULL THEN 1 ELSE 0) /\ UNCHANGED <<nodes, count>>

\* kvs_hash_del: the node is taken out of its chain.  A miss returns -1.
Del(k) ==
  \/ /\ PlaceOf(k) = 0
     /\ hret' = -1 /\ UNCHANGED <<nodes, count>>
  \/ /\ PlaceOf(k) # 0
     /\ nodes' = [nodes EXCEPT ![Bucket(k)] = RemoveAt(@, PlaceOf(k))]
     /\ count' = count - 1
     /\ hret' = 0

\* kvs_hash_mod
Mod(k, v) ==
  \/ /\ PlaceOf(k) = 0
     /\ hret' = 1 /\ UNCHANGED <<nodes, count>>
  \/ /\ PlaceOf(k) # 0
     /\ nodes' = [nodes EXCEPT ![Bucket(k)][PlaceOf(k)].val = v]
     /\ hret' = 0 /\ UNCHANGED count

\* The old value is freed before the copy of the new one is allocated.
ModNoMemory(k) ==
  /\ PlaceOf(k) # 0
  /\ nodes' = [nodes EXCEPT ![Bucket(k)][PlaceOf(k)].val = FREED]
  /\ hret' = -2 /\ UNCHANGED count

\* kvs_hash_destroy: every chain is freed node by node.
Destroy == nodes' = [b \in Slot |-> <<>>] /\ UNCHANGED <<count, hret>>

\* Every node is in the chain of its key's bucket and no key has two nodes.
ChainsSound ==
  \A b \in Slot : \A p, q \in DOMAIN nodes[b] :
    /\ Bucket(nodes[b][p].key) = b
    /\ nodes[b][p].key = nodes[b][q].key => p = q
=============================================================================
