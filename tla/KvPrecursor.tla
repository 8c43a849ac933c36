---------------------------- MODULE KvPrecursor ----------------------------
(***************************************************************************)
(* The precursor of the key-value store (test1/): one process with an      *)
(* array and a hash engine, whose commands are told apart by a prefix      *)
(* (SET, HSET).  DEL leaves a hole in the array, SET fills the first hole, *)
(* and DEL compares the key with every slot it passes, a hole included.    *)
(* Both engines get the same requests here.                                *)
(*                                                                         *)
(* The tables are the first memory the process allocates and come from the *)
(* kernel cleared, so that a slot that was never used is a hole as well.   *)
(***************************************************************************)
EXTENDS Integers, SequencesExt

CONSTANTS PrecursorSize, TableSize, ByteSum, NULL, FREED

VARIABLES
  slots,     \* global_array: table[0 .. total-1]
  chains,    \* global_hash
  pcount,    \* hash->count
  sret,      \* what the last operation on the array returned
  cret,      \* what the last operation on the hash table returned
  refused,   \* history: a request was refused for lack of memory or room
  pup        \* the process runs

pvars == <<slots, chains, pcount, sret, cret, refused, pup>>

Chain == INSTANCE KvHash WITH nodes <- chains, count <- pcount, hret <- cret

\* init_kvengine
Init == slots = <<>> /\ sret = 0 /\ Chain!Init /\ refused = FALSE /\ pup = TRUE

\* The first hole, the slot of key k, and its value.
Hole == SelectInSeq(slots, LAMBDA item : item = NULL)
SlotOf(k) == SelectInSeq(slots, LAMBDA item : item # NULL /\ item.key = k)
Lookup(k) == IF SlotOf(k) = 0 THEN NULL ELSE slots[SlotOf(k)].val

\* kvs_array_set: total grows even when a hole below it is filled.
SlotSet(k, v) ==
  LET new == [key |-> k, val |-> v] IN
    \/ /\ Len(slots) = PrecursorSize
       /\ sret' = -1 /\ UNCHANGED slots
    \/ /\ Len(slots) # PrecursorSize /\ SlotOf(k) # 0
       /\ sret' = 1 /\ UNCHANGED slots
    \/ /\ Len(slots) # PrecursorSize /\ SlotOf(k) = 0
       /\ slots' = IF Hole = 0 THEN Append(slots, new) ELSE Append([slots EXCEPT ![Hole] = new], NULL)
       /\ sret' = 0

\* kvs_array_del: only the last slot is given back.
SlotDel(k) ==
  \/ /\ SlotOf(k) = 0
     /\ sret' = Len(slots) /\ UNCHANGED slots
  \/ /\ SlotOf(k) # 0
     /\ slots' = IF SlotOf(k) = Len(slots) THEN Front(slots) ELSE [slots EXCEPT ![SlotOf(k)] = NULL]
     /\ sret' = 0

\* kvs_array_mod
SlotMod(k, v) ==
  \/ /\ SlotOf(k) = 0
     /\ sret' = (IF slots = <<>> THEN PrecursorSize ELSE Len(slots)) /\ UNCHANGED slots
  \/ /\ SlotOf(k) # 0
     /\ slots' = [slots EXCEPT ![SlotOf(k)].val = v]
     /\ sret' = 0

SlotGet(k) == sret' = Lookup(k) /\ UNCHANGED slots
SlotExist(k) == sret' = (IF Lookup(k) = NULL THEN 1 ELSE 0) /\ UNCHANGED slots

\* strcmp with the key of a hole ends the process.
MeetsHole(k) == Hole # 0 /\ (SlotOf(k) = 0 \/ Hole < SlotOf(k))

\* The value a failed MOD freed is freed again: by MOD, by DEL on the array and,
\* except for the first node of a chain, by HDEL.
FreedTwice(r) ==
  \/ r.cmd \in {"MOD", "DEL"} /\ Lookup(r.key) = FREED
  \/ r.cmd = "MOD" /\ Chain!Lookup(r.key) = FREED
  \/ r.cmd = "DEL" /\ Chain!Lookup(r.key) = FREED /\ Chain!PlaceOf(r.key) > 1

\* kvs_filter_protocol, for the command and for its twin with the prefix H.
Filter(r) ==
  /\ pup /\ UNCHANGED pup
  /\ refused' = (refused \/ (r.cmd = "SET" /\ Len(slots) = PrecursorSize))
  /\ \/ r.cmd = "SET" /\ SlotSet(r.key, r.val) /\ Chain!Set(r.key, r.val)
     \/ r.cmd = "GET" /\ SlotGet(r.key) /\ Chain!Get(r.key)
     \/ r.cmd = "DEL" /\ ~MeetsHole(r.key) /\ SlotDel(r.key) /\ Chain!Del(r.key)
     \/ r.cmd = "MOD" /\ SlotMod(r.key, r.val) /\ Chain!Mod(r.key, r.val)
     \/ r.cmd = "EXIST" /\ SlotExist(r.key) /\ Chain!Exist(r.key)

\* malloc fails in both engines, or in the array only: kvs_hash_set would go on
\* with the node it did not get.
FilterNoMemory(r) ==
  /\ pup /\ UNCHANGED pup
  /\ refused' = TRUE
  /\ \/ /\ r.cmd = "SET" /\ Len(slots) # PrecursorSize /\ SlotOf(r.key) = 0
        /\ sret' = -2 /\ UNCHANGED slots
        /\ Chain!Set(r.key, r.val)
     \/ /\ r.cmd = "MOD" /\ SlotOf(r.key) # 0
        /\ slots' = [slots EXCEPT ![SlotOf(r.key)].val = FREED] /\ sret' = -2
        /\ Chain!ModNoMemory(r.key)

\* The end of the process, and of its memory.
Ends ==
  /\ pup /\ pup' = FALSE
  /\ slots' = <<>> /\ sret' = 0
  /\ chains' = [b \in DOMAIN chains |-> <<>>] /\ pcount' = 0 /\ cret' = 0
  /\ UNCHANGED refused

\* It comes at a hole, at the node that was not allocated, and perhaps at a
\* second free.
Crashes(r) ==
  /\ \/ r.cmd = "DEL" /\ MeetsHole(r.key)
     \/ r.cmd = "SET" /\ Chain!PlaceOf(r.key) = 0
     \/ FreedTwice(r)
  /\ Ends

\* What the precursor may do with request r.
Answers(r) ==
  \/ Filter(r) \/ FilterNoMemory(r) \/ Crashes(r)
  \/ ~pup /\ UNCHANGED pvars

\* No key has two slots or two nodes.
PrecursorSound ==
  /\ \A s, t \in DOMAIN slots :
       slots[s] # NULL /\ slots[t] # NULL /\ slots[s].key = slots[t].key => s = t
  /\ Chain!ChainsSound
=============================================================================
