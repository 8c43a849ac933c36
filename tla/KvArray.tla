------------------------------ MODULE KvArray ------------------------------
(***************************************************************************)
(* The array engine, kvs_array.c: the first total slots of a table of      *)
(* KVS_ARRAY_SIZE slots, as a sequence.  A value whose memory has been     *)
(* freed while the slot still points to it is FREED.                       *)
(***************************************************************************)
EXTENDS Integers, SequencesExt

CONSTANTS
  ArraySize,   \* KVS_ARRAY_SIZE
  NULL,        \* the null pointer
  FREED        \* a pointer to memory that was freed

VARIABLES
  table,       \* table[0 .. total-1]; table[i + 1] is slot i
  aret         \* what the last operation returned

\* kvs_array_create
Init == table = <<>> /\ aret = 0

\* Where the linear scan meets key k, and what it returns; 0 is no slot.
SlotOf(k) == SelectInSeq(table, LAMBDA item : item.key = k)
Lookup(k) == IF SlotOf(k) = 0 THEN NULL ELSE table[SlotOf(k)].val

\* Mutant of Set: the capacity test is missing.
SetUnbounded(k, v) ==
  \/ /\ Lookup(k) # NULL
     /\ aret' = 1 /\ UNCHANGED table
  \/ /\ Lookup(k) = NULL
     /\ table' = Append(table, [key |-> k, val |-> v])
     /\ aret' = 0

\* kvs_array_set.  The capacity test comes before the test for a duplicate.
Set(k, v) ==
  \/ /\ Len(table) = ArraySize
     /\ aret' = -1 /\ UNCHANGED table
  \/ /\ Len(table) # ArraySize /\ Lookup(k) # NULL
     /\ aret' = 1 /\ UNCHANGED table
  \/ /\ Len(table) # ArraySize /\ Lookup(k) = NULL
     /\ table' = Append(table, [key |-> k, val |-> v])
     /\ aret' = 0

\* A copy of the key or of the value cannot be allocated.
SetNoMemory(k) ==
  /\ Len(table) # ArraySize /\ Lookup(k) = NULL
  /\ aret' = -2 /\ UNCHANGED table

Get(k) == aret' = Lookup(k) /\ UNCHANGED table

Exist(k) == aret' = (IF Lookup(k) = NULL THEN 1 ELSE 0) /\ UNCHANGED table

\* Mutant of Del: the shift starts one slot too late.
DelShiftsLate(k) ==
  \/ /\ SlotOf(k) = 0
     /\ aret' = Len(table) /\ UNCHANGED table
  \/ /\ SlotOf(k) # 0
     /\ table' = [s \in 1 .. (Len(table) - 1) |->
                    IF s <= SlotOf(k) THEN table[s] ELSE table[s + 1]]
     /\ aret' = 0

\* kvs_array_del: the later slots move down by one.  Without a hit the scan
\* returns its counter, the number of slots.
Del(k) ==
  \/ /\ SlotOf(k) = 0
     /\ aret' = Len(table) /\ UNCHANGED table
  \/ /\ SlotOf(k) # 0
     /\ table' = RemoveAt(table, SlotOf(k))
     /\ aret' = 0

\* Mutant of Mod: without its own test for the empty table.
ModCounts(k, v) ==
  \/ /\ SlotOf(k) = 0
     /\ aret' = Len(table) /\ UNCHANGED table
  \/ /\ SlotOf(k) # 0
     /\ table' = [table EXCEPT ![SlotOf(k)].val = v]
     /\ aret' = 0

\* kvs_array_mod
Mod(k, v) ==
  \/ /\ SlotOf(k) = 0
     /\ aret' = (IF table = <<>> THEN ArraySize ELSE Len(table))
     /\ UNCHANGED table
  \/ /\ SlotOf(k) # 0
     /\ table' = [table EXCEPT ![SlotOf(k)].val = v]
     /\ aret' = 0

\* The old value is freed before the copy of the new one is allocated.
ModNoMemory(k) ==
  /\ SlotOf(k) # 0
  /\ table' = [table EXCEPT ![SlotOf(k)].val = FREED]
  /\ aret' = -2

\* kvs_array_destroy
Destroy == table' = <<>> /\ UNCHANGED aret

\* No two slots hold the same key.
SlotsDistinct == \A s, t \in DOMAIN table : table[s].key = table[t].key => s = t
=============================================================================
