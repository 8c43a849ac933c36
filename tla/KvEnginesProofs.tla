-------------------------- MODULE KvEnginesProofs --------------------------
(***************************************************************************)
(* The array engine, the hash engine and both engines of the precursor     *)
(* stand for the same map, for every set of keys, every hash function and  *)
(* every size of the tables.                                               *)
(***************************************************************************)
EXTENDS KvEngines, SequencesExt, SequenceTheorems, FiniteSetTheorems, WellFoundedInduction, TLAPS

\* A non-empty set of naturals has a least element.
LEMMA NatMin ==
  ASSUME NEW S, S \subseteq Nat, S # {}
  PROVE  Min(S) \in S
<1>1. PICK x \in S : \A y \in S : ~(<<y, x>> \in OpToRel(<, Nat))
  BY NatLessThanWellFounded, WFMin
<1>2. \A y \in Nat : y < x => <<y, x>> \in OpToRel(<, Nat)
  <2>1. ASSUME NEW y \in Nat, y < x PROVE <<y, x>> \in Nat \X Nat
    OBVIOUS
  <2>2. ASSUME NEW y \in Nat, y < x, <<y, x>> \in Nat \X Nat, <<y, x>>[1] = y, <<y, x>>[2] = x
        PROVE  <<y, x>> \in OpToRel(<, Nat)
    BY <2>2, Zenon DEF OpToRel
  <2> QED
    BY <2>1, <2>2
<1>3. \A y \in S : ~(y < x)
  BY <1>1, <1>2, Zenon
<1>4. \A y \in S : x =< y
  BY <1>3
<1> QED
  BY <1>4 DEF Min
-----------------------------------------------------------------------------
(* A table is a sequence of slots; in the precursor's array some are NULL. *)

Table == Seq(Item \cup {NULL})
Hits(s, k) == {i \in 1 .. Len(s) : s[i] # NULL /\ s[i].key = k}
Pos(s, k) == IF Hits(s, k) # {} THEN Min(Hits(s, k)) ELSE 0
ValueIn(s, k) == IF Pos(s, k) = 0 THEN NULL ELSE s[Pos(s, k)].val
Distinct(s) == \A i, j \in 1 .. Len(s) : s[i] # NULL /\ s[j] # NULL /\ s[i].key = s[j].key => i = j

\* The scan stops at a slot of the key, or finds none.
LEMMA PosIs ==
  ASSUME NEW s \in Table, NEW k
  PROVE  \/ Pos(s, k) = 0 /\ ValueIn(s, k) = NULL /\ \A i \in 1 .. Len(s) : s[i] # NULL => s[i].key # k
         \/ /\ Pos(s, k) # 0 /\ Pos(s, k) \in 1 .. Len(s) /\ s[Pos(s, k)] # NULL /\ s[Pos(s, k)].key = k
            /\ ValueIn(s, k) = s[Pos(s, k)].val
<1>1. Len(s) \in Nat /\ Hits(s, k) \subseteq Nat
  BY DEF Table, Hits
<1>2. CASE Hits(s, k) = {}
  BY <1>2 DEF Pos, ValueIn, Hits
<1>3. CASE Hits(s, k) # {}
  <2>1. Pos(s, k) \in Hits(s, k)
    BY <1>1, <1>3, NatMin DEF Pos
  <2> QED
    BY <1>1, <2>1 DEF Hits, ValueIn
<1> QED
  BY <1>2, <1>3

\* A slot holds an item, which has a key and a value.
LEMMA SlotType ==
  ASSUME NEW s \in Table, NEW i \in 1 .. Len(s), s[i] # NULL
  PROVE  s[i] \in Item /\ s[i].key \in Key /\ s[i].val \in Value \cup {FREED} /\ s[i].val # NULL
BY PointersAssumption DEF Table, Item

\* The value of a key is that of its slot.
LEMMA ValueThere ==
  ASSUME NEW s \in Table, Distinct(s), NEW i \in 1 .. Len(s), s[i] # NULL
  PROVE  ValueIn(s, s[i].key) = s[i].val /\ Pos(s, s[i].key) = i
BY PosIs DEF Distinct

\* A key without a slot has no value, and a key with one has.
LEMMA ValueNull ==
  ASSUME NEW s \in Table, NEW k
  PROVE  /\ ValueIn(s, k) = NULL <=> Pos(s, k) = 0
         /\ Pos(s, k) = 0 <=> \A i \in 1 .. Len(s) : s[i] # NULL => s[i].key # k
BY PosIs, SlotType

\* Every item of s but that of k is in t too.
Keeps(s, t, k) ==
  \A i \in 1 .. Len(s) : s[i] # NULL /\ s[i].key # k => \E j \in 1 .. Len(t) : t[j] = s[i]

\* Two tables that differ in the slot of k only.
LEMMA SameElsewhere ==
  ASSUME NEW s \in Table, Distinct(s), NEW t \in Table, Distinct(t), NEW k, Keeps(s, t, k), Keeps(t, s, k)
  PROVE  \A m : m # k => ValueIn(t, m) = ValueIn(s, m)
<1> SUFFICES ASSUME NEW m, m # k PROVE ValueIn(t, m) = ValueIn(s, m)
  OBVIOUS
<1>1. CASE Pos(s, m) # 0
  <2>1. PICK i \in 1 .. Len(s) : s[i] # NULL /\ s[i].key = m /\ ValueIn(s, m) = s[i].val
    BY <1>1, PosIs
  <2>2. PICK j \in 1 .. Len(t) : t[j] = s[i]
    BY <2>1 DEF Keeps
  <2> QED
    BY <2>1, <2>2, ValueThere
<1>2. CASE Pos(t, m) # 0
  <2>1. PICK j \in 1 .. Len(t) : t[j] # NULL /\ t[j].key = m /\ ValueIn(t, m) = t[j].val
    BY <1>2, PosIs
  <2>2. PICK i \in 1 .. Len(s) : s[i] = t[j]
    BY <2>1 DEF Keeps
  <2> QED
    BY <2>1, <2>2, ValueThere
<1>3. CASE Pos(s, m) = 0 /\ Pos(t, m) = 0
  BY <1>3, ValueNull
<1> QED
  BY <1>1, <1>2, <1>3

-----------------------------------------------------------------------------
(* The operations on a table.                                              *)

\* A slot, or its value, is replaced.
Put(f, k, v) == [f EXCEPT ![k] = v]
Changed(s, p, v) == [s EXCEPT ![p].val = v]

\* t is the table s with the value v for the key k (NULL: without it).
Became(s, t, k, v) ==
  /\ t \in Table /\ Distinct(t)
  /\ ValueIn(t, k) = v /\ \A m : m # k => ValueIn(t, m) = ValueIn(s, m)

\* A new item behind the others (kvs_array_set).
LEMMA AppendItem ==
  ASSUME NEW s \in Table, Distinct(s), NEW k \in Key, NEW v \in Value \cup {FREED}, Pos(s, k) = 0
  PROVE  /\ Became(s, Append(s, [key |-> k, val |-> v]), k, v)
         /\ Len(Append(s, [key |-> k, val |-> v])) = Len(s) + 1
         /\ s \in Seq(Item) => Append(s, [key |-> k, val |-> v]) \in Seq(Item)
<1> DEFINE e == [key |-> k, val |-> v]  t == Append(s, e)
<1>1. e \in Item /\ e # NULL /\ e.key = k /\ e.val = v
  BY PointersAssumption DEF Item
<1> HIDE DEF e
<1>2. t \in Table /\ Len(t) = Len(s) + 1 /\ (s \in Seq(Item) => t \in Seq(Item))
      /\ \A i \in 1 .. Len(t) : t[i] = IF i = Len(s) + 1 THEN e ELSE s[i]
  BY <1>1 DEF Table
<1>3. Len(s) \in Nat /\ \A i \in 1 .. Len(t) : i = Len(s) + 1 \/ i \in 1 .. Len(s)
  BY <1>2 DEF Table
<1> HIDE DEF t
<1>4. \A i \in 1 .. Len(s) : s[i] # NULL => s[i].key # k
  BY ValueNull
<1>5. Distinct(t)
  BY <1>1, <1>2, <1>3, <1>4 DEF Distinct
<1>6. Len(s) + 1 \in 1 .. Len(t) /\ t[Len(s) + 1] = e
  BY <1>2, <1>3
<1>7. ValueIn(t, k) = v
  BY <1>1, <1>2, <1>5, <1>6, ValueThere
<1>8. \A i \in 1 .. Len(s) : i \in 1 .. Len(t) /\ t[i] = s[i]
  BY <1>2, <1>3
<1>9. \A m : m # k => ValueIn(t, m) = ValueIn(s, m)
  <2>1. Keeps(t, s, k)
    BY <1>1, <1>2, <1>3 DEF Keeps
  <2>2. Keeps(s, t, k)
    BY <1>8 DEF Keeps
  <2> QED
    BY <1>2, <1>5, <2>1, <2>2, SameElsewhere
<1> QED
  BY <1>2, <1>5, <1>7, <1>9 DEF t, e, Became

\* A new item before the others (kvs_hash_set).
LEMMA PushItem ==
  ASSUME NEW s \in Table, Distinct(s), NEW k \in Key, NEW v \in Value \cup {FREED}, Pos(s, k) = 0
  PROVE  /\ Became(s, <<[key |-> k, val |-> v]>> \o s, k, v)
         /\ s \in Seq(Item) => <<[key |-> k, val |-> v]>> \o s \in Seq(Item)
<1> DEFINE e == [key |-> k, val |-> v]  t == <<e>> \o s
<1>1. e \in Item /\ e # NULL /\ e.key = k /\ e.val = v
  BY PointersAssumption DEF Item
<1> HIDE DEF e
<1>2. t \in Table /\ Len(t) = Len(s) + 1 /\ (s \in Seq(Item) => t \in Seq(Item))
      /\ \A i \in 1 .. Len(t) : t[i] = IF i = 1 THEN e ELSE s[i - 1]
  BY <1>1 DEF Table
<1>3. Len(s) \in Nat /\ \A i \in 1 .. Len(t) : i = 1 \/ i - 1 \in 1 .. Len(s)
  BY <1>2 DEF Table
<1> HIDE DEF t
<1>4. \A i \in 1 .. Len(s) : s[i] # NULL => s[i].key # k
  BY ValueNull
<1>5. Distinct(t)
  <2> SUFFICES ASSUME NEW i \in 1 .. Len(t), NEW j \in 1 .. Len(t), t[i] # NULL, t[j] # NULL, t[i].key = t[j].key
               PROVE  i = j
    BY DEF Distinct
  <2>1. CASE i # 1 /\ j # 1
    <3>1. i - 1 = j - 1
      BY <1>2, <1>3, <2>1 DEF Distinct
    <3> QED
      BY <3>1
  <2>2. CASE i = 1 \/ j = 1
    BY <1>1, <1>2, <1>3, <1>4, <2>2
  <2> QED
    BY <2>1, <2>2
<1>6. 1 \in 1 .. Len(t) /\ t[1] = e
  BY <1>2, <1>3
<1>7. ValueIn(t, k) = v
  BY <1>1, <1>2, <1>5, <1>6, ValueThere
<1>8. \A i \in 1 .. Len(s) : i + 1 \in 1 .. Len(t) /\ t[i + 1] = s[i]
  BY <1>2, <1>3
<1>9. \A m : m # k => ValueIn(t, m) = ValueIn(s, m)
  <2>1. Keeps(t, s, k)
    BY <1>1, <1>2, <1>3 DEF Keeps
  <2>2. Keeps(s, t, k)
    BY <1>8 DEF Keeps
  <2> QED
    BY <1>2, <1>5, <2>1, <2>2, SameElsewhere
<1> QED
  BY <1>2, <1>5, <1>7, <1>9 DEF t, e, Became

\* The slots behind that of k move up by one (kvs_array_del and kvs_hash_del).
LEMMA RemoveItem ==
  ASSUME NEW s \in Table, Distinct(s), NEW k, Pos(s, k) # 0
  PROVE  /\ Became(s, RemoveAt(s, Pos(s, k)), k, NULL)
         /\ Len(RemoveAt(s, Pos(s, k))) = Len(s) - 1
         /\ s \in Seq(Item) => RemoveAt(s, Pos(s, k)) \in Seq(Item)
<1> DEFINE p == Pos(s, k)  t == RemoveAt(s, p)
<1>1. p \in 1 .. Len(s) /\ s[p] # NULL /\ s[p].key = k /\ Len(s) \in Nat
  BY PosIs DEF Table
<1> HIDE DEF p
<1>2. ASSUME NEW S, s \in Seq(S)
      PROVE  t \in Seq(S) /\ Len(t) = Len(s) - 1 /\ \A i \in 1 .. Len(t) : t[i] = IF i < p THEN s[i] ELSE s[i + 1]
  <2>1. SubSeq(s, 1, p - 1) \in Seq(S) /\ Len(SubSeq(s, 1, p - 1)) = p - 1
        /\ \A i \in 1 .. (p - 1) : SubSeq(s, 1, p - 1)[i] = s[i]
    BY <1>1, <1>2
  <2>2. SubSeq(s, p + 1, Len(s)) \in Seq(S) /\ Len(SubSeq(s, p + 1, Len(s))) = Len(s) - p
        /\ \A i \in 1 .. (Len(s) - p) : SubSeq(s, p + 1, Len(s))[i] = s[p + i]
    BY <1>1, <1>2
  <2> DEFINE a == SubSeq(s, 1, p - 1)  b == SubSeq(s, p + 1, Len(s))
  <2>3. t = a \o b
    BY DEF RemoveAt
  <2> HIDE DEF a, b, t
  <2>4. a \in Seq(S) /\ b \in Seq(S) /\ Len(a) = p - 1 /\ Len(b) = Len(s) - p
        /\ (\A i \in 1 .. (p - 1) : a[i] = s[i]) /\ (\A i \in 1 .. (Len(s) - p) : b[i] = s[p + i])
    BY <2>1, <2>2 DEF a, b
  <2>5. t \in Seq(S) /\ Len(t) = Len(a) + Len(b)
        /\ \A i \in 1 .. Len(a) + Len(b) : t[i] = IF i <= Len(a) THEN a[i] ELSE b[i - Len(a)]
    <3>1. a \in Seq(S) /\ b \in Seq(S)
      BY <2>4
    <3> QED
      BY <2>3, <3>1, ConcatProperties
  <2>6. Len(t) = Len(s) - 1
    BY <1>1, <2>4, <2>5
  <2>7. ASSUME NEW i \in 1 .. Len(t), i < p PROVE t[i] = s[i]
    <3>1. i \in 1 .. Len(a) + Len(b) /\ i <= Len(a) /\ i \in 1 .. (p - 1)
      BY <1>1, <2>4, <2>5, <2>7
    <3> QED
      BY <2>4, <2>5, <3>1
  <2>8. ASSUME NEW i \in 1 .. Len(t), ~(i < p) PROVE t[i] = s[i + 1]
    <3>1. i \in 1 .. Len(a) + Len(b) /\ ~(i <= Len(a)) /\ i - Len(a) \in 1 .. (Len(s) - p) /\ p + (i - Len(a)) = i + 1
      BY <1>1, <2>4, <2>5, <2>8
    <3>2. t[i] = b[i - Len(a)]
      BY <2>5, <3>1
    <3>3. b[i - Len(a)] = s[p + (i - Len(a))]
      BY <2>4, <3>1
    <3> QED
      BY <3>1, <3>2, <3>3
  <2> QED
    BY <2>5, <2>6, <2>7, <2>8
<1>3. t \in Table /\ Len(t) = Len(s) - 1 /\ (s \in Seq(Item) => t \in Seq(Item))
      /\ \A i \in 1 .. Len(t) : t[i] = IF i < p THEN s[i] ELSE s[i + 1]
  BY <1>2 DEF Table
<1> HIDE DEF t
<1> DEFINE g(i) == IF i < p THEN i ELSE i + 1
<1>4. \A i \in 1 .. Len(t) : g(i) \in 1 .. Len(s) /\ g(i) # p /\ t[i] = s[g(i)]
  BY <1>1, <1>3
<1>5. \A i, j \in 1 .. Len(t) : g(i) = g(j) => i = j
  BY <1>1, <1>3
<1>6. \A i \in 1 .. Len(s) : i # p => \E j \in 1 .. Len(t) : t[j] = s[i]
  <2> SUFFICES ASSUME NEW i \in 1 .. Len(s), i # p PROVE \E j \in 1 .. Len(t) : t[j] = s[i]
    OBVIOUS
  <2>1. CASE i < p
    BY <1>1, <1>3, <2>1
  <2>2. CASE i > p
    <3>1. i - 1 \in 1 .. Len(t) /\ t[i - 1] = s[i]
      BY <1>1, <1>3, <2>2
    <3> QED
      BY <3>1
  <2> QED
    BY <1>1, <2>1, <2>2
<1> HIDE DEF g
<1>7. Distinct(t)
  BY <1>4, <1>5 DEF Distinct
<1>8. \A j \in 1 .. Len(t) : t[j] # NULL => t[j].key # k
  BY <1>1, <1>4 DEF Distinct
<1>9. ValueIn(t, k) = NULL
  BY <1>3, <1>8, ValueNull
<1>10. \A m : m # k => ValueIn(t, m) = ValueIn(s, m)
  <2>1. Keeps(t, s, k)
    BY <1>4 DEF Keeps
  <2>2. Keeps(s, t, k)
    BY <1>1, <1>6 DEF Keeps
  <2> QED
    BY <1>3, <1>7, <2>1, <2>2, SameElsewhere
<1> QED
  BY <1>3, <1>7, <1>9, <1>10 DEF t, p, Became

\* The value in the slot of k changes (kvs_array_mod and kvs_hash_mod).
LEMMA ChangeItem ==
  ASSUME NEW s \in Table, Distinct(s), NEW k, NEW v \in Value \cup {FREED}, Pos(s, k) # 0
  PROVE  /\ Became(s, Changed(s, Pos(s, k), v), k, v)
         /\ Len(Changed(s, Pos(s, k), v)) = Len(s)
         /\ s \in Seq(Item) => Changed(s, Pos(s, k), v) \in Seq(Item)
<1> DEFINE p == Pos(s, k)  t == Changed(s, p, v)  e == [s[p] EXCEPT !.val = v]
<1>1. p \in 1 .. Len(s) /\ s[p] # NULL /\ s[p].key = k /\ Len(s) \in Nat
  BY PosIs DEF Table
<1>2. s[p] \in Item
  BY <1>1, SlotType
<1> HIDE DEF p
<1>3. e \in Item /\ e # NULL /\ e.key = k /\ e.val = v
  BY <1>1, <1>2, PointersAssumption DEF Item
<1>4. t = [s EXCEPT ![p] = e]
  BY DEF Changed
<1> HIDE DEF e, t
<1>5. t \in Table /\ Len(t) = Len(s) /\ (s \in Seq(Item) => t \in Seq(Item))
      /\ \A i \in 1 .. Len(s) : t[i] = IF i = p THEN e ELSE s[i]
  BY <1>1, <1>3, <1>4 DEF Table
<1>6. Distinct(t)
  BY <1>1, <1>3, <1>5 DEF Distinct
<1>7. ValueIn(t, k) = v
  BY <1>1, <1>3, <1>5, <1>6, ValueThere
<1>8. \A m : m # k => ValueIn(t, m) = ValueIn(s, m)
  <2>1. Keeps(t, s, k)
    BY <1>3, <1>5 DEF Keeps
  <2>2. Keeps(s, t, k)
    BY <1>1, <1>5 DEF Keeps
  <2> QED
    BY <1>5, <1>6, <2>1, <2>2, SameElsewhere
<1> QED
  BY <1>5, <1>6, <1>7, <1>8 DEF t, p, Became

\* A new item in a hole, and a hole behind the others (the precursor's SET).
LEMMA FillHole ==
  ASSUME NEW s \in Table, Distinct(s), NEW k \in Key, NEW v \in Value \cup {FREED}, Pos(s, k) = 0,
         NEW h \in 1 .. Len(s), s[h] = NULL
  PROVE  /\ Became(s, Append(Put(s, h, [key |-> k, val |-> v]), NULL), k, v)
         /\ Len(Append(Put(s, h, [key |-> k, val |-> v]), NULL)) = Len(s) + 1
<1> DEFINE e == [key |-> k, val |-> v]  u == Put(s, h, e)  t == Append(u, NULL)
<1>1. e \in Item /\ e # NULL /\ e.key = k /\ e.val = v
  BY PointersAssumption DEF Item
<1> HIDE DEF e
<1>2. u \in Table /\ Len(u) = Len(s) /\ \A i \in 1 .. Len(s) : u[i] = IF i = h THEN e ELSE s[i]
  BY <1>1 DEF Table, Put
<1> HIDE DEF u
<1>3. t \in Table /\ Len(t) = Len(s) + 1 /\ \A i \in 1 .. Len(t) : t[i] = IF i = Len(s) + 1 THEN NULL ELSE u[i]
  BY <1>2 DEF Table
<1>4. Len(s) \in Nat /\ \A i \in 1 .. Len(t) : i = Len(s) + 1 \/ i \in 1 .. Len(s)
  BY <1>3 DEF Table
<1> HIDE DEF t
<1>5. \A i \in 1 .. Len(s) : s[i] # NULL => s[i].key # k
  BY ValueNull
<1>6. \A i \in 1 .. Len(t) : t[i] # NULL => i \in 1 .. Len(s) /\ t[i] = IF i = h THEN e ELSE s[i]
  BY <1>2, <1>3, <1>4
<1>7. Distinct(t)
  BY <1>1, <1>5, <1>6 DEF Distinct
<1>8. \A i \in 1 .. Len(s) : i \in 1 .. Len(t) /\ t[i] = IF i = h THEN e ELSE s[i]
  BY <1>2, <1>3, <1>4
<1>9. ValueIn(t, k) = v
  BY <1>1, <1>3, <1>7, <1>8, ValueThere
<1>10. \A m : m # k => ValueIn(t, m) = ValueIn(s, m)
  <2>1. Keeps(t, s, k)
    BY <1>1, <1>6 DEF Keeps
  <2>2. Keeps(s, t, k)
    BY <1>8 DEF Keeps
  <2> QED
    BY <1>3, <1>7, <2>1, <2>2, SameElsewhere
<1> QED
  BY <1>3, <1>7, <1>9, <1>10 DEF t, u, e, Became

\* The slot of k becomes a hole (the precursor's DEL).
LEMMA PunchHole ==
  ASSUME NEW s \in Table, Distinct(s), NEW k, Pos(s, k) # 0
  PROVE  /\ Became(s, Put(s, Pos(s, k), NULL), k, NULL)
         /\ Len(Put(s, Pos(s, k), NULL)) = Len(s)
<1> DEFINE p == Pos(s, k)  t == Put(s, p, NULL)
<1>1. p \in 1 .. Len(s) /\ s[p] # NULL /\ s[p].key = k /\ Len(s) \in Nat
  BY PosIs DEF Table
<1> HIDE DEF p
<1>2. t \in Table /\ Len(t) = Len(s) /\ \A i \in 1 .. Len(s) : t[i] = IF i = p THEN NULL ELSE s[i]
  BY <1>1 DEF Table, Put
<1> HIDE DEF t
<1>3. Distinct(t)
  BY <1>2 DEF Distinct
<1>4. \A i \in 1 .. Len(t) : t[i] # NULL => t[i].key # k
  BY <1>1, <1>2 DEF Distinct
<1>5. ValueIn(t, k) = NULL
  BY <1>2, <1>4, ValueNull
<1>6. \A m : m # k => ValueIn(t, m) = ValueIn(s, m)
  <2>1. Keeps(t, s, k)
    BY <1>2 DEF Keeps
  <2>2. Keeps(s, t, k)
    BY <1>1, <1>2 DEF Keeps
  <2> QED
    BY <1>2, <1>3, <2>1, <2>2, SameElsewhere
<1> QED
  BY <1>2, <1>3, <1>5, <1>6 DEF t, p, Became

\* The last slot is given back (the precursor's DEL).
LEMMA DropLast ==
  ASSUME NEW s \in Table, Distinct(s), NEW k, Pos(s, k) # 0, Pos(s, k) = Len(s)
  PROVE  /\ Became(s, Front(s), k, NULL)
         /\ Len(Front(s)) = Len(s) - 1
<1> DEFINE p == Pos(s, k)  t == Front(s)
<1>1. p \in 1 .. Len(s) /\ s[p] # NULL /\ s[p].key = k /\ Len(s) \in Nat /\ p = Len(s)
  BY PosIs DEF Table
<1> HIDE DEF p
<1>2. t \in Table /\ Len(t) = Len(s) - 1 /\ \A i \in 1 .. Len(t) : t[i] = s[i]
  <2>1. Len(s) - 1 \in Nat /\ Len(s) - 1 <= Len(s)
    BY <1>1
  <2>2. SubSeq(s, 1, Len(s) - 1) \in Table /\ Len(SubSeq(s, 1, Len(s) - 1)) = Len(s) - 1
        /\ \A i \in 1 .. (Len(s) - 1) : SubSeq(s, 1, Len(s) - 1)[i] = s[i]
    BY <2>1 DEF Table
  <2> QED
    BY <2>2 DEF Front
<1> HIDE DEF t
<1>3. \A i \in 1 .. Len(t) : i \in 1 .. Len(s) /\ i # p
  BY <1>1, <1>2
<1>4. \A i \in 1 .. Len(s) : i # p => i \in 1 .. Len(t)
  BY <1>1, <1>2
<1>5. Distinct(t)
  BY <1>2, <1>3 DEF Distinct
<1>6. \A i \in 1 .. Len(t) : t[i] # NULL => t[i].key # k
  BY <1>1, <1>2, <1>3 DEF Distinct
<1>7. ValueIn(t, k) = NULL
  BY <1>2, <1>6, ValueNull
<1>8. \A m : m # k => ValueIn(t, m) = ValueIn(s, m)
  <2>1. Keeps(t, s, k)
    BY <1>2, <1>3 DEF Keeps
  <2>2. Keeps(s, t, k)
    BY <1>1, <1>2, <1>4 DEF Keeps
  <2> QED
    BY <1>2, <1>5, <2>1, <2>2, SameElsewhere
<1> QED
  BY <1>2, <1>5, <1>7, <1>8 DEF t, p, Became

-----------------------------------------------------------------------------
(* What the engines look up, before and after a step.                      *)

\* The scan of a table.
Keyed(s, k) == {i \in 1 .. Len(s) : s[i].key = k}
First(I) == IF I # {} THEN Min(I) ELSE 0

\* A table without holes.
LEMMA NoHoles ==
  ASSUME NEW s \in Seq(Item), NEW k
  PROVE  Pos(s, k) = First(Keyed(s, k)) /\ s \in Table /\ \A i \in 1 .. Len(s) : s[i] # NULL
<1>0. NULL \notin Item
  BY PointersAssumption DEF Item
<1>1. \A i \in 1 .. Len(s) : s[i] \in Item /\ s[i] # NULL
  BY <1>0
<1>2. Hits(s, k) = Keyed(s, k)
  BY <1>1 DEF Hits, Keyed
<1> QED
  BY <1>1, <1>2 DEF Pos, First, Table

\* The scan of kvs_array.c.
LEMMA ArrayLooksUp ==
  ASSUME NEW k
  PROVE  /\ table \in Seq(Item) => Array!SlotOf(k) = Pos(table, k) /\ Array!Lookup(k) = ValueIn(table, k)
         /\ table' \in Seq(Item) => Array!Lookup(k)' = ValueIn(table', k)
<1>1. Array!SlotOf(k) = First(Keyed(table, k))
  BY Zenon DEF Array!SlotOf, Array!SelectInSeq, Array!Min, First, Keyed, Min
<1>2. Array!SlotOf(k)' = First(Keyed(table', k))
  BY Zenon DEF Array!SlotOf, Array!SelectInSeq, Array!Min, First, Keyed, Min
<1>3. table \in Seq(Item) => Array!SlotOf(k) = Pos(table, k)
  BY <1>1, NoHoles
<1>4. table' \in Seq(Item) => Array!SlotOf(k)' = Pos(table', k)
  BY <1>2, NoHoles
<1> QED
  BY <1>3, <1>4 DEF Array!Lookup, ValueIn

Bucket(k) == ByteSum[k] % TableSize

\* _hash names a bucket of the table, in the store and in the precursor.
LEMMA BucketSlot ==
  ASSUME NEW k \in Key
  PROVE  Bucket(k) \in Hash!Slot /\ Hash!Bucket(k) = Bucket(k) /\ Precursor!Chain!Bucket(k) = Bucket(k)
BY SizesAssumption DEF Bucket, Hash!Slot, Hash!Bucket, Precursor!Chain!Bucket

\* The scan of kvs_hash.c.
LEMMA HashLooksUp ==
  ASSUME NEW k \in Key
  PROVE  /\ nodes[Bucket(k)] \in Seq(Item) =>
              Hash!PlaceOf(k) = Pos(nodes[Bucket(k)], k) /\ Hash!Lookup(k) = ValueIn(nodes[Bucket(k)], k)
         /\ nodes'[Bucket(k)] \in Seq(Item) =>
              Hash!PlaceOf(k)' = Pos(nodes'[Bucket(k)], k) /\ Hash!Lookup(k)' = ValueIn(nodes'[Bucket(k)], k)
<1>1. Hash!Chain(k) = nodes[Bucket(k)] /\ Hash!Chain(k)' = nodes'[Bucket(k)]
  BY BucketSlot DEF Hash!Chain
<1>2. /\ Hash!PlaceOf(k) = First(Keyed(Hash!Chain(k), k))
      /\ Hash!PlaceOf(k)' = First(Keyed(Hash!Chain(k)', k))
  BY Zenon DEF Hash!PlaceOf, Hash!SelectInSeq, Hash!Min, First, Keyed, Min
<1>3. nodes[Bucket(k)] \in Seq(Item) => Hash!PlaceOf(k) = Pos(nodes[Bucket(k)], k)
  BY <1>1, <1>2, NoHoles
<1>4. nodes'[Bucket(k)] \in Seq(Item) => Hash!PlaceOf(k)' = Pos(nodes'[Bucket(k)], k)
  BY <1>1, <1>2, NoHoles
<1> QED
  BY <1>1, <1>3, <1>4 DEF Hash!Lookup, ValueIn

\* The scans of the precursor.
LEMMA ChainLooksUp ==
  ASSUME NEW k \in Key
  PROVE  /\ chains[Bucket(k)] \in Seq(Item) =>
              /\ Precursor!Chain!PlaceOf(k) = Pos(chains[Bucket(k)], k)
              /\ Precursor!Chain!Lookup(k) = ValueIn(chains[Bucket(k)], k)
         /\ chains'[Bucket(k)] \in Seq(Item) => Precursor!Chain!Lookup(k)' = ValueIn(chains'[Bucket(k)], k)
<1>1. Precursor!Chain!Chain(k) = chains[Bucket(k)] /\ Precursor!Chain!Chain(k)' = chains'[Bucket(k)]
  BY BucketSlot DEF Precursor!Chain!Chain
<1>2. /\ Precursor!Chain!PlaceOf(k)
           = First(Keyed(Precursor!Chain!Chain(k), k))
      /\ Precursor!Chain!PlaceOf(k)'
           = First(Keyed(Precursor!Chain!Chain(k)', k))
  BY Zenon DEF Precursor!Chain!PlaceOf, Precursor!Chain!SelectInSeq, Precursor!Chain!Min, First, Keyed, Min
<1>3. chains[Bucket(k)] \in Seq(Item) => Precursor!Chain!PlaceOf(k) = Pos(chains[Bucket(k)], k)
  BY <1>1, <1>2, NoHoles
<1>4. chains'[Bucket(k)] \in Seq(Item) => Precursor!Chain!PlaceOf(k)' = Pos(chains'[Bucket(k)], k)
  BY <1>1, <1>2, NoHoles
<1> QED
  BY <1>1, <1>3, <1>4 DEF Precursor!Chain!Lookup, ValueIn

\* The scans of the precursor's array, which pass over holes.
LEMMA SlotsLookUp ==
  ASSUME NEW k
  PROVE  /\ Precursor!SlotOf(k) = Pos(slots, k) /\ Precursor!Lookup(k) = ValueIn(slots, k)
         /\ Precursor!Lookup(k)' = ValueIn(slots', k)
         /\ Precursor!Hole = First({i \in 1 .. Len(slots) : slots[i] = NULL})
<1>1. Precursor!SlotOf(k) = Pos(slots, k) /\ Precursor!SlotOf(k)' = Pos(slots', k)
  BY Zenon DEF Precursor!SlotOf, Precursor!SelectInSeq, Precursor!Min, Pos, Hits, Min
<1>2. Precursor!Hole = First({i \in 1 .. Len(slots) : slots[i] = NULL})
  BY Zenon DEF Precursor!Hole, Precursor!SelectInSeq, Precursor!Min, First, Keyed, Min
<1> QED
  BY <1>1, <1>2 DEF Precursor!Lookup, ValueIn

-----------------------------------------------------------------------------
(* The map a table stands for, and what a request does to it.              *)

TableMap(s) == [k \in Key |-> ValueIn(s, k)]
ChainMap(n) == [k \in Key |-> ValueIn(n[Bucket(k)], k)]
Stored(f) == {k \in Key : f[k] # NULL}

\* What an operation may return and do to the map f; a DEL that misses
\* returns miss.
MapDoes(f, g, ret, r, miss) ==
  \/ /\ r.cmd = "SET"
     /\ \/ f[r.key] # NULL /\ g = f /\ ret = 1
        \/ f[r.key] = NULL /\ g = Put(f, r.key, r.val) /\ ret = 0
  \/ r.cmd = "GET" /\ g = f /\ ret = f[r.key]
  \/ r.cmd = "EXIST" /\ g = f /\ ret = IF f[r.key] = NULL THEN 1 ELSE 0
  \/ /\ r.cmd = "DEL"
     /\ \/ f[r.key] = NULL /\ g = f /\ ret = miss
        \/ f[r.key] # NULL /\ g = Put(f, r.key, NULL) /\ ret = 0
  \/ /\ r.cmd = "MOD"
     /\ \/ f[r.key] = NULL /\ g = f /\ ret \in Nat /\ ret > 0
        \/ f[r.key] # NULL /\ g = Put(f, r.key, r.val) /\ ret = 0

\* A request has a key, and a value where its command needs one.
LEMMA RequestType ==
  ASSUME NEW r \in Request
  PROVE  r.key \in Key /\ r.cmd \in Command /\ (r.cmd \in {"SET", "MOD"} => r.val \in Value)
BY DEF Request, Command

\* Became, as a step of the map.
LEMMA TableMapStep ==
  ASSUME NEW s, NEW t, NEW k, NEW v, Became(s, t, k, v)
  PROVE  TableMap(t) = Put(TableMap(s), k, v)
BY DEF Became, TableMap, Put

\* The tables of the engines.
TableFine(s, size) == s \in Table /\ Distinct(s) /\ Len(s) <= size
ChainsFine(n) ==
  /\ n \in [Hash!Slot -> Seq(Item)]
  /\ \A b \in Hash!Slot : Distinct(n[b]) /\ \A p \in 1 .. Len(n[b]) : Bucket(n[b][p].key) = b
HashGood(n, c) == ChainsFine(n) /\ c = Cardinality(Stored(ChainMap(n)))

\* The chain of k is replaced.
LEMMA ChainStep ==
  ASSUME NEW n, ChainsFine(n), NEW k \in Key, NEW v, NEW q \in Seq(Item), Became(n[Bucket(k)], q, k, v),
         NEW m, m = Put(n, Bucket(k), q)
  PROVE  ChainsFine(m) /\ ChainMap(m) = Put(ChainMap(n), k, v)
<1> DEFINE b == Bucket(k)
<1>1. b \in Hash!Slot /\ n \in [Hash!Slot -> Seq(Item)]
  BY BucketSlot DEF ChainsFine
<1> HIDE DEF b
<1>2. m \in [Hash!Slot -> Seq(Item)] /\ \A x \in Hash!Slot : m[x] = IF x = b THEN q ELSE n[x]
  BY <1>1 DEF b, Put
<1>3. q \in Table /\ Distinct(q) /\ n[b] \in Table /\ Distinct(n[b])
  BY <1>1, NoHoles DEF Became, ChainsFine, b
<1>4. ASSUME NEW p \in 1 .. Len(q) PROVE Bucket(q[p].key) = b
  <2>1. q[p] # NULL /\ ValueIn(q, q[p].key) = q[p].val /\ q[p].val # NULL
    <3>1. q[p] # NULL
      BY NoHoles
    <3> QED
      BY <1>3, <3>1, ValueThere, SlotType
  <2>2. CASE q[p].key = k
    BY <2>2 DEF b
  <2>3. CASE q[p].key # k
    <3>1. ValueIn(n[b], q[p].key) # NULL
      BY <2>1, <2>3 DEF Became, b
    <3>2. PICK i \in 1 .. Len(n[b]) : n[b][i].key = q[p].key
      BY <1>3, <3>1, PosIs
    <3> QED
      BY <1>1, <3>2 DEF ChainsFine
  <2> QED
    BY <2>2, <2>3
<1>5. ChainsFine(m)
  BY <1>1, <1>2, <1>3, <1>4 DEF ChainsFine
<1>6. ASSUME NEW x \in Key PROVE ChainMap(m)[x] = IF x = k THEN v ELSE ChainMap(n)[x]
  <2>1. Bucket(x) \in Hash!Slot
    BY BucketSlot
  <2>2. CASE x = k
    BY <1>2, <2>1, <2>2 DEF ChainMap, Became, b
  <2>3. CASE x # k /\ Bucket(x) = b
    BY <1>2, <2>1, <2>3 DEF ChainMap, Became, b
  <2>4. CASE x # k /\ Bucket(x) # b
    BY <1>2, <2>1, <2>4 DEF ChainMap
  <2> QED
    BY <2>2, <2>3, <2>4
<1>7. ChainMap(m) = Put(ChainMap(n), k, v)
  BY <1>6 DEF ChainMap, Put
<1> QED
  BY <1>5, <1>7

\* How many keys a map has after one of them gets or loses its value.
LEMMA StoredStep ==
  ASSUME NEW f \in [Key -> Value \cup {FREED, NULL}], NEW k \in Key, NEW v,
         NEW g, g = Put(f, k, v)
  PROVE  /\ f[k] = NULL /\ v # NULL => Cardinality(Stored(g)) = Cardinality(Stored(f)) + 1
         /\ f[k] # NULL /\ v = NULL => Cardinality(Stored(g)) = Cardinality(Stored(f)) - 1
         /\ f[k] # NULL /\ v # NULL => Stored(g) = Stored(f)
<1>0. \A x \in Key : g[x] = IF x = k THEN v ELSE f[x]
  BY DEF Put
<1>1. IsFiniteSet(Stored(f))
  <2>1. Stored(f) \in SUBSET Key
    BY DEF Stored
  <2> QED
    BY <2>1, FS_Subset, SizesAssumption
<1>2. CASE f[k] = NULL /\ v # NULL
  <2>1. Stored(g) = Stored(f) \cup {k} /\ k \notin Stored(f)
    BY <1>0, <1>2 DEF Stored
  <2> QED
    BY <1>1, <1>2, <2>1, FS_AddElement
<1>3. CASE f[k] # NULL /\ v = NULL
  <2>1. Stored(g) = Stored(f) \ {k} /\ k \in Stored(f)
    BY <1>0, <1>3 DEF Stored
  <2> QED
    BY <1>1, <1>3, <2>1, FS_RemoveElement
<1>4. CASE f[k] # NULL /\ v # NULL
  <2>1. Stored(g) = Stored(f)
    BY <1>0, <1>4 DEF Stored
  <2> QED
    BY <1>4, <2>1
<1> QED
  BY <1>2, <1>3, <1>4

\* The maps take values, and NULL for no value.
LEMMA MapTypes ==
  /\ \A s \in Table : TableMap(s) \in [Key -> Value \cup {FREED, NULL}]
  /\ \A n : ChainsFine(n) => ChainMap(n) \in [Key -> Value \cup {FREED, NULL}]
<1>1. ASSUME NEW s \in Table, NEW k PROVE ValueIn(s, k) \in Value \cup {FREED, NULL}
  BY PosIs, SlotType
<1>2. ASSUME NEW n, ChainsFine(n), NEW k \in Key PROVE n[Bucket(k)] \in Table
  BY <1>2, BucketSlot, NoHoles DEF ChainsFine
<1> QED
  BY <1>1, <1>2 DEF TableMap, ChainMap

\* An operation on the hash table n with c nodes.
Pushed(s, k, v) == <<[key |-> k, val |-> v]>> \o s
HashDoes(n, m, c, d, ret, r) ==
  \/ /\ r.cmd = "SET"
     /\ \/ Pos(n[Bucket(r.key)], r.key) # 0 /\ ret = 1 /\ m = n /\ d = c
        \/ /\ Pos(n[Bucket(r.key)], r.key) = 0 /\ ret = 0 /\ d = c + 1
           /\ m = Put(n, Bucket(r.key), Pushed(n[Bucket(r.key)], r.key, r.val))
  \/ r.cmd = "GET" /\ ret = ValueIn(n[Bucket(r.key)], r.key) /\ m = n /\ d = c
  \/ /\ r.cmd = "EXIST" /\ ret = (IF ValueIn(n[Bucket(r.key)], r.key) = NULL THEN 1 ELSE 0)
     /\ m = n /\ d = c
  \/ /\ r.cmd = "DEL"
     /\ \/ Pos(n[Bucket(r.key)], r.key) = 0 /\ ret = -1 /\ m = n /\ d = c
        \/ /\ Pos(n[Bucket(r.key)], r.key) # 0 /\ ret = 0 /\ d = c - 1
           /\ m = Put(n, Bucket(r.key), RemoveAt(n[Bucket(r.key)], Pos(n[Bucket(r.key)], r.key)))
  \/ /\ r.cmd = "MOD"
     /\ \/ Pos(n[Bucket(r.key)], r.key) = 0 /\ ret = 1 /\ m = n /\ d = c
        \/ /\ Pos(n[Bucket(r.key)], r.key) # 0 /\ ret = 0 /\ d = c
           /\ m = Put(n, Bucket(r.key), Changed(n[Bucket(r.key)], Pos(n[Bucket(r.key)], r.key), r.val))

\* The chain of a key.
LEMMA ChainFacts ==
  ASSUME NEW n, ChainsFine(n), NEW k \in Key, NEW q, q = n[Bucket(k)]
  PROVE  /\ q \in Seq(Item) /\ q \in Table /\ Distinct(q)
         /\ ChainMap(n)[k] = ValueIn(q, k) /\ (ChainMap(n)[k] = NULL <=> Pos(q, k) = 0)
         /\ ChainMap(n) \in [Key -> Value \cup {FREED, NULL}]
<1>1. q \in Seq(Item) /\ q \in Table /\ Distinct(q)
  BY BucketSlot, NoHoles DEF ChainsFine
<1>2. ChainMap(n)[k] = ValueIn(q, k)
  BY DEF ChainMap
<1> QED
  BY <1>1, <1>2, ValueNull, MapTypes

\* A node's value is replaced, by FREED too.
LEMMA HashChange ==
  ASSUME NEW n, NEW c, HashGood(n, c), NEW k \in Key, NEW v \in Value \cup {FREED},
         NEW q, q = n[Bucket(k)], Pos(q, k) # 0,
         NEW m, m = Put(n, Bucket(k), Changed(q, Pos(q, k), v))
  PROVE  HashGood(m, c) /\ ChainMap(m) = Put(ChainMap(n), k, v) /\ ChainMap(n)[k] # NULL
<1> DEFINE t == Changed(q, Pos(q, k), v)
<1>0. ChainsFine(n) /\ c = Cardinality(Stored(ChainMap(n)))
  BY DEF HashGood
<1>1. q \in Seq(Item) /\ q \in Table /\ Distinct(q) /\ ChainMap(n)[k] # NULL
      /\ ChainMap(n) \in [Key -> Value \cup {FREED, NULL}]
  BY <1>0, ChainFacts
<1>2. t \in Seq(Item) /\ Became(q, t, k, v)
  BY <1>1, ChangeItem
<1>4. m = Put(n, Bucket(k), t) /\ Became(n[Bucket(k)], t, k, v)
  BY <1>2
<1> HIDE DEF t
<1>5. ChainsFine(m) /\ ChainMap(m) = Put(ChainMap(n), k, v)
  BY <1>0, <1>2, <1>4, ChainStep
<1>6. v # NULL
  BY PointersAssumption
<1>7. Stored(ChainMap(m)) = Stored(ChainMap(n))
  BY <1>1, <1>5, <1>6, StoredStep
<1> QED
  BY <1>0, <1>1, <1>5, <1>7 DEF HashGood

\* The hash table keeps the contract of the operation table.
LEMMA HashMap ==
  ASSUME NEW n, NEW m, NEW c, NEW d, NEW ret, NEW r \in Request, HashGood(n, c), HashDoes(n, m, c, d, ret, r)
  PROVE  HashGood(m, d) /\ MapDoes(ChainMap(n), ChainMap(m), ret, r, -1)
<1>a. PICK k : k = r.key
  OBVIOUS
<1>b. PICK q : q = n[Bucket(k)]
  OBVIOUS
<1>c. PICK p : p = Pos(q, k)
  OBVIOUS
<1>0. k \in Key /\ (r.cmd \in {"SET", "MOD"} => r.val \in Value)
  BY <1>a, RequestType
<1>1. ChainsFine(n) /\ c = Cardinality(Stored(ChainMap(n)))
  BY DEF HashGood
<1>2. /\ q \in Seq(Item) /\ q \in Table /\ Distinct(q)
      /\ ChainMap(n)[k] = ValueIn(q, k) /\ (ChainMap(n)[k] = NULL <=> p = 0)
      /\ ChainMap(n) \in [Key -> Value \cup {FREED, NULL}]
  BY <1>0, <1>1, <1>b, <1>c, ChainFacts
<1>4. CASE /\ m = n /\ d = c
           /\ \/ r.cmd = "SET" /\ p # 0 /\ ret = 1
              \/ r.cmd = "GET" /\ ret = ValueIn(q, k)
              \/ r.cmd = "EXIST" /\ ret = (IF ValueIn(q, k) = NULL THEN 1 ELSE 0)
              \/ r.cmd = "DEL" /\ p = 0 /\ ret = -1
              \/ r.cmd = "MOD" /\ p = 0 /\ ret = 1
  BY <1>2, <1>4, <1>a DEF MapDoes
<1>5. CASE r.cmd = "SET" /\ p = 0 /\ ret = 0 /\ d = c + 1 /\ m = Put(n, Bucket(k), Pushed(q, k, r.val))
  <2>1. PICK t : t = Pushed(q, k, r.val)
    OBVIOUS
  <2>2. t \in Seq(Item) /\ Became(n[Bucket(k)], t, k, r.val)
    BY <1>0, <1>2, <1>5, <1>b, <1>c, <2>1, PushItem DEF Pushed
  <2>3. ChainsFine(m) /\ ChainMap(m) = Put(ChainMap(n), k, r.val)
    BY <1>0, <1>1, <1>5, <2>1, <2>2, ChainStep
  <2>4. r.val # NULL /\ r.val \in Value
    BY <1>0, <1>5, PointersAssumption
  <2>5. Cardinality(Stored(ChainMap(m))) = Cardinality(Stored(ChainMap(n))) + 1
    BY <1>0, <1>2, <1>5, <2>3, <2>4, StoredStep
  <2> QED
    BY <1>1, <1>2, <1>5, <1>a, <2>3, <2>5 DEF HashGood, MapDoes
<1>6. CASE r.cmd = "DEL" /\ p # 0 /\ ret = 0 /\ d = c - 1 /\ m = Put(n, Bucket(k), RemoveAt(q, p))
  <2>1. PICK t : t = RemoveAt(q, p)
    OBVIOUS
  <2>2. t \in Seq(Item) /\ Became(n[Bucket(k)], t, k, NULL)
    BY <1>0, <1>2, <1>6, <1>b, <1>c, <2>1, RemoveItem
  <2>3. ChainsFine(m) /\ ChainMap(m) = Put(ChainMap(n), k, NULL)
    BY <1>0, <1>1, <1>6, <2>1, <2>2, ChainStep
  <2>4. Cardinality(Stored(ChainMap(m))) = Cardinality(Stored(ChainMap(n))) - 1
    BY <1>0, <1>2, <1>6, <2>3, StoredStep
  <2> QED
    BY <1>1, <1>2, <1>6, <1>a, <2>3, <2>4 DEF HashGood, MapDoes
<1>7. CASE r.cmd = "MOD" /\ p # 0 /\ ret = 0 /\ d = c /\ m = Put(n, Bucket(k), Changed(q, p, r.val))
  <2>1. HashGood(m, c) /\ ChainMap(m) = Put(ChainMap(n), k, r.val) /\ ChainMap(n)[k] # NULL
    BY <1>0, <1>7, <1>b, <1>c, HashChange
  <2> QED
    BY <1>7, <1>a, <2>1 DEF MapDoes
<1> QED
  BY <1>4, <1>5, <1>6, <1>7, <1>a, <1>b, <1>c DEF HashDoes

-----------------------------------------------------------------------------
(* The operations of the four engines.                                     *)

HashActs(r) ==
  \/ r.cmd = "SET" /\ Hash!Set(r.key, r.val)
  \/ r.cmd = "GET" /\ Hash!Get(r.key)
  \/ r.cmd = "DEL" /\ Hash!Del(r.key)
  \/ r.cmd = "MOD" /\ Hash!Mod(r.key, r.val)
  \/ r.cmd = "EXIST" /\ Hash!Exist(r.key)

\* The operations of kvs_hash.c, on the chain of the request's key.
LEMMA HashOp ==
  ASSUME NEW r \in Request, ChainsFine(nodes), HashActs(r)
  PROVE  HashDoes(nodes, nodes', count, count', hret', r)
<1>1. r.key \in Key /\ Hash!Bucket(r.key) = Bucket(r.key) /\ Hash!Chain(r.key) = nodes[Bucket(r.key)]
  BY RequestType, BucketSlot DEF Hash!Chain
<1>2. nodes[Bucket(r.key)] \in Seq(Item)
  BY <1>1, BucketSlot DEF ChainsFine
<1>3. Hash!PlaceOf(r.key) = Pos(nodes[Bucket(r.key)], r.key) /\ Hash!Lookup(r.key) = ValueIn(nodes[Bucket(r.key)], r.key)
  BY <1>1, <1>2, HashLooksUp
<1>4. CASE r.cmd = "SET" /\ Hash!Set(r.key, r.val)
  BY <1>1, <1>3, <1>4 DEF Hash!Set, HashDoes, Put, Pushed
<1>5. CASE r.cmd = "GET" /\ Hash!Get(r.key)
  BY <1>1, <1>3, <1>5 DEF Hash!Get, HashDoes
<1>6. CASE r.cmd = "DEL" /\ Hash!Del(r.key)
  BY <1>1, <1>3, <1>6 DEF Hash!Del, HashDoes, Put, Hash!RemoveAt, RemoveAt
<1>7. CASE r.cmd = "MOD" /\ Hash!Mod(r.key, r.val)
  BY <1>1, <1>3, <1>7 DEF Hash!Mod, HashDoes, Put, Changed
<1>8. CASE r.cmd = "EXIST" /\ Hash!Exist(r.key)
  BY <1>1, <1>3, <1>8 DEF Hash!Exist, HashDoes
<1> QED
  BY <1>4, <1>5, <1>6, <1>7, <1>8 DEF HashActs

ChainActs(r) ==
  \/ r.cmd = "SET" /\ Precursor!Chain!Set(r.key, r.val)
  \/ r.cmd = "GET" /\ Precursor!Chain!Get(r.key)
  \/ r.cmd = "DEL" /\ Precursor!Chain!Del(r.key)
  \/ r.cmd = "MOD" /\ Precursor!Chain!Mod(r.key, r.val)
  \/ r.cmd = "EXIST" /\ Precursor!Chain!Exist(r.key)

\* The same operations on the precursor's hash table.
LEMMA ChainOp ==
  ASSUME NEW r \in Request, ChainsFine(chains), ChainActs(r)
  PROVE  HashDoes(chains, chains', pcount, pcount', cret', r)
<1>1. r.key \in Key /\ Precursor!Chain!Bucket(r.key) = Bucket(r.key) /\ Precursor!Chain!Chain(r.key) = chains[Bucket(r.key)]
  BY RequestType, BucketSlot DEF Precursor!Chain!Chain
<1>2. chains[Bucket(r.key)] \in Seq(Item)
  BY <1>1, BucketSlot DEF ChainsFine
<1>3. /\ Precursor!Chain!PlaceOf(r.key) = Pos(chains[Bucket(r.key)], r.key)
      /\ Precursor!Chain!Lookup(r.key) = ValueIn(chains[Bucket(r.key)], r.key)
  BY <1>1, <1>2, ChainLooksUp
<1>4. CASE r.cmd = "SET" /\ Precursor!Chain!Set(r.key, r.val)
  BY <1>1, <1>3, <1>4 DEF Precursor!Chain!Set, HashDoes, Put, Pushed
<1>5. CASE r.cmd = "GET" /\ Precursor!Chain!Get(r.key)
  BY <1>1, <1>3, <1>5 DEF Precursor!Chain!Get, HashDoes
<1>6. CASE r.cmd = "DEL" /\ Precursor!Chain!Del(r.key)
  BY <1>1, <1>3, <1>6 DEF Precursor!Chain!Del, HashDoes, Put, Precursor!Chain!RemoveAt, RemoveAt
<1>7. CASE r.cmd = "MOD" /\ Precursor!Chain!Mod(r.key, r.val)
  BY <1>1, <1>3, <1>7 DEF Precursor!Chain!Mod, HashDoes, Put, Changed
<1>8. CASE r.cmd = "EXIST" /\ Precursor!Chain!Exist(r.key)
  BY <1>1, <1>3, <1>8 DEF Precursor!Chain!Exist, HashDoes
<1> QED
  BY <1>4, <1>5, <1>6, <1>7, <1>8 DEF ChainActs

\* A failed kvs_hash_mod leaves the pointer to the value it freed.
LEMMA HashNoMemory ==
  ASSUME NEW k \in Key, NEW c, HashGood(nodes, c), Hash!ModNoMemory(k)
  PROVE  HashGood(nodes', c)
<1>1. Hash!Bucket(k) = Bucket(k) /\ Hash!Chain(k) = nodes[Bucket(k)] /\ nodes[Bucket(k)] \in Seq(Item)
  BY BucketSlot DEF Hash!Chain, HashGood, ChainsFine
<1>2. Hash!PlaceOf(k) = Pos(nodes[Bucket(k)], k)
  BY <1>1, HashLooksUp
<1>3. PICK q : q = nodes[Bucket(k)]
  OBVIOUS
<1>4. Pos(q, k) # 0 /\ nodes' = Put(nodes, Bucket(k), Changed(q, Pos(q, k), FREED))
  BY <1>1, <1>2, <1>3 DEF Hash!ModNoMemory, Put, Changed
<1>5. FREED \in Value \cup {FREED}
  OBVIOUS
<1> QED
  BY <1>3, <1>4, <1>5, HashChange

\* And so does that of the precursor.
LEMMA ChainNoMemory ==
  ASSUME NEW k \in Key, NEW c, HashGood(chains, c), Precursor!Chain!ModNoMemory(k)
  PROVE  HashGood(chains', c)
<1>1. /\ Precursor!Chain!Bucket(k) = Bucket(k) /\ Precursor!Chain!Chain(k) = chains[Bucket(k)]
      /\ chains[Bucket(k)] \in Seq(Item)
  BY BucketSlot DEF Precursor!Chain!Chain, HashGood, ChainsFine
<1>2. Precursor!Chain!PlaceOf(k) = Pos(chains[Bucket(k)], k)
  BY <1>1, ChainLooksUp
<1>3. PICK q : q = chains[Bucket(k)]
  OBVIOUS
<1>4. Pos(q, k) # 0 /\ chains' = Put(chains, Bucket(k), Changed(q, Pos(q, k), FREED))
  BY <1>1, <1>2, <1>3 DEF Precursor!Chain!ModNoMemory, Put, Changed
<1>5. FREED \in Value \cup {FREED}
  OBVIOUS
<1> QED
  BY <1>3, <1>4, <1>5, HashChange

ArrayActs(r) ==
  \/ r.cmd = "SET" /\ Array!Set(r.key, r.val)
  \/ r.cmd = "GET" /\ Array!Get(r.key)
  \/ r.cmd = "DEL" /\ Array!Del(r.key)
  \/ r.cmd = "MOD" /\ Array!Mod(r.key, r.val)
  \/ r.cmd = "EXIST" /\ Array!Exist(r.key)

\* The slots of kvs_array.c have no holes.
ArrayGood(s) == s \in Seq(Item) /\ TableFine(s, ArraySize)

\* The array engine keeps the contract too, unless it is full.
LEMMA ArrayOp ==
  ASSUME NEW r \in Request, ArrayGood(table), ArrayActs(r)
  PROVE  /\ ArrayGood(table')
         /\ \/ r.cmd = "SET" /\ Len(table) = ArraySize /\ table' = table /\ aret' = -1
            \/ MapDoes(TableMap(table), TableMap(table'), aret', r, Len(table))
<1>a. PICK k : k = r.key
  OBVIOUS
<1>b. PICK p : p = Pos(table, k)
  OBVIOUS
<1>c. PICK s : s = table
  OBVIOUS
<1>1. k \in Key /\ (r.cmd \in {"SET", "MOD"} => r.val \in Value)
  BY <1>a, RequestType
<1>2. s \in Seq(Item) /\ s \in Table /\ Distinct(s) /\ Len(s) \in Nat /\ Len(s) <= ArraySize /\ ArraySize \in Nat \ {0}
  BY <1>c, SizesAssumption DEF ArrayGood, TableFine
<1>3. Array!SlotOf(k) = p /\ Array!Lookup(k) = ValueIn(s, k)
  BY <1>2, <1>b, <1>c, ArrayLooksUp
<1>4. TableMap(s)[k] = ValueIn(s, k) /\ (ValueIn(s, k) = NULL <=> p = 0)
  BY <1>1, <1>2, <1>b, <1>c, ValueNull DEF TableMap
<1>5. CASE r.cmd = "SET" /\ Array!Set(r.key, r.val)
  <2>1. CASE table' = table
    BY <1>3, <1>4, <1>5, <1>a, <1>c, <2>1 DEF Array!Set, MapDoes
  <2>2. CASE table' # table
    <3>1. p = 0 /\ aret' = 0 /\ Len(s) # ArraySize /\ table' = Append(s, [key |-> k, val |-> r.val])
      BY <1>3, <1>4, <1>5, <1>a, <1>c, <2>2 DEF Array!Set
    <3>2. r.val \in Value \cup {FREED}
      BY <1>1, <1>5
    <3>3. Became(s, table', k, r.val) /\ Len(table') = Len(s) + 1 /\ table' \in Seq(Item)
      BY <1>1, <1>2, <1>b, <1>c, <3>1, <3>2, AppendItem
    <3>4. TableMap(table') = Put(TableMap(s), k, r.val)
      BY <3>3, TableMapStep
    <3>5. ArrayGood(table')
      BY <1>2, <3>1, <3>3 DEF ArrayGood, TableFine, Became
    <3> QED
      BY <1>4, <1>5, <1>a, <1>c, <3>1, <3>4, <3>5 DEF MapDoes
  <2> QED
    BY <2>1, <2>2
<1>6. CASE r.cmd = "GET" /\ Array!Get(r.key)
  BY <1>3, <1>4, <1>6, <1>a, <1>c DEF Array!Get, MapDoes
<1>7. CASE r.cmd = "DEL" /\ Array!Del(r.key)
  <2>1. CASE p = 0
    BY <1>3, <1>4, <1>7, <1>a, <1>c, <2>1 DEF Array!Del, MapDoes
  <2>2. CASE p # 0
    <3>1. aret' = 0 /\ table' = RemoveAt(s, p)
      BY <1>3, <1>7, <1>a, <1>c, <2>2 DEF Array!Del, Array!RemoveAt, RemoveAt
    <3>2. Became(s, table', k, NULL) /\ Len(table') = Len(s) - 1 /\ table' \in Seq(Item)
      BY <1>2, <1>b, <1>c, <2>2, <3>1, RemoveItem
    <3>3. TableMap(table') = Put(TableMap(s), k, NULL)
      BY <3>2, TableMapStep
    <3>4. ArrayGood(table')
      BY <1>2, <3>2 DEF ArrayGood, TableFine, Became
    <3> QED
      BY <1>4, <1>7, <1>a, <1>c, <2>2, <3>1, <3>3, <3>4 DEF MapDoes
  <2> QED
    BY <2>1, <2>2
<1>8. CASE r.cmd = "MOD" /\ Array!Mod(r.key, r.val)
  <2>1. CASE p = 0
    <3>1. table' = table /\ aret' = IF table = <<>> THEN ArraySize ELSE Len(table)
      BY <1>3, <1>8, <1>a, <2>1 DEF Array!Mod
    <3>2. aret' \in Nat /\ aret' > 0
      BY <1>2, <1>c, <3>1
    <3> QED
      BY <1>4, <1>8, <1>a, <1>c, <2>1, <3>1, <3>2 DEF MapDoes
  <2>2. CASE p # 0
    <3>1. aret' = 0 /\ table' = Changed(s, p, r.val)
      BY <1>3, <1>8, <1>a, <1>c, <2>2 DEF Array!Mod, Changed
    <3>2. r.val \in Value \cup {FREED}
      BY <1>1, <1>8
    <3>3. Became(s, table', k, r.val) /\ Len(table') = Len(s) /\ table' \in Seq(Item)
      BY <1>2, <1>b, <1>c, <2>2, <3>1, <3>2, ChangeItem
    <3>4. TableMap(table') = Put(TableMap(s), k, r.val)
      BY <3>3, TableMapStep
    <3>5. ArrayGood(table')
      BY <1>2, <3>3 DEF ArrayGood, TableFine, Became
    <3> QED
      BY <1>4, <1>8, <1>a, <1>c, <2>2, <3>1, <3>4, <3>5 DEF MapDoes
  <2> QED
    BY <2>1, <2>2
<1>9. CASE r.cmd = "EXIST" /\ Array!Exist(r.key)
  BY <1>3, <1>4, <1>9, <1>a, <1>c DEF Array!Exist, MapDoes
<1> QED
  BY <1>5, <1>6, <1>7, <1>8, <1>9 DEF ArrayActs

\* A failed kvs_array_mod leaves the pointer to the value it freed.
LEMMA ArrayNoMemory ==
  ASSUME NEW k \in Key, ArrayGood(table), Array!ModNoMemory(k)
  PROVE  ArrayGood(table')
<1>a. PICK s : s = table
  OBVIOUS
<1>1. s \in Seq(Item) /\ s \in Table /\ Distinct(s) /\ Len(s) <= ArraySize
  BY <1>a DEF ArrayGood, TableFine
<1>2. Array!SlotOf(k) = Pos(s, k)
  BY <1>1, <1>a, ArrayLooksUp
<1>3. Pos(s, k) # 0 /\ table' = Changed(s, Pos(s, k), FREED)
  BY <1>2, <1>a DEF Array!ModNoMemory, Changed
<1>4. FREED \in Value \cup {FREED}
  OBVIOUS
<1>5. Became(s, table', k, FREED) /\ Len(table') = Len(s) /\ table' \in Seq(Item)
  BY <1>1, <1>3, <1>4, ChangeItem
<1> QED
  BY <1>1, <1>5 DEF ArrayGood, TableFine, Became

SlotActs(r) ==
  \/ r.cmd = "SET" /\ Precursor!SlotSet(r.key, r.val)
  \/ r.cmd = "GET" /\ Precursor!SlotGet(r.key)
  \/ r.cmd = "DEL" /\ Precursor!SlotDel(r.key)
  \/ r.cmd = "MOD" /\ Precursor!SlotMod(r.key, r.val)
  \/ r.cmd = "EXIST" /\ Precursor!SlotExist(r.key)

\* The precursor's array, holes included, keeps the contract unless it is full.
LEMMA SlotOp ==
  ASSUME NEW r \in Request, TableFine(slots, PrecursorSize), SlotActs(r)
  PROVE  /\ TableFine(slots', PrecursorSize)
         /\ \/ r.cmd = "SET" /\ Len(slots) = PrecursorSize /\ slots' = slots
            \/ MapDoes(TableMap(slots), TableMap(slots'), sret', r, Len(slots))
<1>a. PICK k : k = r.key
  OBVIOUS
<1>b. PICK p : p = Pos(slots, k)
  OBVIOUS
<1>c. PICK s : s = slots
  OBVIOUS
<1>1. k \in Key /\ (r.cmd \in {"SET", "MOD"} => r.val \in Value)
  BY <1>a, RequestType
<1>2. s \in Table /\ Distinct(s) /\ Len(s) \in Nat /\ Len(s) <= PrecursorSize /\ PrecursorSize \in Nat \ {0}
  BY <1>c, SizesAssumption DEF TableFine, Table
<1>3. Precursor!SlotOf(k) = p /\ Precursor!Lookup(k) = ValueIn(s, k)
  BY <1>b, <1>c, SlotsLookUp
<1>4. TableMap(s)[k] = ValueIn(s, k) /\ (ValueIn(s, k) = NULL <=> p = 0)
  BY <1>1, <1>2, <1>b, <1>c, ValueNull DEF TableMap
<1>5. CASE r.cmd = "SET" /\ Precursor!SlotSet(r.key, r.val)
  <2>1. CASE slots' = slots /\ (Len(slots) = PrecursorSize \/ (p # 0 /\ sret' = 1))
    BY <1>4, <1>5, <1>a, <1>c, <2>1 DEF MapDoes
  <2>2. CASE ~(slots' = slots /\ (Len(slots) = PrecursorSize \/ (p # 0 /\ sret' = 1)))
    <3>1. /\ p = 0 /\ sret' = 0 /\ Len(s) # PrecursorSize
          /\ slots' = IF Precursor!Hole = 0 THEN Append(s, [key |-> k, val |-> r.val])
                      ELSE Append(Put(s, Precursor!Hole, [key |-> k, val |-> r.val]), NULL)
      BY <1>3, <1>5, <1>a, <1>c, <2>2 DEF Precursor!SlotSet, Put
    <3>2. r.val \in Value \cup {FREED}
      BY <1>1, <1>5
    <3>3. Became(s, slots', k, r.val) /\ Len(slots') = Len(s) + 1
      <4>1. CASE Precursor!Hole = 0
        BY <1>1, <1>2, <1>b, <1>c, <3>1, <3>2, <4>1, AppendItem
      <4>2. CASE Precursor!Hole # 0
        <5>1. PICK h : h = Precursor!Hole
          OBVIOUS
        <5>2. h \in {i \in 1 .. Len(s) : s[i] = NULL}
          <6>1. PICK I : I = {i \in 1 .. Len(s) : s[i] = NULL}
            OBVIOUS
          <6>2. I \subseteq Nat /\ h = First(I)
            BY <1>c, <5>1, <6>1, SlotsLookUp
          <6> QED
            BY <4>2, <5>1, <6>1, <6>2, NatMin DEF First
        <5>3. slots' = Append(Put(s, h, [key |-> k, val |-> r.val]), NULL)
          BY <3>1, <4>2, <5>1
        <5>4. h \in 1 .. Len(s) /\ s[h] = NULL
          BY <5>2
        <5> QED
          <6>1. Pos(s, k) = 0 /\ s \in Table /\ Distinct(s)
            BY <1>2, <1>b, <1>c, <3>1
          <6>2. PICK t : t = Append(Put(s, h, [key |-> k, val |-> r.val]), NULL)
            OBVIOUS
          <6>3. Became(s, t, k, r.val) /\ Len(t) = Len(s) + 1
            BY <1>1, <3>2, <5>4, <6>1, <6>2, FillHole
          <6> QED
            BY <5>3, <6>2, <6>3
      <4> QED
        BY <4>1, <4>2
    <3>4. TableMap(slots') = Put(TableMap(s), k, r.val)
      BY <3>3, TableMapStep
    <3>5. TableFine(slots', PrecursorSize)
      BY <1>2, <3>1, <3>3 DEF TableFine, Became
    <3> QED
      BY <1>4, <1>5, <1>a, <1>c, <3>1, <3>4, <3>5 DEF MapDoes
  <2> QED
    BY <2>1, <2>2
<1>6. CASE r.cmd = "GET" /\ Precursor!SlotGet(r.key)
  BY <1>3, <1>4, <1>6, <1>a, <1>c DEF Precursor!SlotGet, MapDoes
<1>7. CASE r.cmd = "DEL" /\ Precursor!SlotDel(r.key)
  <2>1. CASE p = 0
    BY <1>3, <1>4, <1>7, <1>a, <1>c, <2>1 DEF Precursor!SlotDel, MapDoes
  <2>2. CASE p # 0
    <3>1. sret' = 0 /\ slots' = IF p = Len(s) THEN Front(s) ELSE Put(s, p, NULL)
      BY <1>3, <1>7, <1>a, <1>c, <2>2 DEF Precursor!SlotDel, Precursor!Front, Front, Put
    <3>2. Became(s, slots', k, NULL) /\ Len(slots') <= Len(s)
      <4>1. CASE p = Len(s)
        <5>1. slots' = Front(s) /\ Pos(s, k) # 0 /\ Pos(s, k) = Len(s)
          BY <1>b, <1>c, <2>2, <3>1, <4>1
        <5>2. Became(s, Front(s), k, NULL) /\ Len(Front(s)) = Len(s) - 1
          BY <1>2, <5>1, DropLast
        <5> QED
          BY <1>2, <5>1, <5>2
      <4>2. CASE p # Len(s)
        BY <1>2, <1>b, <1>c, <2>2, <3>1, <4>2, PunchHole
      <4> QED
        BY <4>1, <4>2
    <3>3. TableMap(slots') = Put(TableMap(s), k, NULL)
      BY <3>2, TableMapStep
    <3>4. TableFine(slots', PrecursorSize)
      <4>1. Len(slots') \in Nat
        BY <3>2 DEF Became, Table
      <4> QED
        BY <1>2, <3>2, <4>1 DEF TableFine, Became
    <3> QED
      BY <1>4, <1>7, <1>a, <1>c, <2>2, <3>1, <3>3, <3>4 DEF MapDoes
  <2> QED
    BY <2>1, <2>2
<1>8. CASE r.cmd = "MOD" /\ Precursor!SlotMod(r.key, r.val)
  <2>1. CASE p = 0
    <3>1. slots' = slots /\ sret' = IF slots = <<>> THEN PrecursorSize ELSE Len(slots)
      BY <1>3, <1>8, <1>a, <2>1 DEF Precursor!SlotMod
    <3>2. sret' \in Nat /\ sret' > 0
      BY <1>2, <1>c, <3>1 DEF Table
    <3> QED
      BY <1>4, <1>8, <1>a, <1>c, <2>1, <3>1, <3>2 DEF MapDoes
  <2>2. CASE p # 0
    <3>1. sret' = 0 /\ slots' = Changed(s, p, r.val)
      BY <1>3, <1>8, <1>a, <1>c, <2>2 DEF Precursor!SlotMod, Changed
    <3>2. r.val \in Value \cup {FREED}
      BY <1>1, <1>8
    <3>3. Became(s, slots', k, r.val) /\ Len(slots') = Len(s)
      BY <1>2, <1>b, <1>c, <2>2, <3>1, <3>2, ChangeItem
    <3>4. TableMap(slots') = Put(TableMap(s), k, r.val)
      BY <3>3, TableMapStep
    <3>5. TableFine(slots', PrecursorSize)
      BY <1>2, <3>3 DEF TableFine, Became
    <3> QED
      BY <1>4, <1>8, <1>a, <1>c, <2>2, <3>1, <3>4, <3>5 DEF MapDoes
  <2> QED
    BY <2>1, <2>2
<1>9. CASE r.cmd = "EXIST" /\ Precursor!SlotExist(r.key)
  BY <1>3, <1>4, <1>9, <1>a, <1>c DEF Precursor!SlotExist, MapDoes
<1> QED
  BY <1>5, <1>6, <1>7, <1>8, <1>9 DEF SlotActs

\* A failed MOD on the precursor's array leaves the pointer to the freed value.
LEMMA SlotNoMemory ==
  ASSUME NEW k, TableFine(slots, PrecursorSize), Pos(slots, k) # 0,
         slots' = Changed(slots, Pos(slots, k), FREED)
  PROVE  TableFine(slots', PrecursorSize)
<1>a. PICK s : s = slots
  OBVIOUS
<1>1. s \in Table /\ Distinct(s) /\ Len(s) <= PrecursorSize
  BY <1>a DEF TableFine
<1>2. Pos(s, k) # 0 /\ slots' = Changed(s, Pos(s, k), FREED)
  BY <1>a
<1>3. FREED \in Value \cup {FREED}
  OBVIOUS
<1>4. Became(s, slots', k, FREED) /\ Len(slots') = Len(s)
  BY <1>1, <1>2, <1>3, ChangeItem
<1> QED
  BY <1>1, <1>4 DEF TableFine, Became

-----------------------------------------------------------------------------
(* The replies.                                                            *)

\* kvs_filter_protocol tells zero, a negative and a positive outcome apart.
LEMMA PositiveReply ==
  ASSUME NEW cmd \in {"DEL", "MOD"}, NEW a, NEW b, ~(a < 0), a # 0, ~(b < 0), b # 0
  PROVE  Response(cmd, a) = Response(cmd, b)
<1>1. CASE cmd = "DEL"
  BY <1>1, Zenon DEF Response
<1>2. CASE cmd = "MOD"
  BY <1>2, Zenon DEF Response
<1> QED
  BY <1>1, <1>2

\* Two engines that stand for the same map do so after the request and reply
\* the same, but for a DEL that misses.
LEMMA SameReply ==
  ASSUME NEW f, NEW g, NEW h, NEW a, NEW b, NEW r, NEW x, NEW y,
         MapDoes(f, g, a, r, x), MapDoes(f, h, b, r, y)
  PROVE  /\ g = h
         /\ \/ Response(r.cmd, a) = Response(r.cmd, b)
            \/ r.cmd = "DEL" /\ f[r.key] = NULL /\ h[r.key] = NULL /\ a = x /\ b = y
<1>1. g = h
  BY DEF MapDoes
<1>2. a = b \/ (r.cmd = "DEL" /\ f[r.key] = NULL /\ h = f /\ a = x /\ b = y)
            \/ (r.cmd = "MOD" /\ a \in Nat /\ b \in Nat /\ a > 0 /\ b > 0)
  BY DEF MapDoes
<1>3. CASE r.cmd = "MOD" /\ a \in Nat /\ b \in Nat /\ a > 0 /\ b > 0
  <2>1. ~(a < 0) /\ a # 0 /\ ~(b < 0) /\ b # 0 /\ r.cmd \in {"DEL", "MOD"}
    BY <1>3
  <2> QED
    BY <1>1, <2>1, PositiveReply, Zenon
<1> QED
  BY <1>1, <1>2, <1>3, Zenon

\* A DEL that misses reports how far the scan went: nowhere, if the table is
\* empty.  A table without holes is empty if and only if its map is.
LEMMA EmptyTable ==
  ASSUME NEW s \in Table, \A i \in 1 .. Len(s) : s[i] # NULL
  PROVE  Len(s) = 0 <=> \A k \in Key : TableMap(s)[k] = NULL
<1>1. Len(s) \in Nat
  BY DEF Table
<1>2. CASE Len(s) = 0
  <2>1. \A k : \A i \in 1 .. Len(s) : s[i] # NULL => s[i].key # k
    BY <1>2
  <2>2. \A k : ValueIn(s, k) = NULL
    BY <2>1, ValueNull
  <2> QED
    BY <1>2, <2>2 DEF TableMap
<1>3. CASE Len(s) # 0
  <2>1. 1 \in 1 .. Len(s) /\ s[1] # NULL
    BY <1>1, <1>3
  <2>2. s[1].key \in Key
    BY <2>1, SlotType
  <2>3. ValueIn(s, s[1].key) # NULL
    BY <2>1, ValueNull
  <2> QED
    BY <1>3, <2>2, <2>3 DEF TableMap
<1> QED
  BY <1>2, <1>3

\* The tables after init_kvengine.
LEMMA EmptyEngines ==
  /\ ArrayGood(<<>>) /\ \A n \in Nat : TableFine(<<>>, n)
  /\ HashGood([b \in Hash!Slot |-> <<>>], 0)
  /\ TableMap(<<>>) = ChainMap([b \in Hash!Slot |-> <<>>])
<1>1. <<>> \in Seq(Item) /\ <<>> \in Table /\ Distinct(<<>>) /\ Len(<<>>) = 0
  BY DEF Table, Distinct
<1>2. \A k : ValueIn(<<>>, k) = NULL
  <2>1. \A k : \A i \in 1 .. Len(<<>>) : <<>>[i] # NULL => <<>>[i].key # k
    BY <1>1
  <2> QED
    BY <1>1, <2>1, ValueNull
<1>3. PICK n : n = [b \in Hash!Slot |-> <<>>]
  OBVIOUS
<1>4. n \in [Hash!Slot -> Seq(Item)] /\ \A b \in Hash!Slot : n[b] = <<>>
  BY <1>1, <1>3
<1>5. ChainsFine(n)
  BY <1>1, <1>4 DEF ChainsFine
<1>6. \A k \in Key : ChainMap(n)[k] = NULL
  BY <1>2, <1>4, BucketSlot DEF ChainMap
<1>7. Stored(ChainMap(n)) = {}
  BY <1>6 DEF Stored
<1>8. Cardinality(Stored(ChainMap(n))) = 0
  BY <1>7, FS_EmptySet
<1>9. TableMap(<<>>) = ChainMap(n)
  <2>1. \A k \in Key : ValueIn(n[Bucket(k)], k) = NULL
    BY <1>2, <1>4, BucketSlot
  <2> QED
    BY <1>2, <2>1 DEF TableMap, ChainMap
<1>10. \A m \in Nat : TableFine(<<>>, m)
  BY <1>1 DEF TableFine
<1> QED
  BY <1>1, <1>3, <1>5, <1>8, <1>9, <1>10, SizesAssumption DEF ArrayGood, HashGood

-----------------------------------------------------------------------------
(* The tables are sound after every step.                                  *)

ArrayShort(r) ==
  \/ r.cmd = "SET" /\ Array!SetNoMemory(r.key)
  \/ r.cmd = "MOD" /\ Array!ModNoMemory(r.key)
HashShort(r) ==
  \/ r.cmd = "SET" /\ Hash!SetNoMemory(r.key)
  \/ r.cmd = "MOD" /\ Hash!ModNoMemory(r.key)

\* What an operation on the array leaves and returns, failed allocations
\* included.
LEMMA ArrayAny ==
  ASSUME NEW r \in Request, ArrayGood(table), ArrayActs(r) \/ ArrayShort(r)
  PROVE  ArrayGood(table') /\ aret' \in Return
<1>1. r.key \in Key
  BY RequestType
<1>2. ArrayGood(table')
  <2>1. CASE ArrayActs(r)
    BY <2>1, ArrayOp
  <2>2. CASE r.cmd = "SET" /\ Array!SetNoMemory(r.key)
    BY <2>2 DEF Array!SetNoMemory
  <2>3. CASE r.cmd = "MOD" /\ Array!ModNoMemory(r.key)
    BY <1>1, <2>3, ArrayNoMemory
  <2> QED
    BY <2>1, <2>2, <2>3 DEF ArrayShort
<1>3. aret' \in Return
  <2>1. table \in Seq(Item) /\ table \in Table /\ Len(table) \in Nat /\ Len(table) <= ArraySize /\ ArraySize \in Nat \ {0}
    BY SizesAssumption DEF ArrayGood, TableFine
  <2>2. Array!Lookup(r.key) \in Value \cup {FREED, NULL}
    <3>1. ValueIn(table, r.key) \in Value \cup {FREED, NULL}
      BY <2>1, PosIs, SlotType
    <3> QED
      BY <2>1, <3>1, ArrayLooksUp
  <2>3. aret' \in {-2, -1, 0, 1, ArraySize, Len(table), Array!Lookup(r.key)}
    BY DEF ArrayActs, ArrayShort, Array!Set, Array!Get, Array!Del, Array!Mod, Array!Exist, Array!SetNoMemory,
           Array!ModNoMemory
  <2>4. {-2, -1, 0, 1, ArraySize, Len(table), Array!Lookup(r.key)} \subseteq Return
    BY <2>1, <2>2 DEF Return
  <2> QED
    BY <2>3, <2>4
<1> QED
  BY <1>2, <1>3

\* And what one on the hash table does.
LEMMA HashAny ==
  ASSUME NEW r \in Request, HashGood(nodes, count), HashActs(r) \/ HashShort(r)
  PROVE  HashGood(nodes', count') /\ hret' \in Return
<1>1. r.key \in Key /\ ChainsFine(nodes)
  BY RequestType DEF HashGood
<1>2. HashGood(nodes', count')
  <2>1. CASE HashActs(r)
    BY <1>1, <2>1, HashOp, HashMap
  <2>2. CASE r.cmd = "SET" /\ Hash!SetNoMemory(r.key)
    BY <2>2 DEF Hash!SetNoMemory
  <2>3. CASE r.cmd = "MOD" /\ Hash!ModNoMemory(r.key)
    <3>1. HashGood(nodes', count)
      BY <1>1, <2>3, HashNoMemory
    <3> QED
      BY <2>3, <3>1 DEF Hash!ModNoMemory
  <2> QED
    BY <2>1, <2>2, <2>3 DEF HashShort
<1>3. hret' \in Return
  <2>1. Hash!Lookup(r.key) \in Value \cup {FREED, NULL}
    <3>1. nodes[Bucket(r.key)] \in Seq(Item)
      BY <1>1, BucketSlot DEF ChainsFine
    <3>2. nodes[Bucket(r.key)] \in Table
      BY <3>1, NoHoles
    <3>3. ValueIn(nodes[Bucket(r.key)], r.key) \in Value \cup {FREED, NULL}
      BY <3>2, PosIs, SlotType
    <3> QED
      BY <1>1, <3>1, <3>3, HashLooksUp
  <2>2. hret' \in {-2, -1, 0, 1, Hash!Lookup(r.key)}
    BY DEF HashActs, HashShort, Hash!Set, Hash!Get, Hash!Del, Hash!Mod, Hash!Exist, Hash!SetNoMemory,
           Hash!ModNoMemory
  <2>3. {-2, -1, 0, 1, Hash!Lookup(r.key)} \subseteq Return
    BY <2>1, SizesAssumption DEF Return
  <2> QED
    BY <2>2, <2>3
<1> QED
  BY <1>2, <1>3

\* The two engines of the precursor.
PrecursorGood ==
  /\ TableFine(slots, PrecursorSize) /\ HashGood(chains, pcount)
  /\ refused \in BOOLEAN /\ pup \in BOOLEAN

\* The precursor's process ends.
LEMMA PrecursorGone ==
  ASSUME PrecursorGood, Precursor!Ends
  PROVE  PrecursorGood' /\ pup' = FALSE
<1>1. slots' = <<>> /\ pcount' = 0 /\ refused' = refused /\ pup' = FALSE /\ chains' = [b \in DOMAIN chains |-> <<>>]
  BY DEF Precursor!Ends
<1>2. DOMAIN chains = Hash!Slot
  BY DEF PrecursorGood, HashGood, ChainsFine
<1>3. chains' = [b \in Hash!Slot |-> <<>>]
  BY <1>1, <1>2
<1>4. TableFine(slots', PrecursorSize) /\ HashGood(chains', pcount')
  BY <1>1, <1>3, EmptyEngines, SizesAssumption
<1> QED
  BY <1>1, <1>4 DEF PrecursorGood

\* The precursor answers: as the contract says, unless it refuses or dies.
PrecursorDoes(r) ==
  /\ pup /\ ~refused
  /\ MapDoes(TableMap(slots), TableMap(slots'), sret', r, Len(slots))
  /\ MapDoes(ChainMap(chains), ChainMap(chains'), cret', r, -1)
  /\ r.cmd = "DEL" => ~Precursor!MeetsHole(r.key)

\* What the precursor does with a request.
LEMMA PrecursorStep ==
  ASSUME NEW r \in Request, PrecursorGood, Precursor!Answers(r)
  PROVE  PrecursorGood' /\ (pup' /\ ~refused' => PrecursorDoes(r))
<1>1. r.key \in Key /\ TableFine(slots, PrecursorSize) /\ HashGood(chains, pcount) /\ ChainsFine(chains)
      /\ refused \in BOOLEAN /\ pup \in BOOLEAN
  BY RequestType DEF PrecursorGood, HashGood
<1>2. CASE Precursor!Filter(r)
  <2>1. SlotActs(r) /\ ChainActs(r) /\ (r.cmd = "DEL" => ~Precursor!MeetsHole(r.key))
    BY <1>2 DEF Precursor!Filter, SlotActs, ChainActs
  <2>2. pup /\ pup' = pup /\ refused' = (refused \/ (r.cmd = "SET" /\ Len(slots) = PrecursorSize))
    BY <1>2 DEF Precursor!Filter
  <2>3. /\ TableFine(slots', PrecursorSize)
        /\ \/ r.cmd = "SET" /\ Len(slots) = PrecursorSize
           \/ MapDoes(TableMap(slots), TableMap(slots'), sret', r, Len(slots))
    BY <1>1, <2>1, SlotOp
  <2>4. HashDoes(chains, chains', pcount, pcount', cret', r)
    BY <1>1, <2>1, ChainOp
  <2>5. HashGood(chains', pcount') /\ MapDoes(ChainMap(chains), ChainMap(chains'), cret', r, -1)
    BY <1>1, <2>4, HashMap
  <2>6. refused' \in BOOLEAN /\ pup' \in BOOLEAN
    BY <1>1, <2>2
  <2>7. PrecursorGood'
    BY <2>3, <2>5, <2>6 DEF PrecursorGood
  <2>8. ~refused' => ~refused /\ ~(r.cmd = "SET" /\ Len(slots) = PrecursorSize)
    BY <2>2
  <2> QED
    BY <2>1, <2>2, <2>3, <2>5, <2>7, <2>8, Zenon DEF PrecursorDoes
<1>3. CASE Precursor!FilterNoMemory(r)
  <2>1. refused' = TRUE /\ pup' \in BOOLEAN
    BY <1>1, <1>3 DEF Precursor!FilterNoMemory
  <2>2. CASE r.cmd = "SET" /\ slots' = slots /\ Precursor!Chain!Set(r.key, r.val)
    <3>1. ChainActs(r)
      BY <2>2 DEF ChainActs
    <3>2. HashDoes(chains, chains', pcount, pcount', cret', r)
      BY <1>1, <3>1, ChainOp
    <3>3. HashGood(chains', pcount')
      BY <1>1, <3>2, HashMap
    <3> QED
      BY <1>1, <2>1, <2>2, <3>3 DEF PrecursorGood
  <2>3. CASE /\ r.cmd = "MOD" /\ Precursor!SlotOf(r.key) # 0
             /\ slots' = [slots EXCEPT ![Precursor!SlotOf(r.key)].val = FREED]
             /\ Precursor!Chain!ModNoMemory(r.key)
    <3>1. Pos(slots, r.key) # 0 /\ slots' = Changed(slots, Pos(slots, r.key), FREED)
      BY <2>3, SlotsLookUp DEF Changed
    <3>2. TableFine(slots', PrecursorSize)
      BY <1>1, <3>1, SlotNoMemory
    <3>3. HashGood(chains', pcount) /\ pcount' = pcount
      BY <1>1, <2>3, ChainNoMemory DEF Precursor!Chain!ModNoMemory
    <3> QED
      BY <2>1, <3>2, <3>3 DEF PrecursorGood
  <2> QED
    BY <1>3, <2>2, <2>3 DEF Precursor!FilterNoMemory
<1>4. CASE Precursor!Crashes(r)
  BY <1>4, PrecursorGone DEF Precursor!Crashes
<1>5. CASE ~pup /\ UNCHANGED precursor
  BY <1>1, <1>5 DEF PrecursorGood, precursor
<1> QED
  BY <1>2, <1>3, <1>4, <1>5 DEF Precursor!Answers, Precursor!pvars, precursor

-----------------------------------------------------------------------------
(* The inductive invariant.                                                *)

Scalars ==
  /\ count \in Int /\ aret \in Return /\ hret \in Return
  /\ short \in BOOLEAN /\ open \in BOOLEAN /\ req \in Request \cup {NULL}

\* The four tables stand for one map.
SameMap ==
  /\ ~short => TableMap(table) = ChainMap(nodes)
  /\ open /\ ~short /\ ~refused /\ pup =>
       TableMap(slots) = TableMap(table) /\ ChainMap(chains) = ChainMap(nodes)

\* What holds of the last replies, whatever the precursor does since.
LastReply ==
  open /\ req # NULL /\ ~short =>
    \/ ArrayReply = HashReply
    \/ req.cmd = "DEL" /\ ChainMap(nodes)[req.key] = NULL
    \/ ArrayFull(req)

Inv ==
  /\ ArrayGood(table) /\ ChainsFine(nodes) /\ (open => HashGood(nodes, count))
  /\ PrecursorGood /\ Scalars /\ SameMap /\ LastReply

\* A DEL that misses in two arrays that hold the same pairs: both are empty or
\* none is.
LEMMA BothEmpty ==
  ASSUME ArrayGood(table), TableFine(slots, PrecursorSize), TableMap(slots) = TableMap(table),
         NEW k \in Key, TableMap(slots)[k] = NULL, ~Precursor!MeetsHole(k)
  PROVE  Response("DEL", Len(slots)) = Response("DEL", Len(table))
<1>1. table \in Seq(Item) /\ table \in Table /\ slots \in Table /\ Len(table) \in Nat /\ Len(slots) \in Nat
  BY DEF ArrayGood, TableFine, Table
<1>2. Precursor!SlotOf(k) = 0
  BY <1>1, SlotsLookUp, ValueNull DEF TableMap
<1>3. Precursor!Hole = 0
  BY <1>2 DEF Precursor!MeetsHole
<1>4. \A i \in 1 .. Len(slots) : slots[i] # NULL
  <2>1. PICK I : I = {i \in 1 .. Len(slots) : slots[i] = NULL}
    OBVIOUS
  <2>2. First(I) = 0 /\ I \subseteq Nat /\ 0 \notin I
    BY <1>3, <2>1, SlotsLookUp
  <2>3. I = {}
    BY <2>2, NatMin DEF First
  <2> QED
    BY <2>1, <2>3
<1>5. \A i \in 1 .. Len(table) : table[i] # NULL
  BY <1>1, NoHoles
<1>6. Len(slots) = 0 <=> \A x \in Key : TableMap(slots)[x] = NULL
  BY <1>1, <1>4, EmptyTable
<1>7. Len(table) = 0 <=> \A x \in Key : TableMap(table)[x] = NULL
  BY <1>1, <1>5, EmptyTable
<1>8. Len(slots) = 0 <=> Len(table) = 0
  BY <1>6, <1>7
<1>9. CASE Len(slots) = 0
  BY <1>8, <1>9
<1>10. CASE Len(slots) # 0
  <2>1. ~(Len(slots) < 0) /\ ~(Len(table) < 0) /\ Len(table) # 0 /\ "DEL" \in {"DEL", "MOD"}
    BY <1>1, <1>8, <1>10
  <2> QED
    BY <1>10, <2>1, PositiveReply, Zenon
<1> QED
  BY <1>9, <1>10

\* The request r is executed by all engines, none of which lacks room.
LEMMA Executed ==
  ASSUME Inv, NEW r \in Request, Execute(r), ~short'
  PROVE  /\ TableMap(table') = ChainMap(nodes')
         /\ \/ Response(r.cmd, aret') = Response(r.cmd, hret')
            \/ r.cmd = "DEL" /\ ChainMap(nodes)[r.key] = NULL /\ ChainMap(nodes')[r.key] = NULL
            \/ r.cmd = "SET" /\ Len(table) = ArraySize /\ table' = table
         /\ pup' /\ ~refused' =>
              /\ TableMap(slots') = TableMap(table') /\ ChainMap(chains') = ChainMap(nodes')
              /\ Response(r.cmd, cret') = Response(r.cmd, hret')
              /\ \/ Response(r.cmd, sret') = Response(r.cmd, aret')
                 \/ r.cmd = "SET" /\ Len(table) = ArraySize
<1>1. /\ open /\ ~short /\ ArrayActs(r) /\ HashActs(r)
      /\ ~(r.cmd = "SET" /\ Len(table) = ArraySize /\ Array!Lookup(r.key) = NULL)
  BY DEF Execute, ArrayActs, HashActs
<1>2. Precursor!Answers(r)
  BY DEF Execute, PrecursorTurn
<1>3. /\ r.key \in Key /\ ArrayGood(table) /\ table \in Seq(Item) /\ TableFine(slots, PrecursorSize)
      /\ HashGood(nodes, count) /\ ChainsFine(nodes) /\ PrecursorGood
  BY <1>1, RequestType DEF Inv, ArrayGood, PrecursorGood
<1>4. PICK f : f = ChainMap(nodes)
  OBVIOUS
<1>5. TableMap(table) = f
  BY <1>1, <1>4 DEF Inv, SameMap
<1>6. HashDoes(nodes, nodes', count, count', hret', r)
  BY <1>1, <1>3, HashOp
<1>7. MapDoes(f, ChainMap(nodes'), hret', r, -1)
  BY <1>3, <1>4, <1>6, HashMap
<1>8. \/ r.cmd = "SET" /\ Len(table) = ArraySize /\ table' = table /\ aret' = -1
      \/ MapDoes(f, TableMap(table'), aret', r, Len(table))
  BY <1>1, <1>3, <1>5, ArrayOp
<1>11. /\ TableMap(table') = ChainMap(nodes')
       /\ \/ Response(r.cmd, aret') = Response(r.cmd, hret')
          \/ r.cmd = "DEL" /\ ChainMap(nodes)[r.key] = NULL /\ ChainMap(nodes')[r.key] = NULL
          \/ r.cmd = "SET" /\ Len(table) = ArraySize /\ table' = table
  <2>1. CASE r.cmd = "SET" /\ Len(table) = ArraySize /\ table' = table /\ aret' = -1
    <3>1. f[r.key] # NULL
      BY <1>1, <1>3, <1>5, <2>1, ArrayLooksUp DEF TableMap
    <3>2. ChainMap(nodes') = f
      BY <1>7, <2>1, <3>1 DEF MapDoes
    <3> QED
      BY <1>5, <2>1, <3>2
  <2>2. CASE MapDoes(f, TableMap(table'), aret', r, Len(table))
    <3>1. /\ TableMap(table') = ChainMap(nodes')
          /\ \/ Response(r.cmd, aret') = Response(r.cmd, hret')
             \/ r.cmd = "DEL" /\ f[r.key] = NULL /\ ChainMap(nodes')[r.key] = NULL
      BY <1>7, <2>2, SameReply
    <3> QED
      BY <1>4, <3>1
  <2> QED
    BY <1>8, <2>1, <2>2
<1>12. ASSUME pup', ~refused'
       PROVE  /\ TableMap(slots') = TableMap(table') /\ ChainMap(chains') = ChainMap(nodes')
              /\ Response(r.cmd, cret') = Response(r.cmd, hret')
              /\ \/ Response(r.cmd, sret') = Response(r.cmd, aret')
                 \/ r.cmd = "SET" /\ Len(table) = ArraySize
  <2>1. PrecursorDoes(r)
    BY <1>2, <1>3, <1>12, PrecursorStep
  <2>2. TableMap(slots) = f /\ ChainMap(chains) = f
    BY <1>1, <1>4, <1>5, <2>1 DEF Inv, SameMap, PrecursorDoes
  <2>3. MapDoes(f, ChainMap(chains'), cret', r, -1) /\ MapDoes(f, TableMap(slots'), sret', r, Len(slots))
    BY <2>1, <2>2 DEF PrecursorDoes
  <2>4. ChainMap(chains') = ChainMap(nodes') /\ Response(r.cmd, cret') = Response(r.cmd, hret')
    <3>1. /\ ChainMap(chains') = ChainMap(nodes')
          /\ \/ Response(r.cmd, cret') = Response(r.cmd, hret')
             \/ cret' = -1 /\ hret' = -1
      BY <1>7, <2>3, SameReply
    <3> QED
      BY <3>1
  <2>5. TableMap(slots') = ChainMap(nodes')
    BY <1>7, <2>3, SameReply
  <2>6. CASE MapDoes(f, TableMap(table'), aret', r, Len(table))
    <3>1. \/ Response(r.cmd, sret') = Response(r.cmd, aret')
          \/ r.cmd = "DEL" /\ f[r.key] = NULL /\ sret' = Len(slots) /\ aret' = Len(table)
      BY <2>3, <2>6, SameReply
    <3>2. CASE r.cmd = "DEL" /\ f[r.key] = NULL /\ sret' = Len(slots) /\ aret' = Len(table)
      <4>1. ~Precursor!MeetsHole(r.key)
        BY <2>1, <3>2 DEF PrecursorDoes
      <4>2. Response("DEL", Len(slots)) = Response("DEL", Len(table))
        BY <1>3, <1>5, <2>2, <3>2, <4>1, BothEmpty
      <4> QED
        BY <1>11, <2>4, <2>5, <3>2, <4>2
    <3> QED
      BY <1>11, <2>4, <2>5, <3>1, <3>2
  <2> QED
    BY <1>8, <1>11, <2>4, <2>5, <2>6
<1> QED
  BY <1>11, <1>12

\* A chain has no more nodes than there are keys.
LEMMA ChainLength ==
  ASSUME NEW n, ChainsFine(n), NEW b \in Hash!Slot
  PROVE  n[b] \in Seq(Item) /\ Len(n[b]) <= Cardinality(Key)
<1>1. PICK q : q = n[b]
  OBVIOUS
<1>2. q \in Seq(Item) /\ Distinct(q) /\ Len(q) \in Nat
  BY <1>1 DEF ChainsFine
<1>3. \A i \in 1 .. Len(q) : q[i] # NULL /\ q[i].key \in Key
  BY <1>2, NoHoles, SlotType
<1>4. PICK f : f = [i \in 1 .. Len(q) |-> q[i].key]
  OBVIOUS
<1>5. f \in Injection(1 .. Len(q), Key)
  <2>1. f \in [1 .. Len(q) -> Key]
    BY <1>3, <1>4
  <2>2. \A i, j \in 1 .. Len(q) : f[i] = f[j] => i = j
    BY <1>2, <1>3, <1>4 DEF Distinct
  <2> QED
    BY <2>1, <2>2 DEF Injection, IsInjective
<1>6. Cardinality(1 .. Len(q)) <= Cardinality(Key)
  BY <1>5, FS_Injection, SizesAssumption
<1>7. Cardinality(1 .. Len(q)) = Len(q)
  BY <1>2, FS_Interval, SMTT(30)
<1> QED
  BY <1>1, <1>2, <1>6, <1>7

\* The maps are the contents the properties speak of.
LEMMA Contents ==
  ASSUME Inv
  PROVE  /\ ArrayContents = TableMap(table) /\ HashContents = ChainMap(nodes)
         /\ \A k \in Key : /\ Precursor!Lookup(k) = TableMap(slots)[k]
                           /\ Precursor!Chain!Lookup(k) = ChainMap(chains)[k]
                           /\ Hash!PlaceOf(k) # 0 <=> ChainMap(nodes)[k] # NULL
<1>1. table \in Seq(Item) /\ ChainsFine(nodes) /\ ChainsFine(chains)
  BY DEF Inv, ArrayGood, PrecursorGood, HashGood
<1>2. ASSUME NEW k \in Key PROVE Array!Lookup(k) = ValueIn(table, k)
  BY <1>1, ArrayLooksUp
<1>3. ASSUME NEW k \in Key PROVE /\ Hash!Lookup(k) = ValueIn(nodes[Bucket(k)], k)
                                 /\ Hash!PlaceOf(k) # 0 <=> ChainMap(nodes)[k] # NULL
  <2>1. nodes[Bucket(k)] \in Seq(Item)
    BY <1>1, BucketSlot DEF ChainsFine
  <2>2. nodes[Bucket(k)] \in Table
    BY <2>1, NoHoles
  <2> QED
    BY <2>1, <2>2, HashLooksUp, ValueNull DEF ChainMap
<1>4. ASSUME NEW k \in Key PROVE Precursor!Chain!Lookup(k) = ChainMap(chains)[k]
  <2>1. chains[Bucket(k)] \in Seq(Item)
    BY <1>1, BucketSlot DEF ChainsFine
  <2> QED
    BY <2>1, ChainLooksUp DEF ChainMap
<1>5. ASSUME NEW k \in Key PROVE Precursor!Lookup(k) = TableMap(slots)[k]
  BY SlotsLookUp DEF TableMap
<1> QED
  BY <1>2, <1>3, <1>4, <1>5 DEF ArrayContents, HashContents, TableMap, ChainMap

\* The invariant holds before the first request.
LEMMA InitInv == Init => Inv
<1> SUFFICES ASSUME Init PROVE Inv
  OBVIOUS
<1>1. /\ table = <<>> /\ aret = 0 /\ nodes = [b \in Hash!Slot |-> <<>>] /\ count = 0 /\ hret = 0
      /\ slots = <<>> /\ chains = [b \in Hash!Slot |-> <<>>] /\ pcount = 0 /\ refused = FALSE /\ pup = TRUE
      /\ req = NULL /\ short = FALSE /\ open = TRUE
  BY DEF Init, Array!Init, Hash!Init, Precursor!Init, Precursor!Chain!Init, Hash!Slot, Precursor!Chain!Slot
<1>2. ArrayGood(table) /\ HashGood(nodes, count) /\ ChainsFine(nodes) /\ PrecursorGood
  BY <1>1, EmptyEngines, SizesAssumption DEF PrecursorGood, HashGood
<1>3. Scalars
  <2>1. 0 \in Return /\ 0 \in Int
    BY SizesAssumption DEF Return
  <2> QED
    BY <1>1, <2>1, Zenon DEF Scalars
<1>4. TableMap(table) = ChainMap(nodes) /\ TableMap(slots) = TableMap(table) /\ ChainMap(chains) = ChainMap(nodes)
  BY <1>1, EmptyEngines
<1>5. LastReply
  BY <1>1 DEF LastReply
<1> QED
  BY <1>2, <1>3, <1>4, <1>5 DEF Inv, SameMap

\* The number of stored keys is a number.
LEMMA CountType ==
  ASSUME NEW n, NEW c, HashGood(n, c)
  PROVE  c \in Int
<1>1. Stored(ChainMap(n)) \in SUBSET Key
  BY DEF Stored
<1>2. IsFiniteSet(Stored(ChainMap(n)))
  BY <1>1, FS_Subset, SizesAssumption
<1> QED
  BY <1>2, FS_CardinalityType DEF HashGood

\* A step that leaves the engines alone or empties them.
LEMMA QuietStep ==
  ASSUME Inv, PrecursorGood', short' = short, aret' = aret, hret' = hret, count' = count,
         ArrayGood(table'), ChainsFine(nodes'), open' \in BOOLEAN, req' \in Request \cup {NULL},
         open' => open /\ table' = table /\ nodes' = nodes /\ req' = req,
         TableMap(table) = ChainMap(nodes) => TableMap(table') = ChainMap(nodes'),
         pup' /\ open' => pup /\ slots' = slots /\ chains' = chains /\ refused' = refused
  PROVE  Inv'
<1>1. Scalars' /\ (open' => HashGood(nodes', count'))
  BY DEF Inv, Scalars
<1>2. SameMap'
  <2>1. ~short' => TableMap(table') = ChainMap(nodes')
    BY DEF Inv, SameMap
  <2>2. ASSUME open', ~short', ~refused', pup'
        PROVE  TableMap(slots') = TableMap(table') /\ ChainMap(chains') = ChainMap(nodes')
    <3>1. open /\ ~short /\ ~refused /\ pup
      BY <2>2
    <3>2. TableMap(slots) = TableMap(table) /\ ChainMap(chains) = ChainMap(nodes)
      BY <3>1 DEF Inv, SameMap
    <3> QED
      BY <2>2, <3>2
  <2> QED
    BY <2>1, <2>2 DEF SameMap
<1>3. LastReply'
  BY DEF Inv, LastReply, ArrayReply, HashReply, ArrayFull
<1> QED
  BY <1>1, <1>2, <1>3 DEF Inv

\* A step in which the engines are called.
LEMMA BusyStep ==
  ASSUME Inv, NEW r \in Request, Execute(r) \/ ExecuteNoMemory(r)
  PROVE  Inv'
<1>1. open /\ open' = open /\ req' = r
  BY DEF Execute, ExecuteNoMemory
<1>2. (ArrayActs(r) \/ ArrayShort(r)) /\ (HashActs(r) \/ HashShort(r))
  BY DEF Execute, ExecuteNoMemory, ArrayActs, ArrayShort, HashActs, HashShort
<1>3. ArrayGood(table) /\ HashGood(nodes, count) /\ PrecursorGood /\ Scalars
  BY <1>1 DEF Inv
<1>4. ArrayGood(table') /\ aret' \in Return /\ HashGood(nodes', count') /\ hret' \in Return
  BY <1>2, <1>3, ArrayAny, HashAny
<1>5. count' \in Int /\ ChainsFine(nodes')
  BY <1>4, CountType DEF HashGood
<1>6. PrecursorGood'
  <2>1. CASE PrecursorLeaves
    BY <1>3, <2>1, PrecursorGone DEF PrecursorLeaves, PrecursorGood, precursor
  <2>2. CASE Precursor!Answers(r)
    BY <1>3, <2>2, PrecursorStep
  <2> QED
    BY <2>1, <2>2 DEF Execute, ExecuteNoMemory, PrecursorTurn
<1>7. short' \in BOOLEAN
  <2>1. short' = TRUE \/ short' = (short \/ (r.cmd = "SET" /\ Len(table) = ArraySize /\ Array!Lookup(r.key) = NULL))
    BY DEF Execute, ExecuteNoMemory
  <2> QED
    BY <1>3, <2>1 DEF Scalars
<1>8. Scalars'
  BY <1>1, <1>3, <1>4, <1>5, <1>7 DEF Scalars
<1>9. CASE short'
  BY <1>4, <1>5, <1>6, <1>8, <1>9 DEF Inv, SameMap, LastReply
<1>10. CASE ~short'
  <2>1. Execute(r)
    BY <1>10 DEF ExecuteNoMemory
  <2>2. SameMap'
    BY <1>10, <2>1, Executed DEF SameMap
  <2>3. LastReply'
    <3>1. \/ Response(r.cmd, aret') = Response(r.cmd, hret')
          \/ r.cmd = "DEL" /\ ChainMap(nodes')[r.key] = NULL
          \/ r.cmd = "SET" /\ Len(table) = ArraySize /\ table' = table
      BY <1>10, <2>1, Executed
    <3> QED
      BY <1>1, <3>1 DEF LastReply, ArrayReply, HashReply, ArrayFull
  <2> QED
    BY <1>4, <1>5, <1>6, <1>8, <2>2, <2>3 DEF Inv
<1> QED
  BY <1>9, <1>10

\* Every step keeps the invariant.
LEMMA NextInv == Inv /\ [Next]_vars => Inv'
<1> SUFFICES ASSUME Inv, [Next]_vars PROVE Inv'
  OBVIOUS
<1>0. PrecursorGood /\ ArrayGood(table) /\ ChainsFine(nodes) /\ open \in BOOLEAN /\ req \in Request \cup {NULL}
  BY DEF Inv, Scalars
<1>1. CASE PrecursorEnds
  <2>1. PrecursorGood' /\ pup' = FALSE
    BY <1>0, <1>1, PrecursorGone DEF PrecursorEnds
  <2>2. table' = table /\ aret' = aret /\ nodes' = nodes /\ count' = count /\ hret' = hret /\ req' = req
        /\ short' = short /\ open' = open
    BY <1>1 DEF PrecursorEnds
  <2> QED
    BY <1>0, <2>1, <2>2, QuietStep
<1>2. ASSUME NEW r \in Request, Execute(r) \/ ExecuteNoMemory(r) PROVE Inv'
  BY <1>2, BusyStep
<1>3. ASSUME NEW r \in Request, DoubleFree(r) PROVE Inv'
  <2>1. table' = table /\ aret' = aret /\ nodes' = nodes /\ count' = count /\ hret' = hret /\ req' = NULL
        /\ short' = short /\ open' = FALSE /\ UNCHANGED precursor
    BY <1>3 DEF DoubleFree
  <2>2. PrecursorGood'
    BY <1>0, <2>1 DEF PrecursorGood, precursor
  <2> QED
    BY <1>0, <2>1, <2>2, QuietStep
<1>4. CASE Shutdown
  <2>1. table' = <<>> /\ aret' = aret /\ nodes' = [b \in Hash!Slot |-> <<>>] /\ count' = count /\ hret' = hret
        /\ req' = NULL /\ short' = short /\ open' = FALSE /\ UNCHANGED precursor
    BY <1>4 DEF Shutdown, Array!Destroy, Hash!Destroy
  <2>2. PrecursorGood'
    BY <1>0, <2>1 DEF PrecursorGood, precursor
  <2>3. ArrayGood(table') /\ ChainsFine(nodes') /\ TableMap(table') = ChainMap(nodes')
    BY <2>1, EmptyEngines DEF HashGood
  <2> QED
    BY <2>1, <2>2, <2>3, QuietStep
<1>5. CASE UNCHANGED vars
  <2>1. table' = table /\ aret' = aret /\ nodes' = nodes /\ count' = count /\ hret' = hret /\ req' = req
        /\ short' = short /\ open' = open /\ UNCHANGED precursor
    BY <1>5 DEF vars
  <2>2. slots' = slots /\ chains' = chains /\ pcount' = pcount /\ refused' = refused /\ pup' = pup
    BY <2>1 DEF precursor
  <2>3. PrecursorGood'
    BY <1>0, <2>2 DEF PrecursorGood
  <2> QED
    BY <1>0, <2>1, <2>2, <2>3, QuietStep
<1> QED
  BY <1>1, <1>2, <1>3, <1>4, <1>5 DEF Next

-----------------------------------------------------------------------------
(* The theorems.                                                           *)

\* The invariant holds in every reachable state.
LEMMA InvHolds == Spec => []Inv
BY InitInv, NextInv, PTL DEF Spec

\* Every variable has its type: the array never outgrows KVS_ARRAY_SIZE and a
\* chain never holds more nodes than there are keys.
THEOREM EnginesTyped == Spec => []TypeOK
<1>1. Inv => TypeOK
  <2> SUFFICES ASSUME Inv PROVE TypeOK
    OBVIOUS
  <2>1. table \in Seq(Item) /\ Len(table) <= ArraySize
    BY DEF Inv, ArrayGood, TableFine
  <2>2. nodes \in [Hash!Slot -> Seq(Item)] /\ \A b \in Hash!Slot : Len(nodes[b]) <= Cardinality(Key)
    BY ChainLength DEF Inv, ChainsFine
  <2>3. chains \in [Hash!Slot -> Seq(Item)] /\ \A b \in Hash!Slot : Len(chains[b]) <= Cardinality(Key)
    BY ChainLength DEF Inv, PrecursorGood, HashGood, ChainsFine
  <2>4. slots \in Seq(Item \cup {NULL}) /\ Len(slots) <= PrecursorSize
    BY DEF Inv, PrecursorGood, TableFine, Table
  <2>5. pcount \in Int /\ refused \in BOOLEAN /\ pup \in BOOLEAN
    BY CountType DEF Inv, PrecursorGood
  <2> QED
    BY <2>1, <2>2, <2>3, <2>4, <2>5 DEF Inv, Scalars, TypeOK
<1> QED
  BY <1>1, InvHolds, PTL

\* However allocations fail: no key has two slots or two nodes (kvs_array.c,
\* kvs_hash.c and the precursor), every node is in the chain _hash names, and
\* hash->count is the number of keys, until the engine is destroyed.
THEOREM TablesStaySound == Spec => []TablesSound
<1>1. Inv => TablesSound
  <2> SUFFICES ASSUME Inv PROVE TablesSound
    OBVIOUS
  <2>1. Array!SlotsDistinct
    <3>1. table \in Seq(Item) /\ Distinct(table)
      BY DEF Inv, ArrayGood, TableFine
    <3>2. DOMAIN table = 1 .. Len(table) /\ \A i \in 1 .. Len(table) : table[i] # NULL
      BY <3>1, NoHoles
    <3> QED
      BY <3>1, <3>2 DEF Array!SlotsDistinct, Distinct
  <2>2. ASSUME NEW n, ChainsFine(n), NEW b \in Hash!Slot, NEW p \in DOMAIN n[b], NEW q \in DOMAIN n[b]
        PROVE  n[b][p].key \in Key /\ Bucket(n[b][p].key) = b /\ (n[b][p].key = n[b][q].key => p = q)
    <3>1. n[b] \in Seq(Item) /\ Distinct(n[b])
      BY <2>2 DEF ChainsFine
    <3>2. DOMAIN n[b] = 1 .. Len(n[b]) /\ n[b] \in Table /\ \A i \in 1 .. Len(n[b]) : n[b][i] # NULL
      <4>1. DOMAIN n[b] = 1 .. Len(n[b])
        BY <3>1
      <4>2. PICK s : s = n[b]
        OBVIOUS
      <4>3. s \in Table /\ \A i \in 1 .. Len(s) : s[i] # NULL
        BY <3>1, <4>2, NoHoles
      <4> QED
        BY <4>1, <4>2, <4>3
    <3> QED
      BY <2>2, <3>1, <3>2, SlotType DEF ChainsFine, Distinct
  <2>3. Hash!ChainsSound
    BY <2>2, BucketSlot DEF Inv, Hash!ChainsSound
  <2>4. Precursor!Chain!ChainsSound
    <3>1. Precursor!Chain!Slot = Hash!Slot /\ ChainsFine(chains)
      BY DEF Precursor!Chain!Slot, Hash!Slot, Inv, PrecursorGood, HashGood
    <3> QED
      BY <2>2, <3>1, BucketSlot DEF Precursor!Chain!ChainsSound
  <2>5. Precursor!PrecursorSound
    <3>1. slots \in Table /\ Distinct(slots)
      BY DEF Inv, PrecursorGood, TableFine
    <3>2. DOMAIN slots = 1 .. Len(slots)
      BY <3>1 DEF Table
    <3> QED
      BY <2>4, <3>1, <3>2 DEF Precursor!PrecursorSound, Distinct
  <2>6. open => count = Cardinality({k \in Key : Hash!PlaceOf(k) # 0})
    <3>1. Stored(ChainMap(nodes)) = {k \in Key : Hash!PlaceOf(k) # 0}
      BY Contents DEF Stored
    <3> QED
      BY <3>1 DEF Inv, HashGood
  <2> QED
    BY <2>1, <2>3, <2>5, <2>6 DEF TablesSound
<1> QED
  BY <1>1, InvHolds, PTL

\* The array, the hash table and the precursor's two tables hold the same pairs
\* as long as no request was refused.
THEOREM EnginesAgree == Spec => []ContentsAgree
<1>1. Inv => ContentsAgree
  BY Contents, Zenon DEF Inv, SameMap, ContentsAgree
<1> QED
  BY <1>1, InvHolds, PTL

\* kvs_filter_protocol gives the same reply whichever engine is behind the
\* operation table, but for a DEL that misses and a SET on a full array.
THEOREM EnginesReplyAlike == Spec => RepliesAgree
<1> DEFINE A ==
      (open' /\ req' # NULL /\ ~short') =>
        /\ \/ ArrayReply' = HashReply'
           \/ req'.cmd = "DEL" /\ HashContents[req'.key] = NULL
           \/ ArrayFull(req')
        /\ pup' /\ ~refused' =>
             /\ Response(req'.cmd, cret') = HashReply'
             /\ Response(req'.cmd, sret') = ArrayReply' \/ ArrayFull(req')
<1>1. Inv /\ [Next]_vars => [A]_vars
  <2> SUFFICES ASSUME Inv, Next, open', req' # NULL, ~short' PROVE A
    OBVIOUS
  <2>1. HashContents = ChainMap(nodes)
    BY Contents
  <2>2. CASE PrecursorEnds
    <3>1. ~pup' /\ aret' = aret /\ hret' = hret /\ req' = req /\ short' = short /\ open' = open
      BY <2>2 DEF PrecursorEnds, Precursor!Ends
    <3>2. ArrayReply' = ArrayReply /\ HashReply' = HashReply
      BY <3>1 DEF ArrayReply, HashReply
    <3> QED
      BY <2>1, <3>1, <3>2, Zenon DEF Inv, LastReply
  <2>3. ASSUME NEW r \in Request, Execute(r) PROVE A
    <3>1. req' = r
      BY <2>3 DEF Execute
    <3> QED
      BY <2>1, <2>3, <3>1, Executed, Zenon DEF ArrayReply, HashReply, ArrayFull
  <2>4. ASSUME NEW r \in Request, ExecuteNoMemory(r) PROVE A
    BY <2>4 DEF ExecuteNoMemory
  <2>5. ASSUME NEW r \in Request, DoubleFree(r) PROVE A
    BY <2>5 DEF DoubleFree
  <2>6. CASE Shutdown
    BY <2>6 DEF Shutdown
  <2> QED
    BY <2>2, <2>3, <2>4, <2>5, <2>6 DEF Next
<1> QED
  BY <1>1, InvHolds, PTL DEF Spec, RepliesAgree
=============================================================================
