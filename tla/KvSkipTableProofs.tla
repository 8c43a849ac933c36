------------------------- MODULE KvSkipTableProofs -------------------------
(***************************************************************************)
(* The skip list keeps its inductive invariant IInv, for every set of keys *)
(* and values, every number of nodes and every SKIPTABLE_MAX_LEVEL.        *)
(***************************************************************************)
EXTENDS KvSkipTable, FiniteSetTheorems, TLAPS

\* The initial table satisfies the invariant.
LEMMA InitIInv == Init => IInv
<1> SUFFICES ASSUME Init PROVE IInv
  OBVIOUS
<1> USE DEF Init
<1>1. TypeOK
  BY KeyAssumption, NodeAssumption, LevelAssumption
     DEF TypeOK, From, Tower, Link, Nowhere, Return
<1>2. NodesOK
  BY FS_EmptySet DEF NodesOK, Active
<1>3. KeysDistinct
  BY DEF KeysDistinct
<1>4. LevelsSorted
  BY NodeAssumption DEF LevelsSorted, SuccessorAt, From, Nowhere
<1>5. CountExact
  BY FS_EmptySet DEF CountExact
<1>6. NoUseAfterFree
  BY DEF NoUseAfterFree, Nowhere
<1>7. SearchOK /\ FoundOK /\ DestroyOK /\ DestroyFreesAll /\ IdleOK
  BY DEF SearchOK, FoundOK, DestroyOK, DestroyFreesAll, IdleOK
<1> QED
  BY <1>1, <1>2, <1>3, <1>4, <1>5, <1>6, <1>7 DEF IInv

\* A step that leaves the table alone keeps what is said of the table.
LEMMA TableUnchanged ==
  ASSUME IInv, UNCHANGED <<heap, table>>, Active, Active'
  PROVE  NodesOK' /\ KeysDistinct' /\ LevelsSorted' /\ CountExact' /\ DestroyFreesAll'
<1> USE DEF heap, table
<1>1. NodesOK'
  BY DEF IInv, NodesOK
<1>2. KeysDistinct'
  BY DEF IInv, KeysDistinct
<1>3. LevelsSorted'
  BY DEF IInv, LevelsSorted, SuccessorAt, Reaches, Before
<1>4. CountExact'
  BY DEF IInv, CountExact
<1>5. DestroyFreesAll'
  BY DEF DestroyFreesAll, Active
<1> QED
  BY <1>1, <1>2, <1>3, <1>4, <1>5

\* A call starts its search at the head of the highest level in use.
LEMMA CallStep ==
  ASSUME IInv, NEW r \in Request, Call(r)
  PROVE  IInv'
<1>1. Active /\ Active'
  BY DEF Call, Active
<1>2. TypeOK'
  BY LevelAssumption, NodeAssumption
     DEF IInv, TypeOK, Call, heap, table, Nowhere, From, Tower
<1>3. NodesOK' /\ KeysDistinct' /\ LevelsSorted' /\ CountExact' /\ DestroyFreesAll'
  BY <1>1, TableUnchanged DEF Call
<1>4. NoUseAfterFree'
  BY DEF Call, NoUseAfterFree, Nowhere
<1>5. SearchOK'
  <2>1. level \in 1 .. MaxLevel
    BY <1>1, LevelAssumption DEF IInv, TypeOK, NodesOK
  <2> QED
    BY <2>1, LevelAssumption DEF Call, SearchOK, Before, Reaches, Tower, heap, table
<1>6. FoundOK' /\ DestroyOK' /\ IdleOK'
  BY DEF Call, FoundOK, DestroyOK, IdleOK
<1> QED
  BY <1>2, <1>3, <1>4, <1>5, <1>6 DEF IInv

\* The search follows a pointer to a node whose key is still too small.
LEMMA SearchForwardStep ==
  ASSUME IInv, SearchForward
  PROVE  IInv'
<1>1. Active /\ Active'
  BY DEF SearchForward, Active
<1> DEFINE nxt == fwd[cur][i]
<1>2. /\ i \in Tower /\ cur \in live \cup {HeadNode} /\ Reaches(cur, i)
      /\ nxt # NULL /\ nkey[nxt] < req.key
  BY LevelAssumption DEF SearchForward, Advances, IInv, SearchOK, TypeOK, Tower
<1>3. nxt \in live /\ i < nlvl[nxt]
  BY <1>1, <1>2 DEF IInv, LevelsSorted, SuccessorAt
<1>4. TypeOK'
  BY <1>3 DEF IInv, TypeOK, SearchForward, heap, table, From
<1>5. NodesOK' /\ KeysDistinct' /\ LevelsSorted' /\ CountExact' /\ DestroyFreesAll'
  BY <1>1, TableUnchanged DEF SearchForward
<1>6. NoUseAfterFree'
  BY <1>3 DEF IInv, SearchForward, NoUseAfterFree, heap
<1>7. SearchOK'
  <2>1. i >= 0
    BY DEF SearchForward
  <2> QED
    BY <1>2, <1>3, <2>1
       DEF IInv, TypeOK, SearchForward, SearchOK, Before, Reaches, PredecessorAt, RecordsUpdate, heap, table
<1>8. FoundOK' /\ DestroyOK' /\ IdleOK'
  BY DEF SearchForward, FoundOK, DestroyOK, IdleOK
<1> QED
  BY <1>4, <1>5, <1>6, <1>7, <1>8 DEF IInv

\* The search leaves a level: cur is the predecessor of the key there.
LEMMA SearchDownStep ==
  ASSUME IInv, SearchDown
  PROVE  IInv'
<1>1. Active /\ Active'
  BY DEF SearchDown, Active
<1>2. /\ i \in Tower /\ cur \in live \cup {HeadNode} /\ Reaches(cur, i)
      /\ Before(cur, req.key) /\ req \in Request /\ i < level /\ pc = "search"
  BY LevelAssumption DEF SearchDown, IInv, SearchOK, TypeOK, Tower
<1>3. req.key \in Int
  BY <1>2, KeyAssumption DEF Request
<1>4. PredecessorAt(cur, i)
  <2>1. fwd[cur][i] # NULL => nkey[fwd[cur][i]] \in Int
    BY <1>1, <1>2, KeyAssumption DEF IInv, LevelsSorted, SuccessorAt, NodesOK
  <2> QED
    BY <1>2, <1>3, <2>1 DEF SearchDown, Advances, PredecessorAt
<1>5. TypeOK'
  <2>1. i' \in -1 .. (MaxLevel - 1)
    BY <1>2, LevelAssumption DEF SearchDown, Tower
  <2>2. update' \in [Tower -> From \cup {NULL}]
    BY <1>2 DEF IInv, TypeOK, SearchDown, From
  <2> QED
    BY <2>1, <2>2 DEF IInv, TypeOK, SearchDown, heap, table
<1>6. NodesOK' /\ KeysDistinct' /\ LevelsSorted' /\ CountExact' /\ DestroyFreesAll'
  BY <1>1, TableUnchanged DEF SearchDown
<1>7. NoUseAfterFree'
  BY <1>2 DEF IInv, TypeOK, SearchDown, NoUseAfterFree, heap
<1>8. SearchOK'
  <2>1. \A m, l : PredecessorAt(m, l)' <=> PredecessorAt(m, l)
    BY DEF SearchDown, PredecessorAt, Reaches, Before, heap
  <2>2. i' >= 0 => Reaches(cur, i)'
    BY <1>2, LevelAssumption DEF IInv, TypeOK, SearchDown, Reaches, heap, From, Tower
  <2>3. i' < 0 => PredecessorAt(cur, 0)'
    BY <1>2, <1>4, <2>1 DEF SearchDown, Tower
  <2>4. RecordsUpdate' => \A l \in Tower : (i' < l /\ l < level') => PredecessorAt(update[l], l)'
    <3> SUFFICES ASSUME RecordsUpdate, NEW l \in Tower, i' < l, l < level
                 PROVE  PredecessorAt(update'[l], l)
      BY <2>1 DEF SearchDown, RecordsUpdate, table
    <3>1. CASE l = i
      BY <1>4, <3>1 DEF IInv, TypeOK, SearchDown
    <3>2. CASE l # i
      <4>1. i < l
        BY <1>2, <3>2 DEF SearchDown, Tower
      <4> QED
        BY <1>2, <4>1, <3>2 DEF IInv, TypeOK, SearchDown, SearchOK
    <3> QED
      BY <3>1, <3>2
  <2>5. i' < level'
    BY <1>2, LevelAssumption DEF IInv, TypeOK, SearchDown, table, Tower
  <2> QED
    BY <1>2, <2>2, <2>3, <2>4, <2>5 DEF SearchDown, SearchOK, Before, heap
<1>9. FoundOK' /\ DestroyOK' /\ IdleOK'
  BY DEF SearchDown, FoundOK, DestroyOK, IdleOK
<1> QED
  BY <1>5, <1>6, <1>7, <1>8, <1>9 DEF IInv

\* After the loops cur->forward[0] is the only node that can hold the key.
LEMMA SearchEndStep ==
  ASSUME IInv, SearchEnd
  PROVE  IInv'
<1>1. Active /\ Active'
  BY DEF SearchEnd, Active
<1>2. /\ PredecessorAt(cur, 0) /\ req \in Request /\ 0 \in Tower
      /\ pc = "search" /\ i < 0 /\ i \in Int /\ i < level
  BY LevelAssumption DEF SearchEnd, IInv, SearchOK, TypeOK, Tower
<1>3. SuccessorAt(cur, 0)
  BY <1>1, <1>2 DEF IInv, LevelsSorted, PredecessorAt
<1>4. fwd[cur][0] \in live \cup {NULL}
  BY <1>3 DEF SuccessorAt
<1>5. TypeOK'
  BY <1>4 DEF IInv, TypeOK, SearchEnd, heap, table, From
<1>6. NodesOK' /\ KeysDistinct' /\ LevelsSorted' /\ CountExact' /\ DestroyFreesAll'
  BY <1>1, TableUnchanged DEF SearchEnd
<1>7. NoUseAfterFree'
  BY <1>4 DEF IInv, SearchEnd, NoUseAfterFree, heap
<1>8. FoundOK'
  <2>1. ASSUME NEW n \in live, nkey[n] = req.key
        PROVE  fwd[cur][0] = n
    <3>0. Before(cur, nkey[n])
      BY <1>2, <2>1 DEF PredecessorAt, Before
    <3>1. 0 < nlvl[n] /\ nkey[n] \in Int
      <4>1. nlvl[n] \in 1 .. level /\ nkey[n] \in Key
        BY DEF IInv, NodesOK
      <4>2. level \in Int
        BY LevelAssumption DEF IInv, TypeOK
      <4>3. nkey[n] \in Int
        BY <4>1, KeyAssumption
      <4>4. 0 < nlvl[n]
        BY <4>1, <4>2
      <4> QED
        BY <4>3, <4>4
    <3>2. fwd[cur][0] # NULL /\ nkey[fwd[cur][0]] <= nkey[n]
      BY <1>3, <3>0, <3>1 DEF SuccessorAt, Before
    <3>3. fwd[cur][0] \in live /\ nkey[fwd[cur][0]] \in Int
      BY <1>4, <3>2, KeyAssumption DEF IInv, NodesOK
    <3>4. nkey[fwd[cur][0]] = nkey[n]
      BY <1>2, <2>1, <3>1, <3>2, <3>3 DEF PredecessorAt
    <3> QED
      BY <3>3, <3>4, <2>1 DEF IInv, KeysDistinct
  <2>2. RecordsUpdate => \A l \in Tower : l < level => PredecessorAt(update[l], l)
    BY <1>2 DEF IInv, SearchOK, Tower
  <2>3. \A m, l : PredecessorAt(m, l)' <=> PredecessorAt(m, l)
    BY DEF SearchEnd, PredecessorAt, Reaches, Before, heap
  <2> QED
    BY <1>2, <1>4, <2>1, <2>2, <2>3 DEF SearchEnd, FoundOK, RecordsUpdate, heap, table
<1>9. SearchOK' /\ DestroyOK' /\ IdleOK'
  BY DEF SearchEnd, SearchOK, DestroyOK, IdleOK
<1> QED
  BY <1>5, <1>6, <1>7, <1>8, <1>9 DEF IInv

\* The fields of live nodes and the table's level are integers in range.
LEMMA Ranges ==
  ASSUME IInv
  PROVE  /\ level \in 0 .. MaxLevel
         /\ \A n \in live : nkey[n] \in Key /\ nkey[n] \in Int
         /\ \A n \in live : nlvl[n] \in Int /\ 0 < nlvl[n] /\ nlvl[n] <= level
<1>1. level \in 0 .. MaxLevel
  BY DEF IInv, TypeOK
<1>2. \A n \in live : nkey[n] \in Key
  BY DEF IInv, NodesOK
<1>3. \A n \in live : nkey[n] \in Int
  BY <1>2, KeyAssumption
<1>4. \A n \in live : nlvl[n] \in 1 .. level
  BY DEF IInv, NodesOK
<1>5. \A n \in live : nlvl[n] \in Int /\ 0 < nlvl[n] /\ nlvl[n] <= level
  BY <1>1, <1>4, LevelAssumption
<1> QED
  BY <1>1, <1>2, <1>3, <1>5

\* Returning from a call leaves no pointer behind.
LEMMA ReturnsStep ==
  ASSUME NEW r, Returns(r)
  PROVE  /\ Active' /\ NoUseAfterFree' /\ SearchOK' /\ FoundOK' /\ DestroyOK'
         /\ DestroyFreesAll' /\ IdleOK'
<1>1. Active' /\ SearchOK' /\ FoundOK' /\ DestroyOK' /\ DestroyFreesAll'
  BY DEF Returns, Active, SearchOK, FoundOK, DestroyOK, DestroyFreesAll
<1>2. IdleOK'
  BY DEF Returns, IdleOK
<1>3. NoUseAfterFree'
  BY DEF Returns, NoUseAfterFree, Nowhere
<1> QED
  BY <1>1, <1>2, <1>3

\* A call that returns without having changed the table.
LEMMA ReadOnlyStep ==
  ASSUME IInv, pc = "found", NEW r \in Return, Returns(r), UNCHANGED <<heap, table>>
  PROVE  IInv'
<1>1. Active
  BY DEF Active
<1>2. NodesOK' /\ KeysDistinct' /\ LevelsSorted' /\ CountExact'
  BY <1>1, ReturnsStep, TableUnchanged
<1>3. TypeOK'
  BY LevelAssumption DEF IInv, TypeOK, Returns, heap, table, Nowhere
<1> QED
  BY <1>2, <1>3, ReturnsStep DEF IInv

\* SET of a key that is there, GET, EXIST, MOD and DEL that find nothing,
\* and MOD without memory.
LEMMA LookupSteps ==
  ASSUME IInv, SetExists \/ Get \/ Exist \/ ModFails \/ DelMissing
  PROVE  IInv'
<1>1. CASE SetExists
  BY <1>1, ReadOnlyStep DEF SetExists, Return
<1>2. CASE Get
  <2>1. (IF Hit THEN nval[cur] ELSE NULL) \in Return
    BY <1>2 DEF Get, IInv, TypeOK, FoundOK, Hit, Return
  <2> QED
    BY <1>2, <2>1, ReadOnlyStep DEF Get
<1>3. CASE Exist
  <2>1. (IF Hit THEN 0 ELSE 1) \in Return
    BY DEF Return
  <2> QED
    BY <1>3, <2>1, ReadOnlyStep DEF Exist
<1>4. CASE ModFails
  BY <1>4, ReadOnlyStep DEF ModFails, Return
<1>5. CASE DelMissing
  BY <1>5, ReadOnlyStep DEF DelMissing, Return
<1> QED
  BY <1>1, <1>2, <1>3, <1>4, <1>5

\* SET without memory: the level may be raised, to no effect on the list.
LEMMA SetNoMemoryStep ==
  ASSUME IInv, NEW h \in 1 .. MaxLevel, SetNoMemory(h)
  PROVE  IInv'
<1>1. Active /\ Returns(-1) /\ -1 \in Return
  BY DEF SetNoMemory, Active, Return
<1>2. level' \in 1 .. MaxLevel /\ level <= level'
  BY <1>1, Ranges, LevelAssumption DEF SetNoMemory, RaisedLevel, IInv, NodesOK
<1>3. TypeOK'
  BY <1>1, <1>2, LevelAssumption DEF IInv, TypeOK, SetNoMemory, Returns, heap, Nowhere
<1>4. NodesOK'
  <2>1. \A n \in live : nlvl[n] \in 1 .. level'
    BY <1>2, Ranges, LevelAssumption
  <2> QED
    BY <1>2, <2>1, LevelAssumption DEF IInv, NodesOK, SetNoMemory, heap
<1>5. KeysDistinct'
  BY DEF IInv, KeysDistinct, SetNoMemory, heap
<1>6. LevelsSorted'
  BY <1>1 DEF IInv, LevelsSorted, SuccessorAt, Reaches, Before, SetNoMemory, heap
<1>7. CountExact'
  BY <1>1 DEF IInv, CountExact, SetNoMemory, heap
<1> QED
  BY <1>1, <1>3, <1>4, <1>5, <1>6, <1>7, ReturnsStep DEF IInv

\* MOD replaces the value of a live node.
LEMMA ModReplacesStep ==
  ASSUME IInv, ModReplaces
  PROVE  IInv'
<1>1. Active /\ Returns(0) /\ 0 \in Return
  BY DEF ModReplaces, Active, Return
<1>2. cur \in live /\ req.val \in Value
  BY DEF ModReplaces, Hit, IInv, FoundOK, Request
<1>3. TypeOK'
  BY <1>1, <1>2, LevelAssumption DEF IInv, TypeOK, ModReplaces, Returns, table, Nowhere
<1>4. NodesOK'
  BY <1>1, <1>2 DEF IInv, TypeOK, NodesOK, ModReplaces, table
<1>5. KeysDistinct'
  BY DEF IInv, KeysDistinct, ModReplaces
<1>6. LevelsSorted'
  BY <1>1 DEF IInv, LevelsSorted, SuccessorAt, Reaches, Before, ModReplaces
<1>7. CountExact'
  BY <1>1 DEF IInv, CountExact, ModReplaces, table
<1> QED
  BY <1>1, <1>3, <1>4, <1>5, <1>6, <1>7, ReturnsStep DEF IInv

\* On one level, a node before the key that is not the predecessor of the
\* key has a successor that is still before the key.
LEMMA PredecessorUnique ==
  ASSUME IInv, Active, req.key \in Int, NEW l \in Tower,
         NEW u, PredecessorAt(u, l),
         NEW m \in live \cup {HeadNode}, Reaches(m, l), Before(m, req.key), m # u
  PROVE  fwd[m][l] # NULL /\ nkey[fwd[m][l]] < req.key
<1>1. u \in live \cup {HeadNode} /\ Reaches(u, l) /\ Before(u, req.key)
  BY DEF PredecessorAt
<1>2. SuccessorAt(m, l) /\ SuccessorAt(u, l)
  BY <1>1 DEF IInv, LevelsSorted
<1>3. HeadNode \notin live
  BY NodeAssumption DEF IInv, TypeOK
<1>4. ASSUME u = HeadNode \/ (m # HeadNode /\ nkey[u] < nkey[m])
      PROVE  FALSE
  <2>1. m \in live /\ l < nlvl[m] /\ nkey[m] < req.key /\ Before(u, nkey[m])
    BY <1>3, <1>4 DEF Reaches, Before
  <2>2. fwd[u][l] # NULL /\ nkey[fwd[u][l]] <= nkey[m]
    BY <1>2, <2>1 DEF SuccessorAt
  <2>3. fwd[u][l] \in live
    BY <1>2, <2>2 DEF SuccessorAt
  <2>4. nkey[fwd[u][l]] \in Int /\ nkey[m] \in Int
    BY <2>1, <2>3, Ranges
  <2> QED
    BY <2>1, <2>2, <2>4 DEF PredecessorAt
<1>5. CASE u # HeadNode /\ (m = HeadNode \/ ~(nkey[u] < nkey[m]))
  <2>1. u \in live /\ l < nlvl[u] /\ nkey[u] < req.key
    BY <1>1, <1>5 DEF Reaches, Before
  <2>2. Before(m, nkey[u])
    <3>1. CASE m = HeadNode
      BY <3>1 DEF Before
    <3>2. CASE m # HeadNode
      <4>1. m \in live /\ nkey[m] \in Int /\ nkey[u] \in Int
        BY <3>2, <2>1, Ranges
      <4>2. nkey[m] # nkey[u]
        BY <4>1, <2>1 DEF IInv, KeysDistinct
      <4> QED
        BY <1>5, <3>2, <4>1, <4>2 DEF Before
    <3> QED
      BY <3>1, <3>2
  <2>3. fwd[m][l] # NULL /\ nkey[fwd[m][l]] <= nkey[u]
    BY <1>2, <2>1, <2>2 DEF SuccessorAt
  <2>4. fwd[m][l] \in live
    BY <1>2, <2>3 DEF SuccessorAt
  <2>5. nkey[fwd[m][l]] \in Int /\ nkey[u] \in Int
    BY <2>1, <2>4, Ranges
  <2> QED
    BY <2>1, <2>3, <2>5
<1> QED
  BY <1>4, <1>5

\* A SET that found no node of its key links a new one into every level of
\* its tower, between the predecessor of the key and its successor.
LEMMA SetInsertStep ==
  ASSUME IInv, NEW n \in Node, NEW h \in 1 .. MaxLevel, SetInsert(n, h)
  PROVE  IInv'
<1> DEFINE k == req.key
           p(l) == Predecessor(l)
<1>1. Active /\ Returns(0) /\ 0 \in Return /\ Active'
  BY ReturnsStep DEF SetInsert, Active, Return
<1>2. req \in Request /\ k \in Key /\ req.val \in Value /\ RecordsUpdate
  BY DEF SetInsert, IInv, FoundOK, Request, RecordsUpdate
<1>3. k \in Int
  BY <1>2, KeyAssumption
<1>4. \A q \in live : nkey[q] # k
  BY NodeAssumption DEF SetInsert, Hit, IInv, TypeOK, FoundOK
<1>5. n \notin live /\ n # HeadNode /\ HeadNode \notin live
  BY NodeAssumption DEF SetInsert, IInv, TypeOK
<1>6. level' \in 1 .. MaxLevel /\ level <= level' /\ h <= level'
  BY <1>1, Ranges, LevelAssumption DEF SetInsert, RaisedLevel, IInv, NodesOK
<1>7. \A l \in Tower : l >= level => fwd[HeadNode][l] = NULL
  <2> SUFFICES ASSUME NEW l \in Tower, l >= level, fwd[HeadNode][l] # NULL
               PROVE  FALSE
    OBVIOUS
  <2>1. fwd[HeadNode][l] \in live /\ l < nlvl[fwd[HeadNode][l]]
    BY <1>1 DEF IInv, LevelsSorted, SuccessorAt, Reaches
  <2> QED
    BY <2>1, Ranges, LevelAssumption DEF Tower
<1>8. ASSUME NEW l \in Tower
      PROVE  PredecessorAt(p(l), l)
  <2>1. CASE l >= level
    BY <2>1, <1>7 DEF Predecessor, PredecessorAt, Reaches, Before
  <2>2. CASE ~(l >= level)
    <3>1. l < level
      BY <2>2, Ranges, LevelAssumption DEF Tower
    <3>2. PredecessorAt(update[l], l)
      BY <1>2, <3>1 DEF SetInsert, IInv, FoundOK
    <3> QED
      BY <2>2, <3>2 DEF Predecessor
  <2> QED
    BY <2>1, <2>2
<1>9. TypeOK'
  <2>1. fwd' \in [From -> [Tower -> Link]]
    <3> SUFFICES ASSUME NEW m \in From, NEW l \in Tower
                 PROVE  Linked(n, h)[m][l] \in Link
      BY DEF SetInsert, Linked
    <3>1. p(l) \in From
      BY <1>8 DEF PredecessorAt, From, IInv, TypeOK
    <3>2. fwd[m][l] \in Link /\ fwd[p(l)][l] \in Link
      BY <3>1 DEF IInv, TypeOK
    <3> QED
      BY <3>2 DEF Linked, Link
  <2>2. live' \in SUBSET Node /\ nkey' \in [Node -> Key \cup {NULL}] /\ nval' \in [Node -> Value \cup {NULL}]
    BY <1>2 DEF SetInsert, IInv, TypeOK
  <2>3. nlvl' \in [Node -> 0 .. MaxLevel]
    BY LevelAssumption DEF SetInsert, IInv, TypeOK
  <2>4. level' \in 0 .. MaxLevel /\ count' \in Int
    BY <1>6, LevelAssumption DEF SetInsert, IInv, TypeOK
  <2> QED
    BY <1>1, <2>1, <2>2, <2>3, <2>4, LevelAssumption DEF TypeOK, Returns, Nowhere
<1>10. /\ \A q \in live : nkey'[q] = nkey[q] /\ nval'[q] = nval[q] /\ nlvl'[q] = nlvl[q]
       /\ nkey'[n] = k /\ nval'[n] = req.val /\ nlvl'[n] = h
       /\ live' = live \cup {n}
  BY <1>5 DEF SetInsert, IInv, TypeOK
<1>11. NodesOK'
  <2>1. IsFiniteSet(live')
    BY <1>10, FS_AddElement DEF IInv, NodesOK
  <2>2. level' >= 1
    BY <1>6, LevelAssumption
  <2>3. \A q \in live' : nkey'[q] \in Key /\ nval'[q] \in Value
    BY <1>2, <1>10 DEF IInv, NodesOK
  <2>4. \A q \in live' : nlvl'[q] \in 1 .. level'
    BY <1>6, <1>10, Ranges, LevelAssumption
  <2> QED
    BY <2>1, <2>2, <2>3, <2>4 DEF NodesOK
<1>12. KeysDistinct'
  BY <1>4, <1>10 DEF IInv, KeysDistinct
<1>13. CountExact'
  BY <1>1, <1>5, <1>10, FS_AddElement, ZenonT(60) DEF IInv, NodesOK, CountExact, SetInsert
<1>14. LevelsSorted'
  <2> SUFFICES ASSUME NEW m \in live' \cup {HeadNode}, NEW l \in Tower, Reaches(m, l)'
               PROVE  SuccessorAt(m, l)'
    BY DEF LevelsSorted
  <2> DEFINE s == fwd[p(l)][l]
  <2>1. /\ p(l) \in live \cup {HeadNode} /\ Reaches(p(l), l) /\ Before(p(l), k)
        /\ (s # NULL => nkey[s] >= k) /\ SuccessorAt(p(l), l)
    BY <1>1, <1>8 DEF PredecessorAt, IInv, LevelsSorted
  <2>2. s # NULL => s \in live /\ l < nlvl[s] /\ nkey[s] \in Int /\ k < nkey[s]
    <3> SUFFICES ASSUME s # NULL PROVE s \in live /\ l < nlvl[s] /\ nkey[s] \in Int /\ k < nkey[s]
      OBVIOUS
    <3>1. s \in live /\ l < nlvl[s]
      BY <2>1 DEF SuccessorAt
    <3>2. nkey[s] \in Int /\ nkey[s] # k
      BY <3>1, <1>4, Ranges
    <3> QED
      BY <2>1, <3>1, <3>2, <1>3
  <2>3. fwd'[m][l] = IF m = n THEN IF l < h THEN s ELSE NULL
                     ELSE IF l < h /\ m = p(l) THEN n ELSE fwd[m][l]
    BY DEF SetInsert, Linked, From, IInv, TypeOK
  <2>4. CASE m = n
    <3>1. l < h /\ fwd'[m][l] = s
      BY <1>5, <1>10, <2>3, <2>4 DEF Reaches
    <3>2. ASSUME s # NULL
          PROVE  s \in live' /\ l < nlvl'[s] /\ nkey'[n] < nkey'[s]
      BY <1>10, <2>2, <3>2
    <3>3. ASSUME NEW q \in live', l < nlvl'[q], Before(n, nkey[q])'
          PROVE  s # NULL /\ nkey'[s] <= nkey'[q]
      <4>1. k < nkey'[q]
        BY <1>5, <1>10, <3>3 DEF Before
      <4>2. q \in live /\ nkey[q] \in Int /\ k < nkey[q] /\ l < nlvl[q]
        BY <1>3, <1>10, <3>3, <4>1, Ranges
      <4>3. Before(p(l), nkey[q])
        <5>1. p(l) # HeadNode => nkey[p(l)] \in Int
          BY <2>1, Ranges
        <5> QED
          BY <1>3, <2>1, <4>2, <5>1 DEF Before
      <4>4. s # NULL /\ nkey[s] <= nkey[q]
        BY <2>1, <4>2, <4>3 DEF SuccessorAt
      <4> QED
        BY <1>10, <2>2, <4>2, <4>4
    <3> QED
      BY <2>4, <3>1, <3>2, <3>3 DEF SuccessorAt, Before
  <2>5. CASE m # n /\ l < h /\ m = p(l)
    <3>1. fwd'[m][l] = n /\ n # NULL
      BY <2>3, <2>5, NodeAssumption
    <3>2. n \in live' /\ l < nlvl'[n] /\ Before(m, nkey[n])'
      BY <1>10, <2>1, <2>5 DEF Before
    <3>3. ASSUME NEW q \in live', l < nlvl'[q], Before(m, nkey[q])'
          PROVE  nkey'[n] <= nkey'[q]
      <4>1. CASE q = n
        BY <1>3, <1>10, <4>1
      <4>2. CASE q # n
        <5>1. q \in live /\ l < nlvl[q] /\ Before(m, nkey[q])
          BY <1>10, <2>1, <2>5, <3>3, <4>2 DEF Before
        <5>2. s # NULL /\ nkey[s] <= nkey[q]
          BY <2>1, <2>5, <5>1 DEF SuccessorAt
        <5>3. nkey[q] \in Int
          BY <5>1, Ranges
        <5> QED
          BY <1>3, <1>10, <2>2, <5>1, <5>2, <5>3
      <4> QED
        BY <4>1, <4>2
    <3> QED
      BY <3>1, <3>2, <3>3 DEF SuccessorAt
  <2>6. CASE m # n /\ ~(l < h /\ m = p(l))
    <3>1. fwd'[m][l] = fwd[m][l]
      BY <2>3, <2>6
    <3>2. m \in live \cup {HeadNode} /\ Reaches(m, l)
      BY <1>10, <2>6 DEF Reaches
    <3>3. SuccessorAt(m, l)
      BY <1>1, <3>2 DEF IInv, LevelsSorted
    <3>4. ASSUME fwd[m][l] # NULL
          PROVE  fwd[m][l] \in live' /\ l < nlvl'[fwd[m][l]] /\ Before(m, nkey[fwd[m][l]])'
      <4>1. fwd[m][l] \in live /\ l < nlvl[fwd[m][l]] /\ Before(m, nkey[fwd[m][l]])
        BY <3>3, <3>4 DEF SuccessorAt
      <4>2. Before(m, nkey[fwd[m][l]])'
        BY <1>10, <3>1, <3>2, <4>1 DEF Before
      <4> QED
        BY <1>10, <4>1, <4>2
    <3>5. ASSUME NEW q \in live', l < nlvl'[q], Before(m, nkey[q])'
          PROVE  fwd[m][l] # NULL /\ nkey'[fwd[m][l]] <= nkey'[q]
      <4>1. CASE q # n
        <5>1. q \in live /\ l < nlvl[q] /\ Before(m, nkey[q])
          BY <1>10, <3>2, <3>5, <4>1 DEF Before
        <5>2. fwd[m][l] # NULL /\ nkey[fwd[m][l]] <= nkey[q]
          BY <3>3, <5>1 DEF SuccessorAt
        <5>3. fwd[m][l] \in live
          BY <3>3, <5>2 DEF SuccessorAt
        <5> QED
          BY <1>10, <5>1, <5>2, <5>3
      <4>2. CASE q = n
        <5>1. l < h /\ Before(m, k)
          BY <1>10, <3>2, <3>5, <4>2 DEF Before
        <5>2. m # p(l)
          BY <2>6, <5>1
        <5>3. fwd[m][l] # NULL /\ nkey[fwd[m][l]] < k
          BY <1>1, <1>3, <1>8, <3>2, <5>1, <5>2, PredecessorUnique
        <5>4. fwd[m][l] \in live
          BY <3>3, <5>3 DEF SuccessorAt
        <5>5. nkey[fwd[m][l]] \in Int
          BY <5>4, Ranges
        <5> QED
          BY <1>3, <1>10, <4>2, <5>3, <5>4, <5>5
      <4> QED
        BY <4>1, <4>2
    <3> QED
      BY <3>1, <3>4, <3>5 DEF SuccessorAt
  <2> QED
    BY <2>4, <2>5, <2>6
<1> QED
  BY <1>1, <1>9, <1>11, <1>12, <1>13, <1>14, ReturnsStep DEF IInv

\* A DEL that hit unlinks its node from every level of its tower, no more
\* and no fewer, before it is freed; no dropped level holds a node.
LEMMA DelRemovesStep ==
  ASSUME IInv, DelRemoves
  PROVE  IInv'
<1> DEFINE k == req.key
<1>1. Active /\ Returns(0) /\ 0 \in Return /\ Active' /\ pc = "found" /\ cur \in live
      /\ nkey[cur] = k /\ RecordsUpdate
  BY ReturnsStep DEF DelRemoves, Active, Return, Hit, RecordsUpdate, IInv, FoundOK
<1>2. k \in Int
  BY <1>1, Ranges
<1>3. cur # HeadNode /\ HeadNode \notin live /\ cur # NULL /\ NULL \notin live
  BY <1>1, NodeAssumption DEF IInv, TypeOK
<1>4. \A l \in Tower : l < level => PredecessorAt(update[l], l)
  BY <1>1 DEF IInv, FoundOK
<1>5. ASSUME NEW l \in Tower, l < level
      PROVE  (fwd[update[l]][l] = cur) <=> (l < nlvl[cur])
  <2> DEFINE s == fwd[update[l]][l]
  <2>1. /\ update[l] \in live \cup {HeadNode} /\ Reaches(update[l], l) /\ Before(update[l], k)
        /\ (s # NULL => nkey[s] >= k) /\ SuccessorAt(update[l], l)
    BY <1>1, <1>4, <1>5 DEF PredecessorAt, IInv, LevelsSorted
  <2>2. ASSUME s = cur PROVE l < nlvl[cur]
    BY <1>3, <2>1, <2>2 DEF SuccessorAt
  <2>3. ASSUME l < nlvl[cur] PROVE s = cur
    <3>1. s # NULL /\ nkey[s] <= nkey[cur] /\ s \in live
      BY <1>1, <2>1, <2>3 DEF SuccessorAt, Before
    <3>2. nkey[s] \in Int
      BY <3>1, Ranges
    <3>3. nkey[s] = nkey[cur]
      BY <1>1, <1>2, <2>1, <3>1, <3>2
    <3> QED
      BY <1>1, <3>1, <3>3 DEF IInv, KeysDistinct
  <2> QED
    BY <2>2, <2>3
<1>6. nlvl[cur] \in Int /\ nlvl[cur] <= level /\ level \in 0 .. MaxLevel
  BY <1>1, Ranges
<1>7. \A l \in Tower : Unlinks(l) <=> l < nlvl[cur]
  <2> SUFFICES ASSUME NEW l \in Tower
               PROVE  Unlinks(l) <=> l < nlvl[cur]
    OBVIOUS
  <2>1. ASSUME Unlinks(l) PROVE l < nlvl[cur]
    BY <1>5, <2>1 DEF Unlinks, Tower
  <2>2. ASSUME l < nlvl[cur] PROVE Unlinks(l)
    <3>1. l < level
      BY <1>6, <2>2, LevelAssumption DEF Tower
    <3>2. ASSUME NEW x \in 0 .. l PROVE fwd[update[x]][x] = cur
      <4>1. x \in Tower /\ x < level /\ x < nlvl[cur]
        BY <1>6, <2>2, <3>1, LevelAssumption DEF Tower
      <4> QED
        BY <1>5, <4>1
    <3> QED
      BY <3>1, <3>2 DEF Unlinks
  <2> QED
    BY <2>1, <2>2
<1>8. /\ live' = live \ {cur} /\ nkey' = nkey
      /\ \A q \in live' : nval'[q] = nval[q] /\ nlvl'[q] = nlvl[q]
  BY <1>1 DEF DelRemoves, Free, IInv, TypeOK
<1>9. ASSUME NEW m \in From, NEW l \in Tower
      PROVE  fwd'[m][l] = IF m = cur THEN NULL
                          ELSE IF l < nlvl[cur] /\ m = update[l] THEN fwd[cur][l] ELSE fwd[m][l]
  <2>1. fwd' = [Unlinked EXCEPT ![cur] = Nowhere]
    BY DEF DelRemoves, Free
  <2>2. CASE m = cur
    BY <1>1, <2>1, <2>2 DEF Unlinked, Nowhere, From, IInv, TypeOK
  <2>3. CASE m # cur
    <3>1. fwd'[m][l] = Unlinked[m][l]
      BY <2>1, <2>3 DEF Unlinked
    <3> QED
      BY <1>7, <2>3, <3>1 DEF Unlinked
  <2> QED
    BY <2>2, <2>3
<1>10. LevelsSorted'
  <2> SUFFICES ASSUME NEW m \in live' \cup {HeadNode}, NEW l \in Tower, Reaches(m, l)'
               PROVE  SuccessorAt(m, l)'
    BY DEF LevelsSorted
  <2>1. m \in live \cup {HeadNode} /\ m # cur /\ m \in From /\ Reaches(m, l)
    BY <1>3, <1>8 DEF Reaches, From, IInv, TypeOK
  <2>2. SuccessorAt(m, l)
    BY <1>1, <2>1 DEF IInv, LevelsSorted
  <2>3. CASE l < nlvl[cur] /\ m = update[l]
    <3> DEFINE s == fwd[cur][l]
    <3>1. fwd'[m][l] = s
      BY <1>9, <2>1, <2>3
    <3>2. l < level
      BY <1>6, <2>3, LevelAssumption DEF Tower
    <3>3. fwd[m][l] = cur /\ Before(m, k)
      BY <1>4, <1>5, <2>3, <3>2 DEF PredecessorAt
    <3>4. SuccessorAt(cur, l)
      BY <1>1, <2>3 DEF IInv, LevelsSorted, Reaches
    <3>5. m # HeadNode => nkey[m] \in Int
      BY <2>1, Ranges
    <3>6. ASSUME s # NULL
          PROVE  s \in live' /\ l < nlvl'[s] /\ (m = HeadNode \/ nkey'[m] < nkey'[s])
      <4>1. s \in live /\ l < nlvl[s] /\ nkey[cur] < nkey[s]
        BY <1>3, <3>4, <3>6 DEF SuccessorAt, Before
      <4>2. nkey[s] \in Int
        BY <4>1, Ranges
      <4>3. s # cur
        BY <1>1, <1>2, <4>1
      <4>4. m = HeadNode \/ nkey[m] < nkey[s]
        BY <1>1, <1>2, <3>3, <3>5, <4>1, <4>2 DEF Before
      <4> QED
        BY <1>8, <4>1, <4>3, <4>4
    <3>7. ASSUME NEW q \in live', l < nlvl'[q], Before(m, nkey[q])'
          PROVE  s # NULL /\ nkey'[s] <= nkey'[q]
      <4>1. q \in live /\ q # cur /\ l < nlvl[q] /\ Before(m, nkey[q])
        BY <1>8, <3>7 DEF Before
      <4>2. nkey[cur] <= nkey[q]
        BY <2>2, <3>3, <4>1 DEF SuccessorAt, Before
      <4>3. nkey[q] \in Int /\ nkey[q] # nkey[cur]
        BY <1>1, <4>1, Ranges DEF IInv, KeysDistinct
      <4>4. Before(cur, nkey[q])
        BY <1>1, <1>2, <4>2, <4>3 DEF Before
      <4>5. s # NULL /\ nkey[s] <= nkey[q]
        BY <3>4, <4>1, <4>4 DEF SuccessorAt
      <4> QED
        BY <1>8, <4>5
    <3> QED
      BY <3>1, <3>6, <3>7 DEF SuccessorAt, Before
  <2>4. CASE ~(l < nlvl[cur] /\ m = update[l])
    <3>1. fwd'[m][l] = fwd[m][l]
      BY <1>9, <2>1, <2>4
    <3>2. fwd[m][l] # cur
      <4> SUFFICES ASSUME fwd[m][l] = cur PROVE FALSE
        OBVIOUS
      <4>1. l < nlvl[cur] /\ Before(m, k)
        BY <1>1, <1>3, <2>2 DEF SuccessorAt, Before
      <4>2. l < level
        BY <1>6, <4>1, LevelAssumption DEF Tower
      <4>3. m # update[l] /\ PredecessorAt(update[l], l)
        BY <1>4, <2>4, <4>1, <4>2
      <4>4. nkey[cur] < k
        BY <1>1, <1>2, <2>1, <4>1, <4>3, PredecessorUnique
      <4> QED
        BY <1>1, <1>2, <4>4
    <3>3. ASSUME fwd[m][l] # NULL
          PROVE  fwd[m][l] \in live' /\ l < nlvl'[fwd[m][l]] /\ Before(m, nkey[fwd[m][l]])'
      <4>1. fwd[m][l] \in live /\ l < nlvl[fwd[m][l]] /\ Before(m, nkey[fwd[m][l]])
        BY <2>2, <3>3 DEF SuccessorAt
      <4>2. Before(m, nkey[fwd[m][l]])'
        BY <1>8, <3>1, <4>1 DEF Before
      <4> QED
        BY <1>8, <3>2, <4>1, <4>2
    <3>4. ASSUME NEW q \in live', l < nlvl'[q], Before(m, nkey[q])'
          PROVE  fwd[m][l] # NULL /\ nkey'[fwd[m][l]] <= nkey'[q]
      <4>1. q \in live /\ l < nlvl[q] /\ Before(m, nkey[q])
        BY <1>8, <3>4 DEF Before
      <4> QED
        BY <1>8, <2>2, <4>1 DEF SuccessorAt, Before
    <3> QED
      BY <3>1, <3>3, <3>4 DEF SuccessorAt
  <2> QED
    BY <2>3, <2>4
<1>11. /\ level' \in 1 .. level
       /\ \A x \in (level' + 1) .. level : Unlinked[HeadNode][x - 1] = NULL
  BY DEF DelRemoves, ShrunkTo
<1>12. \A q \in live' : nlvl'[q] \in 1 .. level'
  <2> SUFFICES ASSUME NEW q \in live', ~(nlvl[q] \in 1 .. level')
               PROVE  FALSE
    BY <1>8
  <2> DEFINE x == nlvl[q] - 1
  <2>1. q \in live /\ q \in live' /\ nlvl[q] \in Int /\ 0 < nlvl[q] /\ nlvl[q] <= level
    BY <1>8, Ranges
  <2>2. nlvl[q] \in (level' + 1) .. level /\ x \in Tower
    BY <1>6, <1>11, <2>1, LevelAssumption DEF Tower
  <2>3. Unlinked[HeadNode][x] = NULL
    BY <1>11, <2>2
  <2>4. fwd'[HeadNode][x] = NULL
    BY <1>3, <2>2, <2>3 DEF DelRemoves, Free, Unlinked, From
  <2>5. x < nlvl'[q]
    BY <1>8, <2>1
  <2> QED
    <3>1. ASSUME NEW l \in Tower, fwd'[HeadNode][l] = NULL, l < nlvl'[q]
          PROVE  FALSE
      <4>1. SuccessorAt(HeadNode, l)'
        BY <1>1, <1>10 DEF LevelsSorted, Reaches
      <4> QED
        BY <3>1, <4>1, <2>1 DEF SuccessorAt, Before
    <3> QED
      BY <2>2, <2>4, <2>5, <3>1
<1>13. TypeOK'
  <2>1. fwd' \in [From -> [Tower -> Link]]
    <3>1. Unlinked \in [From -> [Tower -> Link]]
      <4> SUFFICES ASSUME NEW m \in From, NEW l \in Tower
                   PROVE  Unlinked[m][l] \in Link
        BY DEF Unlinked
      <4> QED
        BY <1>1 DEF Unlinked, IInv, TypeOK, From
    <3> QED
      BY <3>1 DEF DelRemoves, Free, Nowhere, Link
  <2>2. live' \in SUBSET Node /\ nkey' \in [Node -> Key \cup {NULL}] /\ nval' \in [Node -> Value \cup {NULL}]
    BY DEF DelRemoves, Free, IInv, TypeOK
  <2>3. nlvl' \in [Node -> 0 .. MaxLevel]
    <3>1. 0 \in 0 .. MaxLevel
      BY LevelAssumption
    <3>2. nlvl \in [Node -> 0 .. MaxLevel] /\ nlvl' = [nlvl EXCEPT ![cur] = 0]
      BY DEF DelRemoves, Free, IInv, TypeOK
    <3> QED
      BY <3>1, <3>2
  <2>4. level' \in 0 .. MaxLevel /\ count' \in Int
    BY <1>6, <1>11, LevelAssumption DEF DelRemoves, IInv, TypeOK
  <2> QED
    BY <1>1, <2>1, <2>2, <2>3, <2>4, LevelAssumption DEF TypeOK, Returns, Nowhere
<1>14. NodesOK'
  <2>1. IsFiniteSet(live')
    BY <1>8, FS_RemoveElement DEF IInv, NodesOK
  <2>2. level' >= 1
    BY <1>6, <1>11, LevelAssumption
  <2>3. \A q \in live' : nkey'[q] \in Key /\ nval'[q] \in Value
    BY <1>8 DEF IInv, NodesOK
  <2> QED
    BY <1>12, <2>1, <2>2, <2>3 DEF NodesOK
<1>15. KeysDistinct'
  BY <1>8 DEF IInv, KeysDistinct
<1>16. CountExact'
  BY <1>1, <1>8, FS_RemoveElement DEF IInv, NodesOK, CountExact, DelRemoves
<1> QED
  BY <1>1, <1>10, <1>13, <1>14, <1>15, <1>16, ReturnsStep DEF IInv

\* Destruction begins at the first node of level 0.
LEMMA DestroyBeginStep ==
  ASSUME IInv, DestroyBegin
  PROVE  IInv'
<1>1. Active /\ 0 \in Tower /\ SuccessorAt(HeadNode, 0)
  <2>1. Active
    BY DEF DestroyBegin, Active
  <2>2. 0 \in Tower
    BY LevelAssumption DEF Tower
  <2>3. Reaches(HeadNode, 0)
    BY DEF Reaches
  <2>4. \A m \in live \cup {HeadNode} : \A l \in Tower : Reaches(m, l) => SuccessorAt(m, l)
    BY <2>1 DEF IInv, LevelsSorted
  <2> QED
    BY <2>1, <2>2, <2>3, <2>4
<1>2. fwd[HeadNode][0] \in live \cup {NULL}
  BY <1>1 DEF SuccessorAt
<1>3. TypeOK'
  BY <1>2 DEF IInv, TypeOK, DestroyBegin, heap, table, From
<1>4. NodesOK' /\ KeysDistinct' /\ LevelsSorted' /\ CountExact'
  BY DEF IInv, NodesOK, KeysDistinct, LevelsSorted, CountExact, Active, DestroyBegin, heap, table
<1>5. NoUseAfterFree'
  BY <1>2 DEF IInv, NoUseAfterFree, DestroyBegin, heap
<1>6. DestroyOK'
  <2>1. ASSUME NEW n \in live PROVE fwd[HeadNode][0] # NULL /\ nkey[fwd[HeadNode][0]] <= nkey[n]
    BY <1>1, Ranges DEF SuccessorAt, Before
  <2>2. ASSUME NEW m \in live PROVE SuccessorAt(m, 0)
    <3>1. 0 < nlvl[m]
      BY Ranges
    <3> QED
      BY <1>1, <3>1 DEF IInv, LevelsSorted, Reaches
  <2>3. \A m : SuccessorAt(m, 0)' <=> SuccessorAt(m, 0)
    BY DEF SuccessorAt, Before, DestroyBegin, heap
  <2> QED
    BY <1>2, <2>1, <2>2, <2>3 DEF DestroyOK, DestroyBegin, heap
<1>7. SearchOK' /\ FoundOK' /\ DestroyFreesAll' /\ IdleOK'
  BY DEF SearchOK, FoundOK, DestroyFreesAll, IdleOK, IInv, DestroyBegin
<1> QED
  BY <1>3, <1>4, <1>5, <1>6, <1>7 DEF IInv

\* One node is freed; what is left lies behind its successor.
LEMMA DestroyNodeStep ==
  ASSUME IInv, DestroyNode
  PROVE  IInv'
<1>1. /\ pc = "destroy" /\ pc' = "destroy" /\ cur \in live /\ SuccessorAt(cur, 0)
      /\ cur # HeadNode /\ HeadNode \notin live /\ cur # NULL /\ NULL \notin live
  BY NodeAssumption DEF DestroyNode, IInv, TypeOK, DestroyOK
<1>2. ~Active'
  BY <1>1 DEF Active
<1>3. /\ live' = live \ {cur} /\ nkey' = nkey /\ cur' = fwd[cur][0]
      /\ \A q \in live' : nval'[q] = nval[q] /\ nlvl'[q] = nlvl[q] /\ fwd'[q] = fwd[q]
  BY <1>1 DEF DestroyNode, Free, IInv, TypeOK, From
<1>4. \A q \in live' : nkey[q] \in Int /\ nkey[cur] \in Int /\ nkey[cur] < nkey[q] /\ 0 < nlvl[q]
  <2> SUFFICES ASSUME NEW q \in live'
               PROVE  nkey[q] \in Int /\ nkey[cur] \in Int /\ nkey[cur] < nkey[q] /\ 0 < nlvl[q]
    OBVIOUS
  <2>1. q \in live /\ q # cur
    BY <1>3
  <2>2. nkey[q] \in Int /\ nkey[cur] \in Int /\ 0 < nlvl[q]
    BY <1>1, <2>1, Ranges
  <2>3. nkey[cur] <= nkey[q] /\ nkey[cur] # nkey[q]
    BY <1>1, <2>1 DEF IInv, DestroyOK, KeysDistinct
  <2> QED
    BY <2>2, <2>3
<1>5. fwd[cur][0] # NULL => fwd[cur][0] \in live'
  <2>1. fwd[cur][0] # NULL => fwd[cur][0] \in live /\ nkey[cur] < nkey[fwd[cur][0]]
    BY <1>1 DEF SuccessorAt, Before
  <2>2. nkey[cur] \in Int
    BY <1>1, Ranges
  <2> QED
    BY <1>3, <2>1, <2>2
<1>6. TypeOK'
  <2>1. cur' \in From \cup {NULL}
    BY <1>3, <1>5 DEF IInv, TypeOK, From
  <2>2. nlvl' \in [Node -> 0 .. MaxLevel]
    <3>1. 0 \in 0 .. MaxLevel
      BY LevelAssumption
    <3>2. nlvl \in [Node -> 0 .. MaxLevel] /\ nlvl' = [nlvl EXCEPT ![cur] = 0]
      BY DEF DestroyNode, Free, IInv, TypeOK
    <3> QED
      BY <3>1, <3>2
  <2>3. fwd' \in [From -> [Tower -> Link]]
    BY DEF DestroyNode, Free, IInv, TypeOK, Nowhere, Link
  <2>4. live' \in SUBSET Node /\ nkey' \in [Node -> Key \cup {NULL}] /\ nval' \in [Node -> Value \cup {NULL}]
    BY DEF DestroyNode, Free, IInv, TypeOK
  <2> QED
    BY <2>1, <2>2, <2>3, <2>4 DEF DestroyNode, IInv, TypeOK, table
<1>7. NodesOK'
  <2>1. IsFiniteSet(live')
    BY <1>3, FS_RemoveElement DEF IInv, NodesOK
  <2> QED
    BY <1>2, <1>3, <2>1 DEF IInv, NodesOK, DestroyNode, table
<1>8. KeysDistinct' /\ LevelsSorted' /\ CountExact'
  BY <1>2, <1>3 DEF IInv, KeysDistinct, LevelsSorted, CountExact
<1>9. NoUseAfterFree'
  <2>1. update' = Nowhere
    BY <1>1 DEF IInv, IdleOK, DestroyNode
  <2> QED
    BY <1>3, <1>5, <2>1 DEF NoUseAfterFree, Nowhere
<1>10. DestroyOK'
  <2>1. ASSUME NEW q \in live'
        PROVE  fwd[cur][0] # NULL /\ nkey[fwd[cur][0]] <= nkey[q]
    <3>1. q \in live /\ Before(cur, nkey[q]) /\ 0 < nlvl[q]
      BY <1>3, <1>4 DEF Before
    <3> QED
      BY <1>1, <3>1 DEF SuccessorAt
  <2>2. ASSUME NEW m \in live'
        PROVE  SuccessorAt(m, 0)'
    <3>1. m \in live /\ SuccessorAt(m, 0) /\ m # HeadNode /\ fwd'[m][0] = fwd[m][0]
      BY <1>1, <1>3 DEF IInv, DestroyOK
    <3>2. ASSUME fwd[m][0] # NULL
          PROVE  fwd[m][0] \in live' /\ 0 < nlvl'[fwd[m][0]] /\ nkey[m] < nkey[fwd[m][0]]
      <4>1. fwd[m][0] \in live /\ 0 < nlvl[fwd[m][0]] /\ nkey[m] < nkey[fwd[m][0]]
        BY <3>1, <3>2 DEF SuccessorAt, Before
      <4>2. nkey[cur] < nkey[m] /\ nkey[cur] \in Int /\ nkey[m] \in Int
        BY <1>4
      <4>3. fwd[m][0] # cur
        BY <4>1, <4>2
      <4> QED
        BY <1>3, <4>1, <4>3
    <3>3. ASSUME NEW q \in live', 0 < nlvl'[q], Before(m, nkey[q])'
          PROVE  fwd[m][0] # NULL /\ nkey[fwd[m][0]] <= nkey[q]
      <4>1. q \in live /\ 0 < nlvl[q] /\ Before(m, nkey[q])
        BY <1>3, <3>3 DEF Before
      <4> QED
        BY <3>1, <4>1 DEF SuccessorAt
    <3> QED
      BY <1>3, <3>1, <3>2, <3>3 DEF SuccessorAt, Before
  <2> QED
    BY <1>3, <1>5, <2>1, <2>2 DEF DestroyOK
<1>11. SearchOK' /\ FoundOK' /\ DestroyFreesAll' /\ IdleOK'
  BY <1>1 DEF SearchOK, FoundOK, DestroyFreesAll, IdleOK, IInv, DestroyNode
<1> QED
  BY <1>6, <1>7, <1>8, <1>9, <1>10, <1>11 DEF IInv

\* The end of level 0 is the end of the table.
LEMMA DestroyEndStep ==
  ASSUME IInv, DestroyEnd
  PROVE  IInv'
<1>1. live = {}
  BY DEF DestroyEnd, IInv, DestroyOK
<1>2. TypeOK'
  BY LevelAssumption DEF IInv, TypeOK, DestroyEnd, heap, local
<1>3. NodesOK' /\ KeysDistinct' /\ LevelsSorted' /\ CountExact'
  BY <1>1 DEF IInv, NodesOK, KeysDistinct, LevelsSorted, CountExact, Active, DestroyEnd, heap
<1>4. NoUseAfterFree'
  BY DEF IInv, NoUseAfterFree, DestroyEnd, heap, local
<1>5. SearchOK' /\ FoundOK' /\ DestroyOK' /\ DestroyFreesAll' /\ IdleOK'
  BY <1>1 DEF SearchOK, FoundOK, DestroyOK, DestroyFreesAll, IdleOK, IInv, DestroyEnd, heap, local
<1> QED
  BY <1>2, <1>3, <1>4, <1>5 DEF IInv

\* Every step keeps the invariant.
LEMMA NextIInv == IInv /\ [Next]_vars => IInv'
<1> SUFFICES ASSUME IInv, [Next]_vars PROVE IInv'
  OBVIOUS
<1>1. CASE \E r \in Request : Call(r)
  BY <1>1, CallStep
<1>2. CASE SearchForward \/ SearchDown \/ SearchEnd
  BY <1>2, SearchForwardStep, SearchDownStep, SearchEndStep
<1>3. CASE SetExists \/ Get \/ Exist \/ ModFails \/ DelMissing
  BY <1>3, LookupSteps
<1>4. CASE \E h \in 1 .. MaxLevel : SetNoMemory(h)
  BY <1>4, SetNoMemoryStep
<1>5. CASE \E n \in Node, h \in 1 .. MaxLevel : SetInsert(n, h)
  BY <1>5, SetInsertStep
<1>6. CASE ModReplaces \/ DelRemoves
  BY <1>6, ModReplacesStep, DelRemovesStep
<1>7. CASE DestroyBegin \/ DestroyNode \/ DestroyEnd
  BY <1>7, DestroyBeginStep, DestroyNodeStep, DestroyEndStep
<1>8. CASE UNCHANGED vars
  <2>1. TypeOK' /\ NodesOK' /\ KeysDistinct' /\ CountExact' /\ NoUseAfterFree' /\ DestroyFreesAll' /\ IdleOK'
    BY <1>8 DEF vars, IInv, TypeOK, NodesOK, KeysDistinct, CountExact, NoUseAfterFree, DestroyFreesAll, IdleOK, Active
  <2>2. LevelsSorted' /\ DestroyOK'
    BY <1>8 DEF vars, IInv, LevelsSorted, DestroyOK, Active, SuccessorAt, Reaches, Before
  <2>3. SearchOK' /\ FoundOK'
    BY <1>8 DEF vars, IInv, SearchOK, FoundOK, PredecessorAt, RecordsUpdate, Reaches, Before
  <2> QED
    BY <2>1, <2>2, <2>3 DEF IInv
<1> QED
  BY <1>1, <1>2, <1>3, <1>4, <1>5, <1>6, <1>7, <1>8 DEF Next

\* The inductive invariant holds in every reachable state.
THEOREM IInvHolds == Spec => []IInv
  BY InitIInv, NextIInv, PTL DEF Spec

\* Type correctness of the skip list.
THEOREM TypeCorrect == Spec => []TypeOK
<1>1. IInv => TypeOK
  BY DEF IInv
<1> QED
  BY <1>1, IInvHolds, PTL

\* Every level of the skip list is sorted, complete and free of dangling
\* pointers after every sequence of calls, failed allocations included.
THEOREM LevelsAlwaysSorted == Spec => []LevelsSorted
<1>1. IInv => LevelsSorted
  BY DEF IInv
<1> QED
  BY <1>1, IInvHolds, PTL

\* No operation of the skip list reads or writes through a freed node.
THEOREM MemorySafe == Spec => []NoUseAfterFree
<1>1. IInv => NoUseAfterFree
  BY DEF IInv
<1> QED
  BY <1>1, IInvHolds, PTL

\* table->count is the number of nodes in the list.
THEOREM CountStaysExact == Spec => []CountExact
<1>1. IInv => CountExact
  BY DEF IInv
<1> QED
  BY <1>1, IInvHolds, PTL

\* kvs_skiptable_destroy frees every node: nothing allocated is unreachable.
THEOREM DestroyLeaksNothing == Spec => []DestroyFreesAll
<1>1. IInv => DestroyFreesAll
  BY DEF IInv
<1> QED
  BY <1>1, IInvHolds, PTL
-----------------------------------------------------------------------------
(* The skip list implements the map contract.                              *)

\* What Contents says: the value of the live node of a key, or NULL.
ContentsOK ==
  Active => \A k \in Key :
    /\ \A n \in live : nkey[n] = k => Contents[k] = nval[n]
    /\ (\A n \in live : nkey[n] # k) => Contents[k] = NULL

\* Keys are distinct, so the CHOOSE in Contents has one candidate.
LEMMA ContentsCorrect == IInv => ContentsOK
<1> SUFFICES ASSUME IInv, Active, NEW k \in Key
             PROVE  /\ \A n \in live : nkey[n] = k => Contents[k] = nval[n]
                    /\ (\A n \in live : nkey[n] # k) => Contents[k] = NULL
  BY DEF ContentsOK
<1>1. pc \notin {"destroy", "gone"}
  BY DEF Active
<1>2. ASSUME NEW n \in live, nkey[n] = k
      PROVE  Contents[k] = nval[n]
  <2>1. (CHOOSE x \in live : nkey[x] = k) = n
    BY <1>2 DEF IInv, KeysDistinct
  <2> QED
    BY <1>1, <1>2, <2>1 DEF Contents
<1>3. ASSUME \A n \in live : nkey[n] # k
      PROVE  Contents[k] = NULL
  BY <1>1, <1>3 DEF Contents
<1> QED
  BY <1>2, <1>3

\* Nothing but the heap and the life of the table enters Contents.
LEMMA ContentsUnchanged ==
  ASSUME UNCHANGED heap, (pc \in {"destroy", "gone"}) <=> (pc' \in {"destroy", "gone"})
  PROVE  Contents' = Contents
BY DEF heap, Contents

\* After a search, the abstract map has the key exactly if the search hit.
LEMMA HitIsStored ==
  ASSUME IInv, pc = "found"
  PROVE  /\ req \in Request /\ req.key \in Key /\ Active
         /\ Hit => cur \in live /\ Contents[req.key] = nval[cur] /\ Contents[req.key] # NULL
         /\ ~Hit => Contents[req.key] = NULL /\ \A n \in live : nkey[n] # req.key
<1>1. req \in Request /\ req.key \in Key /\ Active
  BY DEF IInv, FoundOK, Request, Active
<1>2. ASSUME Hit
      PROVE  cur \in live /\ Contents[req.key] = nval[cur] /\ Contents[req.key] # NULL
  <2>1. cur \in live /\ nkey[cur] = req.key
    BY <1>2 DEF IInv, FoundOK, Hit
  <2>2. Contents[req.key] = nval[cur]
    BY <1>1, <2>1, ContentsCorrect DEF ContentsOK
  <2>3. nval[cur] # NULL
    BY <2>1, ValueAssumption DEF IInv, NodesOK
  <2> QED
    BY <2>1, <2>2, <2>3
<1>3. ASSUME ~Hit
      PROVE  Contents[req.key] = NULL /\ \A n \in live : nkey[n] # req.key
  <2>1. \A n \in live : nkey[n] # req.key
    BY <1>3, NodeAssumption DEF IInv, TypeOK, FoundOK, Hit
  <2> QED
    BY <1>1, <2>1, ContentsCorrect DEF ContentsOK
<1> QED
  BY <1>1, <1>2, <1>3

\* A call that leaves the table alone answers as the map does.
LEMMA LookupsRefine ==
  ASSUME IInv, SetExists \/ Get \/ Exist \/ ModFails \/ DelMissing
               \/ \E h \in 1 .. MaxLevel : SetNoMemory(h)
  PROVE  Contract!Next
<1>1. /\ pc = "found" /\ pc' = "idle" /\ UNCHANGED heap /\ req' = NULL
  BY DEF SetExists, Get, Exist, ModFails, DelMissing, SetNoMemory, Returns
<1>2. Contents' = Contents /\ (pc' \notin {"destroy", "gone"}) = (pc \notin {"destroy", "gone"})
  BY <1>1, ContentsUnchanged
<1>3. req # NULL
  BY <1>1, HitIsStored, RequestAssumption
<1> USE <1>1, <1>2, <1>3, HitIsStored DEF Contract!Next, Contract!Returns, Contract!Stored, Returns
<1>4. CASE SetExists
  BY <1>4 DEF SetExists, Contract!Set
<1>5. CASE Get
  BY <1>5 DEF Get, Contract!Get
<1>6. CASE Exist
  BY <1>6 DEF Exist, Contract!Exist
<1>7. CASE ModFails
  BY <1>7 DEF ModFails, Contract!Mod
<1>8. CASE DelMissing
  BY <1>8 DEF DelMissing, Contract!Del
<1>9. CASE \E h \in 1 .. MaxLevel : SetNoMemory(h)
  BY <1>9 DEF SetNoMemory, Contract!Set
<1> QED
  BY <1>4, <1>5, <1>6, <1>7, <1>8, <1>9

\* Two maps on the keys are equal if they agree on every key.
LEMMA ContentsEqual ==
  ASSUME NEW f, f = [x \in Key |-> f[x]], \A x \in Key : Contents'[x] = f[x]
  PROVE  Contents' = f
BY DEF Contents

\* SET adds its key to the map and nothing else.
LEMMA InsertRefines ==
  ASSUME IInv, IInv', NEW n \in Node, NEW h \in 1 .. MaxLevel, SetInsert(n, h)
  PROVE  Contract!Next
<1> DEFINE f == [Contents EXCEPT ![req.key] = req.val]
<1>1. /\ pc = "found" /\ ~Hit /\ req.cmd = "SET" /\ pc' = "idle" /\ req' = NULL /\ ret' = 0
      /\ n \notin live /\ live' = live \cup {n} /\ Active'
      /\ nkey'[n] = req.key /\ nval'[n] = req.val
      /\ \A q \in live : nkey'[q] = nkey[q] /\ nval'[q] = nval[q]
  BY DEF SetInsert, Returns, IInv, TypeOK, Active
<1>2. req \in Request /\ req # NULL /\ req.key \in Key /\ Active
      /\ Contents[req.key] = NULL /\ \A q \in live : nkey[q] # req.key
  BY <1>1, HitIsStored, RequestAssumption
<1>3. ContentsOK /\ ContentsOK'
  <2>1. IInv' => ContentsOK'
    BY ContentsCorrect, PTL
  <2> QED
    BY <2>1, ContentsCorrect
<1>4. ASSUME NEW x \in Key
      PROVE  Contents'[x] = f[x]
  <2>1. CASE x = req.key
    <3>1. Contents'[x] = nval'[n]
      BY <1>1, <1>3, <2>1 DEF ContentsOK
    <3> QED
      BY <1>1, <2>1, <3>1 DEF Contents
  <2>2. CASE x # req.key /\ \E q \in live : nkey[q] = x
    <3>1. PICK q \in live : nkey[q] = x
      BY <2>2
    <3>2. Contents[x] = nval[q] /\ Contents'[x] = nval'[q]
      BY <1>1, <1>2, <1>3, <3>1 DEF ContentsOK
    <3> QED
      BY <1>1, <2>2, <3>2 DEF Contents
  <2>3. CASE x # req.key /\ \A q \in live : nkey[q] # x
    <3>1. Contents[x] = NULL /\ Contents'[x] = NULL
      BY <1>1, <1>2, <1>3, <2>3 DEF ContentsOK
    <3> QED
      BY <2>3, <3>1 DEF Contents
  <2> QED
    BY <2>1, <2>2, <2>3
<1>5. Contents' = f
  <2>1. f = [x \in Key |-> f[x]]
    BY DEF Contents
  <2> QED
    BY <1>4, <2>1, ContentsEqual
<1> QED
  BY <1>1, <1>2, <1>5 DEF Contract!Next, Contract!Set, Contract!Returns, Contract!Stored

\* MOD replaces the value of its key and nothing else.
LEMMA ModRefines ==
  ASSUME IInv, IInv', ModReplaces
  PROVE  Contract!Next
<1> DEFINE f == [Contents EXCEPT ![req.key] = req.val]
<1>1. /\ pc = "found" /\ Hit /\ req.cmd = "MOD" /\ pc' = "idle" /\ req' = NULL /\ ret' = 0
      /\ live' = live /\ nkey' = nkey /\ Active'
      /\ \A q \in live : q # cur => nval'[q] = nval[q]
  BY DEF ModReplaces, Returns, IInv, TypeOK, Active
<1>2. req \in Request /\ req # NULL /\ req.key \in Key /\ Active
      /\ cur \in live /\ nkey[cur] = req.key /\ Contents[req.key] # NULL
  BY <1>1, HitIsStored, RequestAssumption DEF Hit
<1>3. nval'[cur] = req.val
  BY <1>2 DEF ModReplaces, IInv, TypeOK
<1>4. ContentsOK /\ ContentsOK'
  <2>1. IInv' => ContentsOK'
    BY ContentsCorrect, PTL
  <2> QED
    BY <2>1, ContentsCorrect
<1>5. ASSUME NEW x \in Key
      PROVE  Contents'[x] = f[x]
  <2>1. CASE x = req.key
    <3>1. Contents'[x] = nval'[cur]
      BY <1>1, <1>2, <1>4, <2>1 DEF ContentsOK
    <3> QED
      BY <1>3, <2>1, <3>1 DEF Contents
  <2>2. CASE x # req.key /\ \E q \in live : nkey[q] = x
    <3>1. PICK q \in live : nkey[q] = x
      BY <2>2
    <3>2. Contents[x] = nval[q] /\ Contents'[x] = nval'[q] /\ q # cur
      BY <1>1, <1>2, <1>4, <2>2, <3>1 DEF ContentsOK
    <3> QED
      BY <1>1, <2>2, <3>2 DEF Contents
  <2>3. CASE x # req.key /\ \A q \in live : nkey[q] # x
    <3>1. Contents[x] = NULL /\ Contents'[x] = NULL
      BY <1>1, <1>2, <1>4, <2>3 DEF ContentsOK
    <3> QED
      BY <2>3, <3>1 DEF Contents
  <2> QED
    BY <2>1, <2>2, <2>3
<1>6. Contents' = f
  <2>1. f = [x \in Key |-> f[x]]
    BY DEF Contents
  <2> QED
    BY <1>5, <2>1, ContentsEqual
<1> QED
  BY <1>1, <1>2, <1>6 DEF Contract!Next, Contract!Mod, Contract!Returns, Contract!Stored

\* DEL removes its key and nothing else.
LEMMA DelRefines ==
  ASSUME IInv, IInv', DelRemoves
  PROVE  Contract!Next
<1> DEFINE f == [Contents EXCEPT ![req.key] = NULL]
<1>1. /\ pc = "found" /\ Hit /\ req.cmd = "DEL" /\ pc' = "idle" /\ req' = NULL /\ ret' = 0
      /\ live' = live \ {cur} /\ nkey' = nkey /\ Active'
      /\ \A q \in live : q # cur => nval'[q] = nval[q]
  BY DEF DelRemoves, Free, Returns, IInv, TypeOK, Active
<1>2. req \in Request /\ req # NULL /\ req.key \in Key /\ Active
      /\ cur \in live /\ nkey[cur] = req.key /\ Contents[req.key] # NULL
  BY <1>1, HitIsStored, RequestAssumption DEF Hit
<1>3. \A q \in live' : nkey[q] # req.key
  BY <1>1, <1>2 DEF IInv, KeysDistinct
<1>4. ContentsOK /\ ContentsOK'
  <2>1. IInv' => ContentsOK'
    BY ContentsCorrect, PTL
  <2> QED
    BY <2>1, ContentsCorrect
<1>5. ASSUME NEW x \in Key
      PROVE  Contents'[x] = f[x]
  <2>1. CASE x = req.key
    <3>1. Contents'[x] = NULL
      BY <1>1, <1>3, <1>4, <2>1 DEF ContentsOK
    <3> QED
      BY <2>1, <3>1 DEF Contents
  <2>2. CASE x # req.key /\ \E q \in live : nkey[q] = x
    <3>1. PICK q \in live : nkey[q] = x
      BY <2>2
    <3>2. Contents[x] = nval[q] /\ Contents'[x] = nval'[q] /\ q # cur
      BY <1>1, <1>2, <1>4, <2>2, <3>1 DEF ContentsOK
    <3> QED
      BY <1>1, <2>2, <3>2 DEF Contents
  <2>3. CASE x # req.key /\ \A q \in live : nkey[q] # x
    <3>1. Contents[x] = NULL /\ Contents'[x] = NULL
      BY <1>1, <1>2, <1>4, <2>3 DEF ContentsOK
    <3> QED
      BY <2>3, <3>1 DEF Contents
  <2> QED
    BY <2>1, <2>2, <2>3
<1>6. Contents' = f
  <2>1. f = [x \in Key |-> f[x]]
    BY DEF Contents
  <2> QED
    BY <1>5, <2>1, ContentsEqual
<1> QED
  BY <1>1, <1>2, <1>6 DEF Contract!Next, Contract!Del, Contract!Returns, Contract!Stored

\* Every step of the skip list is a step of the map or changes nothing.
LEMMA StepRefines ==
  IInv /\ IInv' /\ [Next]_vars => [Contract!Next]_(Contract!mvars)
<1> SUFFICES ASSUME IInv, IInv', [Next]_vars
             PROVE  Contract!Next \/ UNCHANGED Contract!mvars
  OBVIOUS
<1> USE DEF Contract!mvars
<1>1. ASSUME NEW r \in Request, Call(r)
      PROVE  Contract!Next
  <2>1. Contents' = Contents /\ req = NULL
    BY <1>1, ContentsUnchanged DEF Call, IInv, IdleOK
  <2>2. Contract!Invoke(r)
    BY <1>1, <2>1 DEF Call, Contract!Invoke
  <2> QED
    BY <2>2 DEF Contract!Next, Contract!Request, Request
<1>2. ASSUME SearchForward \/ SearchDown \/ SearchEnd
      PROVE  UNCHANGED Contract!mvars
  <2>1. pc \in {"search", "found"} /\ pc' \in {"search", "found"} /\ UNCHANGED <<heap, req, ret>>
    BY <1>2 DEF SearchForward, SearchDown, SearchEnd
  <2> QED
    BY <2>1, ContentsUnchanged
<1>3. CASE \/ SetExists \/ Get \/ Exist \/ ModFails \/ DelMissing
           \/ \E h \in 1 .. MaxLevel : SetNoMemory(h)
  BY <1>3, LookupsRefine
<1>4. CASE \E n \in Node, h \in 1 .. MaxLevel : SetInsert(n, h)
  BY <1>4, InsertRefines
<1>5. CASE ModReplaces \/ DelRemoves
  BY <1>5, ModRefines, DelRefines
<1>6. ASSUME DestroyBegin
      PROVE  Contract!Next
  <2>1. Contents' = [k \in Key |-> NULL] /\ req = NULL
    BY <1>6 DEF DestroyBegin, Contents, IInv, IdleOK
  <2>2. Contract!Destroy
    BY <1>6, <2>1 DEF DestroyBegin, Contract!Destroy
  <2> QED
    BY <2>2 DEF Contract!Next
<1>7. ASSUME DestroyNode \/ DestroyEnd
      PROVE  UNCHANGED Contract!mvars
  <2>1. pc \in {"destroy", "gone"} /\ pc' \in {"destroy", "gone"} /\ UNCHANGED <<req, ret>>
    BY <1>7 DEF DestroyNode, DestroyEnd
  <2>2. Contents' = Contents
    BY <2>1 DEF Contents
  <2> QED
    BY <2>1, <2>2
<1>8. ASSUME UNCHANGED vars
      PROVE  UNCHANGED Contract!mvars
  BY <1>8 DEF vars, Contents
<1> QED
  BY <1>1, <1>2, <1>3, <1>4, <1>5, <1>6, <1>7, <1>8 DEF Next

\* The skip list implements the map contract of the operation table, for
\* every set of keys and values and every SKIPTABLE_MAX_LEVEL.
THEOREM SkipTableImplementsMap == Spec => ImplementsMap
<1>1. Init => Contract!Init
  BY DEF Init, Contract!Init, Contents
<1> QED
  BY <1>1, IInvHolds, StepRefines, PTL DEF Spec, ImplementsMap, Contract!Spec
=============================================================================
