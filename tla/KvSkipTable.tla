---------------------------- MODULE KvSkipTable ----------------------------
(***************************************************************************)
(* The skip-list engine, kvs_skiptable.c.  Nodes are addresses; the heap   *)
(* is the set of nodes that are allocated together with their fields, so   *)
(* that following a pointer to a node that was freed is visible.  A search *)
(* is one step per iteration of its two nested loops; a key is its rank in *)
(* strcmp order.  The engine is called from one thread, so the effect of a *)
(* call after its search is one step.                                      *)
(***************************************************************************)
EXTENDS Integers, FiniteSets

CONSTANTS
  Key,       \* the keys, as ranks in strcmp order
  Value,     \* the values
  Node,      \* the addresses malloc may return for a skipnode_t
  HeadNode,  \* the address of the head node
  NULL,      \* the null pointer
  MaxLevel   \* SKIPTABLE_MAX_LEVEL

ASSUME KeyAssumption == Key \subseteq Int
ASSUME NodeAssumption == HeadNode \notin Node /\ NULL \notin Node /\ HeadNode # NULL
ASSUME ValueAssumption == NULL \notin Value /\ NULL \notin Int
ASSUME LevelAssumption == MaxLevel \in Nat \ {0}

VARIABLES
  live,      \* the data nodes that are allocated
  nkey,      \* node->key
  nval,      \* node->value
  nlvl,      \* node->level
  fwd,       \* node->forward[i], of the head node too
  level,     \* table->level
  count,     \* table->count
  pc,        \* where the running call is
  req,       \* the call and its arguments
  cur,       \* the local variable cur
  i,         \* the loop variable i of a search
  update,    \* the local array update[]
  ret        \* what the last call returned

heap == <<live, nkey, nval, nlvl, fwd>>
table == <<level, count>>
local == <<cur, i, update>>
vars == <<live, nkey, nval, nlvl, fwd, level, count, pc, req, cur, i, update, ret>>

Tower == 0 .. (MaxLevel - 1)        \* indices of forward[]
Link == Node \cup {NULL}            \* what a forward pointer holds
From == Node \cup {HeadNode}        \* the nodes a forward pointer starts at
Nowhere == [l \in Tower |-> NULL]   \* a forward[] or update[] array of zeros

Request ==
  [cmd : {"SET", "MOD"}, key : Key, val : Value]
    \cup [cmd : {"GET", "DEL", "EXIST"}, key : Key, val : {NULL}]

ASSUME RequestAssumption == NULL \notin Request

Return == {-1, 0, 1, NULL} \cup Value

\* Every variable has its type.
TypeOK ==
  /\ live \in SUBSET Node
  /\ nkey \in [Node -> Key \cup {NULL}]
  /\ nval \in [Node -> Value \cup {NULL}]
  /\ nlvl \in [Node -> 0 .. MaxLevel]
  /\ fwd \in [From -> [Tower -> Link]]
  /\ level \in 0 .. MaxLevel
  /\ count \in Int
  /\ pc \in {"idle", "search", "found", "destroy", "gone"}
  /\ req \in Request \cup {NULL}
  /\ cur \in From \cup {NULL}
  /\ i \in -1 .. (MaxLevel - 1)
  /\ update \in [Tower -> From \cup {NULL}]
  /\ ret \in Return

\* kvs_skiptable_create: a head node with no successor, one level in use.
Init ==
  /\ live = {}
  /\ nkey = [n \in Node |-> NULL]
  /\ nval = [n \in Node |-> NULL]
  /\ nlvl = [n \in Node |-> 0]
  /\ fwd = [n \in From |-> Nowhere]
  /\ level = 1 /\ count = 0
  /\ pc = "idle" /\ req = NULL
  /\ cur = NULL /\ i = -1 /\ update = Nowhere
  /\ ret = NULL
-----------------------------------------------------------------------------
(* The search every operation starts with.                                 *)

\* Mutant of Call: the loop starts at table->level, one too high.
CallOffByOne(r) ==
  /\ pc = "idle"
  /\ pc' = "search"
  /\ req' = r
  /\ cur' = HeadNode
  /\ i' = level
  /\ update' = Nowhere
  /\ UNCHANGED <<heap, table, ret>>

\* Entry of kvs_skiptable_set, get, mod, del and exist up to their loop.
Call(r) ==
  /\ pc = "idle"
  /\ pc' = "search"
  /\ req' = r
  /\ cur' = HeadNode
  /\ i' = level - 1
  /\ update' = Nowhere
  /\ UNCHANGED <<heap, table, ret>>

\* Mutant of Advances: strcmp(...) <= 0, the search runs past its key.
AdvancesPast ==
  /\ fwd[cur][i] # NULL
  /\ nkey[fwd[cur][i]] <= req.key

\* The condition of the inner while loop.
Advances ==
  /\ fwd[cur][i] # NULL
  /\ nkey[fwd[cur][i]] < req.key

\* cur = cur->forward[i]
SearchForward ==
  /\ pc = "search" /\ i >= 0
  /\ Advances
  /\ cur' = fwd[cur][i]
  /\ UNCHANGED <<heap, table, pc, req, i, update, ret>>

\* Only SET and DEL keep the predecessors: update[i] = cur.
RecordsUpdate == req.cmd \in {"SET", "DEL"}

\* The inner loop ends; the outer one goes one level down.
SearchDown ==
  /\ pc = "search" /\ i >= 0
  /\ ~Advances
  /\ i' = i - 1
  /\ update' = IF RecordsUpdate THEN [update EXCEPT ![i] = cur] ELSE update
  /\ UNCHANGED <<heap, table, pc, req, cur, ret>>

\* After the loops: cur = cur->forward[0].
SearchEnd ==
  /\ pc = "search" /\ i < 0
  /\ cur' = fwd[cur][0]
  /\ pc' = "found"
  /\ UNCHANGED <<heap, table, req, i, update, ret>>

\* cur != NULL && strcmp(cur->key, key) == 0
Hit == cur # NULL /\ nkey[cur] = req.key
-----------------------------------------------------------------------------
(* What each operation does with the outcome of its search.                *)

Returns(r) ==
  /\ pc' = "idle"
  /\ ret' = r
  /\ req' = NULL
  /\ cur' = NULL /\ i' = -1 /\ update' = Nowhere

\* The key is there: nothing is changed.
SetExists ==
  /\ pc = "found" /\ req.cmd = "SET" /\ Hit
  /\ Returns(1)
  /\ UNCHANGED <<heap, table>>

\* update[] once a level above table->level has been given the head node.
Predecessor(l) == IF l >= level THEN HeadNode ELSE update[l]

\* Mutant of RaisedLevel: table->level = level is forgotten.
NeverRaised(h) == level

RaisedLevel(h) == IF h > level THEN h ELSE level

\* skiptable_create_node fails: table->level has been raised already.
SetNoMemory(h) ==
  /\ pc = "found" /\ req.cmd = "SET" /\ ~Hit
  /\ level' = RaisedLevel(h)
  /\ Returns(-1)
  /\ UNCHANGED <<heap, count>>

\* Mutant of Linked: the two assignments of the linking loop are swapped.
LinkedSwapped(n, h) ==
  [m \in From |-> [l \in Tower |->
     IF l < h /\ (m = Predecessor(l) \/ m = n) THEN n
     ELSE IF m = n THEN NULL ELSE fwd[m][l]]]

\* The array forward[] of every node once n is linked in on levels below h.
Linked(n, h) ==
  [m \in From |-> [l \in Tower |->
     IF m = n THEN IF l < h THEN fwd[Predecessor(l)][l] ELSE NULL
     ELSE IF l < h /\ m = Predecessor(l) THEN n
     ELSE fwd[m][l]]]

\* A node of random level h is allocated at n, filled and linked.
SetInsert(n, h) ==
  /\ pc = "found" /\ req.cmd = "SET" /\ ~Hit
  /\ n \notin live
  /\ live' = live \cup {n}
  /\ nkey' = [nkey EXCEPT ![n] = req.key]
  /\ nval' = [nval EXCEPT ![n] = req.val]
  /\ nlvl' = [nlvl EXCEPT ![n] = h]
  /\ fwd' = Linked(n, h)
  /\ level' = RaisedLevel(h)
  /\ count' = count + 1
  /\ Returns(0)

Get ==
  /\ pc = "found" /\ req.cmd = "GET"
  /\ Returns(IF Hit THEN nval[cur] ELSE NULL)
  /\ UNCHANGED <<heap, table>>

Exist ==
  /\ pc = "found" /\ req.cmd = "EXIST"
  /\ Returns(IF Hit THEN 0 ELSE 1)
  /\ UNCHANGED <<heap, table>>

\* The key is missing, or there is no memory for the copy of the new value.
ModFails ==
  /\ pc = "found" /\ req.cmd = "MOD"
  /\ \/ ~Hit /\ Returns(1)
     \/ Hit /\ Returns(-1)
  /\ UNCHANGED <<heap, table>>

ModReplaces ==
  /\ pc = "found" /\ req.cmd = "MOD" /\ Hit
  /\ nval' = [nval EXCEPT ![cur] = req.val]
  /\ Returns(0)
  /\ UNCHANGED <<live, nkey, nlvl, fwd, table>>

DelMissing ==
  /\ pc = "found" /\ req.cmd = "DEL" /\ ~Hit
  /\ Returns(1)
  /\ UNCHANGED <<heap, table>>

\* Mutant of Unlinks: only the bottom level is unlinked.
UnlinksBottom(l) == l = 0

\* The levels the unlinking loop handles before its break.
Unlinks(l) == l < level /\ \A m \in 0 .. l : fwd[update[m]][m] = cur

\* The array forward[] of every node once cur is unlinked.
Unlinked ==
  [m \in From |-> [l \in Tower |->
     IF Unlinks(l) /\ m = update[l] THEN fwd[cur][l] ELSE fwd[m][l]]]

\* The level the loop after the unlinking stops at.
ShrunkTo(l, f) ==
  /\ l = 1 \/ f[HeadNode][l - 1] # NULL
  /\ \A m \in (l + 1) .. level : f[HeadNode][m - 1] = NULL

\* kvs_free of node n, f being the forward[] arrays before it.  What freed
\* memory holds is undefined: here the stale key, which a search through a
\* dangling pointer would compare with, stays and the rest is blanked.
Free(n, f) ==
  /\ live' = live \ {n}
  /\ nval' = [nval EXCEPT ![n] = NULL]
  /\ nlvl' = [nlvl EXCEPT ![n] = 0]
  /\ fwd' = [f EXCEPT ![n] = Nowhere]
  /\ UNCHANGED nkey

\* Mutant of DelRemoves: table->count-- is forgotten.
DelKeepsCount ==
  /\ pc = "found" /\ req.cmd = "DEL" /\ Hit
  /\ Free(cur, Unlinked)
  /\ level' \in {l \in 1 .. level : ShrunkTo(l, Unlinked)}
  /\ count' = count
  /\ Returns(0)

\* The node is unlinked and freed, and the unused levels are dropped.
DelRemoves ==
  /\ pc = "found" /\ req.cmd = "DEL" /\ Hit
  /\ Free(cur, Unlinked)
  /\ level' \in {l \in 1 .. level : ShrunkTo(l, Unlinked)}
  /\ count' = count - 1
  /\ Returns(0)
-----------------------------------------------------------------------------
(* kvs_skiptable_destroy.                                                  *)

\* Mutant of DestroyBegin: the list of the top level is walked.
DestroyFromTop ==
  /\ pc = "idle"
  /\ pc' = "destroy"
  /\ cur' = fwd[HeadNode][level - 1]
  /\ UNCHANGED <<heap, table, req, i, update, ret>>

DestroyBegin ==
  /\ pc = "idle"
  /\ pc' = "destroy"
  /\ cur' = fwd[HeadNode][0]
  /\ UNCHANGED <<heap, table, req, i, update, ret>>

\* One iteration: cur is freed after its successor has been read.
DestroyNode ==
  /\ pc = "destroy" /\ cur # NULL
  /\ cur' = fwd[cur][0]
  /\ Free(cur, fwd)
  /\ UNCHANGED <<table, pc, req, i, update, ret>>

\* The head is freed and the table's fields are cleared.
DestroyEnd ==
  /\ pc = "destroy" /\ cur = NULL
  /\ pc' = "gone"
  /\ level' = 0 /\ count' = 0
  /\ UNCHANGED <<heap, req, local, ret>>

Next ==
  \/ \E r \in Request : Call(r)
  \/ SearchForward \/ SearchDown \/ SearchEnd
  \/ SetExists
  \/ \E h \in 1 .. MaxLevel : SetNoMemory(h)
  \/ \E n \in Node, h \in 1 .. MaxLevel : SetInsert(n, h)
  \/ Get \/ Exist
  \/ ModFails \/ ModReplaces
  \/ DelMissing \/ DelRemoves
  \/ DestroyBegin \/ DestroyNode \/ DestroyEnd

Spec == Init /\ [][Next]_vars

\* A call that has begun runs on; no client has to call.
Fairness == WF_vars(Next /\ pc \in {"search", "found", "destroy"})

FairSpec == Spec /\ Fairness
-----------------------------------------------------------------------------
(* Properties.                                                             *)

\* The key a search compares with: the head node comes before every key.
Before(m, k) == m = HeadNode \/ nkey[m] < k

\* The levels of a node's tower.
Reaches(m, l) == m = HeadNode \/ l < nlvl[m]

\* Level l of the list from m on: no node that reaches level l lies between
\* m and its successor there, and the last node has none.
SuccessorAt(m, l) ==
  /\ fwd[m][l] # NULL =>
       /\ fwd[m][l] \in live
       /\ l < nlvl[fwd[m][l]]
       /\ Before(m, nkey[fwd[m][l]])
  /\ \A n \in live :
       (l < nlvl[n] /\ Before(m, nkey[n]))
         => fwd[m][l] # NULL /\ nkey[fwd[m][l]] <= nkey[n]

\* Two nodes never hold the same key: SET refuses a key that is there.
KeysDistinct == \A m, n \in live : nkey[m] = nkey[n] => m = n

Active == pc \in {"idle", "search", "found"}

\* Every level is the sorted list of the live nodes whose tower reaches it:
\* forward[l] is the next such node in key order, so nothing freed is linked
\* and nothing live is skipped (kvs_skiptable_set, kvs_skiptable_del).
LevelsSorted ==
  Active => \A m \in live \cup {HeadNode} : \A l \in Tower :
              Reaches(m, l) => SuccessorAt(m, l)

\* The pointers a call holds across its loops never refer to freed memory:
\* cur, and the predecessors in update[] that SET and DEL write through.
NoUseAfterFree ==
  /\ cur \in live \cup {HeadNode, NULL}
  /\ \A l \in Tower : update[l] \in live \cup {HeadNode, NULL}

\* table->count is the number of nodes in the table.
CountExact == Active => count = Cardinality(live)

\* "Freeing along level 0 covers the whole table" (comment of
\* kvs_skiptable_destroy): no node is left allocated.
DestroyFreesAll == pc = "gone" => live = {}

\* Every call returns: no search runs in a circle.
CallReturns == (pc \in {"search", "found"}) ~> (pc = "idle")

\* m is where a search for the key of req leaves level l.
PredecessorAt(m, l) ==
  /\ m \in live \cup {HeadNode}
  /\ Reaches(m, l)
  /\ Before(m, req.key)
  /\ fwd[m][l] # NULL => nkey[fwd[m][l]] >= req.key

\* The fields of allocated nodes, and table->level above every tower.
NodesOK ==
  /\ IsFiniteSet(live)
  /\ Active => level >= 1
  /\ \A n \in live : nkey[n] \in Key /\ nval[n] \in Value /\ nlvl[n] \in 1 .. level

\* What the two nested loops of a search have established so far.
SearchOK ==
  pc = "search" =>
    /\ req \in Request
    /\ i < level
    /\ cur \in live \cup {HeadNode}
    /\ Before(cur, req.key)
    /\ i >= 0 => Reaches(cur, i)
    /\ i < 0 => PredecessorAt(cur, 0)
    /\ RecordsUpdate => \A l \in Tower : (i < l /\ l < level) => PredecessorAt(update[l], l)

\* What a finished search has established.
FoundOK ==
  pc = "found" =>
    /\ req \in Request
    /\ cur \in live \cup {NULL}
    /\ \A n \in live : nkey[n] = req.key => cur = n
    /\ RecordsUpdate => \A l \in Tower : l < level => PredecessorAt(update[l], l)

\* What is still allocated during kvs_skiptable_destroy lies on level 0
\* from cur on.
DestroyOK ==
  pc = "destroy" =>
    /\ cur \in live \cup {NULL}
    /\ \A n \in live : cur # NULL /\ nkey[cur] <= nkey[n]
    /\ \A m \in live : SuccessorAt(m, 0)

\* Between calls the locals are not there.
IdleOK ==
  /\ pc \in {"idle", "destroy", "gone"} => req = NULL /\ update = Nowhere
  /\ pc = "idle" => cur = NULL
  /\ pc = "gone" => cur = NULL

\* The inductive invariant: the shape of the list together with what a
\* search, a deletion and the destruction know at each step.
IInv ==
  /\ TypeOK
  /\ NodesOK
  /\ KeysDistinct
  /\ LevelsSorted
  /\ CountExact
  /\ NoUseAfterFree
  /\ SearchOK
  /\ FoundOK
  /\ DestroyOK
  /\ DestroyFreesAll
  /\ IdleOK

\* The map the table stands for.
Contents ==
  [k \in Key |->
     IF pc \in {"destroy", "gone"} THEN NULL
     ELSE IF \E n \in live : nkey[n] = k
          THEN nval[CHOOSE n \in live : nkey[n] = k] ELSE NULL]

\* The skip list keeps the contract of the operation table.
Contract == INSTANCE KvMap WITH store <- Contents, open <- pc \notin {"destroy", "gone"}

\* Every call of the skip list is one call of the abstract map: a search
\* finds exactly the live nodes, and a failed allocation changes nothing.
ImplementsMap == Contract!Spec
=============================================================================
