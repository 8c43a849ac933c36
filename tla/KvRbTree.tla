------------------------------ MODULE KvRbTree ------------------------------
(***************************************************************************)
(* The red-black-tree engine (kvs_rbtree.c): the tree with its shared      *)
(* sentinel nil, whose parent pointer deletion writes, and the operations  *)
(* of the engine with their allocation failures.  Every iteration of the   *)
(* fixup loops is a step.                                                  *)
(*                                                                         *)
(* A node is named by the key it holds.  Keys are unique, so this stands   *)
(* for the addresses up to renaming; where rbtree_delete exchanges the     *)
(* keys of two nodes, the two exchange their names.                        *)
(***************************************************************************)
EXTENDS Integers, FiniteSets

CONSTANTS
  Key,      \* numbers, in the order of strcmp
  Value,
  NULL,
  NIL,      \* the sentinel
  MaxLost   \* bound: how many keys may have lost their value at a time

ASSUME KeyAssumption == Key \subseteq Int /\ NIL \notin Key /\ NULL \notin Value /\ MaxLost \in Nat

VARIABLES
  tree,    \* root, and left, right, parent and color of the nodes
  val,     \* the values of the nodes: NULL after a MOD without memory
  phase,   \* "idle", or the fixup loop that runs: "insert" or "delete"
  at,      \* the node the loop has reached
  req,     \* the call in progress, or NULL
  ret,     \* what the last completed call returned
  open     \* FALSE once kvs_rbtree_destroy has been called

vars == <<tree, val, phase, at, req, ret, open>>

Node == Key \cup {NIL}
Request ==
  [cmd : {"SET", "MOD"}, key : Key, val : Value]
    \cup [cmd : {"GET", "DEL", "EXIST"}, key : Key, val : {NULL}]

\* kvs_rbtree_create
Empty ==
  LET toNil == [n \in Node |-> NIL]
  IN  [root |-> NIL, left |-> toNil, right |-> toNil, parent |-> toNil,
       color |-> [n \in Node |-> "BLACK"]]

Init ==
  /\ tree = Empty
  /\ val = [k \in {} |-> NULL]
  /\ phase = "idle" /\ at = NIL
  /\ req = NULL /\ ret = NULL /\ open = TRUE

-----------------------------------------------------------------------------
(* The tree. *)

Other(side) == IF side = "left" THEN "right" ELSE "left"

\* The side on which n hangs under p.
Side(t, p, n) == IF n = t.left[p] THEN "left" ELSE "right"

\* new takes the place of old under p.
Relink(t, p, old, new) ==
  IF p = NIL THEN [t EXCEPT !.root = new]
  ELSE [t EXCEPT ![Side(t, p, old)][p] = new]

rbtree_mini(t, x) ==
  LET down[n \in Node] == IF t.left[n] = NIL THEN n ELSE down[t.left[n]]
  IN  down[x]

\* Mutant of rbtree_successor: the right child.
SuccessorIsRight(t, x) == t.right[x]

rbtree_successor(t, x) ==
  LET up[n \in Node] ==
        IF t.parent[n] # NIL /\ n = t.right[t.parent[n]] THEN up[t.parent[n]] ELSE t.parent[n]
  IN  IF t.right[x] # NIL THEN rbtree_mini(t, t.right[x]) ELSE up[x]

\* x moves down to the given side, and the other child up into its place.
Rotate(t, x, side) ==
  LET o == Other(side)
      y == t[o][x]
      inner == t[side][y]
      moved == Relink(t, t.parent[x], x, y)
  IN  [moved EXCEPT ![o][x] = inner, ![side][y] = x,
         !.parent = [n \in Node |->
            CASE n = y -> t.parent[x]
              [] n = x -> y
              [] n = inner /\ inner # NIL -> x
              [] OTHER -> t.parent[n]]]

rbtree_left_rotate(t, x) == Rotate(t, x, "left")
rbtree_right_rotate(t, y) == Rotate(t, y, "right")
Rotated(t, x, side) ==
  IF side = "left" THEN rbtree_left_rotate(t, x) ELSE rbtree_right_rotate(t, x)

Paint(t, nodes, c) == [t EXCEPT !.color = [n \in Node |-> IF n \in nodes THEN c ELSE @[n]]]

\* The node with the key, or NIL.
rbtree_search(t, k) ==
  LET from[n \in Node] ==
        IF n = NIL \/ n = k THEN n
        ELSE IF k < n THEN from[t.left[n]] ELSE from[t.right[n]]
  IN  from[t.root]

\* The new red leaf z, under the last node of the search path.
rbtree_insert(t, z) ==
  LET next(n) == IF z < n THEN t.left[n] ELSE t.right[n]
      leaf[n \in Node] == IF next(n) = NIL THEN n ELSE leaf[next(n)]
      y == IF t.root = NIL THEN NIL ELSE leaf[t.root]
      hung == CASE y = NIL -> [t EXCEPT !.root = z]
                [] y # NIL /\ z < y -> [t EXCEPT !.left[y] = z]
                [] OTHER -> [t EXCEPT !.right[y] = z]
  IN  [hung EXCEPT !.parent[z] = y, !.color[z] = "RED"]

\* One iteration at z, whose parent is red: the tree and the next z.
InsertFixup(t, z) ==
  LET p == t.parent[z]
      g == t.parent[p]
      side == Side(t, g, p)
      o == Other(side)
      uncle == t[o][g]
      inside == z = t[o][p]
      straight == IF inside THEN Rotated(t, p, side) ELSE t
      z1 == IF inside THEN p ELSE z
      p1 == straight.parent[z1]
      g1 == straight.parent[p1]
  IN  IF t.color[uncle] = "RED"
      THEN [tree |-> Paint(Paint(t, {p, uncle}, "BLACK"), {g}, "RED"), at |-> g]
      ELSE [tree |-> Rotated(Paint(Paint(straight, {p1}, "BLACK"), {g1}, "RED"), g1, o), at |-> z1]

\* One iteration at x, which lacks one black node: the tree and the next x.
DeleteFixup(t, x) ==
  LET p == t.parent[x]
      side == Side(t, p, x)
      o == Other(side)
      w == t[o][p]
      t1 == IF t.color[w] = "BLACK" THEN t
            ELSE Rotated(Paint(Paint(t, {w}, "BLACK"), {p}, "RED"), p, side)
      w1 == t1[o][p]
      t2 == IF t1.color[t1[o][w1]] # "BLACK" THEN t1
            ELSE Rotated(Paint(Paint(t1, {t1[side][w1]}, "BLACK"), {w1}, "RED"), w1, o)
      w2 == t2[o][p]
      t3 == Rotated(Paint(Paint(t2, {w2}, t2.color[p]), {p, t2[o][w2]}, "BLACK"), p, side)
  IN  IF \A s \in {"left", "right"} : t1.color[t1[s][w1]] = "BLACK"
      THEN [tree |-> Paint(t1, {w1}, "RED"), at |-> p]
      ELSE [tree |-> t3, at |-> t3.root]

\* The two nodes exchange their names.
Swapped(t, m, n) ==
  LET name(x) == CASE x = m -> n [] x = n -> m [] OTHER -> x
      field(f) == [x \in Node |-> name(f[name(x)])]
  IN  [root |-> name(t.root), left |-> field(t.left), right |-> field(t.right),
       parent |-> field(t.parent), color |-> [x \in Node |-> t.color[name(x)]]]

\* z's node, or the successor it exchanges key and value with, is unlinked.
\* at: its child, where the fixup starts; fix: whether it has to.
rbtree_delete(t, z) ==
  LET y == IF NIL \in {t.left[z], t.right[z]} THEN z ELSE rbtree_successor(t, z)
      x == IF t.left[y] # NIL THEN t.left[y] ELSE t.right[y]
      cut == Relink([t EXCEPT !.parent[x] = t.parent[y]], t.parent[y], y, x)
      u == IF y = z THEN cut ELSE Swapped(cut, y, z)
  IN  [tree |-> [u EXCEPT !.left[z] = NIL, !.right[z] = NIL, !.parent[z] = NIL, !.color[z] = "BLACK"],
       at |-> x, fix |-> t.color[y] = "BLACK"]

-----------------------------------------------------------------------------
(* The operations of the engine. *)

\* What a call returns is fixed before its fixup loop; the next call waits
\* for the end of the loop.
Call(r) ==
  /\ open /\ req = NULL /\ phase = "idle"
  /\ req' = r
  /\ UNCHANGED <<tree, val, phase, at, ret, open>>

Calls(cmd) == req # NULL /\ req.cmd = cmd /\ phase = "idle"
Found == rbtree_search(tree, req.key) # NIL

Returns(r) == ret' = r /\ req' = NULL /\ UNCHANGED open

Reads(r) == Returns(r) /\ UNCHANGED <<tree, val, phase, at>>

SetExists == Calls("SET") /\ Found /\ Reads(1)
SetNoMemory == Calls("SET") /\ ~Found /\ Reads(-2)

Set ==
  /\ Calls("SET") /\ ~Found
  /\ tree' = rbtree_insert(tree, req.key)
  /\ val' = [k \in DOMAIN val \cup {req.key} |-> IF k = req.key THEN req.val ELSE val[k]]
  /\ phase' = "insert" /\ at' = req.key
  /\ Returns(0)

Get == Calls("GET") /\ Reads(IF Found THEN val[req.key] ELSE NULL)

Exist == Calls("EXIST") /\ Reads(IF Found THEN 0 ELSE 1)

\* The old value is freed first; without memory the node is left without one.
Lost == {k \in DOMAIN val : val[k] = NULL}

ModSets(v, r) ==
  /\ val' = [val EXCEPT ![req.key] = v]
  /\ Returns(r) /\ UNCHANGED <<tree, phase, at>>

Mod ==
  /\ Calls("MOD")
  /\ \/ ~Found /\ Reads(1)
     \/ Found /\ ModSets(req.val, 0)
     \/ Found /\ Cardinality(Lost \cup {req.key}) <= MaxLost /\ ModSets(NULL, -2)

\* The node of key k is unlinked and freed.
Remove(k) ==
  LET d == rbtree_delete(tree, k)
  IN  /\ tree' = d.tree
      /\ val' = [j \in DOMAIN val \ {k} |-> val[j]]
      /\ phase' = IF d.fix THEN "delete" ELSE "idle"
      /\ at' = IF d.fix THEN d.at ELSE NIL

Del ==
  /\ Calls("DEL")
  /\ \/ ~Found /\ Reads(1)
     \/ Found /\ Remove(req.key) /\ Returns(0)

\* The loops, and what follows them.
InsertFixupStep ==
  /\ phase = "insert" /\ tree.color[tree.parent[at]] = "RED"
  /\ LET f == InsertFixup(tree, at) IN tree' = f.tree /\ at' = f.at
  /\ UNCHANGED <<val, phase, req, ret, open>>

InsertFixupEnds ==
  /\ phase = "insert" /\ tree.color[tree.parent[at]] # "RED"
  /\ tree' = Paint(tree, {tree.root}, "BLACK")
  /\ phase' = "idle" /\ at' = NIL
  /\ UNCHANGED <<val, req, ret, open>>

DeleteFixupStep ==
  /\ phase = "delete" /\ at # tree.root /\ tree.color[at] = "BLACK"
  /\ LET f == DeleteFixup(tree, at) IN tree' = f.tree /\ at' = f.at
  /\ UNCHANGED <<val, phase, req, ret, open>>

\* Mutant of DeleteFixupEnds: x->color = BLACK is missing.
DeleteEndsUnpainted ==
  /\ phase = "delete" /\ (at = tree.root \/ tree.color[at] # "BLACK")
  /\ phase' = "idle" /\ at' = NIL
  /\ UNCHANGED <<tree, val, req, ret, open>>

DeleteFixupEnds ==
  /\ phase = "delete" /\ (at = tree.root \/ tree.color[at] # "BLACK")
  /\ tree' = Paint(tree, {at}, "BLACK")
  /\ phase' = "idle" /\ at' = NIL
  /\ UNCHANGED <<val, req, ret, open>>

\* kvs_rbtree_destroy: the smallest node goes, until none is left.
Destroy ==
  /\ open /\ req = NULL /\ phase = "idle"
  /\ open' = FALSE
  /\ UNCHANGED <<tree, val, phase, at, req, ret>>

DestroyNode ==
  /\ ~open /\ phase = "idle" /\ tree.root # NIL
  /\ Remove(rbtree_mini(tree, tree.root))
  /\ UNCHANGED <<req, ret, open>>

Next ==
  \/ \E r \in Request : Call(r)
  \/ SetExists \/ SetNoMemory \/ Set \/ Get \/ Exist \/ Mod \/ Del
  \/ InsertFixupStep \/ InsertFixupEnds \/ DeleteFixupStep \/ DeleteFixupEnds
  \/ Destroy \/ DestroyNode

Spec == Init /\ [][Next]_vars
-----------------------------------------------------------------------------
(* Properties. *)

\* The nodes a walk from n meets, in order of their keys.
InOrder(t, root) ==
  LET under[n \in Node] ==
        IF n = NIL THEN {} ELSE {n} \cup under[t.left[n]] \cup under[t.right[n]]
  IN  under[root]

\* Black nodes on the way down from the link at the given side of n; the link
\* the delete loop has reached counts one more.
BlackHeight(t, node, side) ==
  LET lacks(n, s) == phase = "delete" /\ t[s][n] = at /\ t.parent[at] = n /\ Side(t, n, at) = s
      height[n \in Node, s \in {"left", "right"}] ==
        (IF lacks(n, s) THEN 1 ELSE 0) + (IF t.color[t[s][n]] = "BLACK" THEN 1 ELSE 0)
        + (IF t[s][n] = NIL THEN 0 ELSE height[t[s][n], "left"])
  IN  height[node, side]

\* Before, during and after the fixup loops the tree is a search tree over
\* exactly the stored keys, parent pointers mirror the links and the sentinel
\* is black and childless.  Its black heights are equal, with the one missing
\* below where the delete loop is, and a red node has a red child only where
\* the insert or the delete loop is (rbtree_insert_fixup, rbtree_delete_fixup,
\* the rotations).
TreeSound ==
  LET child(n) == {tree.left[n], tree.right[n]} \ {NIL}
      less(n, side) == InOrder(tree, tree[side][n])
  IN  /\ InOrder(tree, tree.root) = DOMAIN val
      /\ \A n \in DOMAIN val :
           /\ \A m \in less(n, "left") : m < n
           /\ \A m \in less(n, "right") : m > n
           /\ \A m \in child(n) : tree.parent[m] = n
           /\ BlackHeight(tree, n, "left") = BlackHeight(tree, n, "right")
           /\ \A m \in child(n) :
                tree.color[n] = "RED" /\ tree.color[m] = "RED" => at \in {m, n} /\ phase # "idle"
      /\ tree.root # NIL => tree.parent[tree.root] = NIL
      /\ phase = "idle" => tree.color[tree.root] = "BLACK"
      /\ tree.color[NIL] = "BLACK" /\ tree.left[NIL] = NIL /\ tree.right[NIL] = NIL

Map == INSTANCE KvMap WITH
  store <- [k \in Key |-> IF open /\ k \in DOMAIN val THEN val[k] ELSE NULL],
  ret <- IF ret = -2 THEN -1 ELSE ret

\* Found through the tree alone, the operations keep the contract of the
\* operation table, except for a key whose value a MOD without memory lost:
\* the contract says that MOD keeps the old value.
ImplementsMap ==
  /\ Map!Init
  /\ [][Map!Next \/ (req # NULL /\ req.key \in Lost \cup Lost')]_(Map!mvars)
=============================================================================
