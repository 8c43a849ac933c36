----------------------------- MODULE KvEngines -----------------------------
(***************************************************************************)
(* The array and the hash engine behind the same operation table: both are *)
(* given the same requests by the protocol layer, and their replies and    *)
(* contents are compared.  One engine is compiled in at a time; running    *)
(* them side by side states that a client cannot tell which.  The store's  *)
(* precursor gets the same requests.                                       *)
(***************************************************************************)
EXTENDS KvProtocol, FiniteSets

CONSTANTS
  ArraySize,   \* KVS_ARRAY_SIZE
  PrecursorSize,   \* and that of the precursor
  TableSize,   \* MAX_TABLE_SIZE
  ByteSum,     \* the sum of the bytes of each key
  FREED        \* a pointer to freed memory

ASSUME SizesAssumption ==
  /\ ArraySize \in Nat \ {0} /\ PrecursorSize \in Nat \ {0} /\ TableSize \in Nat \ {0}
  /\ ByteSum \in [Key -> Nat] /\ IsFiniteSet(Key)

\* The null pointer and a pointer to freed memory are no values, and no request
\* or slot is the null pointer.
ASSUME PointersAssumption ==
  /\ NULL \notin Value \cup {FREED} /\ FREED \notin Value
  /\ NULL \notin [key : Key, val : Value \cup {FREED}] \cup Request

VARIABLES
  table, aret,         \* the array engine
  nodes, count, hret,  \* the hash engine
  slots, chains, pcount, sret, cret, refused, pup,  \* the precursor
  req,                 \* the last request
  short,               \* some request was refused for lack of memory or room
  open                 \* FALSE once the engine has been destroyed

precursor == <<slots, chains, pcount, sret, cret, refused, pup>>
vars == <<table, aret, nodes, count, hret, precursor, req, short, open>>

Array == INSTANCE KvArray
Hash == INSTANCE KvHash
Precursor == INSTANCE KvPrecursor

Item == [key : Key, val : Value \cup {FREED}]
Return == {-2, -1, NULL, FREED} \cup (0 .. ArraySize) \cup Value

\* Every variable has its type.
TypeOK ==
  /\ table \in Seq(Item) /\ Len(table) <= ArraySize
  /\ nodes \in [Hash!Slot -> Seq(Item)] /\ \A b \in Hash!Slot : Len(nodes[b]) <= Cardinality(Key)
  /\ count \in Int
  /\ aret \in Return /\ hret \in Return
  /\ slots \in Seq(Item \cup {NULL}) /\ Len(slots) <= PrecursorSize
  /\ chains \in [Hash!Slot -> Seq(Item)] /\ \A b \in Hash!Slot : Len(chains[b]) <= Cardinality(Key)
  /\ pcount \in Int /\ refused \in BOOLEAN /\ pup \in BOOLEAN
  /\ req \in Request \cup {NULL}
  /\ short \in BOOLEAN /\ open \in BOOLEAN

Init ==
  /\ Array!Init /\ Hash!Init /\ Precursor!Init
  /\ req = NULL
  /\ short = FALSE /\ open = TRUE

\* The precursor gets the request too, as long as there is something to compare.
PrecursorLeaves == Precursor!Ends \/ (~pup /\ UNCHANGED precursor)
PrecursorTurn(r) == IF short' THEN PrecursorLeaves ELSE Precursor!Answers(r)

\* kvs_filter_protocol calls the operation of the request.
Execute(r) ==
  /\ open /\ UNCHANGED open
  /\ req' = r
  /\ short' = (short \/ (r.cmd = "SET" /\ Len(table) = ArraySize /\ Array!Lookup(r.key) = NULL))
  /\ \/ r.cmd = "SET" /\ Array!Set(r.key, r.val) /\ Hash!Set(r.key, r.val)
     \/ r.cmd = "GET" /\ Array!Get(r.key) /\ Hash!Get(r.key)
     \/ r.cmd = "DEL" /\ Array!Del(r.key) /\ Hash!Del(r.key)
     \/ r.cmd = "MOD" /\ Array!Mod(r.key, r.val) /\ Hash!Mod(r.key, r.val)
     \/ r.cmd = "EXIST" /\ Array!Exist(r.key) /\ Hash!Exist(r.key)
  /\ PrecursorTurn(r)

\* The same, when malloc fails for one of the engines or for both.
ExecuteNoMemory(r) ==
  /\ open /\ UNCHANGED open
  /\ req' = r
  /\ short' = TRUE /\ PrecursorLeaves
  /\ \/ /\ r.cmd = "SET"
        /\ \/ Array!SetNoMemory(r.key) /\ Hash!Set(r.key, r.val)
           \/ Array!Set(r.key, r.val) /\ Hash!SetNoMemory(r.key)
           \/ Array!SetNoMemory(r.key) /\ Hash!SetNoMemory(r.key)
     \/ /\ r.cmd = "MOD"
        /\ \/ Array!ModNoMemory(r.key) /\ Hash!Mod(r.key, r.val)
           \/ Array!Mod(r.key, r.val) /\ Hash!ModNoMemory(r.key)
           \/ Array!ModNoMemory(r.key) /\ Hash!ModNoMemory(r.key)

\* MOD and DEL free the value they replace.  Where a failed MOD left it freed,
\* the allocator may notice and abort the process; Execute is the case in
\* which it does not.
DoubleFree(r) ==
  /\ open /\ r.cmd \in {"MOD", "DEL"}
  /\ FREED \in {Array!Lookup(r.key), Hash!Lookup(r.key)}
  /\ open' = FALSE
  /\ req' = NULL
  /\ UNCHANGED <<table, aret, nodes, count, hret, precursor, short>>

\* dest_kvengine
Shutdown ==
  /\ Array!Destroy /\ Hash!Destroy
  /\ open /\ open' = FALSE
  /\ req' = NULL
  /\ UNCHANGED <<precursor, short>>

\* The precursor is stopped, or does not know a command.
PrecursorEnds ==
  /\ Precursor!Ends
  /\ UNCHANGED <<table, aret, nodes, count, hret, req, short, open>>

Next ==
  \/ PrecursorEnds
  \/ \E r \in Request : Execute(r) \/ ExecuteNoMemory(r) \/ DoubleFree(r)
  \/ Shutdown

Spec == Init /\ [][Next]_vars
-----------------------------------------------------------------------------
(* Properties.                                                             *)

\* The map each engine stands for.
ArrayContents == [k \in Key |-> Array!Lookup(k)]
HashContents == [k \in Key |-> Hash!Lookup(k)]

\* As long as nothing was refused for lack of memory or room the engines hold
\* the same pairs, however slots were shifted and chains were cut; so does the
\* precursor, with holes in its array, as long as it lives.
ContentsAgree ==
  /\ ~short => ArrayContents = HashContents
  /\ open /\ ~short /\ ~refused /\ pup =>
       \A k \in Key : ArrayContents[k] = Precursor!Lookup(k) /\ HashContents[k] = Precursor!Chain!Lookup(k)

ArrayReply == Response(req.cmd, aret)
HashReply == Response(req.cmd, hret)

\* Up to then they also give the same replies, except to a DEL of a key that
\* is not there and to a SET of a key that is there when the array is full;
\* and so does the precursor with each of its engines.
ArrayFull(r) == r.cmd = "SET" /\ Len(table) = ArraySize
RepliesAgree ==
  [][ (open' /\ req' # NULL /\ ~short') =>
        /\ \/ ArrayReply' = HashReply'
           \/ req'.cmd = "DEL" /\ HashContents[req'.key] = NULL
           \/ ArrayFull(req')
        /\ pup' /\ ~refused' =>
             /\ Response(req'.cmd, cret') = HashReply'
             /\ Response(req'.cmd, sret') = ArrayReply' \/ ArrayFull(req') ]_vars

\* A client cannot tell which engine is behind the operation table (comment
\* on kvs_ops_t).
SameReplies == (req # NULL /\ ~short) => ArrayReply = HashReply

\* Failed allocations included: no key has two slots or two nodes, every
\* node is in the chain its key hashes to, and hash->count is exact.
TablesSound ==
  /\ Array!SlotsDistinct
  /\ Hash!ChainsSound
  /\ Precursor!PrecursorSound
  /\ open => count = Cardinality({k \in Key : Hash!PlaceOf(k) # 0})
=============================================================================
