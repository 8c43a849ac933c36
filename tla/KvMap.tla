------------------------------- MODULE KvMap -------------------------------
(***************************************************************************)
(* What a storage engine promises to the protocol layer: the contract of   *)
(* the operation table kv_engine_ops of include/kvstore.h.  The engine is  *)
(* a map from keys to values.  Its operations answer as the callers in     *)
(* kvs_filter_protocol read them: SET, DEL, MOD and EXIST return -1, 0 or  *)
(* 1, GET returns the value or NULL.  SET and MOD allocate memory; when    *)
(* that fails they return -1 and the map is as before.                     *)
(***************************************************************************)
EXTENDS Integers

CONSTANTS
  Key,     \* the keys clients use
  Value,   \* the values they store
  NULL     \* the null pointer: neither a value nor a number

VARIABLES
  store,   \* the map; NULL where a key has no value
  req,     \* the call in progress, or NULL
  ret,     \* what the last completed call returned
  open     \* FALSE once the engine has been destroyed

mvars == <<store, req, ret, open>>

Command == {"SET", "GET", "DEL", "MOD", "EXIST"}

\* A call: the commands without a value argument carry NULL in its place.
Request ==
  [cmd : {"SET", "MOD"}, key : Key, val : Value]
    \cup [cmd : {"GET", "DEL", "EXIST"}, key : Key, val : {NULL}]

Return == {-1, 0, 1, NULL} \cup Value

\* One type for the whole contract.
TypeOK ==
  /\ store \in [Key -> Value \cup {NULL}]
  /\ req \in Request \cup {NULL}
  /\ ret \in Return
  /\ open \in BOOLEAN

Init ==
  /\ store = [k \in Key |-> NULL]
  /\ req = NULL
  /\ ret = NULL
  /\ open = TRUE

\* The protocol layer calls an operation of the table.
Invoke(r) ==
  /\ open /\ req = NULL
  /\ req' = r
  /\ UNCHANGED <<store, ret, open>>

\* The call returns r and leaves the map as s.
Returns(r, s) ==
  /\ ret' = r
  /\ store' = s
  /\ req' = NULL
  /\ UNCHANGED open

Stored(k) == store[k] # NULL

Set ==
  /\ req # NULL /\ req.cmd = "SET"
  /\ \/ Stored(req.key) /\ Returns(1, store)
     \/ ~Stored(req.key) /\ Returns(0, [store EXCEPT ![req.key] = req.val])
     \/ ~Stored(req.key) /\ Returns(-1, store)

Get ==
  /\ req # NULL /\ req.cmd = "GET"
  /\ Returns(store[req.key], store)

Del ==
  /\ req # NULL /\ req.cmd = "DEL"
  /\ \/ Stored(req.key) /\ Returns(0, [store EXCEPT ![req.key] = NULL])
     \/ ~Stored(req.key) /\ Returns(1, store)

Mod ==
  /\ req # NULL /\ req.cmd = "MOD"
  /\ \/ Stored(req.key) /\ Returns(0, [store EXCEPT ![req.key] = req.val])
     \/ Stored(req.key) /\ Returns(-1, store)
     \/ ~Stored(req.key) /\ Returns(1, store)

Exist ==
  /\ req # NULL /\ req.cmd = "EXIST"
  /\ Returns(IF Stored(req.key) THEN 0 ELSE 1, store)

\* dest_kvengine: the contents are gone and no operation may follow.
Destroy ==
  /\ open /\ req = NULL
  /\ open' = FALSE
  /\ store' = [k \in Key |-> NULL]
  /\ UNCHANGED <<req, ret>>

Next ==
  \/ \E r \in Request : Invoke(r)
  \/ Set \/ Get \/ Del \/ Mod \/ Exist
  \/ Destroy

Spec == Init /\ [][Next]_mvars
=============================================================================
