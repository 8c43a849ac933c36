---------------------------- MODULE KvProtocol ----------------------------
(***************************************************************************)
(* The protocol layer of kvstore.c: how a message becomes a call of the    *)
(* engine's operation table and how the outcome becomes the reply text.    *)
(* A message is the sequence of its tokens, as kvs_split_token leaves it.  *)
(***************************************************************************)
EXTENDS Integers, Sequences

CONSTANTS
  Key,     \* the keys clients use
  Value,   \* the values they store
  NULL     \* the null pointer

\* The command table and the number of tokens each command requires.
Command == {"SET", "GET", "DEL", "MOD", "EXIST"}
Arity(cmd) == IF cmd \in {"SET", "MOD"} THEN 3 ELSE 2

\* The calls kvs_filter_protocol makes.
Request ==
  [cmd : {"SET", "MOD"}, key : Key, val : Value]
    \cup [cmd : {"GET", "DEL", "EXIST"}, key : Key, val : {NULL}]

\* The reply to a call, from what the operation returned.
Response(cmd, ret) ==
  CASE cmd = "SET" -> IF ret < 0 THEN "ERROR" ELSE IF ret = 0 THEN "OK" ELSE "EXIST"
    [] cmd \in {"DEL", "MOD"} -> IF ret < 0 THEN "ERROR" ELSE IF ret = 0 THEN "OK" ELSE "NO EXIST"
    [] cmd = "EXIST" -> IF ret = 0 THEN "EXIST" ELSE "NO EXIST"
    [] cmd = "GET" -> IF ret = NULL THEN "NO EXIST" ELSE ret

\* A separator where a token would be, a line without words for example.
Blank == "BLANK"

\* Stands for the length -1 kvs_protocol returns for a message without tokens.
NoLength == "NO LENGTH"

\* kvs_split_token: strtok skips the separators.
SplitToken(msg) == SelectSeq(msg, LAMBDA token : token # Blank)

\* What an engine that keeps the contract KvMap may do to its map s when it
\* is called: the return values and the maps after it.
EngineCall(s, cmd, k, v) ==
  LET written == [s EXCEPT ![k] = v]
      result(r, t) == [ret |-> r, map |-> t]
  IN CASE cmd = "SET" -> IF s[k] # NULL THEN {result(1, s)}
                         ELSE {result(0, written), result(-1, s)}
       [] cmd = "MOD" -> IF s[k] = NULL THEN {result(1, s)}
                         ELSE {result(0, written), result(-1, s)}
       [] cmd = "DEL" -> {IF s[k] = NULL THEN result(1, s)
                          ELSE result(0, [s EXCEPT ![k] = NULL])}
       [] cmd = "GET" -> {result(s[k], s)}
       [] cmd = "EXIST" -> {result(IF s[k] = NULL THEN 1 ELSE 0, s)}

\* kvs_filter_protocol on the tokens of a message: the possible replies, each
\* with the map it leaves.
FilterProtocol(s, tokens) ==
  LET reply(text) == {[reply |-> text, map |-> s]}
  IN IF tokens = <<>> THEN reply(NoLength)
     ELSE IF tokens[1] \notin Command THEN reply("PROTOCOL ERROR")
     ELSE IF Len(tokens) # Arity(tokens[1]) THEN reply("ERROR")
     ELSE {[reply |-> Response(tokens[1], done.ret), map |-> done.map] :
             done \in EngineCall(s, tokens[1], tokens[2], tokens[Len(tokens)])}

\* kvs_protocol
Protocol(s, msg) == FilterProtocol(s, SplitToken(msg))
===========================================================================
