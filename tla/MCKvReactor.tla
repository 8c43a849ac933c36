---------------------------- MODULE MCKvReactor ----------------------------
(***************************************************************************)
(* Small instances of KvReactor: what the clients send.                    *)
(***************************************************************************)
EXTENDS KvReactor, TLC

CONSTANTS k1, v1

\* Requests that read, write and delete one key.
MixedMessages == {<<"SET", k1, v1>>, <<"GET", k1>>, <<"DEL", k1>>}

\* A request, an unknown command and a blank line, for streams.
StreamMessages == {<<"SET", k1, v1>>, <<"PING">>, <<Blank>>}

\* One kind of request.
GetOnly == {<<"GET", k1>>}

ClientSymmetry == Permutations(Client)
=============================================================================
