---------------------------- MODULE MCModelServer ----------------------------
(* A stream that asked for endpointing and an upload; two turns, the second   *)
(* of which says a word twice; two sockets that share a queue of one request. *)
EXTENDS ModelServer

CONSTANTS s1, f1, w1, w2

MCTurns == << <<"a", "b", "c">>, <<"d", "d">> >>
==============================================================================
