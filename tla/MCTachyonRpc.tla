---------------------------- MODULE MCTachyonRpc ----------------------------
(* Three calls, two of them of one command, and a queue of one.               *)
EXTENDS TachyonRpc

CONSTANTS join, again, say, joining, saying

Callers == {join, again, say}
TheirCommands == [c \in Callers |-> IF c = say THEN saying ELSE joining]
=============================================================================
