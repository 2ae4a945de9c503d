---------------------------- MODULE MCPeerTable ----------------------------
(* Two seats, three addresses and three ports: a full table, a stranger, and *)
(* a spare port while a reclaimed socket is still being let go.              *)
EXTENDS PeerTable, TLC

CONSTANTS p1, p2, p3, q1, q2, q3

MCPeer == {p1, p2, p3}
MCPort == {q1, q2, q3}

Symmetry == Permutations(MCPeer) \cup Permutations(MCPort)
=============================================================================
