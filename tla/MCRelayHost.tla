---------------------------- MODULE MCRelayHost ----------------------------
(* Who joins, and what the lobby does with a move, in each configuration.   *)
EXTENDS RelayHost

OnePlayer == {1}
NoPlayer == {}
Silent == {"silent"}
OldLobby == {"rejects", "silent"}
NewLobby == {"moves", "refuses"}
=============================================================================
