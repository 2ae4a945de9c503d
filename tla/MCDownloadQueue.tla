--------------------------- MODULE MCDownloadQueue ---------------------------
(* Two games, one of them with a mirror before pr-downloader, and a map that  *)
(* only pr-downloader has: two lanes that meet over the rapid pool.           *)
EXTENDS DownloadQueue

CONSTANTS bar, zk, atoll, games, maps

GamesAndMap == {bar, zk, atoll}
TwoLanes == {games, maps}
LaneOfEach == [d \in GamesAndMap |-> IF d = atoll THEN maps ELSE games]
SourcesOfEach == [d \in GamesAndMap |->
  IF d = zk THEN <<"http", "sidecar">> ELSE <<"sidecar">>]
TwoIds == 1..2

\* For the safety of a longer queue, over one lane fetched directly.
Games == {bar, zk}
OneLane == {games}
LaneOfGames == [d \in Games |-> games]
SourcesOfGames == [d \in Games |-> <<"http">>]
ThreeIds == 1..3
=============================================================================
