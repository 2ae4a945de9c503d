------------------------------- MODULE MCRoom -------------------------------
(* A host, two players and three connections to be them over. *)
EXTENDS Room, TLC

CONSTANTS host, alice, bob, p1, p2, p3, robot, box

ThreeNames == {host, alice, bob}
ThreePeers == {p1, p2, p3}
Alike == Permutations(ThreePeers) \cup Permutations({alice, bob})
=============================================================================
