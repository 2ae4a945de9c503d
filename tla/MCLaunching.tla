----------------------------- MODULE MCLaunching -----------------------------
(* Two presses of launch over a reload of the page; or three of them, which   *)
(* are alike, over none.                                                      *)
EXTENDS Launching, TLC

CONSTANTS r1, r2, r3

TwoPresses == {r1, r2}
ThreePresses == {r1, r2, r3}
Alike == Permutations(Run)
=============================================================================
